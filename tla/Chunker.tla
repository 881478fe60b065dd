------------------------------- MODULE Chunker -------------------------------
(***************************************************************************)
(* Background jobs end to end: REST clients (OpModeClient), the registry  *)
(* (ChunkerManager) and one worker per job (ChunkerProcessor), sharing    *)
(* the socket backlog, the replies and the files under the spool and pid *)
(* directories. A worker whose privilege drop fails becomes a second      *)
(* registry (the rogue) on the same listen socket, with its own copy of  *)
(* the job table: a second instance of ChunkerManager.                   *)
(***************************************************************************)
EXTENDS ChunkerTypes

VARIABLES table, mgr, backlog, resp, rd, wr, pipe, produced, spool,
          endMark, pidFile, cl, used, got, ended,
          rtable, \* the rogue registry's _proc_coll
          rmgr    \* the rogue registry's dispatch loop

vars == <<table, mgr, backlog, resp, rd, wr, pipe, produced, spool,
          endMark, pidFile, cl, used, got, ended, rtable, rmgr>>

\* The rogue state is one slot: with a single token at most one worker,
\* hence at most one rogue registry, exists.
ASSUME DropCanFail => Cardinality(Tokens) = 1

Mgr == INSTANCE ChunkerManager
Rogue == INSTANCE ChunkerManager WITH table <- rtable, mgr <- rmgr
Proc == INSTANCE ChunkerProcessor
Client == INSTANCE OpModeClient

mgrVars == <<table, mgr>>
procVars == <<pipe, produced>>
clientVars == <<cl, used, got, ended>>
rogueVars == <<rtable, rmgr>>

\* The registry starts with an empty table and a cleaned spool directory
\* (init(): rm -f <spool dir>/*); no job exists yet.
Init ==
  /\ table = <<>>
  /\ mgr = Mgr!Idle
  /\ backlog = <<>>
  /\ resp = [c \in Clients |-> NoReply]
  /\ rd = [t \in Tokens |-> "none"]
  /\ wr = [t \in Tokens |-> "none"]
  /\ pipe = [t \in Tokens |-> 0]
  /\ produced = [t \in Tokens |-> 0]
  /\ spool = [t \in Tokens |-> Absent]
  /\ endMark = [t \in Tokens |-> FALSE]
  /\ pidFile = [t \in Tokens |-> FALSE]
  /\ cl = [c \in Clients |-> Client!ClientIdle]
  /\ used = {}
  /\ got = [t \in Tokens |-> [p \in 0 .. MaxOut - 1 |-> 0]]
  /\ ended = {}
  /\ rtable = <<>>
  /\ rmgr = Mgr!Idle

\* A rogue registry runs once a writer returned false from start_new.
RogueUp == \E t \in Tokens : wr[t] = "rogue"

\* The grandchild is back in ChunkerManager::process, where start_new
\* returning false means "return": read() closes the connection it
\* inherited and main() loops on read() as a registry of its own. Its
\* _proc_coll is the copy taken at the registry's fork, before the insert
\* of its own token; tokens are fresh, so with the single token it is
\* empty.
RogueStart(t) ==
  /\ Proc!WriterRogue(t)
  /\ rtable' = <<>>
  /\ rmgr' = Mgr!Idle
  /\ UNCHANGED <<table, mgr, backlog, resp, clientVars>>

\* The rogue's loop: the registry's own handlers on its own table, taking
\* connections from the same backlog and writing to the same files.
RogueNext ==
  /\ RogueUp
  /\ Rogue!Next
  /\ UNCHANGED <<table, mgr, procVars, clientVars>>

Next ==
  \/ Mgr!Next /\ UNCHANGED <<procVars, clientVars, rogueVars>>
  \/ Proc!Next /\ UNCHANGED <<table, mgr, backlog, resp, clientVars, rogueVars>>
  \/ \E t \in Tokens : RogueStart(t)
  \/ RogueNext
  \/ Client!Next /\ UNCHANGED <<table, mgr, rd, wr, pidFile, procVars,
                                 rogueVars>>

Spec == Init /\ [][Next]_vars

\* The registry loop calls read() every 200 ms and each worker is an OS
\* process of its own, the rogue registry included: weak fairness. A browser that keeps polling is
\* assumed to go on with the job it polls; a connect() blocked on a full
\* backlog is woken whenever a slot frees, hence strong fairness there.
ReaderStep(t) ==
  Proc!ChildSetup(t) \/ Proc!ReaderRead(t) \/ Proc!ReaderEof(t)
  \/ Proc!ReaderExit(t)
WriterStep(t) ==
  Proc!WriterPrivDrop(t) \/ Proc!WriterExec(t) \/ Proc!WriterOutput(t)
  \/ Proc!WriterExit(t)

WorkerOnly == UNCHANGED <<table, mgr, backlog, resp, clientVars, rogueVars>>

Fairness ==
  /\ WF_vars(Mgr!Next /\ UNCHANGED <<procVars, clientVars, rogueVars>>)
  /\ WF_vars(RogueNext)
  /\ \A t \in Tokens :
       /\ WF_vars(ReaderStep(t) /\ WorkerOnly)
       /\ WF_vars((WriterStep(t) /\ WorkerOnly) \/ RogueStart(t))
  /\ \A c \in Clients :
       LET Step(A) == A /\ UNCHANGED <<table, mgr, rd, wr, pidFile, procVars,
                                        rogueVars>>
       IN /\ SF_vars(Step(Client!Repoll(c)))
          /\ SF_vars(Step(Client!DetailsReply(c)))
          /\ WF_vars(Step(Client!NextReply(c)))
          /\ SF_vars(Step(Client!Fetch(c)))
          /\ WF_vars(Step(Client!ListReply(c)))

FairSpec == Spec /\ Fairness

-----------------------------------------------------------------------------
TypeOK ==
  /\ DOMAIN table \subseteq Tokens
  /\ \A t \in DOMAIN table : table[t] \in Entry
  /\ mgr.pc \in {"idle", "dispatch", "next_end", "kill_check"}
  /\ mgr.req \in Request /\ mgr.ct \in 0 .. KillAttempts
  /\ backlog \in Seq(Request) /\ Len(backlog) <= Backlog
  /\ rd \in [Tokens -> ReaderStates] /\ wr \in [Tokens -> WriterStates]
  /\ pipe \in [Tokens -> 0 .. MaxOut] /\ produced \in [Tokens -> 0 .. MaxOut]
  /\ spool \in [Tokens -> {Absent} \cup 0 .. MaxOut]
  /\ endMark \in [Tokens -> BOOLEAN] /\ pidFile \in [Tokens -> BOOLEAN]
  /\ cl \in [Clients -> [pc : {"idle", "poll", "details", "next", "fetch",
                               "list"},
                         tok : Tokens, off : Int]]
  /\ used \subseteq Tokens /\ ended \subseteq Tokens
  /\ got \in [Tokens -> [0 .. MaxOut - 1 -> 0 .. 2]]
  /\ DOMAIN rtable \subseteq Tokens
  /\ \A t \in DOMAIN rtable : rtable[t] \in Entry
  /\ rmgr.pc \in {"idle", "dispatch", "next_end", "kill_check"}

\* The offset the registry keeps for a running job never points past the
\* end of its spool file (<next> advances by _chunk_size only while the
\* file is longer, and clamps to the file size otherwise), although the
\* reader appends to the file concurrently.
OffsetWithinSpool ==
  \A t \in DOMAIN table :
    table[t].status = Running => table[t].offset <= Proc!SpoolSize(t)

\* <next> declares a job finished (status Dead, so the client gets the
\* rest of the file and "end") only when the worker's output is complete:
\* opc has exited and the reader has drained the pipe into the spool
\* file. The registry trusts the _end marker, which the reader writes in
\* process_chunk_end after read() returned 0.
DeadOnlyWhenDrained ==
  \A t \in DOMAIN table :
    table[t].status = Dead => pipe[t] = 0 /\ ~WriterAliveIn(wr[t])

\* kill_process: when the registry is done cancelling a job whose pid file
\* it read, no process of the job's group is left. The reader and the
\* writer before execve ignore SIGTERM (inherited sig_end handler), so
\* this rests on the "kill -9" after three failed checks.
CancelLeavesNoSurvivor ==
  [][ (mgr.pc = "kill_check" /\ mgr'.pc = "idle") =>
        LET t == mgr.req.tok
        IN ~ReaderAliveIn(rd'[t]) /\ ~WriterAliveIn(wr'[t]) ]_vars

\* A browser polling GET /rest/op/<id> eventually gets 410 (the job is
\* finished or unknown) and stops.
PollEventuallyFinishes ==
  \A c \in Clients :
    cl[c].pc \in {"poll", "details", "next", "fetch"} ~> cl[c].pc = "idle"
-----------------------------------------------------------------------------
(* What the spec and the client expect, found violated by the code. *)

\* Every byte of a job's output is served to the browser at most once:
\* the registry hands out each chunk once by moving a shared cursor.
NoDuplicateDelivery ==
  \A t \in Tokens : \A p \in 0 .. MaxOut - 1 : got[t][p] <= 1

\* When a browser gets "END" for a job, every byte the command wrote was
\* served: the _end marker means the spool file is final.
NoLostOutput ==
  \A t \in ended : \A p \in 0 .. produced[t] - 1 : got[t][p] >= 1

\* What a browser gets of a job's output is exactly what the command
\* wrote: no byte twice, and none missing once it got "END".
ServedExactlyOnce == NoDuplicateDelivery /\ NoLostOutput

\* get_process_details answers 410 (OPMODE_PROCESS_FINISHED) when the
\* <details> reply lists nothing. A browser polling a job of its own user
\* is told so only when the registry holds no entry of that user for the
\* job: a job the registry still runs is never reported finished.
FinishedOnlyWhenUnknown ==
  [][ \A c \in Clients :
        LET t == cl[c].tok
        IN (cl[c].pc = "details" /\ cl'[c].pc = "idle")
             => ~(t \in DOMAIN table /\ table[t].user = ClientUser[c]) ]_vars

\* spec 3: once a job is Dead its offset is forced to -1 ("fully
\* drained") for good; a <next> may not move a dead job's offset elsewhere.
DeadOffsetStaysSentinel ==
  [][ \A t \in DOMAIN table \cap DOMAIN table' :
        (table[t].status = Dead /\ table'[t] # table[t])
          => Signed(table'[t].offset) = -1 ]_table

\* spec 4.1: cancel erases the table entry whether or not the kill
\* succeeded; a missing pid file counts as "already gone".
FinishesDelete == mgr.req.verb = "delete" /\ mgr.pc # "idle" /\ mgr'.pc = "idle"
CancelErasesEntry ==
  [][ FinishesDelete => mgr.req.tok \notin DOMAIN table' ]_vars
=============================================================================
