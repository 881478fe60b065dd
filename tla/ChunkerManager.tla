--------------------------- MODULE ChunkerManager ---------------------------
(***************************************************************************)
(* The registry: ChunkerManager::read/process/kill_process                *)
(* (src/src/server/chunker2_manager.cc). One loop accepts one connection  *)
(* per tick from the listen backlog and handles it to the end, so the job *)
(* table has a single writer. Two handlers are split where other          *)
(* processes run in between: <next> stats the spool file and then the     *)
(* _end marker, and kill_process sleeps a second between SIGTERM and the  *)
(* /proc check.                                                           *)
(***************************************************************************)
EXTENDS ChunkerTypes, Functions, TLC

VARIABLES
  table,   \* ChunkerManager::_proc_coll: [T -> Entry], T \subseteq Tokens
  mgr,     \* the dispatch loop: [pc, req, ct, out]
  backlog, \* Seq(Request): accepted in connection order
  resp,    \* [Clients -> reply]: what the registry wrote back
  rd, wr, spool, endMark, pidFile \* see ChunkerProcessor

Idle == [pc |-> "idle", req |-> CHOOSE r \in Request : TRUE, ct |-> 0,
         out |-> NoReply]

ReaderAlive(t) == ReaderAliveIn(rd[t])

\* Leave the handler: close(clientsock) after the reply, if any, is written.
Finish(reply) ==
  /\ mgr' = Idle
  /\ IF reply = NoReply THEN UNCHANGED resp
     ELSE resp' = [resp EXCEPT ![mgr.req.from] = reply]

\* ChunkerManager::read(): accept() the oldest pending connection
Accept ==
  /\ mgr.pc = "idle"
  /\ backlog # <<>>
  /\ backlog' = Tail(backlog)
  /\ mgr' = [Idle EXCEPT !.pc = "dispatch", !.req = Head(backlog)]
  /\ UNCHANGED <<table, resp, rd, wr, spool, endMark, pidFile>>

\* <command>: a ping for a known token without <statement>; otherwise
\* start_new (false for an empty statement) then insert, where an
\* existing key wins. Both ways out without a statement leave everything
\* as it was.
Command ==
  LET r == mgr.req IN
  /\ mgr.pc = "dispatch" /\ r.verb = "command"
  /\ IF ~r.stmt \* ping of a known token, or start_new's empty check
       THEN UNCHANGED <<table, rd>>
     ELSE /\ rd' = [rd EXCEPT ![r.tok] = "child"]
          /\ table' = IF r.tok \in DOMAIN table THEN table
                      ELSE table @@ (r.tok :> [user |-> r.user,
                                               status |-> Running,
                                               offset |-> 0])
  /\ Finish(NoReply)
  /\ UNCHANGED <<backlog, wr, spool, endMark, pidFile>>

\* <process> lists the user's jobs; <details> the user's job with the token
Listed(user) == {t \in DOMAIN table : table[t].user = user}

Query ==
  LET r == mgr.req IN
  /\ mgr.pc = "dispatch" /\ r.verb \in {"process", "details"}
  /\ Finish(IF r.verb = "process" THEN Listed(r.user)
            ELSE Listed(r.user) \cap {r.tok})
  /\ UNCHANGED <<table, backlog, rd, wr, spool, endMark, pidFile>>

\* <next>, first half: owner check, -1 for a dead job, the reply built from
\* the offset before it moves, lstat of the spool file and the advance.
AdvanceOffset(off) == (off + ChunkSize) % ULongMod

\* mutant: "has the file grown past the old offset" instead of "past the
\* advanced one"
SpoolHasMoreGrown(size, adv) == size + ChunkSize > adv

\* if (buf.st_size > read_offset + _chunk_size)
SpoolHasMore(size, adv) == size > adv

NextStat ==
  LET r == mgr.req
      t == r.tok
      off == IF table[t].status = Dead THEN ULongMax ELSE table[t].offset
      adv == AdvanceOffset(off)
  IN
  /\ mgr.pc = "dispatch" /\ r.verb = "next"
  /\ IF t \notin DOMAIN table \/ table[t].user # r.user
       THEN /\ Finish(Empty)
            /\ UNCHANGED table
     ELSE IF spool[t] = Absent
       THEN /\ table' = [table EXCEPT ![t].offset = off]
            /\ Finish(Signed(off))
     ELSE IF SpoolHasMore(spool[t], adv)
       THEN /\ table' = [table EXCEPT ![t].offset = adv]
            /\ Finish(Signed(off))
     ELSE /\ table' = [table EXCEPT ![t].offset = spool[t]]
          /\ mgr' = [mgr EXCEPT !.pc = "next_end", !.out = Signed(off)]
          /\ UNCHANGED resp
  /\ UNCHANGED <<backlog, rd, wr, spool, endMark, pidFile>>

\* <next>, second half: lstat of the _end marker
NextEnd ==
  LET t == mgr.req.tok IN
  /\ mgr.pc = "next_end"
  /\ table' = IF endMark[t] THEN [table EXCEPT ![t].status = Dead] ELSE table
  /\ Finish(mgr.out)
  /\ UNCHANGED <<backlog, rd, wr, spool, endMark, pidFile>>

\* <delete>: kill_process(token). No pid file: return, the entry stays.
\* Otherwise unlink it and send the first "kill -15 -<pgid>".
Delete ==
  LET t == mgr.req.tok IN
  /\ mgr.pc = "dispatch" /\ mgr.req.verb = "delete"
  /\ IF ~pidFile[t]
       THEN /\ Finish(NoReply)
            /\ UNCHANGED <<pidFile, wr>>
     ELSE /\ pidFile' = [pidFile EXCEPT ![t] = FALSE]
          /\ wr' = [wr EXCEPT ![t] = AfterTerm(@)]
          /\ mgr' = [mgr EXCEPT !.pc = "kill_check", !.ct = KillAttempts]
          /\ UNCHANGED resp
  /\ UNCHANGED <<table, backlog, rd, spool, endMark>>

\* mutant: after the last SIGTERM the entry is erased without "kill -9"
KillCheckNoKill9 ==
  LET t == mgr.req.tok IN
  /\ mgr.pc = "kill_check"
  /\ IF ~ReaderAlive(t) \/ mgr.ct <= 1
       THEN /\ table' = Restrict(table, DOMAIN table \ {t})
            /\ Finish(NoReply)
            /\ UNCHANGED <<rd, wr>>
       ELSE /\ wr' = [wr EXCEPT ![t] = AfterTerm(@)]
            /\ mgr' = [mgr EXCEPT !.ct = @ - 1]
            /\ UNCHANGED <<table, resp, rd>>
  /\ UNCHANGED <<backlog, spool, endMark, pidFile>>

\* After sleep(1): stat("/proc/<pgid>/stat"). Gone: erase. Alive: another
\* SIGTERM while attempts remain, else "kill -9 -<pgid>" and erase.
KillCheck ==
  LET t == mgr.req.tok IN
  /\ mgr.pc = "kill_check"
  /\ IF ~ReaderAlive(t)
       THEN /\ table' = Restrict(table, DOMAIN table \ {t})
            /\ Finish(NoReply)
            /\ UNCHANGED <<rd, wr>>
     ELSE IF mgr.ct > 1
       THEN /\ wr' = [wr EXCEPT ![t] = AfterTerm(@)]
            /\ mgr' = [mgr EXCEPT !.ct = @ - 1]
            /\ UNCHANGED <<table, resp, rd>>
     ELSE /\ rd' = [rd EXCEPT ![t] = AfterKillR(@)]
          /\ wr' = [wr EXCEPT ![t] = AfterKillW(@)]
          /\ table' = Restrict(table, DOMAIN table \ {t})
          /\ Finish(NoReply)
  /\ UNCHANGED <<backlog, spool, endMark, pidFile>>

Next == Accept \/ Command \/ Query \/ NextStat \/ NextEnd \/ Delete \/ KillCheck
=============================================================================
