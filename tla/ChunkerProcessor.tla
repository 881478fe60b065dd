-------------------------- MODULE ChunkerProcessor --------------------------
(***************************************************************************)
(* The worker of one job: ChunkerProcessor::start_new and what it runs    *)
(* after the registry's fork() returned (src/src/server/                  *)
(* chunker2_processor.cc). The detached child becomes the reader; its     *)
(* child (the writer) drops privileges, records the process group in the  *)
(* pid file and execs opc, whose output reaches the reader through a      *)
(* pipe. The reader appends it to the spool file and, on EOF, writes the  *)
(* _end marker. Bytes are counted, not represented.                       *)
(***************************************************************************)
EXTENDS ChunkerTypes

VARIABLES
  rd,       \* [Tokens -> ReaderStates]
  wr,       \* [Tokens -> WriterStates]
  pipe,     \* [Tokens -> Nat]: bytes written by opc, not yet read
  produced, \* [Tokens -> Nat]: bytes opc wrote in total
  spool,    \* [Tokens -> Absent \cup Nat]: size of multi_<token>
  endMark,  \* [Tokens -> BOOLEAN]: multi_<token>_end exists
  pidFile   \* [Tokens -> BOOLEAN]: <pid dir>/<token> exists

SpoolSize(t) == IF spool[t] = Absent THEN 0 ELSE spool[t]

\* The detached child: umask, setsid, pipe(), getpwnam() and fork(). The
\* users of the model are accounts that passed AuthBasic/AuthSession,
\* which already required getpwnam() to succeed.
ChildSetup(t) ==
  /\ rd[t] = "child"
  /\ rd' = [rd EXCEPT ![t] = "read"]
  /\ wr' = [wr EXCEPT ![t] = "fork"]
  /\ UNCHANGED <<pipe, produced, spool, endMark, pidFile>>

\* The writer: audit_setloginuid (exit(1) on failure), getgrouplist,
\* setgroups, setgid, setuid, then writer() records getpgrp() in the pid
\* file before anything else.
WriterPrivDrop(t) ==
  /\ wr[t] = "fork"
  /\ \/ /\ wr' = [wr EXCEPT ![t] = "pid"]
        /\ pidFile' = [pidFile EXCEPT ![t] = TRUE]
     \/ /\ AuditCanFail
        /\ wr' = [wr EXCEPT ![t] = "done"]
        /\ UNCHANGED pidFile
  /\ UNCHANGED <<rd, pipe, produced, spool, endMark>>

\* getgrouplist (room for 10 groups), setgroups, setgid or setuid fails
\* after audit_setloginuid succeeded: "return false" in the grandchild.
\* It leaves start_new as if it were the registry that called it, keeping
\* both ends of the pipe and writing no pid file. What it becomes (a
\* second registry loop) is composed in Chunker (RogueStart), hence this
\* step is not part of Next below.
WriterRogue(t) ==
  /\ wr[t] = "fork"
  /\ DropCanFail
  /\ wr' = [wr EXCEPT ![t] = "rogue"]
  /\ UNCHANGED <<rd, pipe, produced, spool, endMark, pidFile>>

\* writer(): redirect stdout/stderr to the pipe, build OPC_ARGS, execve;
\* if execve returns the writer falls through to exit(0).
WriterExec(t) ==
  /\ wr[t] = "pid"
  /\ \E ok \in BOOLEAN : wr' = [wr EXCEPT ![t] = IF ok THEN "run" ELSE "done"]
  /\ UNCHANGED <<rd, pipe, produced, spool, endMark, pidFile>>

\* opc writes some output to the pipe
WriterOutput(t) ==
  /\ wr[t] = "run"
  /\ produced[t] < MaxOut
  /\ \E k \in 1 .. (MaxOut - produced[t]) :
       /\ pipe' = [pipe EXCEPT ![t] = @ + k]
       /\ produced' = [produced EXCEPT ![t] = @ + k]
  /\ UNCHANGED <<rd, wr, spool, endMark, pidFile>>

\* opc exits, closing the write end of the pipe
WriterExit(t) ==
  /\ wr[t] = "run"
  /\ wr' = [wr EXCEPT ![t] = "done"]
  /\ UNCHANGED <<rd, pipe, produced, spool, endMark, pidFile>>

\* reader(): read(cp[0], buf, _chunk_size) returns what the pipe holds, at
\* most _chunk_size bytes; process_chunk appends it (fopen "a").
ReaderRead(t) ==
  /\ rd[t] = "read"
  /\ pipe[t] > 0
  /\ \E n \in 1 .. Min2(pipe[t], ChunkSize) :
       /\ pipe' = [pipe EXCEPT ![t] = @ - n]
       /\ spool' = [spool EXCEPT ![t] = SpoolSize(t) + n]
  /\ UNCHANGED <<rd, wr, produced, endMark, pidFile>>

\* mutant: process_chunk_end that never writes the _end marker
ReaderEofNoMarker(t) ==
  /\ rd[t] = "read"
  /\ pipe[t] = 0
  /\ ~WriterAliveIn(wr[t])
  /\ spool' = [spool EXCEPT ![t] = SpoolSize(t)]
  /\ rd' = [rd EXCEPT ![t] = "end"]
  /\ UNCHANGED <<wr, pipe, produced, endMark, pidFile>>

\* mutant: a read() that finds the pipe momentarily empty taken as EOF
ReaderEofEarly(t) ==
  /\ rd[t] = "read"
  /\ pipe[t] = 0
  /\ spool' = [spool EXCEPT ![t] = SpoolSize(t)]
  /\ endMark' = [endMark EXCEPT ![t] = TRUE]
  /\ rd' = [rd EXCEPT ![t] = "end"]
  /\ UNCHANGED <<wr, pipe, produced, pidFile>>

\* read() returns 0 once the writer is gone and the pipe is drained:
\* process_chunk_end appends the (empty) remainder and writes the marker.
ReaderEof(t) ==
  /\ rd[t] = "read"
  /\ pipe[t] = 0
  /\ ~WriterAliveIn(wr[t])
  /\ spool' = [spool EXCEPT ![t] = SpoolSize(t)]
  /\ endMark' = [endMark EXCEPT ![t] = TRUE]
  /\ rd' = [rd EXCEPT ![t] = "end"]
  /\ UNCHANGED <<wr, pipe, produced, pidFile>>

\* wait(NULL); exit(0)
ReaderExit(t) ==
  /\ rd[t] = "end"
  /\ rd' = [rd EXCEPT ![t] = "gone"]
  /\ UNCHANGED <<wr, pipe, produced, spool, endMark, pidFile>>

Next ==
  \E t \in Tokens :
    \/ ChildSetup(t) \/ WriterPrivDrop(t) \/ WriterExec(t)
    \/ WriterOutput(t) \/ WriterExit(t)
    \/ ReaderRead(t) \/ ReaderEof(t) \/ ReaderExit(t)
=============================================================================
