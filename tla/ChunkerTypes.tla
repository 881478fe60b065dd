---------------------------- MODULE ChunkerTypes ----------------------------
(***************************************************************************)
(* Constants and pure helpers shared by the modules of the background job *)
(* manager (the "chunker": src/src/server/chunker2_*.cc) and of its REST  *)
(* client (src/src/server/multirespcmd.cc, opmode.cc).                    *)
(***************************************************************************)
EXTENDS Integers, Sequences, FiniteSets

CONSTANTS
  Tokens,      \* job ids the client may generate (Rest::generate_token)
  Users,       \* authenticated REST users
  Clients,     \* concurrent REST requests/browser sessions
  ClientUser,  \* [Clients -> Users]: the user each client is logged in as
  ChunkSize,   \* ChunkerManager::_chunk_size (chunker -s), bytes per step
  ReadSize,    \* Rest::CHUNKER_READ_SIZE, the window the client reads
  MaxOut,      \* bound: bytes one job's command writes in total
  WordBits,    \* width of unsigned long in the model (64 in the build)
  Backlog,     \* listen(_listen_sock, 5): pending connections
  AuditCanFail,\* whether audit_setloginuid() may fail in the worker
  DropCanFail, \* whether getgrouplist, setgroups, setgid or setuid may
               \* fail in the worker after audit_setloginuid succeeded
  NoReply,     \* model value: no reply written yet
  Empty        \* model value: a <next> reply without an offset field

ASSUME ClientUser \in [Clients -> Users]
ASSUME ChunkSize \in Nat \ {0} /\ ReadSize \in Nat \ {0}
ASSUME MaxOut \in Nat \ {0} /\ WordBits \in Nat
ASSUME MaxOut < 2^(WordBits - 1)
ASSUME Backlog \in Nat \ {0} /\ AuditCanFail \in BOOLEAN
ASSUME DropCanFail \in BOOLEAN

\* unsigned long arithmetic of the registry (_read_offset, _chunk_size)
ULongMod == 2^WordBits
ULongMax == ULongMod - 1

\* sprintf("%ld", x) of an unsigned long: the two's-complement reading
Signed(x) == IF x >= 2^(WordBits - 1) THEN x - ULongMod ELSE x

\* a spool file that does not exist (lstat fails)
Absent == -1

\* kill_process: "int ct = 3; //attempt three times."
KillAttempts == 3

\* Requests the client writes to the socket (Rest::CHUNKER_*_FORMAT).
\* stmt: whether <statement> is non-empty; from: the client to answer.
Verbs == {"command", "process", "details", "next", "delete"}
Request == [verb : Verbs, tok : Tokens, user : Users, stmt : BOOLEAN,
            from : Clients]

\* A reply as the client parses it: NoReply until the registry writes it;
\* for <next>, Empty ("" or "  ": no 5th %3A field) or the offset printed;
\* for <details>/<process>, the set of tokens listed.

\* ProcessData::_status, K_RUNNING / K_DEAD
Running == "running"
Dead == "dead"
Entry == [user : Users, status : {Running, Dead}, offset : 0 .. ULongMax]

\* The worker of a job (ChunkerProcessor::start_new):
\*  reader: the detached child (pid = process group id, see pid_output)
\*    "none"  not forked;  "child" forked, before pipe()/fork();
\*    "read"  in reader();  "end" wrote the _end marker, before exit;
\*    "gone"  exited or killed.
\*  writer: the grandchild that becomes /opt/vyatta/bin/opc
\*    "none"; "fork" before the privilege drop; "pid" pid file written,
\*    before execve; "run" opc running; "done" exited; "killed";
\*    "rogue" start_new returned false in it: it runs the registry loop,
\*    still holding the pipe's write end.
ReaderStates == {"none", "child", "read", "end", "gone"}
WriterStates == {"none", "fork", "pid", "run", "done", "killed", "rogue"}

ReaderAliveIn(r) == r \in {"child", "read", "end"}
\* A live writer holds the pipe's write end (dup2'd onto its stdout and
\* stderr), so the reader's read() cannot return 0 before it is gone
WriterAliveIn(w) == w \in {"fork", "pid", "run", "rogue"}

\* The reader and the writer before execve inherit the registry's
\* signal(SIGTERM, sig_end) handler, installed with SA_RESTART semantics:
\* SIGTERM only sets their copy of g_shutdown. Only opc, after execve,
\* has the default action and dies. (A rogue writer wrote no pid file,
\* so kill_process never signals its group.)
AfterTerm(w) == IF w = "run" THEN "killed" ELSE w
AfterKillW(w) == IF WriterAliveIn(w) THEN "killed" ELSE w
AfterKillR(r) == IF ReaderAliveIn(r) THEN "gone" ELSE r

Min2(a, b) == IF a < b THEN a ELSE b
=============================================================================
