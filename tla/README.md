# TLA+ models of vyatta-rest

This directory holds TLA+ models of the vyatta-rest REST server, found in
`src/src/server`, together with the TLC configurations that check them.
Five parts are modelled because that is where processes, sockets and
shared files interact, and one pure algorithm because its output is what
a browser parses:

- the background-job subsystem, called the *chunker*;
- the session-cookie file that every FastCGI process rewrites
  (`AuthSession` and its `Lock`);
- configuration-mode sessions, which the FastCGI processes create, look up
  and delete through `/tmp/.vyattamodify_<id>` files;
- the credentials of a FastCGI process across the requests it serves:
  the switch to the authenticated user and the restore in `main()`;
- the dispatch to the app and service modes, whose scripts get the
  request body through the one file `/tmp/json_input` that every process
  shares;
- the JSON `message` that configuration mode builds from command and
  configd output with `Rest::mass_replace` and `JSON::serialize`.

The other components are listed below with the reason they are not
modelled, or the plan for them.

## 1. Inventory of the system

| Component | Sources | State | Operations | Interacts with |
|---|---|---|---|---|
| Chunker registry | `chunker2_manager.cc/.hh`, `chunker2_main.cc` | `_proc_coll` holds each job as token → {user, status, read_offset}; the listen socket | `read()`, then `process()` for `<command>`, `<process>`, `<details>`, `<next>` and `<delete>`; `kill_process`; `init`; `kill_all`; `shutdown` | workers through the spool and pid files; clients through the UNIX socket |
| Chunker worker | `chunker2_processor.cc` | the reader process, the writer process, the pipe, the spool file `multi_<tok>`, the marker `multi_<tok>_end`, the pid file `/tmp/<tok>` | `start_new` forks twice and drops privileges; `writer` writes the pid file and execs opc; `reader` appends to the spool file; `process_chunk_end` writes the end marker | the registry's fork and signals; opc |
| Chunker client | `multirespcmd.cc` | one socket connection per call | `start`, `get_processes`, `get_process_details`, `get_chunk` (reads the spool file, handles END and unlinks), `kill` | the registry; the spool files |
| OpMode handler | `opmode.cc` | none of its own | POST starts a job. GET with no id lists jobs. GET of an id is details, then next and fetch, giving 200, 202 or 410. DELETE cancels. | the client library; the browser |
| AuthSession / Lock | `authsession.cc` | the session file, its `_tmp` copy and its `.lck` lock | `Lock` retries an `O_EXCL` create and rewrites the session file; `authorized()` checks expiry, refreshes and sets the euid | all FastCGI processes share the file |
| AuthBasic | `authbasic.cc`, `authenticate.cc` | none | PAM conversation, `getgrouplist` into 10 slots, `seteuid` | main loop |
| FastCGI main loop | `main.cc` | the process credentials | accept a request, authenticate, dispatch, restore uid and gid | every mode |
| Configuration mode | `confmode.cc`, `configuration.cc`, `common.cc` (modify file) | config session dirs and `.vyattamodify_<id>` | create, commit, delete and look up sessions | shell scripts |
| App and Service modes, `mode.cc`, dispatch | `appmode.cc`, `servicemode.cc`, `mode.cc`, `process.cc` | `/tmp/json_input`, shared by every process | `Process::dispatch` routes by URI and access level; AppMode and ServiceMode write the body to the file, run the script with stdin from it (`Mode::system_out`) and unlink it; `service_index` lists the service templates | main loop; the scripts |
| Permissions | `permissions.cc` | none | reads configd's and opd's permission maps and formats them | main loop |
| HTTP/JSON | `http.cc`, `http.hh` | none | parse and format; `JSON::serialize` writes values between quotes without escaping them; `Error` builds the error body | main loop; every mode |

The chunker's parts work together as follows.

- The registry is one process that runs a single loop. Every 200 ms it
  accepts one connection from the `listen(5)` backlog, reads one request,
  handles it to the end and closes the connection. The job table
  therefore has a single writer.
- The worker of a job is two detached processes:
  - the *reader*, which is the session leader;
  - the *writer*, which drops privileges, writes the process group into
    the pid file and execs `opc`.
- The client reads the spool file directly, at the offset the registry
  returned.
- The only synchronisation between these parts is the following:
  - the size of the spool file, which the registry reads with `lstat`;
  - whether the `_end` marker exists;
  - whether the pid file exists;
  - whether `/proc/<pgid>/stat` exists.

The behaviours that make this hard are these:

- the reader appends to the spool file while the registry runs `lstat`
  and the client runs `fread`;
- every call from a client is its own connection, so between a
  `<details>` and the `<next>` that follows it, other requests are
  handled;
- cancel sends SIGTERM three times with `sleep(1)` between them, then
  sends SIGKILL. The reader, and the writer before `execve`, inherit the
  `sig_end` handler installed with `signal()`, so SIGTERM does not end
  them;
- the offset is `unsigned long`, and `-1` is used as a sentinel;
- there are failure paths before the pid file exists, namely a failing
  `audit_setloginuid` or a failing `execve`;
- a failing `getgrouplist`, `setgroups`, `setgid` or `setuid` makes the
  forked writer `return false` from `start_new` instead of exiting. It is
  then back in the registry's own loop: a second, "rogue" registry,
  still root, that accepts from the same socket with a table copied
  before its own job was inserted, and that holds the job's pipe open.

## 2. Modules

| Module | Models | State ↔ code |
|---|---|---|
| `ChunkerTypes` | the constants and records shared by the modules | `Entry` corresponds to `ProcessData`. `ULongMod`/`Signed` model the `unsigned long` offset printed with `%ld`. `AfterTerm` models the inherited `sig_end` handler. |
| `ChunkerProcessor` | `start_new`, `writer`, `reader`, `process_chunk(_end)` | `rd` and `wr` are the process states of the reader and writer. `pipe` counts unread bytes. `spool` is the spool file's size, or `Absent`. `endMark` and `pidFile` record whether those files exist. `WriterRogue` is the privilege-drop failure; the writer state `rogue` counts as alive and holding the pipe. |
| `ChunkerManager` | `ChunkerManager::read/process/kill_process` | `table` is `_proc_coll`. `mgr` is the position in the handler. `backlog` is the queue of pending connections. `resp` is the reply written to each client. |
| `OpModeClient` | `OpMode::process` (op) together with `MultiResponseCommand` | `cl` is where each browser request stands. `got` counts how many times each byte has been served. `ended` holds the tokens whose END a client received. |
| `Chunker` | composes the three modules through `INSTANCE` | `Spec` and `FairSpec`, and every property. `Rogue` is a second `INSTANCE ChunkerManager WITH table <- rtable, mgr <- rmgr`: the rogue registry's handlers are the registry's own, on its own table, sharing the backlog, the replies and the files. `RogueStart` is the writer's failed privilege drop together with the rogue's fresh (empty) table; `RogueNext` is its loop while a rogue exists. One rogue slot is enough because every run has one token (an `ASSUME`). |
| `MCChunker` | model values and definitions for TLC | |
| `SessionStore` | what the session file promises: a session leaves it only after it expired | `live` is the set of sessions in the file and `expired` the sessions past their timeout |
| `AuthSession` | `Lock::Lock`, `Lock::~Lock` and the copy loop of `AuthSession::authorized` | `path` maps the names `session` and `session_tmp` to inodes, and `data` gives the lines of each inode. `lck` records whether `session.lck` exists. `ps` holds each process's request: the lock retry count, the two `FILE*`s (as inodes), the read position, and the lines buffered by `fputs`. `expired` and `gone` are the sessions whose timeout passed and whose account vanished. `Crash` kills a process in the middle of a request; `FaultSpec` adds it to `Next`, with weak fairness of each process's steps. |
| `MCAuthSession` | model values and definitions for TLC | |
| `ConfSession` | `ConfMode::process` on configuration sessions, `discard_session`, and the modify-file helpers of `common.cc` | `mod` is the modify file of each id: absent, empty, or a `<user>/<description>` line. `cfgd` is configd's session for each id: none, clean or changed. `ps` holds each process's request: the method, the id or description it named, and the user the lookup found. `issued`, `creator` and `disclosed` are history: the ids `generate_token` returned, who created each, and which ids a 201 carried. |
| `MCConfSession` | model values, definitions and symmetry for TLC | |
| `FcgiProcess` | `main()`'s request loop, `Authenticate::validate`, `AuthBasic::authorized` and the credential tail of `AuthSession::authorized`. It EXTENDS `AuthSession`, whose steps a cookie request runs. | `cred` holds each process's euid, egid, supplementary groups and audit login uid. `rq` is the request `main()` is serving: how it authenticated, as whom, whether it was a service user, and whether authentication passed. `Syscall` gives the Linux rules of `setgroups`, `setegid`, `seteuid`, `setuid` and `setgid` for a process whose real and saved ids are 0. `RunSteps` runs calls in order up to the first failing one. `Restore` runs all three calls of `done:` whatever they return. `rq` also holds the URI kind, the body, the inode a handler has open and what its script read; `jpath` and `jdata` are the name `/tmp/json_input` and the inodes' contents; `debug` is `main()`'s `-d`. `Dispatch` is `Process::dispatch`; `OpenInput`, `WriteInput`, `RunScript` and `UnlinkInput` are the steps AppMode and ServiceMode take on the file; `ServiceIndex` is `service_index`'s loop. |
| `MCFcgiProcess` | model values and definitions for TLC | |
| `JsonMessage` | `Rest::mass_replace`, the hand escaping of the three configuration-mode paths that put command or configd output into a `message` (failed PUT, commit/save, show), `JSON::add_value`/`serialize` and `Error` | Texts are sequences of one-letter strings. `MassReplace` is the code's `find`/`replace` loop as a `RECURSIVE` operator, 0-based like `std::string`. `Literal` is the reference: RFC 8259's reading of a string literal. The state is the text a handler means to send (`msg`) and what its body holds after `{"message":"` (`body`); each path is an action over every output of up to `MaxLen` characters. |
| `MCJsonMessage` | the character set for TLC | |

Each action models a whole handler. Where the code lets other processes run
in the middle of a handler, the handler is split into two actions:

- `<next>` is split into `NextStat`, which covers the owner check, the dead
  reset, the reply offset and the `lstat` of the spool file, and
  `NextEnd`, which covers the `lstat` of the marker;
- `kill_process` is split into `Delete`, which reads and unlinks the pid
  file and sends the first SIGTERM, and `KillCheck`, which runs after each
  `sleep(1)`.

Data is abstracted to byte counts. A byte is identified by its position in
the spool file.

In `AuthSession` a line of the session file is its session key. Lines are
taken to be of equal length, so a buffered `fclose` that writes at offset
0 replaces a prefix of the lines (`Overwrite`). The actions follow the
destructor's order: `Close` flushes the tmp file, then `Rename` and
`Unlock`. An open `FILE*` keeps its inode across a rename.

In `ConfSession` a request is split where another process can act in
between. The lookup of the modify file, the ownership comparison and the
call to configd are separate steps. So are the uniqueness check of the
description, the token and configd setup, the `fopen("w")` that creates
the file empty, and the `fclose` that writes its line. Every environment
failure the code handles is a disjunct:

- `generate_token` giving up;
- `setup_session`, whose failure is only logged;
- `fopen` or `fputs` of the modify file;
- a failed connection to configd;
- a command that fails.

`FcgiProcess` takes a whole Basic authentication as one step, because the
process serves one request at a time and nothing else touches its
credentials. A cookie authentication runs `AuthSession`'s steps. Its
credential calls happen at the end of the copy loop (`CookieCopyEnd`),
before the `Lock` destructor's steps. A lookup, PAM or
`audit_setloginuid` may fail at any point, and each failure is a
nondeterministic choice.

The mode handlers split at the points where another process can touch
`/tmp/json_input`: the `fopen("w")` that truncates or creates it, the
`fwrite` and `fclose` that put the body at offset 0 of the inode this
process opened, the script's redirect that opens whatever the name holds
then, and the `unlink` (or, with `-d`, the append of the `XE:` line).
The script's open and read are one step. The URI is abstracted to its
kind: `/rest/app/<cmd>`, `GET /rest/service`, a service command with or
without a template, and the other modes, which do not use the file.
`fopen` and `fwrite` may fail (the file may belong to another user).

## 3. Runs

All runs use one job token. The cancel paths and the liveness check need
two clients that are different users, except where stated. The bounds are:

- `ChunkSize = ReadSize = 2`;
- `MaxOut = 3`, so the output is longer than one chunk and spans two
  `<next>` steps;
- `WordBits = 3`, so the unsigned wrap happens at 8;
- `Backlog = 3`, matching the roles of `listen(5)`.

These bounds are enough to reach a full chunk followed by a partial one, a
write that lands between two `lstat`s, and a wrap of the sentinel.

| Run | cfg | Expect | What it shows |
|---|---|---|---|
| `chunker_safety` | `MCChunker.cfg` | pass (884k states) | Audit and privilege-drop failures are both enabled, so the rogue registry runs too. `OffsetWithinSpool`: a running job's offset never passes the spool file's size, even though the file grows concurrently. `DeadOnlyWhenDrained`: a job the registry marks Dead (from the `_end` marker) has no live writer and an empty pipe, so the client's final chunk is the whole output. `CancelLeavesNoSurvivor`: when `kill_process` finishes, neither the reader nor the writer is alive. |
| `chunker_poll_live` | `MCChunkerLive.cfg` | pass | `PollEventuallyFinishes`, with one browser and no audit failure |
| `chunker_rogue` | `MCChunkerRogue.cfg` | violation | `FinishedOnlyWhenUnknown`: a GET that gets 410 ("finished") is about a job the registry does not hold for that user. The writer's `setgroups` fails, the rogue registry takes the browser's `<details>`, finds nothing in its empty copy of the table, and the browser is told the job finished while the real registry holds it as running. Without the rogue (two browsers, `DropCanFail = FALSE`) the property holds over 880k states. |
| `chunker_delivery` | `MCChunkerDelivery.cfg` | violation | `ServedExactlyOnce`: a byte is served twice, because the cursor is clamped but the read window is fixed. Its other half, `NoLostOutput`, fails in the same configuration too: output appended between the two `lstat`s of one `<next>` is never served. TLC reports the shorter duplicate trace. |
| `chunker_dead_offset` | `MCChunkerDeadOff.cfg` | violation | The `-1` of a dead job wraps instead of staying `-1` (spec §2 and §7). |
| `chunker_cancel_erase` | `MCChunkerCancel.cfg` | violation | A DELETE that arrives before the pid file exists does not erase the entry (spec §4.1). |
| `auth_refine` | `MCAuthRefine.cfg` on `MCFcgiProcess` | pass | One FastCGI process serves Basic and cookie requests one after the other. `SessionStoreSpec`: `AuthSession` refines `SessionStore` under `live <- Live`, where `Live` is the set of lines of the inode named `session`, so rewriting the file through `session_tmp` and `rename` loses no session that has not expired. `ServedAsUser`: an ordinary user's request runs with that user's euid, login uid and groups, and with an egid among the user's own. `ServiceAsRoot`: a service user's request runs as root with gid 0, whatever the previous request left. `ScriptReadsOwnBody`: with one process, debug on or off, an app or service script reads exactly its own request's body: the truncating `fopen` removes what a debug server appended and what an earlier request left. (1.3M states) |
| `json_input_shared` | `MCJsonInput.cfg` on `MCFcgiProcess` | violation | `ScriptReadsOwnBody` with two processes: the second request's `fopen("w")` truncates `/tmp/json_input` after the first request wrote its body and before its script opened it, so that script reads nothing. The code's comment at `appmode.cc:75` already says the input cannot be shared. |
| `auth_contend` | `MCAuthContend.cfg` | pass (120k states with the view) | Two processes and one session, and either process may be killed (`Crash`) in the middle of a request, leaving `session.lck` behind. `AuthorizedReturns`: under weak fairness of each process, every `authorized()` call returns, because `Lock::Lock` gives up after `RetryCount` tries and its destructor unlinks the lock file whoever made it. `TypeOK`: the retry counter stays within `RetryCount` and no request buffers more lines than the file had. |
| `auth_lost_race` | `MCAuthLostRace.cfg` | violation | `NoValidSessionLost`: a request that gives up on `session.lck` after five tries still opens `session_tmp` with `"w"`. Its destructor renames that tmp over the session file and unlinks the holder's lock. All users are logged out. |
| `json_message` | `MCJsonMessage.cfg` | violation | `MessageDecodesToText`: a failed command whose output is one backslash gives the body `{"message":": \"}`. The backslash escapes the closing quote and the body no longer parses. The PUT-error and commit/save paths escape quotes and LF but not the backslash. The show path escapes backslash, quote, CR, LF and TAB, yet none of the three escapes ESC or any other character below 0x20. |
| `conf_owner` | `MCConfOwner.cfg` | pass (520k states) | `OnlyOwnerActs`: a request reaches configd or the shell only for a session its own user created. `ListsOnlyOwn`: a listing shows only the caller's sessions, even while another create has its modify file empty. Two processes and two users are modelled, with every interleaving of list, create, lookup by id or by description, change, commit, discard and delete, and every failure. |

Each property of a passing run has a mutant in `PROJECT.json` that TLC must
find violated:

- a send that ignores the listen backlog;
- an advance test that compares against the old offset;
- a kill path with no `kill -9`;
- a reader that never writes `_end`;
- a `Lock` destructor that never flushes the tmp file;
- a retry loop bound that is off by one;
- a lock that is waited for with no retry bound;
- a configuration request that skips the ownership comparison;
- a listing that starts `conf_user` from the caller's name;
- a cookie login that does not set the groups;
- a `main()` that forgets `setuid(g_uid)`;
- an input file opened without `O_TRUNC`.

**AuthSession bounds.** The bounds are:

- `RetryCount = 5`, as in the code;
- five inodes, enough for the file, the tmp file and every `FILE*` of two
  processes;
- three sessions with one process;
- two sessions with two processes;
- one session, whose account may vanish, for the liveness run with two
  processes and crashes. The liveness argument does not depend on the
  number of lines.

The view `StateView` ignores what freed inodes hold, because `Open`
truncates an inode before it is reused.

**FcgiProcess bounds.** The bounds are:

- one process, because credentials belong to a process;
- two users, one of them in `vyattacfg`, with different groups;
- three sessions, one of them a service user's;
- one body and three inodes for `/tmp/json_input` (the name and one open
  writer per process), two processes in `json_input_shared`;
- one service template for the index.

These bounds are enough to serve any request after any other, and for
two handlers to interleave on the input file.

**JsonMessage bounds.** Outputs of one or two characters over a plain
letter, the quote, the backslash, LF and ESC. Every defect of an escape
sequence shows in one or two characters, because each replacement acts on
one character and its neighbour.

**ConfSession bounds.** The bounds are:

- two processes and two users;
- two ids, enough for one session per user or two for one user;
- one description besides the empty one.

Users, processes and ids are symmetry sets. No definition picks one of
them by `CHOOSE`, and a new id is taken from the ids not yet issued.

**Fairness.** The fairness assumptions are these:

- The registry loop runs every 200 ms for as long as the process lives,
  which justifies weak fairness for the manager.
- The reader and the writer are separate OS processes, which justifies
  weak fairness for each of them. A rogue registry is a process running
  the registry loop, so it has weak fairness like the registry.
- The browser keeps re-polling a job it is following, as the web UI does
  after a 200 or a 202. Its `connect()` waits until a backlog slot is
  free. Because the slot frees and fills again as other clients come and
  go, the steps of the browser that need a slot have strong fairness.
- Starting, listing and cancelling carry no fairness.
- `AuthSession`'s `FaultSpec` has weak fairness for each process's
  request steps: a FastCGI process is an OS process the kernel keeps
  scheduling, and `usleep` returns. `Begin` has none, because requests
  need not come. `Crash` has none either: a process may be killed, but
  nothing makes it happen.
- `FcgiProcess` and `ConfSession` assume no fairness, because every
  property they check is a safety property or a refinement.

## 4. Not modelled yet, and the plan

The following are not modelled yet and are planned, in this order:

1. Two pollers of the same owner sharing one cursor, and `ChunkSize >
   ReadSize`, which `-s` allows.
2. Registry `init`/`shutdown`/restart, and spool files left behind after
   a cancel.
3. An abstract specification of a job's output stream, with `Chunker`
   refining it for the configurations in which it holds.
4. `generate_token` as a pure operator. A byte 0xFF compares equal to
   `EOF` through the signed `char`, so it is never part of a token.

Other parts are not modelled, for these reasons:

- A few failure paths have no action: `pipe()` failing in the detached
  child (it exits before any state the registry sees), `pid_output`'s
  `fopen` failing (a `<delete>` then takes the early return for a
  missing pid file that `Delete` already models, though the writer runs on), `fputs` failing in the session copy
  loop, and `parse()` or `cmds.validate` failing in `main` (the request
  is answered with an error before any shared file is touched).
- `configuration.cc` reads the template tree and configd's view of a
  node. These are pure reads of files outside this repository.
- The HTTP/JSON formatting, the shell-out wrappers (`execute`,
  `translate_rest_to_cli`), `Mode::handle_cmd_output`'s header parsing
  and the permission mode hold no shared state.
- `service_index` loops for ever when `get_template_node` fails for a
  listed service (`continue` skips `++i`). `ServiceIndex` keeps that
  step, but no run checks liveness of `FcgiProcess`.
- `getpwnam` failing in the detached child of `start_new` (line 80)
  takes the same `return false` as the privilege drop, one fork earlier.
  The model's users are accounts that already passed authentication, for
  which `getpwnam` succeeded. SIGTERM to a rogue registry would run
  `shutdown()`, but no pid file names its group, so nothing signals it.
- The early return of `authorized()` in the middle of the copy loop
  (`authsession.cc:270`) has no run of its own. With one process and the
  first session's account in `Deletable`, `NoValidSessionLost` fails
  there in the same way as in `auth_lost_race`.
- JSON arrays and nested objects, `HTTP::serialize` and the request
  parser are formatting that no property tells apart; only the `message`
  value is modelled.
- The audit failure (line 90) has no run of its own. It ends in the
  missing erase at line 358 that `chunker_cancel_erase` shows, and
  `chunker_safety` takes the failure branch.
- `<delete>` in the chunker registry has no owner check (spec §7). This
  is a single missing comparison that one request reaches, so it is
  recorded as a hazard rather than given a run.
