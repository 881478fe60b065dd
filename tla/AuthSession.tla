----------------------------- MODULE AuthSession -----------------------------
(***************************************************************************)
(* Session-cookie authorization: Lock and AuthSession::authorized         *)
(* (src/src/server/authsession.cc), run by every FastCGI process of the   *)
(* server against the one file /var/run/gui/session.                      *)
(*                                                                         *)
(* Lock's constructor tries O_CREAT|O_EXCL on session.lck up to           *)
(* _retry_lock_count times, then opens the session file "r+" and          *)
(* session_tmp "w" whether or not it got the lock. authorized() copies    *)
(* every unexpired line to the tmp file, refreshing its own. The          *)
(* destructor fcloses both files, renames session_tmp over session and    *)
(* unlinks session.lck, again whether or not it got the lock.             *)
(*                                                                         *)
(* The file system is paths naming inodes. An open FILE* keeps its inode  *)
(* across a rename. Lines written with fputs stay in the stdio buffer     *)
(* until fclose writes them at offset 0, because the file is far below   *)
(* BUFSIZ. A line is a session key, and lines are taken to be of equal    *)
(* length.                                                                 *)
(***************************************************************************)
EXTENDS Integers, Sequences, SequencesExt, FiniteSets

CONSTANTS Procs,      \* the FastCGI processes of the server
          Sess,       \* session keys, one line each
          Inodes,     \* inode numbers, enough for every path and FILE*
          RetryCount, \* Lock::_retry_lock_count
          InitFile,   \* Seq(Sess): the session file as the login wrote it
          Deletable,  \* sessions whose account may vanish (getpwnam fails)
          None

ASSUME RetryCount \in Nat \ {0} /\ None \notin Inodes
ASSUME InitFile \in Seq(Sess) /\ Deletable \subseteq Sess

VARIABLES
  path,    \* [file, tmp]: the inode each name points to, or None
  data,    \* [Inodes -> Seq(Sess)]: the lines each inode holds
  lck,     \* session.lck exists
  expired, \* sessions whose time stamp plus _session_timeout has passed
  gone,    \* sessions whose account getpwnam/getgrouplist no longer finds
  ps       \* [Procs -> the request each process is handling]

vars == <<path, data, lck, expired, gone, ps>>

Idle == [pc |-> "idle", key |-> CHOOSE s \in Sess : TRUE, ct |-> 0,
         fp |-> None, pos |-> 0, tmp |-> None, out |-> <<>>,
         status |-> FALSE]

\* Inodes named by a path or held open by a process
InUse ==
  ({path.file, path.tmp} \cup {ps[p].fp : p \in Procs}
     \cup {ps[p].tmp : p \in Procs}) \ {None}

Init ==
  /\ path = [file |-> 1, tmp |-> None]
  /\ data = [i \in Inodes |-> IF i = 1 THEN InitFile ELSE <<>>]
  /\ lck = FALSE
  /\ expired = {} /\ gone = {}
  /\ ps = [p \in Procs |-> Idle]

\* authorized(): a request whose cookie carries session key k
Begin(p) ==
  /\ ps[p].pc = "idle"
  /\ \E k \in Sess : ps' = [ps EXCEPT ![p] = [Idle EXCEPT !.pc = "lock", !.key = k]]
  /\ UNCHANGED <<path, data, lck, expired, gone>>

\* mutant: the lock is waited for until it is free, with no retry bound
TryLockUnbounded(p) ==
  /\ ps[p].pc = "lock"
  /\ ~lck
  /\ lck' = TRUE
  /\ ps' = [ps EXCEPT ![p].pc = "open"]
  /\ UNCHANGED <<path, data, expired, gone>>

\* mutant: the retry loop bound off by one (ct <= _retry_lock_count)
TryLockOffByOne(p) ==
  /\ ps[p].pc = "lock"
  /\ \/ /\ ~lck
        /\ lck' = TRUE
        /\ ps' = [ps EXCEPT ![p].pc = "open"]
     \/ /\ lck
        /\ ps' = [ps EXCEPT ![p].ct = @ + 1,
                            ![p].pc = IF ps[p].ct = RetryCount THEN "open"
                                      ELSE "lock"]
        /\ UNCHANGED lck
  /\ UNCHANGED <<path, data, expired, gone>>

\* Lock::Lock: one open(O_CREAT|O_EXCL) of session.lck; on EEXIST usleep
\* and count. The loop ends after the RetryCount-th failure, without
\* retrying after the last sleep.
TryLock(p) ==
  /\ ps[p].pc = "lock"
  /\ \/ /\ ~lck
        /\ lck' = TRUE
        /\ ps' = [ps EXCEPT ![p].pc = "open"]
     \/ /\ lck
        /\ ps' = [ps EXCEPT ![p].ct = @ + 1,
                            ![p].pc = IF ps[p].ct + 1 = RetryCount THEN "open"
                                      ELSE "lock"]
        /\ UNCHANGED lck
  /\ UNCHANGED <<path, data, expired, gone>>

\* fopen(session, "r+") and fopen(session_tmp, "w"), which truncates an
\* existing tmp file or creates a new one. _status only with the lock;
\* without it authorized() returns false and the Lock is destroyed.
Open(p) ==
  LET t == IF path.tmp # None THEN path.tmp
           ELSE CHOOSE i \in Inodes \ InUse : TRUE
      ok == path.file # None /\ ps[p].ct # RetryCount
  IN
  /\ ps[p].pc = "open"
  /\ path' = [path EXCEPT !.tmp = t]
  /\ data' = [data EXCEPT ![t] = <<>>]
  /\ ps' = [ps EXCEPT ![p].fp = path.file, ![p].tmp = t, ![p].status = ok,
                      ![p].pc = IF ok THEN "copy" ELSE "close"]
  /\ UNCHANGED <<lck, expired, gone>>

\* One fgets of the while loop. Expired lines are dropped. The caller's
\* own line is rewritten with a new time, unless getpwnam or getgrouplist
\* fails for its account, which returns false in the middle of the loop.
\* Any other line is copied as it is.
Copy(p) ==
  LET r == ps[p]
      line == data[r.fp][r.pos + 1]
  IN
  /\ r.pc = "copy"
  /\ r.pos < Len(data[r.fp])
  /\ \/ /\ line \in expired
        /\ ps' = [ps EXCEPT ![p].pos = @ + 1]
     \/ /\ line \notin expired /\ line = r.key /\ line \in gone
        /\ ps' = [ps EXCEPT ![p].pc = "close"]
     \/ /\ line \notin expired /\ (line # r.key \/ line \notin gone)
        /\ ps' = [ps EXCEPT ![p].pos = @ + 1, ![p].out = Append(@, line)]
  /\ UNCHANGED <<path, data, lck, expired, gone>>

\* End of file: authorized() sets the credentials and returns
CopyEnd(p) ==
  /\ ps[p].pc = "copy"
  /\ ps[p].pos = Len(data[ps[p].fp])
  /\ ps' = [ps EXCEPT ![p].pc = "close"]
  /\ UNCHANGED <<path, data, lck, expired, gone>>

\* ~Lock: fclose(_fp_tmp) writes the buffered lines at offset 0 of the
\* inode it opened, then fclose(_fp)
Overwrite(old, new) == new \o SubSeq(old, Len(new) + 1, Len(old))

\* mutant: the destructor never fcloses _fp_tmp, so the buffered lines
\* never reach the file
CloseNoFlush(p) ==
  /\ ps[p].pc = "close"
  /\ ps' = [ps EXCEPT ![p].pc = "rename", ![p].fp = None, ![p].tmp = None]
  /\ UNCHANGED <<path, data, lck, expired, gone>>

Close(p) ==
  LET r == ps[p] IN
  /\ r.pc = "close"
  /\ data' = IF r.tmp = None THEN data
             ELSE [data EXCEPT ![r.tmp] = Overwrite(@, r.out)]
  /\ ps' = [ps EXCEPT ![p].pc = "rename", ![p].fp = None, ![p].tmp = None]
  /\ UNCHANGED <<path, lck, expired, gone>>

\* rename(session_tmp, session): whatever inode the tmp name holds now
Rename(p) ==
  /\ ps[p].pc = "rename"
  /\ path' = IF path.tmp = None THEN path
             ELSE [file |-> path.tmp, tmp |-> None]
  /\ ps' = [ps EXCEPT ![p].pc = "unlock"]
  /\ UNCHANGED <<data, lck, expired, gone>>

\* close(_lck_fd) if it was opened, then unlink(session.lck) regardless
Unlock(p) ==
  /\ ps[p].pc = "unlock"
  /\ lck' = FALSE
  /\ ps' = [ps EXCEPT ![p] = Idle]
  /\ UNCHANGED <<path, data, expired, gone>>

\* The clock passes session_time + _session_timeout
Expire(s) ==
  /\ s \notin expired
  /\ expired' = expired \cup {s}
  /\ UNCHANGED <<path, data, lck, gone, ps>>

\* The account behind a session is removed, or is put into more than the
\* ten groups getgrouplist is given room for
DeleteUser(s) ==
  /\ s \in Deletable \ gone
  /\ gone' = gone \cup {s}
  /\ UNCHANGED <<path, data, lck, expired, ps>>

ProcStep(p) ==
  TryLock(p) \/ Open(p) \/ Copy(p) \/ CopyEnd(p) \/ Close(p) \/ Rename(p)
  \/ Unlock(p)

Next ==
  \/ \E p \in Procs : Begin(p) \/ ProcStep(p)
  \/ \E s \in Sess : Expire(s) \/ DeleteUser(s)

Spec == Init /\ [][Next]_vars

\* The FastCGI process is killed in the middle of a request: the kernel
\* closes its FILE*s, whose stdio buffers are lost, and the descriptor of
\* session.lck, and the lock file stays as it is
Crash(p) ==
  /\ ps[p].pc # "idle"
  /\ ps' = [ps EXCEPT ![p] = Idle]
  /\ UNCHANGED <<path, data, lck, expired, gone>>

\* Each process is an OS process the kernel keeps scheduling, and
\* usleep returns: a process that can take a step of its request does
FaultSpec ==
  /\ Init /\ [][Next \/ \E p \in Procs : Crash(p)]_vars
  /\ \A p \in Procs : WF_vars(ProcStep(p))
-----------------------------------------------------------------------------
\* The sessions the file named "session" holds
Live == IF path.file = None THEN {} ELSE Range(data[path.file])

Store == INSTANCE SessionStore WITH live <- Live, InitLive <- Range(InitFile)

\* The session file implements SessionStore: a session leaves it only
\* after it expired, although every request rewrites the whole file.
SessionStoreSpec == Store!Spec

\* States that differ only in what freed inodes held, which Open resets
\* before any use, are the same state
StateView == <<path, [i \in InUse |-> data[i]], lck, expired, gone, ps>>

PCs == {"idle", "lock", "open", "copy", "close", "rename", "unlock"}

TypeOK ==
  /\ path \in [file : Inodes \cup {None}, tmp : Inodes \cup {None}]
  /\ data \in [Inodes -> Seq(Sess)]
  /\ lck \in BOOLEAN /\ expired \subseteq Sess /\ gone \subseteq Deletable
  /\ \A p \in Procs :
       /\ ps[p].pc \in PCs /\ ps[p].key \in Sess
       /\ ps[p].ct \in 0 .. RetryCount
       /\ ps[p].fp \in Inodes \cup {None} /\ ps[p].tmp \in Inodes \cup {None}
       /\ ps[p].out \in Seq(Sess) /\ Len(ps[p].out) <= Len(InitFile)
       /\ ps[p].status \in BOOLEAN

\* Every authorized() call returns, even when a process was killed while
\* it held session.lck and the lock file is never removed by its owner:
\* the bounded retry loop of Lock::Lock lets the waiters go on.
AuthorizedReturns == \A p \in Procs : ps[p].pc = "lock" ~> ps[p].pc = "idle"

\* No session that is unexpired and whose account still exists ever
\* disappears from the file behind "session", whatever the processes
\* rewriting it do.
NoValidSessionLost ==
  \A s \in Range(InitFile) \ (expired \cup gone) : s \in Live
=============================================================================
