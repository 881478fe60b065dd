----------------------------- MODULE FcgiProcess -----------------------------
(***************************************************************************)
(* The credentials of a FastCGI process of the REST server across the     *)
(* requests it serves one after the other: the loop of main()            *)
(* (src/src/server/main.cc), Authenticate::validate, AuthBasic::authorized *)
(* and the credential tail of AuthSession::authorized, composed with the  *)
(* session-file model of AuthSession, which a cookie request runs.        *)
(*                                                                         *)
(* The process starts as root (real, effective and saved uid and gid 0).  *)
(* An authenticated request of an ordinary user drops the effective ids  *)
(* and sets the supplementary groups; a service user keeps root. When the *)
(* request is done main() calls setuid(g_uid), setgid(g_gid) and          *)
(* audit_setloginuid(g_uid), ignoring their results. The system calls     *)
(* are modelled by their Linux rules for a process whose real and saved   *)
(* ids stay 0.                                                             *)
(*                                                                         *)
(* An authorized request is dispatched by Process::dispatch. AppMode and  *)
(* ServiceMode write the request body to the one file /tmp/json_input,    *)
(* which every process of the server shares, run the mode's script with   *)
(* its standard input redirected from that file, and unlink it.           *)
(***************************************************************************)
EXTENDS AuthSession

CONSTANTS Users,      \* accounts that can log in
          Root,       \* uid 0, g_uid
          Gids,       \* group ids
          RootGid,    \* gid 0, g_gid
          CfgGid,     \* the gid of group vyattacfg
          PrimaryGid, \* [Users -> Gids]: pw_gid
          GroupList,  \* [Users -> SUBSET Gids]: what getgrouplist returns
          SessUser,   \* [Sess -> Users]: the user field of a session line
          SvcSess,    \* sessions whose access-level field is service-user
          InitGroups, \* the supplementary groups the process starts with
          JInodes,    \* inodes for /tmp/json_input
          Bodies,     \* request bodies
          XE,         \* the "XE: '<command>'" line a debug server appends
          NServices,  \* the service templates opd lists under the service dir
          DebugFlags  \* the values main()'s -d flag may take

ASSUME Root \notin Users /\ RootGid \in Gids /\ CfgGid \in Gids
ASSUME SvcSess \subseteq Sess
ASSUME None \notin JInodes \cup Bodies /\ DebugFlags \subseteq BOOLEAN

VARIABLES cred,  \* [Procs -> the process's effective ids and groups]
          rq,    \* [Procs -> the request main() is serving]
          jpath, \* the inode /tmp/json_input names, or None
          jdata, \* [JInodes -> the lines each inode holds]
          debug  \* the server runs with -d

allVars == <<vars, cred, rq, jpath, jdata, debug>>
fileVars == <<jpath, jdata, debug>>

Creds == [euid : Users \cup {Root}, egid : Gids, groups : SUBSET Gids,
          loginuid : Users \cup {Root}]

RootCred == [euid |-> Root, egid |-> RootGid, groups |-> InitGroups,
             loginuid |-> Root]

\* The REQUEST_URI kinds: /rest/app/<cmd>; GET /rest/service; a
\* /rest/service/<cmd> that validate_service_cmd finds a template for;
\* any other /rest/service request; /rest/op, conf, perm or anything else
Uris == {"app", "svc_index", "svc_cmd", "svc_bad", "other"}
SvcUris == {"svc_index", "svc_cmd", "svc_bad"}

NoRequest == [phase |-> "idle", via |-> "none", user |-> Root, svc |-> FALSE,
              ok |-> FALSE, uri |-> "other", body |-> None, fd |-> None,
              read |-> None, ix |-> 0]

\* One call: its result and the credentials after it. Calls that only
\* look things up (getpwnam, getgrouplist, PAM) change nothing; "bad"
\* names the one of them, or audit_setloginuid, that fails this time
\* ("none" when none does).
Step(op, arg) == [op |-> op, arg |-> arg]

Syscall(c, s, bad) ==
  LET priv == c.euid = Root IN
  CASE s.op = bad -> [ok |-> FALSE, cred |-> c]
    [] s.op = "setgroups" ->
         [ok |-> priv, cred |-> IF priv THEN [c EXCEPT !.groups = s.arg] ELSE c]
    [] s.op = "setegid" ->
         LET may == priv \/ s.arg \in {RootGid, c.egid} IN
         [ok |-> may, cred |-> IF may THEN [c EXCEPT !.egid = s.arg] ELSE c]
    [] s.op = "seteuid" ->
         LET may == priv \/ s.arg \in {Root, c.euid} IN
         [ok |-> may, cred |-> IF may THEN [c EXCEPT !.euid = s.arg] ELSE c]
    \* setuid/setgid with the real id (0): allowed to anyone
    [] s.op = "setuid" -> [ok |-> TRUE, cred |-> [c EXCEPT !.euid = s.arg]]
    [] s.op = "setgid" -> [ok |-> TRUE, cred |-> [c EXCEPT !.egid = s.arg]]
    [] s.op = "audit" -> [ok |-> TRUE, cred |-> [c EXCEPT !.loginuid = s.arg]]
    [] OTHER -> [ok |-> TRUE, cred |-> c]

\* Calls made in order, each guarded by "if (...) return false"
RECURSIVE RunSteps(_, _, _)
RunSteps(c, steps, bad) ==
  IF steps = <<>> THEN [ok |-> TRUE, cred |-> c]
  ELSE LET r == Syscall(c, Head(steps), bad) IN
       IF r.ok THEN RunSteps(r.cred, Tail(steps), bad) ELSE r

\* AuthBasic::authorized: a service user (URI under /rest/service or the
\* vyatta-service-user pragma) only goes through PAM; anyone else is
\* looked up, gets the groups before PAM runs, then the audit login uid,
\* the egid (vyattacfg if a member, else pw_gid) and the euid
BasicEgid(u) == IF CfgGid \in GroupList[u] THEN CfgGid ELSE PrimaryGid[u]

BasicSteps(u, svc) ==
  IF svc THEN <<Step("pam", u)>>
  ELSE <<Step("getpwnam", u), Step("getgrouplist", u),
         Step("setgroups", GroupList[u]), Step("pam", u), Step("audit", u),
         Step("setegid", BasicEgid(u)), Step("seteuid", u)>>

\* mutant: the cookie path does not set the supplementary groups
CookieStepsNoGroups(u) ==
  <<Step("audit", u), Step("setegid", PrimaryGid[u]), Step("seteuid", u)>>

\* The tail of AuthSession::authorized for a found session that is not a
\* service user's: audit login uid, groups, pw_gid, pw_uid
CookieSteps(u) ==
  <<Step("audit", u), Step("setgroups", GroupList[u]),
    Step("setegid", PrimaryGid[u]), Step("seteuid", u)>>

\* mutant: main() forgets setuid(g_uid) after a request
RestoreNoSetuid(c, bad) ==
  FoldLeft(LAMBDA x, s : Syscall(x, s, bad).cred, c,
           <<Step("setgid", RootGid), Step("audit", Root)>>)

\* done: setuid(g_uid); setgid(g_gid); audit_setloginuid(g_uid), every
\* result ignored
Restore(c, bad) ==
  FoldLeft(LAMBDA x, s : Syscall(x, s, bad).cred, c,
           <<Step("setuid", Root), Step("setgid", RootGid), Step("audit", Root)>>)

\* Lookups and audit_setloginuid, which may fail whatever the credentials
EnvOps == {"none", "getpwnam", "getgrouplist", "pam", "audit"}

FcgiInit ==
  /\ Init
  /\ cred = [p \in Procs |-> RootCred]
  /\ rq = [p \in Procs |-> NoRequest]
  /\ jpath = None /\ jdata = [j \in JInodes |-> <<>>]
  /\ debug \in DebugFlags

\* FCGI_Accept and parse(): the URI and the body; then
\* Authenticate::validate with a Basic header. A URI under /rest/service
\* or the vyatta-service-user pragma makes a service user.
AcceptBasic(p) ==
  /\ rq[p].phase = "idle" /\ ps[p].pc = "idle"
  /\ \E u \in Users, uri \in Uris, b \in Bodies, pragma \in BOOLEAN,
       bad \in EnvOps :
       LET svc == uri \in SvcUris \/ pragma
           r == RunSteps(cred[p], BasicSteps(u, svc), bad)
       IN /\ cred' = [cred EXCEPT ![p] = r.cred]
          /\ rq' = [rq EXCEPT ![p] = [NoRequest EXCEPT
                      !.phase = "dispatch", !.via = "basic", !.user = u,
                      !.svc = svc, !.ok = r.ok, !.uri = uri, !.body = b]]
  /\ UNCHANGED <<vars, fileVars>>

\* FCGI_Accept, then Authenticate::validate with a session cookie:
\* AuthSession::authorized begins
AcceptCookie(p) ==
  /\ rq[p].phase = "idle"
  /\ Begin(p)
  /\ \E uri \in Uris, b \in Bodies :
       rq' = [rq EXCEPT ![p] = [NoRequest EXCEPT !.phase = "cookie",
                                  !.via = "cookie", !.uri = uri, !.body = b]]
  /\ UNCHANGED <<cred, fileVars>>

\* The lock, open, copy and destructor steps, which leave the credentials
CookieStep(p) ==
  /\ rq[p].phase = "cookie"
  /\ TryLock(p) \/ Open(p) \/ Copy(p) \/ Close(p) \/ Rename(p)
  /\ UNCHANGED <<cred, rq, fileVars>>

\* End of the copy loop: found is whether the caller's line was copied.
\* A found service-user session keeps root; any other found session runs
\* CookieSteps. Then authorized() returns and the Lock is destroyed.
CookieCopyEnd(p) ==
  LET k == ps[p].key
      u == SessUser[k]
      found == k \in Range(ps[p].out)
      svc == k \in SvcSess
  IN
  /\ rq[p].phase = "cookie"
  /\ CopyEnd(p)
  /\ \E bad \in EnvOps :
       LET r == IF found /\ ~svc THEN RunSteps(cred[p], CookieSteps(u), bad)
                ELSE [ok |-> found, cred |-> cred[p]]
       IN /\ cred' = [cred EXCEPT ![p] = r.cred]
          /\ rq' = [rq EXCEPT ![p].user = u, ![p].svc = svc, ![p].ok = r.ok]
  /\ UNCHANGED fileVars

\* Lock::~Lock's unlink of session.lck ends validate(); the request is
\* dispatched
CookieUnlock(p) ==
  /\ rq[p].phase = "cookie"
  /\ Unlock(p)
  /\ rq' = [rq EXCEPT ![p].phase = "dispatch"]
  /\ UNCHANGED <<cred, fileVars>>

\* ServiceMode::process: GET /rest/service is the index, a command
\* validate_service_cmd finds a template for is run, the rest refused
ServiceRoute(uri) ==
  CASE uri = "svc_index" -> "index"
    [] uri = "svc_cmd" -> "open"
    [] OTHER -> "reply"

\* Process::dispatch after validate() (main() answers a failed one
\* itself): a service user only reaches ServiceMode, anyone else AppMode
\* or the op, conf and perm modes, which leave the input file alone
Dispatch(p) ==
  LET r == rq[p] IN
  /\ r.phase = "dispatch"
  /\ rq' = [rq EXCEPT ![p].phase =
              CASE ~r.ok -> "reply"
                [] r.svc -> ServiceRoute(r.uri)
                [] r.uri = "app" -> "open"
                [] OTHER -> "reply"]
  /\ UNCHANGED <<vars, cred, fileVars>>

\* ServiceMode::service_index: the template of each service opd lists is
\* looked up with get_template_node; a failed lookup "continue"s without
\* ++i, and the loop asks for the same service again
ServiceIndex(p) ==
  /\ rq[p].phase = "index"
  /\ \/ /\ rq[p].ix < NServices
        /\ \E found \in BOOLEAN :
             rq' = [rq EXCEPT ![p].ix = IF found THEN @ + 1 ELSE @]
     \/ /\ rq[p].ix = NServices
        /\ rq' = [rq EXCEPT ![p].phase = "reply"]
  /\ UNCHANGED <<vars, cred, fileVars>>

\* An inode neither named nor held open by a writer
FreeJInode ==
  CHOOSE j \in JInodes : j # jpath /\ \A q \in Procs : rq[q].fd # j

\* mutant: the input file is opened without O_TRUNC
OpenInputNoTrunc(p) ==
  LET j == IF jpath # None THEN jpath ELSE FreeJInode IN
  /\ rq[p].phase = "open"
  /\ \/ /\ jpath' = j
        /\ jdata' = IF jpath # None THEN jdata ELSE [jdata EXCEPT ![j] = <<>>]
        /\ rq' = [rq EXCEPT ![p].phase = "write", ![p].fd = j]
     \/ /\ rq' = [rq EXCEPT ![p].phase = "reply"]
        /\ UNCHANGED <<jpath, jdata>>
  /\ UNCHANGED <<vars, cred, debug>>

\* fopen(JSON_INPUT, "w") truncates the inode the name holds or creates
\* one; if it fails (another user's file, say) the reply is SERVER_ERROR
OpenInput(p) ==
  LET j == IF jpath # None THEN jpath ELSE FreeJInode IN
  /\ rq[p].phase = "open"
  /\ \/ /\ jpath' = j /\ jdata' = [jdata EXCEPT ![j] = <<>>]
        /\ rq' = [rq EXCEPT ![p].phase = "write", ![p].fd = j]
     \/ /\ rq' = [rq EXCEPT ![p].phase = "reply"]
        /\ UNCHANGED <<jpath, jdata>>
  /\ UNCHANGED <<vars, cred, debug>>

\* ServiceMode::execute_service and AppMode::process alike: fwrite of the
\* body, then fclose, which writes the buffered body at
\* offset 0 of the inode this process opened; a short fwrite is answered
\* with SERVER_ERROR
WriteInput(p) ==
  LET r == rq[p] IN
  /\ r.phase = "write"
  /\ \/ /\ jdata' = [jdata EXCEPT ![r.fd] = Overwrite(@, <<r.body>>)]
        /\ rq' = [rq EXCEPT ![p].phase = "script", ![p].fd = None]
     \/ /\ rq' = [rq EXCEPT ![p].phase = "reply", ![p].fd = None]
        /\ UNCHANGED jdata
  /\ UNCHANGED <<vars, cred, jpath, debug>>

\* Mode::system_out: the forked shell opens "< /tmp/json_input" and the
\* script reads what the file named holds then; with no file the shell
\* fails and the status becomes a script error. The reply goes on.
RunScript(p) ==
  /\ rq[p].phase = "script"
  /\ rq' = [rq EXCEPT ![p].phase = "unlink",
                      ![p].read = IF jpath = None THEN None ELSE jdata[jpath]]
  /\ UNCHANGED <<vars, cred, fileVars>>

\* unlink(JSON_INPUT) unless debugging; a debug server instead appends
\* the command with fopen(JSON_INPUT, "a"), which creates a missing file
\* (and may fail)
UnlinkInput(p) ==
  LET j == IF jpath # None THEN jpath ELSE FreeJInode IN
  /\ rq[p].phase = "unlink"
  /\ \/ /\ ~debug
        /\ jpath' = None /\ UNCHANGED jdata
     \/ /\ debug
        /\ jpath' = j
        /\ jdata' = [jdata EXCEPT ![j] = Append(IF jpath = None THEN <<>> ELSE @, XE)]
     \/ debug /\ UNCHANGED <<jpath, jdata>>
  /\ rq' = [rq EXCEPT ![p].phase = "reply"]
  /\ UNCHANGED <<vars, cred, debug>>

\* The reply is written, then done: FCGI_Finish and the restore of g_uid
\* and g_gid
Finish(p) ==
  /\ rq[p].phase = "reply"
  /\ \E bad \in {"none", "audit"} :
       cred' = [cred EXCEPT ![p] = Restore(cred[p], bad)]
  /\ rq' = [rq EXCEPT ![p] = NoRequest]
  /\ UNCHANGED <<vars, fileVars>>

FcgiNext ==
  \/ \E p \in Procs :
       \/ AcceptBasic(p) \/ AcceptCookie(p) \/ CookieStep(p)
       \/ CookieCopyEnd(p) \/ CookieUnlock(p) \/ Dispatch(p)
       \/ ServiceIndex(p) \/ OpenInput(p) \/ WriteInput(p) \/ RunScript(p)
       \/ UnlinkInput(p) \/ Finish(p)
  \/ \E s \in Sess : (Expire(s) \/ DeleteUser(s)) /\ UNCHANGED <<cred, rq, fileVars>>

FcgiSpec == FcgiInit /\ [][FcgiNext]_allVars
-----------------------------------------------------------------------------
\* A request of an ordinary user that authentication let through is
\* served with that user's euid, audit login uid and supplementary
\* groups, and an egid among the user's own, whatever the process served
\* before: the groups and ids the previous request left are replaced.
Serving == {"dispatch", "index", "open", "write", "script", "unlink", "reply"}

ServedAsUser ==
  \A p \in Procs :
    (rq[p].phase \in Serving /\ rq[p].ok /\ ~rq[p].svc) =>
      LET u == rq[p].user IN
      /\ cred[p].euid = u /\ cred[p].loginuid = u
      /\ cred[p].groups = GroupList[u]
      /\ cred[p].egid \in GroupList[u] \cup {PrimaryGid[u]}

\* A service user's request runs as root with gid 0: after an ordinary
\* user's request main() has given the process its ids back.
ServiceAsRoot ==
  \A p \in Procs :
    (rq[p].phase \in Serving /\ rq[p].ok /\ rq[p].svc) =>
      cred[p].euid = Root /\ cred[p].egid = RootGid

\* The script an AppMode or ServiceMode request runs reads the body that
\* request sent, and nothing else, from /tmp/json_input: no other
\* request's body and no line a debug server appended before.
ScriptReadsOwnBody ==
  \A p \in Procs : rq[p].read # None => rq[p].read = <<rq[p].body>>
=============================================================================
