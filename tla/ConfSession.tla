----------------------------- MODULE ConfSession -----------------------------
(***************************************************************************)
(* Configuration-mode sessions: ConfMode::process (src/src/server/        *)
(* confmode.cc) with the modify-file helpers of Rest (common.cc), run by  *)
(* every FastCGI process of the server at once.                           *)
(*                                                                         *)
(* A POST to /rest/conf[/<description>] generates a token, sets up a      *)
(* configd session for it and writes /tmp/.vyattamodify_<id> holding     *)
(* "<user>/<description>". Every later request names the session by id   *)
(* or by description (tag). The handler reads the modify file to find     *)
(* the session's user, compares that user with the request's, and only   *)
(* then talks to configd or runs a shell command for the id. Nothing      *)
(* serialises these requests: another process may create, rewrite or      *)
(* unlink a modify file between one request's check and its action.      *)
(*                                                                         *)
(* A token is 64 random bits, so a new id is taken from the ids never      *)
(* issued before. A client knows an id once a 201 has carried it; the     *)
(* model lets every user name every disclosed id, as a URL can be shared. *)
(* Descriptions are drawn from Tags, disjoint from Ids.                   *)
(***************************************************************************)
EXTENDS FiniteSets

CONSTANTS Procs,   \* the FastCGI processes of the server
          Users,   \* authenticated users with configuration access
          Ids,     \* the tokens generate_token can return
          Tags,    \* descriptions a user may give a session
          NoTag,   \* the empty description
          None,    \* no id / no user
          Empty    \* a modify file that exists but holds no line yet

ASSUME NoTag \notin Tags /\ None \notin Ids \cup Users /\ Empty \notin Ids

\* What fgets can return from a modify file: a "<user>/<description>" line
ModLine == [user : Users, tag : Tags \cup {NoTag}]

\* The requests of ConfMode::process that reach a session
Methods == {"create", "get", "put", "commit", "discard", "command", "delete"}

VARIABLES
  mod,       \* [Ids -> ModLine \cup {Empty, None}]: /tmp/.vyattamodify_<id>
  cfgd,      \* [Ids -> {"none", "clean", "changed"}]: configd's session
  issued,    \* ids generate_token has returned
  creator,   \* [Ids -> Users \cup {None}]: who POSTed the session (history)
  disclosed, \* ids a 201 Location header has carried
  ps         \* [Procs -> the request each process is handling]

vars == <<mod, cfgd, issued, creator, disclosed, ps>>

Idle == [pc |-> "idle", user |-> None, m |-> "get", ref |-> None,
         owner |-> None, id |-> None, tag |-> NoTag, listed |-> {}]

Init ==
  /\ mod = [i \in Ids |-> None]
  /\ cfgd = [i \in Ids |-> "none"]
  /\ issued = {} /\ creator = [i \in Ids |-> None] /\ disclosed = {}
  /\ ps = [p \in Procs |-> Idle]

\* A request of user u: the listing of the user's sessions, a create with
\* a description, or a request that names a session by a disclosed id or
\* by a description
Begin(p) ==
  /\ ps[p].pc = "idle"
  /\ \E u \in Users :
       \/ ps' = [ps EXCEPT ![p] = [Idle EXCEPT !.pc = "list", !.user = u]]
       \/ \E t \in Tags \cup {NoTag} :
            ps' = [ps EXCEPT ![p] = [Idle EXCEPT !.pc = "check_tag", !.user = u,
                                                 !.m = "create", !.tag = t]]
       \/ \E m \in Methods \ {"create"}, r \in disclosed \cup Tags :
            ps' = [ps EXCEPT ![p] = [Idle EXCEPT !.pc = "lookup", !.user = u,
                                                 !.m = m, !.ref = r]]
  /\ UNCHANGED <<mod, cfgd, issued, creator, disclosed>>

-----------------------------------------------------------------------------
(* Listing the user's sessions                                             *)

\* mutant: conf_user starts as session._user, as user does for a lookup by
\* id, so an empty modify file passes the filter
ListedPresetUser(u) ==
  {i \in Ids : mod[i] = Empty \/ (mod[i] \in ModLine /\ mod[i].user = u)}

\* The directory walk of GET /rest/conf: read_conf_modify_file(id,
\* conf_user, description) into an empty conf_user, and the entries whose
\* user is not the caller's skipped
Listed(u) == {i \in Ids : mod[i] \in ModLine /\ mod[i].user = u}

\* GET /rest/conf: the reply lists Listed(u). Each file is read on its
\* own, so the walk is taken as one step; configd is only asked whether
\* each session changed.
ListSessions(p) ==
  /\ ps[p].pc = "list"
  /\ ps' = [ps EXCEPT ![p] = [Idle EXCEPT !.user = ps[p].user,
                                          !.listed = Listed(ps[p].user)]]
  /\ UNCHANGED <<mod, cfgd, issued, creator, disclosed>>

-----------------------------------------------------------------------------
(* Looking a session up                                                    *)

\* read_conf_modify_file_from_tag: the ids in /tmp whose modify file holds
\* this user and this non-empty description (readdir order is unspecified)
TagMatches(t, u) ==
  {i \in Ids : mod[i] \in ModLine /\ mod[i].tag = t /\ t # NoTag
               /\ mod[i].user = u}

\* The lines after the URI checks: read_conf_modify_file(id, user, tag)
\* overwrites user and tag when the file holds a line, leaves them as they
\* were when it is empty, and fails when there is no file, in which case
\* the reference is tried as a tag of the request's own user.
Lookup(p) ==
  LET r == ps[p] IN
  /\ r.pc = "lookup"
  /\ \/ /\ r.ref \in Ids /\ mod[r.ref] \in ModLine
        /\ ps' = [ps EXCEPT ![p].pc = "owner", ![p].id = r.ref,
                            ![p].owner = mod[r.ref].user, ![p].tag = mod[r.ref].tag]
     \/ /\ r.ref \in Ids /\ mod[r.ref] = Empty
        /\ ps' = [ps EXCEPT ![p].pc = "owner", ![p].id = r.ref,
                            ![p].owner = r.user]
     \/ /\ r.ref \in Ids => mod[r.ref] = None
        /\ \/ \E i \in TagMatches(r.ref, r.user) :
                ps' = [ps EXCEPT ![p].pc = "owner", ![p].id = i,
                                 ![p].owner = r.user, ![p].tag = r.ref]
           \/ /\ TagMatches(r.ref, r.user) = {}
              /\ ps' = [ps EXCEPT ![p] = Idle]
  /\ UNCHANGED <<mod, cfgd, issued, creator, disclosed>>

\* mutant: the request goes on without comparing the session's user
OwnerCheckSkipped(p) ==
  /\ ps[p].pc = "owner"
  /\ ps' = [ps EXCEPT ![p].pc = "act"]
  /\ UNCHANGED <<mod, cfgd, issued, creator, disclosed>>

\* "does the user own this configuration session?": conf_user, the user
\* the lookup left, against session._user; GET, PUT, DELETE and POST
\* each make the same comparison
OwnerCheck(p) ==
  /\ ps[p].pc = "owner"
  /\ ps' = [ps EXCEPT ![p].pc = IF ps[p].owner = ps[p].user THEN "act"
                                ELSE "idle"]
  /\ UNCHANGED <<mod, cfgd, issued, creator, disclosed>>

-----------------------------------------------------------------------------
(* Acting on a session that passed the check                               *)

\* GET of a node: get_configured_node reads configd's session
ActGet(p) ==
  /\ ps[p].pc = "act" /\ ps[p].m = "get"
  /\ ps' = [ps EXCEPT ![p] = Idle]
  /\ UNCHANGED <<mod, cfgd, issued, creator, disclosed>>

\* PUT: cfgcli set/delete/comment, or (de)activate, with VYATTA_CONFIG_SID
\* set to the id; Rest::execute may fail. A session configd does not have
\* takes no change.
ActPut(p) ==
  LET i == ps[p].id IN
  /\ ps[p].pc = "act" /\ ps[p].m = "put"
  /\ \/ /\ cfgd[i] # "none"
        /\ cfgd' = [cfgd EXCEPT ![i] = "changed"]
     \/ UNCHANGED cfgd
  /\ ps' = [ps EXCEPT ![p] = Idle]
  /\ UNCHANGED <<mod, issued, creator, disclosed>>

\* POST <id>/commit: configd_open_connection may fail (silent return);
\* configd_commit may return an error
ActCommit(p) ==
  LET i == ps[p].id IN
  /\ ps[p].pc = "act" /\ ps[p].m = "commit"
  /\ \/ /\ cfgd[i] = "changed"
        /\ cfgd' = [cfgd EXCEPT ![i] = "clean"]
     \/ UNCHANGED cfgd
  /\ ps' = [ps EXCEPT ![p] = Idle]
  /\ UNCHANGED <<mod, issued, creator, disclosed>>

\* POST <id>/discard: discard_session(id, false); the connection may fail
ActDiscard(p) ==
  LET i == ps[p].id IN
  /\ ps[p].pc = "act" /\ ps[p].m = "discard"
  /\ \/ /\ cfgd[i] = "changed"
        /\ cfgd' = [cfgd EXCEPT ![i] = "clean"]
     \/ UNCHANGED cfgd
  /\ ps' = [ps EXCEPT ![p] = Idle]
  /\ UNCHANGED <<mod, issued, creator, disclosed>>

\* POST <id>/save..., merge..., load..., show...: a shell command run with
\* VYATTA_CONFIG_SID set to the id; a merge or load changes the session
\* when it succeeds, a save or show leaves it as it is
ActCommand(p) ==
  LET i == ps[p].id IN
  /\ ps[p].pc = "act" /\ ps[p].m = "command"
  /\ \/ /\ cfgd[i] # "none"
        /\ cfgd' = [cfgd EXCEPT ![i] = "changed"]
     \/ UNCHANGED cfgd
  /\ ps' = [ps EXCEPT ![p] = Idle]
  /\ UNCHANGED <<mod, issued, creator, disclosed>>

\* DELETE: discard_session(id, true). If configd_open_connection fails it
\* returns before the teardown and before the unlink; otherwise
\* configd_discard and configd_sess_teardown end configd's session.
DeleteTeardown(p) ==
  LET i == ps[p].id IN
  /\ ps[p].pc = "act" /\ ps[p].m = "delete"
  /\ \/ /\ cfgd' = [cfgd EXCEPT ![i] = "none"]
        /\ ps' = [ps EXCEPT ![p].pc = "unlink"]
     \/ /\ UNCHANGED cfgd
        /\ ps' = [ps EXCEPT ![p] = Idle]
  /\ UNCHANGED <<mod, issued, creator, disclosed>>

\* ... then unlink(.vyattamodify_<id>)
DeleteUnlink(p) ==
  /\ ps[p].pc = "unlink"
  /\ mod' = [mod EXCEPT ![ps[p].id] = None]
  /\ ps' = [ps EXCEPT ![p] = Idle]
  /\ UNCHANGED <<cfgd, issued, creator, disclosed>>

-----------------------------------------------------------------------------
(* Creating a session                                                      *)

\* POST /rest/conf[/<description>]: a non-empty description this user
\* already gave a session is refused (CONFMODE_DUP_DESC_ERROR)
CreateCheckTag(p) ==
  LET r == ps[p] IN
  /\ r.pc = "check_tag"
  /\ ps' = [ps EXCEPT ![p].pc = IF TagMatches(r.tag, r.user) = {} THEN "token"
                                ELSE "idle"]
  /\ UNCHANGED <<mod, cfgd, issued, creator, disclosed>>

\* generate_token, which gives up after five failed opens of /dev/urandom
\* (an id shorter than 16 is a VALIDATION_FAILURE), then setup_session,
\* whose failure is only logged
CreateToken(p) ==
  /\ ps[p].pc = "token"
  /\ \/ \E i \in Ids \ issued :
          /\ issued' = issued \cup {i}
          /\ creator' = [creator EXCEPT ![i] = ps[p].user]
          /\ \/ cfgd' = [cfgd EXCEPT ![i] = "clean"]
             \/ UNCHANGED cfgd
          /\ ps' = [ps EXCEPT ![p].pc = "fopen", ![p].id = i]
     \/ /\ ps' = [ps EXCEPT ![p] = Idle]
        /\ UNCHANGED <<cfgd, issued, creator>>
  /\ UNCHANGED <<mod, disclosed>>

\* create_conf_modify_file: fopen(file, "w") creates the file empty, or
\* fails, which is a SERVER_ERROR
CreateOpen(p) ==
  /\ ps[p].pc = "fopen"
  /\ \/ /\ mod' = [mod EXCEPT ![ps[p].id] = Empty]
        /\ ps' = [ps EXCEPT ![p].pc = "fputs"]
     \/ /\ UNCHANGED mod
        /\ ps' = [ps EXCEPT ![p] = Idle]
  /\ UNCHANGED <<cfgd, issued, creator, disclosed>>

\* fputs("<user>/<description>") stays in the stdio buffer until fclose.
\* If fputs fails the file stays empty and the request gets SERVER_ERROR;
\* otherwise the 201 carries the id in its Location header.
CreateWrite(p) ==
  LET r == ps[p] IN
  /\ r.pc = "fputs"
  /\ \/ /\ mod' = [mod EXCEPT ![r.id] = [user |-> r.user, tag |-> r.tag]]
        /\ disclosed' = disclosed \cup {r.id}
     \/ UNCHANGED <<mod, disclosed>>
  /\ ps' = [ps EXCEPT ![p] = Idle]
  /\ UNCHANGED <<cfgd, issued, creator>>

ProcStep(p) ==
  \/ Begin(p) \/ ListSessions(p) \/ Lookup(p) \/ OwnerCheck(p)
  \/ ActGet(p) \/ ActPut(p) \/ ActCommit(p) \/ ActDiscard(p) \/ ActCommand(p)
  \/ DeleteTeardown(p) \/ DeleteUnlink(p)
  \/ CreateCheckTag(p) \/ CreateToken(p) \/ CreateOpen(p) \/ CreateWrite(p)

Next == \E p \in Procs : ProcStep(p)

Spec == Init /\ [][Next]_vars
-----------------------------------------------------------------------------
PCs == {"idle", "list", "check_tag", "token", "fopen", "fputs", "lookup", "owner",
        "act", "unlink"}

TypeOK ==
  /\ mod \in [Ids -> ModLine \cup {Empty, None}]
  /\ cfgd \in [Ids -> {"none", "clean", "changed"}]
  /\ issued \subseteq Ids /\ disclosed \subseteq issued
  /\ creator \in [Ids -> Users \cup {None}]
  /\ \A p \in Procs :
       /\ ps[p].pc \in PCs /\ ps[p].m \in Methods
       /\ ps[p].id \in Ids \cup {None} /\ ps[p].tag \in Tags \cup {NoTag}

\* The ownership check of ConfMode::process: a request that goes on to
\* read, change, commit, discard or delete a configuration session is
\* always one of the user who created it, however the lookups of other
\* processes' requests interleave with creates and deletes, and whether
\* the session was named by id or by description.
OnlyOwnerActs ==
  \A p \in Procs :
    ps[p].pc \in {"act", "unlink"} => ps[p].user = creator[ps[p].id]

\* The listing of GET /rest/conf shows a user only sessions that user
\* created, even while another process's create has its modify file open
\* and still empty.
ListsOnlyOwn ==
  \A p \in Procs : \A i \in ps[p].listed : creator[i] = ps[p].user
=============================================================================
