---------------------------- MODULE SessionStore ----------------------------
(***************************************************************************)
(* What the session file promises the REST server: the sessions it holds  *)
(* leave it only once they have expired. Time passing is the only thing   *)
(* that expires a session; a rewrite of the file may then drop any of the *)
(* expired ones.                                                          *)
(***************************************************************************)
EXTENDS FiniteSets

CONSTANTS Sess,       \* session keys
          InitLive    \* the sessions in the file when the server starts

VARIABLES live,       \* the sessions the file holds
          expired     \* the sessions whose time stamp is older than the timeout

Init == live = InitLive /\ expired = {}

Expire(s) ==
  /\ s \notin expired
  /\ expired' = expired \cup {s}
  /\ UNCHANGED live

Purge ==
  \E gone \in SUBSET expired :
    /\ gone # {}
    /\ live' = live \ gone
    /\ UNCHANGED expired

Next == (\E s \in Sess : Expire(s)) \/ Purge

Spec == Init /\ [][Next]_<<live, expired>>
=============================================================================
