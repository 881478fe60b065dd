------------------------------ MODULE MCChunker ------------------------------
(* Model values and small bounds for checking Chunker with TLC. *)
EXTENDS Chunker, TLC

CONSTANTS u1, u2, c1, c2, t1

MCUsers == {u1, u2}
MCClients == {c1, c2}
\* one browser, for the liveness run
MCOneClient == {c1}
MCOneClientUser == c1 :> u1
MCTokens == {t1}
\* two browsers of different users
MCClientUser == (c1 :> u1) @@ (c2 :> u2)
=============================================================================
