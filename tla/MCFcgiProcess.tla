---------------------------- MODULE MCFcgiProcess ----------------------------
EXTENDS FcgiProcess, TLC

CONSTANTS p1, p2, s1, s2, s3, u1, u2, g0, g1, g2, gcfg, j1, j2, j3, b1, b2

MCProcs == {p1}
MCProcs2 == {p1, p2}
MCSess == {s1, s2, s3}
MCInodes == 1..5
MCInitFile == <<s1, s2, s3>>
MCNoDeletable == {}
MCUsers == {u1, u2}
MCGids == {g0, g1, g2, gcfg}
\* u1 is in vyattacfg, u2 is not
MCPrimaryGid == (u1 :> g1) @@ (u2 :> g2)
MCGroupList == (u1 :> {g1, gcfg}) @@ (u2 :> {g2})
\* s1 and s3 are u1's sessions, s3 one made by the service-user login
MCSessUser == (s1 :> u1) @@ (s2 :> u2) @@ (s3 :> u1)
MCSvcSess == {s3}
MCInitGroups == {g0}
MCJInodes == {j1, j2, j3}
MCBodies == {b1}
MCBodies2 == {b1, b2}
MCDebugFlags == BOOLEAN
MCNoDebug == {FALSE}
=============================================================================
