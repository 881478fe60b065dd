---------------------------- MODULE MCAuthSession ----------------------------
EXTENDS AuthSession

CONSTANTS p1, p2, s1, s2, s3

MCProcs1 == {p1}
MCProcs2 == {p1, p2}
MCSess == {s1, s2, s3}
MCInodes == 1 .. 5
\* the login wrote three sessions; the first one's account may vanish
MCInitFile == <<s1, s2, s3>>
MCDeletable == {s1}
\* two sessions, for the runs with two processes
MCSess2 == {s1, s2}
MCInitFile2 == <<s1, s2>>
MCNoDeletable == {}
\* one session, for the liveness run with two processes
MCSess1 == {s1}
MCInitFile1 == <<s1>>
=============================================================================
