---------------------------- MODULE MCConfSession ----------------------------
EXTENDS ConfSession, TLC

CONSTANTS p1, p2, u1, u2, i1, i2, i3, t1

MCProcs == {p1, p2}
MCUsers == {u1, u2}
MCIds == {i1, i2}
MCTags == {t1}
MCSymmetry == Permutations(MCUsers) \cup Permutations(MCProcs) \cup Permutations(MCIds)
=============================================================================
