------------------------ MODULE MCProfileContainer -------------------------
(* Model-checking instance of ProfileContainer: two users, two metadata    *)
(* values, two concurrent fetches.                                         *)
EXTENDS ProfileContainer, TLC

CONSTANTS u1, u2, m1, m2, f1, f2, noUser, noData

MCUsers == {u1, u2}
MCOneUser == {u1}
MCMetas == {m1, m2}
MCFetches == {f1, f2}

MCSymmetry == Permutations(MCFetches) \cup Permutations(MCMetas)
=============================================================================
