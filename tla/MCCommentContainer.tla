------------------------- MODULE MCCommentContainer -------------------------
(***************************************************************************)
(* A small instance of CommentContainer for TLC: two submissions and two   *)
(* translation requests may be in flight at once.                          *)
(***************************************************************************)
EXTENDS CommentContainer, TLC

CONSTANTS s1, s2, t1, t2, none

MCSubmits == {s1, s2}
MCTranslations == {t1, t2}
MCSymmetry == Permutations(MCSubmits) \cup Permutations(MCTranslations)
=============================================================================
