--------------------------- MODULE MCReviewRounds ---------------------------
(***************************************************************************)
(* One pull request: a comment of a person, one of the reviewer, a thread. *)
(***************************************************************************)
EXTENDS ReviewRounds

CONSTANTS person, reviewer, t1

BothComments  == {person, reviewer}
OneComment    == {person}
OneThread     == {t1}
PersonOnly    == {person}
=============================================================================
