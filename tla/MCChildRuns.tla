----------------------------- MODULE MCChildRuns -----------------------------
(* Budgets a few ticks long, a sleep longer than both, and one too short   *)
(* to notice.                                                              *)
EXTENDS ChildRuns
Naps == {1, 12}
=============================================================================
