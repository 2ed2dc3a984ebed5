---------------------------- MODULE MCSolveQueue ----------------------------
(***************************************************************************)
(* Small boards and runners for SolveQueue.                                *)
(***************************************************************************)
EXTENDS SolveQueue

CONSTANTS t1, t2, d, c

OneTicket  == {t1}
TwoTickets == {t1, t2}
Daemon     == {d}
DaemonAndCommand == {d, c}

=============================================================================
