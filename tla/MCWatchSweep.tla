---------------------------- MODULE MCWatchSweep ----------------------------
(***************************************************************************)
(* Small boards for WatchSweep.                                            *)
(***************************************************************************)
EXTENDS WatchSweep
=============================================================================
