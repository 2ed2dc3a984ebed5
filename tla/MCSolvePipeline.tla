--------------------------- MODULE MCSolvePipeline ---------------------------
(* One ticket, with a dozen names for its changes and merge commits.           *)
EXTENDS SolvePipeline

MCChanges == 1..12
=============================================================================
