---------------------------- MODULE MCGroomPoll ----------------------------
(***************************************************************************)
(* Small boards for GroomPoll: three tickets over a few minutes.           *)
(***************************************************************************)
EXTENDS GroomPoll

CONSTANT d

Daemon == {d}
=============================================================================
