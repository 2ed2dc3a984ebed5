---------------------------- MODULE MCAuditThread ----------------------------
(* Two loops over one ticket: a major event, a pull request found, ready   *)
(* and reworked, a bump by hand, and a failure to reach the network.       *)
EXTENDS AuditThread

MCKinds == {"major", "found", "ready", "reworking", "bump", "unreachable"}
MCFaults == AuditFault
=============================================================================
