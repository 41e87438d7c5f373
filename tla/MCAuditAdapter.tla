--------------------------- MODULE MCAuditAdapter ---------------------------
(* Instances of AuditAdapter for TLC.  A second processor slot is there so that a second processor
   can show up. *)
EXTENDS AuditAdapter
=============================================================================
