--------------------------- MODULE MCAuditLedger ---------------------------
(* Two payloads.                                                           *)
EXTENDS AuditLedger

CONSTANTS p1, p2
=============================================================================
