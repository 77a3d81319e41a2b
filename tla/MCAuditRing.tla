---------------------------- MODULE MCAuditRing -----------------------------
(***************************************************************************)
(* TLC instance of AuditRing: three nodes, so that the ring fills, wraps,  *)
(* is overwritten more than once round and is drained partly.              *)
(***************************************************************************)
EXTENDS AuditRing
=============================================================================
