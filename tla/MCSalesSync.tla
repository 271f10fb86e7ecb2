---------------------------- MODULE MCSalesSync ----------------------------
(* Instances of SalesSync for TLC. *)
EXTENDS SalesSync
============================================================================
