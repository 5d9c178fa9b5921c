---------------------------- MODULE MaintenanceMC ----------------------------
(* A small instance of Maintenance and of the reader of its log for TLC. *)
EXTENDS MaintenanceLog

CONSTANTS r1, r2

TwoRuns == {r1, r2}
==============================================================================
