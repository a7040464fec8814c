---------------------------- MODULE MCMigrationJob ----------------------------
(***************************************************************************)
(* MigrationJob with two tables.  A lost or late call may cost two pods, its *)
(* own and the one that meets it: with two faults the Job needs four retries *)
(* to get there, one more than the backoffLimit of k8s/.                     *)
(***************************************************************************)
EXTENDS MigrationJob
=============================================================================
