---------------------------- MODULE MCCatalogSwap ----------------------------
(***************************************************************************)
(* CatalogSwap on two tables for TLC, so that what a process learns of the   *)
(* server from the first swap bears on the second.                           *)
(***************************************************************************)
EXTENDS CatalogSwap
=============================================================================
