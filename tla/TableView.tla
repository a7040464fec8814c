------------------------------ MODULE TableView ------------------------------
(***************************************************************************)
(* What a migration promises the readers of one table: the catalog's pointer *)
(* changes sides once, and no snapshot they can read ever looks different;   *)
(* only the table's writers add snapshots.                                  *)
(***************************************************************************)
VARIABLES
  side,  \* the prefix the catalog's pointer is under
  seen   \* the snapshots readers were promised, and what each looks like

Init == side # "target"

\* SwapMetadataLocation.
Rebase ==
  /\ side = "source"
  /\ side' = "target"
  /\ UNCHANGED seen

\* Another client of the catalog adds snapshot n, under whatever location the
\* table has but not across the migration; it may end the promise about older
\* snapshots (--current-snapshot-only), and changes none.
Commit ==
  /\ side = "target" <=> side' = "target"
  /\ \E n \in DOMAIN seen' \ DOMAIN seen :
       \A m \in DOMAIN seen' \ {n} : m \in DOMAIN seen /\ seen'[m] = seen[m]

Next == Rebase \/ Commit

Spec == Init /\ [][Next]_<<side, seen>>
=============================================================================
