--------------------------- MODULE CatalogPointer ---------------------------
(***************************************************************************)
(* What the catalog.Catalog interface promises the rewriter about the      *)
(* metadata pointer of a table: it only ever changes because a writer      *)
(* committed a new metadata version, because a rebase moved the latest     *)
(* version from the source base to the target base, in one step, or because *)
(* a failed one moved it back.                                              *)
(***************************************************************************)
EXTENDS Naturals

CONSTANT Table

VARIABLES
  pointer,   \* pointer[t]: the metadata location readers of t resolve to
  latest     \* latest[t]: version of the last commit a writer made to t

Location == [base : {"source", "target"}, ver : Nat]

Init ==
  /\ pointer = [t \in Table |-> [base |-> "source", ver |-> 0]]
  /\ latest = [t \in Table |-> 0]

\* A writer commits: optimistic concurrency makes it one step.
Commit(t) ==
  /\ latest' = [latest EXCEPT ![t] = @ + 1]
  /\ pointer' = [pointer EXCEPT ![t].ver = latest[t] + 1]

\* SwapMetadataLocation(t, old, new): "atomically re-points id from
\* oldLocation to newLocation".
SwapMetadataLocation(t) ==
  /\ pointer[t] = [base |-> "source", ver |-> latest[t]]
  /\ pointer' = [pointer EXCEPT ![t] = [base |-> "target", ver |-> latest[t]]]
  /\ UNCHANGED latest

\* "On error the implementation must roll the catalog pointer back to
\* oldLocation": so does the rollback of a failed swap whose table another
\* process has swapped meanwhile.  No commit is lost by it.
Rollback(t) ==
  /\ pointer[t] = [base |-> "target", ver |-> latest[t]]
  /\ pointer' = [pointer EXCEPT ![t] = [base |-> "source", ver |-> latest[t]]]
  /\ UNCHANGED latest

Next == \E t \in Table : Commit(t) \/ SwapMetadataLocation(t) \/ Rollback(t)

Spec == Init /\ [][Next]_<<pointer, latest>>
=============================================================================
