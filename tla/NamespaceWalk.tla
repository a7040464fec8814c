---------------------------- MODULE NamespaceWalk ----------------------------
(***************************************************************************)
(* The selection of --all-namespaces in cmd/bergrb: listAllNamespaces walks  *)
(* the catalog's namespaces breadth-first, then selectBatches lists the      *)
(* tables of each.  Every step is one listing, and the catalog is live:      *)
(* between two listings other clients create namespaces.  A listing is       *)
(* whatever the catalog answers, cycles and repetitions included.            *)
(***************************************************************************)
EXTENDS Naturals, Sequences

CONSTANTS
  Namespace,
  Root,         \* the nil parent
  Listings,     \* the answers of ListNamespaces a catalog may start with
  MaxCreates    \* bound: namespaces created during the walk

Parent == Namespace \cup {Root}

ASSUME RootAssumption == Root \notin Namespace
ASSUME ListingsAssumption == Listings \subseteq Seq(Namespace)
ASSUME CreatesAssumption == MaxCreates \in Nat

VARIABLES
  initial,   \* history: what ListNamespaces answered when the walk began
  children,  \* what ListNamespaces answers now
  creates,   \* namespaces created so far
  pc,
  queue,
  all,       \* the namespaces found, in order
  visited,
  batches    \* the namespaces whose tables are selected, in order

vars == <<initial, children, creates, pc, queue, all, visited, batches>>

Elements(s) == {s[n] : n \in DOMAIN s}

TypeOK ==
  /\ initial \in [Parent -> Seq(Namespace)]
  /\ children \in [Parent -> Seq(Namespace)]
  /\ creates \in Nat
  /\ pc \in {"roots", "walk", "tables", "done", "failed"}
  /\ queue \in Seq(Namespace)
  /\ all \in Seq(Namespace)
  /\ visited \subseteq Namespace
  /\ batches \in Seq(Namespace)

Init ==
  /\ initial \in [Parent -> Listings]
  /\ children = initial
  /\ creates = 0
  /\ pc = "roots"
  /\ queue = <<>>
  /\ all = <<>>
  /\ visited = {}
  /\ batches = <<>>

-----------------------------------------------------------------------------
ListRoots ==
  /\ pc = "roots"
  /\ queue' = children[Root]
  /\ pc' = "walk"
  /\ UNCHANGED <<initial, children, creates, all, visited, batches>>

\* visited[key], the guard against a catalog that lists a cycle.
NeverVisited(ns) == FALSE
Visited(ns) == ns \in visited

\* The queue after a namespace already visited was met.
NotPopped(q) == q
Popped(q) == Tail(q)

Skip ==
  /\ pc = "walk"
  /\ queue # <<>>
  /\ Visited(Head(queue))
  /\ queue' = Popped(queue)
  /\ UNCHANGED <<initial, children, creates, pc, all, visited, batches>>

\* The queue after the children of a visited namespace were listed.
Descended(rest, found) == found
Enqueued(rest, found) == rest \o found

Visit ==
  /\ pc = "walk"
  /\ queue # <<>>
  /\ LET ns == Head(queue) IN
       /\ ~Visited(ns)
       /\ visited' = visited \cup {ns}
       /\ all' = Append(all, ns)
       /\ queue' = Enqueued(Tail(queue), children[ns])
  /\ UNCHANGED <<initial, children, creates, pc, batches>>

WalkDone ==
  /\ pc = "walk"
  /\ queue = <<>>
  /\ pc' = "tables"
  /\ UNCHANGED <<initial, children, creates, queue, all, visited, batches>>

\* selectBatches: the tables of the next namespace are listed.
ListTables ==
  /\ pc = "tables"
  /\ Len(batches) < Len(all)
  /\ batches' = Append(batches, all[Len(batches) + 1])
  /\ UNCHANGED <<initial, children, creates, pc, queue, all, visited>>

Selected ==
  /\ pc = "tables"
  /\ Len(batches) = Len(all)
  /\ pc' = "done"
  /\ UNCHANGED <<initial, children, creates, queue, all, visited, batches>>

\* Any listing may fail; no table is then selected.
Fail ==
  /\ \/ pc = "roots"
     \/ pc = "walk" /\ queue # <<>> /\ ~Visited(Head(queue))
     \/ pc = "tables" /\ Len(batches) < Len(all)
  /\ pc' = "failed"
  /\ batches' = <<>>
  /\ UNCHANGED <<initial, children, creates, queue, all, visited>>

\* Another client (external) creates a namespace, or makes one of a cycle.
Create ==
  /\ creates < MaxCreates
  /\ creates' = creates + 1
  /\ \E parent \in Parent, ns \in Namespace :
       children' = [children EXCEPT ![parent] = Append(@, ns)]
  /\ UNCHANGED <<initial, pc, queue, all, visited, batches>>

Walk == ListRoots \/ Skip \/ Visit \/ WalkDone \/ ListTables \/ Selected

Next == Walk \/ Fail \/ Create

\* The program never stays put while it has a step.
Spec == Init /\ [][Next]_vars /\ WF_vars(Walk)

-----------------------------------------------------------------------------
\* No namespace's tables are migrated twice, whatever the catalog lists: the
\* same namespace under two parents, under itself, or twice in one listing.
NoNamespaceTwice ==
  \A m, n \in DOMAIN batches : batches[m] = batches[n] => m = n

\* S is closed under the listings of the catalog as it was at the start.
ClosedUnder(S) ==
  /\ Elements(initial[Root]) \subseteq S
  /\ \A ns \in S : Elements(initial[ns]) \subseteq S

\* A selection that succeeds has every namespace that existed, at any depth,
\* when it began; creations during the walk hide none (main.go:373).
EveryNamespaceSelected == pc = "done" => ClosedUnder(Elements(batches))

\* Even on a catalog whose listings are cyclic the walk ends (main.go:377).
WalkEnds == <>(pc \in {"done", "failed"})
=============================================================================
