------------------------- MODULE NamespaceWalkProofs -------------------------
(***************************************************************************)
(* Proofs that the walk selects every namespace there was, and none twice,   *)
(* for every number of namespaces and every catalog.                         *)
(***************************************************************************)
EXTENDS NamespaceWalk, TLAPS

\* Where a namespace's children are: found already, or still in the queue.
Pending == visited \cup Elements(queue)

\* all is visited in the order of the visits.
VisitsInv ==
  /\ visited = Elements(all)
  /\ \A m, n \in DOMAIN all : all[m] = all[n] => m = n
  /\ pc = "roots" => visited = {}

\* Nothing that was there at the start has got lost.
ClosureInv ==
  /\ \A p \in Parent : Elements(initial[p]) \subseteq Elements(children[p])
  /\ pc \in {"walk", "tables", "done"} => Elements(initial[Root]) \subseteq Pending
  /\ \A ns \in visited : Elements(initial[ns]) \subseteq Pending
  /\ pc \in {"tables", "done"} => queue = <<>>

\* batches is as much of all as has been listed.
BatchesInv ==
  /\ pc \in {"roots", "walk"} => batches = <<>>
  /\ Len(batches) <= Len(all)
  /\ \A n \in DOMAIN batches : batches[n] = all[n]
  /\ pc = "done" => Len(batches) = Len(all)

IInv == TypeOK /\ VisitsInv /\ ClosureInv /\ BatchesInv

-----------------------------------------------------------------------------
\* The elements of a queue after it is extended, shortened or appended to.
LEMMA ElementsConcat ==
  ASSUME NEW S, NEW s \in Seq(S), NEW t \in Seq(S)
  PROVE  /\ s \o t \in Seq(S)
         /\ Elements(s \o t) = Elements(s) \cup Elements(t)
<1> DEFINE c == s \o t
<1>1. c \in Seq(S) /\ Len(c) = Len(s) + Len(t)
  OBVIOUS
<1>2. \A n \in 1..Len(s) : c[n] = s[n]
  OBVIOUS
<1>3. \A n \in 1..Len(t) : c[Len(s) + n] = t[n] /\ Len(s) + n \in 1..Len(c)
  OBVIOUS
<1>4. \A n \in 1..Len(c) : n \in 1..Len(s) \/ (n - Len(s) \in 1..Len(t) /\ c[n] = t[n - Len(s)])
  OBVIOUS
<1>5. Elements(c) \subseteq Elements(s) \cup Elements(t)
  BY <1>1, <1>2, <1>4 DEF Elements
<1>6. Elements(s) \subseteq Elements(c)
  <2>1. DOMAIN s \subseteq DOMAIN c
    BY <1>1
  <2> QED
    BY <2>1, <1>1, <1>2 DEF Elements
<1>7. Elements(t) \subseteq Elements(c)
  <2>1. SUFFICES ASSUME NEW n \in 1..Len(t) PROVE t[n] \in Elements(c)
    BY DEF Elements
  <2>2. Len(s) + n \in DOMAIN c /\ c[Len(s) + n] = t[n]
    BY <1>1, <1>3
  <2> QED
    BY <2>2 DEF Elements
<1> QED
  BY <1>1, <1>5, <1>6, <1>7

LEMMA ElementsAppend ==
  ASSUME NEW S, NEW s \in Seq(S), NEW e \in S
  PROVE  /\ Append(s, e) \in Seq(S)
         /\ Elements(Append(s, e)) = Elements(s) \cup {e}
<1> DEFINE c == Append(s, e)
<1>1. c \in Seq(S) /\ Len(c) = Len(s) + 1 /\ c[Len(s) + 1] = e
  OBVIOUS
<1>2. \A n \in 1..Len(s) : c[n] = s[n]
  OBVIOUS
<1>3. \A n \in 1..Len(c) : n \in 1..Len(s) \/ n = Len(s) + 1
  BY <1>1
<1>4. DOMAIN s = 1..Len(s) /\ DOMAIN c = 1..Len(c) /\ 1..Len(s) \subseteq 1..Len(c)
      /\ Len(s) + 1 \in 1..Len(c)
  BY <1>1
<1>5. Elements(c) \subseteq Elements(s) \cup {e}
  BY <1>1, <1>2, <1>3, <1>4 DEF Elements
<1>6. Elements(s) \cup {e} \subseteq Elements(c)
  BY <1>1, <1>2, <1>4 DEF Elements
<1> QED
  BY <1>1, <1>5, <1>6

LEMMA ElementsTail ==
  ASSUME NEW S, NEW s \in Seq(S), s # <<>>
  PROVE  /\ Tail(s) \in Seq(S)
         /\ Head(s) \in S
         /\ Elements(s) = {Head(s)} \cup Elements(Tail(s))
<1> DEFINE c == Tail(s)
<1>1. c \in Seq(S) /\ Len(c) = Len(s) - 1 /\ Len(s) \in Nat \ {0} /\ Head(s) = s[1] /\ s[1] \in S
  OBVIOUS
<1>2. \A n \in 1..Len(c) : c[n] = s[n + 1] /\ n + 1 \in 1..Len(s)
  OBVIOUS
<1>3. \A n \in 1..Len(s) : n = 1 \/ (n - 1 \in 1..Len(c) /\ s[n] = c[n - 1])
  OBVIOUS
<1>4. Elements(s) \subseteq {Head(s)} \cup Elements(c)
  <2>1. SUFFICES ASSUME NEW n \in 1..Len(s) PROVE s[n] \in {Head(s)} \cup Elements(c)
    BY DEF Elements
  <2>2. DOMAIN c = 1..Len(c)
    BY <1>1
  <2> QED
    BY <1>1, <1>3, <2>2 DEF Elements
<1>5. {Head(s)} \cup Elements(c) \subseteq Elements(s)
  BY <1>1, <1>2 DEF Elements
<1> QED
  BY <1>1, <1>4, <1>5

-----------------------------------------------------------------------------
LEMMA InitInv == Init => IInv
<1> SUFFICES ASSUME Init PROVE IInv
  OBVIOUS
<1>1. initial \in [Parent -> Seq(Namespace)]
  BY ListingsAssumption DEF Init
<1>2. Elements(<<>>) = {}
  BY DEF Elements
<1> QED
  BY <1>1, <1>2 DEF Init, IInv, TypeOK, VisitsInv, ClosureInv, BatchesInv

LEMMA NextInv == IInv /\ [Next]_vars => IInv'
<1> SUFFICES ASSUME IInv, [Next]_vars PROVE IInv'
  OBVIOUS
<1> USE DEF IInv, TypeOK, VisitsInv, ClosureInv, BatchesInv, Pending
<1>1. CASE ListRoots
  <2>1. Elements(initial[Root]) \subseteq Elements(children[Root]) /\ children[Root] \in Seq(Namespace)
    BY DEF Parent
  <2> QED
    BY <1>1, <2>1 DEF ListRoots
<1>2. CASE Skip
  <2>1. /\ queue' \in Seq(Namespace)
        /\ Elements(queue) = {Head(queue)} \cup Elements(queue')
    BY <1>2, ElementsTail DEF Skip, Popped
  <2>2. Pending' = Pending
    BY <1>2, <2>1 DEF Skip, Visited
  <2> QED
    BY <1>2, <2>1, <2>2 DEF Skip
<1>3. CASE Visit
  <2> DEFINE ns == Head(queue)
  <2>1. /\ Tail(queue) \in Seq(Namespace)
        /\ ns \in Namespace
        /\ Elements(queue) = {ns} \cup Elements(Tail(queue))
    BY <1>3, ElementsTail DEF Visit
  <2>2. ns \in Parent /\ children[ns] \in Seq(Namespace)
    BY <2>1 DEF Parent
  <2>3. /\ queue' \in Seq(Namespace)
        /\ Elements(queue') = Elements(Tail(queue)) \cup Elements(children[ns])
    <3>1. queue' = Tail(queue) \o children[ns]
      BY <1>3 DEF Visit, Enqueued
    <3> DEFINE rest == Tail(queue)
               found == children[ns]
    <3>2. rest \in Seq(Namespace) /\ found \in Seq(Namespace)
      BY <2>1, <2>2
    <3> HIDE DEF rest, found
    <3>3. /\ rest \o found \in Seq(Namespace)
          /\ Elements(rest \o found) = Elements(rest) \cup Elements(found)
      BY <3>2, ElementsConcat
    <3> QED
      BY <3>1, <3>3 DEF rest, found
  <2>4. /\ all' \in Seq(Namespace)
        /\ Elements(all') = Elements(all) \cup {ns}
    BY <1>3, <2>1, ElementsAppend DEF Visit
  <2>5. visited' = visited \cup {ns} /\ ns \notin visited
    BY <1>3 DEF Visit, Visited
  <2>6. Elements(children[ns]) \subseteq Pending' /\ Pending \subseteq Pending'
    BY <2>1, <2>3, <2>5
  <2>7. TypeOK'
    BY <1>3, <2>1, <2>3, <2>4, <2>5 DEF Visit
  <2>8. VisitsInv'
    <3>1. /\ all' = Append(all, ns)
          /\ Len(all') = Len(all) + 1
          /\ all'[Len(all) + 1] = ns
          /\ \A n \in 1..Len(all) : all'[n] = all[n] /\ all[n] # ns
      BY <1>3, <2>1, <2>5 DEF Visit, Elements
    <3>2. \A m, n \in DOMAIN all' : all'[m] = all'[n] => m = n
      BY <3>1, <2>4
    <3> QED
      BY <1>3, <2>4, <2>5, <3>2 DEF Visit
  <2>9. ClosureInv'
    BY <1>3, <2>2, <2>5, <2>6 DEF Visit
  <2>10. BatchesInv'
    BY <1>3, <2>4 DEF Visit
  <2> QED
    BY <2>7, <2>8, <2>9, <2>10
<1>4. CASE WalkDone
  BY <1>4 DEF WalkDone
<1>5. CASE ListTables
  <2>1. Len(batches) + 1 \in DOMAIN all /\ all[Len(batches) + 1] \in Namespace
    BY <1>5 DEF ListTables
  <2>2. /\ batches' \in Seq(Namespace)
        /\ Len(batches') = Len(batches) + 1
        /\ \A n \in DOMAIN batches' : batches'[n] = all[n]
    BY <1>5, <2>1 DEF ListTables
  <2> QED
    BY <1>5, <2>1, <2>2 DEF ListTables
<1>6. CASE Selected
  BY <1>6 DEF Selected
<1>7. CASE Fail
  <2>1. batches' = <<>> /\ Len(batches') = 0 /\ DOMAIN batches' = {}
    BY <1>7 DEF Fail
  <2> QED
    BY <1>7, <2>1 DEF Fail
<1>8. CASE Create
  <2>1. PICK p \in Parent, ns \in Namespace :
          children' = [children EXCEPT ![p] = Append(@, ns)]
    BY <1>8 DEF Create
  <2>2. children' \in [Parent -> Seq(Namespace)]
    BY <2>1, ElementsAppend
  <2>3. \A q \in Parent : Elements(children[q]) \subseteq Elements(children'[q])
    BY <2>1, ElementsAppend
  <2> QED
    BY <1>8, <2>2, <2>3, CreatesAssumption DEF Create
<1>9. CASE UNCHANGED vars
  BY <1>9 DEF vars
<1> QED
  BY <1>1, <1>2, <1>3, <1>4, <1>5, <1>6, <1>7, <1>8, <1>9 DEF Next, Walk

LEMMA BatchesPrefix ==
  IInv => /\ DOMAIN batches \subseteq DOMAIN all
          /\ Len(batches) = Len(all) => DOMAIN batches = DOMAIN all
<1> SUFFICES ASSUME IInv PROVE /\ DOMAIN batches \subseteq DOMAIN all
                               /\ Len(batches) = Len(all) => DOMAIN batches = DOMAIN all
  OBVIOUS
<1>1. DOMAIN batches = 1..Len(batches) /\ DOMAIN all = 1..Len(all)
      /\ Len(batches) \in Nat /\ Len(all) \in Nat
  BY DEF IInv, TypeOK
<1>2. Len(batches) <= Len(all)
  BY DEF IInv, BatchesInv
<1>3. 1..Len(batches) \subseteq 1..Len(all)
  BY <1>1, <1>2
<1> QED
  BY <1>1, <1>3

\* IInv holds in every reachable state.
LEMMA Invariance == Spec => []IInv
  BY InitInv, NextInv, PTL DEF Spec

\* The variables stay in their types.
THEOREM TypeCorrect == Spec => []TypeOK
  BY Invariance, PTL DEF IInv

\* No namespace's tables are selected twice, whatever the catalog lists:
\* visited, and not the shape of the catalog, keeps main.go:392 from it.
THEOREM NoNamespaceTwiceCorrect == Spec => []NoNamespaceTwice
<1>1. IInv => NoNamespaceTwice
  BY BatchesPrefix DEF IInv, VisitsInv, BatchesInv, NoNamespaceTwice
<1> QED
  BY <1>1, Invariance, PTL

\* A selection that succeeds is closed under the listings of the catalog as it
\* was when the walk began: nothing reachable then is left out.
THEOREM EveryNamespaceCorrect == Spec => []EveryNamespaceSelected
<1>1. IInv => EveryNamespaceSelected
  <2> SUFFICES ASSUME IInv, pc = "done" PROVE ClosedUnder(Elements(batches))
    BY DEF EveryNamespaceSelected
  <2>1. Elements(batches) = visited
    BY BatchesPrefix DEF IInv, VisitsInv, BatchesInv, Elements
  <2>2. Pending = visited
    BY DEF IInv, ClosureInv, Pending, Elements
  <2> QED
    BY <2>1, <2>2 DEF IInv, ClosureInv, ClosedUnder
<1> QED
  BY <1>1, Invariance, PTL
=============================================================================
