------------------------- MODULE PrefixMappingProofs -------------------------
(***************************************************************************)
(* Proofs about PrefixMapping, for every alphabet, pair of flags and path.   *)
(***************************************************************************)
EXTENDS PrefixMapping, TLAPS

LEMMA RestType ==
  ASSUME NEW s \in Seq(Char), NEW p \in Seq(Char), HasPrefix(s, p)
  PROVE  Rest(s, p) \in Seq(Char) /\ Len(Rest(s, p)) = Len(s) - Len(p)
<1> DEFINE m == Len(s) - Len(p)
<1>1. m \in Nat
  BY DEF HasPrefix
<1>2. \A n \in 1..m : s[n + Len(p)] \in Char
  BY <1>1
<1>3. Rest(s, p) \in [1..m -> Char]
  BY <1>2 DEF Rest
<1> QED
  BY <1>1, <1>3 DEF Rest

\* Two prefixes of one string are nested.
LEMMA PrefixesOfOne ==
  ASSUME NEW s \in Seq(Char), NEW p \in Seq(Char), NEW q \in Seq(Char),
         HasPrefix(s, p), HasPrefix(s, q)
  PROVE  HasPrefix(p, q) \/ HasPrefix(q, p)
BY DEF HasPrefix

\* Accepted flags classify a path: never both in scope and already moved.
LEMMA Exclusive ==
  ASSUME NEW s \in Seq(Char), NEW p \in Seq(Char), NEW q \in Seq(Char), Valid(p, q)
  PROVE  ~(HasPrefix(s, p) /\ HasPrefix(s, q))
BY PrefixesOfOne DEF Valid, Nested

LEMMA ConcatHasPrefix ==
  ASSUME NEW p \in Seq(Char), NEW r \in Seq(Char)
  PROVE  p \o r \in Seq(Char) /\ HasPrefix(p \o r, p)
BY DEF HasPrefix

\* The strengthening: after a run the flags are accepted, and the path is the
\* original one moved once.
IInv ==
  /\ TypeOK
  /\ pc = "run" => Valid(source, target)
  /\ runs > 0 => pc = "run"
  /\ runs = 0 => path = original
  /\ KeyKept

\* What a run makes of a path of any string.
LEMMA ApplyOnce ==
  ASSUME NEW p \in Seq(Char), TypeOK, Valid(source, target)
  PROVE  Apply(p) \in Seq(Char) /\ ~Matches(Apply(p))
<1> USE DEF TypeOK
<1>1. CASE Matches(p)
  <2>1. Rest(p, source) \in Seq(Char)
    BY <1>1, RestType DEF Matches
  <2>2. Apply(p) \in Seq(Char) /\ HasPrefix(Apply(p), target)
    BY <1>1, <2>1, ConcatHasPrefix DEF Apply
  <2> QED
    BY <2>2, Exclusive DEF Matches
<1>2. CASE ~Matches(p)
  BY <1>2 DEF Apply
<1> QED
  BY <1>1, <1>2

LEMMA InitInv == Init => IInv
BY StringsAssumption DEF Init, IInv, TypeOK, KeyKept

LEMMA NextInv == IInv /\ [Next]_vars => IInv'
<1> SUFFICES ASSUME IInv, [Next]_vars PROVE IInv'
  OBVIOUS
<1>1. CASE Validate
  BY <1>1 DEF Validate, IInv, TypeOK, KeyKept, Matches
<1>2. CASE Run
  <2>1. Valid(source, target) /\ TypeOK
    BY <1>2 DEF Run, IInv
  <2>2. path' \in Seq(Char)
    BY <1>2, <2>1, ApplyOnce DEF Run, TypeOK
  <2>3. runs' > 0 /\ runs' \in Nat
    BY <1>2, <2>1 DEF Run, TypeOK
  <2>4. KeyKept'
    <3>1. CASE runs = 0
      BY <1>2, <3>1 DEF Run, IInv, KeyKept, Apply, Matches
    <3>2. CASE runs > 0
      <4>1. path = Apply(original)
        BY <3>2 DEF IInv, KeyKept, Apply
      <4>2. ~Matches(path)
        BY <2>1, <4>1, ApplyOnce DEF TypeOK
      <4>3. path' = path
        BY <1>2, <4>2 DEF Run, Apply
      <4> QED
        BY <1>2, <3>2, <4>3 DEF Run, IInv, KeyKept, Matches
    <3> QED
      BY <2>1, <3>1, <3>2 DEF TypeOK
  <2> QED
    BY <1>2, <2>1, <2>2, <2>3, <2>4 DEF Run, IInv, TypeOK
<1>3. CASE UNCHANGED vars
  BY <1>3 DEF vars, IInv, TypeOK, KeyKept, Matches
<1> QED
  BY <1>1, <1>2, <1>3 DEF Next

LEMMA InvCorrect == Spec => []IInv
BY InitInv, NextInv, PTL DEF Spec

\* Accepted flags make every re-run a no-op.
THEOREM RerunsCorrect == Spec => []RerunsChangeNothing
<1>1. IInv => RerunsChangeNothing
  <2> SUFFICES ASSUME IInv, runs > 0 PROVE ~Matches(path)
    BY DEF RerunsChangeNothing
  <2>1. path = Apply(original)
    BY DEF IInv, KeyKept, Apply
  <2> QED
    BY <2>1, ApplyOnce DEF IInv, TypeOK
<1> QED
  BY <1>1, InvCorrect, PTL

\* A path keeps its key under the target prefix, or is never changed.
THEOREM KeyKeptCorrect == Spec => []KeyKept
<1>1. IInv => KeyKept
  BY DEF IInv
<1> QED
  BY <1>1, InvCorrect, PTL

\* The trailing slash keeps siblings of the source directory out of scope.
THEOREM SiblingsCorrect == Spec => []SiblingsUntouched
<1>1. IInv => SiblingsUntouched
  <2> SUFFICES ASSUME IInv, Sibling(original) PROVE path = original
    BY DEF SiblingsUntouched
  <2>1. CASE runs = 0
    BY <2>1 DEF IInv
  <2>2. CASE runs > 0
    <3>1. source[Len(source)] = Slash /\ source \in Seq(Char) /\ original \in Seq(Char)
      BY <2>2 DEF IInv, Valid, EndsInSlash, TypeOK
    <3>2. ~Matches(original)
      BY <3>1 DEF Sibling, Matches, HasPrefix
    <3> QED
      BY <2>2, <3>2 DEF IInv, KeyKept
  <2> QED
    BY <2>1, <2>2 DEF IInv, TypeOK
<1> QED
  BY <1>1, InvCorrect, PTL
=============================================================================
