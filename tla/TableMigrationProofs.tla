------------------------- MODULE TableMigrationProofs -------------------------
(***************************************************************************)
(* Proofs about TableMigration for every table, whatever its writers commit, *)
(* any storage faults and any number of processes.                          *)
(***************************************************************************)
EXTENDS TableMigration, SequenceTheorems, WellFoundedInduction, TLAPS

\* What a process walks and swaps is under the source prefix.
InScope == pc \in {"walk", "list", "manifest", "verify", "swap", "write"} => Matches(old)

LEMMA ApplyInScope ==
  ASSUME NEW u, Matches(u)
  PROVE  Apply(u).base = "target"
BY DEF Apply

LEMMA InitScope == Init => InScope
BY DEF Init, InScope

LEMMA NextScope == InScope /\ [Next]_vars => InScope'
<1> SUFFICES ASSUME InScope, [Next]_vars PROVE InScope'
  OBVIOUS
<1> USE DEF InScope, Matches, Finish
<1>1. CASE Load
  BY <1>1 DEF Load
<1>2. CASE OpenSnapshot \/ ReadManifest \/ RefuseEntry \/ PlainEntry
  BY <1>2 DEF OpenSnapshot, ReadManifest, RefuseEntry, PlainEntry, Mutate, NextSnapshot, Reported
<1>3. CASE DeleteFile
  BY <1>3 DEF DeleteFile, Mutate, Put, Reported
<1>4. CASE CloseManifest
  BY <1>4 DEF CloseManifest, Relist, Put
<1>5. CASE CloseList \/ RewriteMetadataJSON
  BY <1>5 DEF CloseList, RewriteMetadataJSON, NextSnapshot, Put
<1>6. CASE Verify
  BY <1>6 DEF Verify, Mutate, Relist, NextSnapshot, procVars, walkVars
<1>7. CASE Swap \/ Write
  BY <1>7 DEF Swap, Write, Swapped, procVars, walkVars
<1>8. CASE EndDryRun \/ Validate \/ Fail \/ Kill
  BY <1>8 DEF EndDryRun, Validate, Fail, Kill
<1>9. CASE Start \/ StartDry
  BY <1>9 DEF Start, StartDry, Boot
<1>10. CASE Commit \/ UNCHANGED vars
  BY <1>10 DEF Commit, vars, procVars, walkVars
<1> QED
  BY <1>1, <1>2, <1>3, <1>4, <1>5, <1>6, <1>7, <1>8, <1>9, <1>10 DEF Next, Process

LEMMA ScopeCorrect == Spec => []InScope
BY InitScope, NextScope, PTL DEF Spec

Spared == \A u \in URI : u.base # "target" => store'[u] = store[u]

\* A PUT at a target URI spares every other object.
LEMMA PutSpares ==
  ASSUME NEW level, NEW uri, NEW body, Put(level, uri, body), uri.base = "target",
         DOMAIN store = URI
  PROVE  Spared
BY DEF Put, Spared

\* Every step leaves storage alone, is the bulk copy's or the writers', or PUTs
\* one object.
LEMMA Writes ==
  ASSUME Next
  PROVE  \/ UNCHANGED store
         \/ DeleteFile \/ CloseManifest \/ CloseList \/ RewriteMetadataJSON
         \/ \E d \in BOOLEAN : Boot(d)
         \/ Commit
BY DEF Next, Process, Load, OpenSnapshot, ReadManifest, PlainEntry, RefuseEntry,
       EndDryRun, Verify, Swap, Write, Validate, Start, StartDry, Fail, Kill, NoPut

\* Storage stays a function on the same URIs.
LEMMA DomainCorrect == Spec => [](DOMAIN store = URI)
<1> DEFINE D == DOMAIN store = URI
<1>1. Init => D
  BY DEF Init, Copied
<1>2. D /\ [Next]_vars => D'
  <2> SUFFICES ASSUME D, Next PROVE D'
    BY DEF vars
  <2>1. CASE DeleteFile \/ CloseManifest \/ CloseList \/ RewriteMetadataJSON
    BY <2>1 DEF DeleteFile, CloseManifest, CloseList, RewriteMetadataJSON, NoPut, Put
  <2>2. ASSUME NEW d \in BOOLEAN, Boot(d) PROVE D'
    BY <2>2 DEF Boot, Recopied
  <2>3. CASE Commit
    BY <2>3 DEF Commit, Appended
  <2> QED
    BY <2>1, <2>2, <2>3, Writes
<1> QED
  BY <1>1, <1>2, PTL DEF Spec

\* Whatever the table, and whenever a process fails or dies, the program and
\* the bulk copy write no object outside the target prefix (ErrOutsidePrefix,
\* walker.go:63).
THEOREM SourceUntouchedCorrect == Spec => SourceUntouched
<1>1. InScope /\ DOMAIN store = URI /\ [Next]_vars => [Commit \/ Spared]_vars
  <2> SUFFICES ASSUME InScope, DOMAIN store = URI, Next, ~Commit PROVE Spared
    BY DEF vars, Spared
  <2>1. CASE UNCHANGED store
    BY <2>1 DEF Spared
  <2>2. CASE DeleteFile
    <3>1. UNCHANGED store \/ \E body : Put("delete", Apply(man[k].path), body)
      BY <2>2 DEF DeleteFile, NoPut
    <3>2. Matches(man[k].path)
      BY <2>2 DEF DeleteFile
    <3> QED
      BY <2>1, <3>1, <3>2, ApplyInScope, PutSpares
  <2>3. CASE CloseManifest
    <3>1. \/ UNCHANGED store
          \/ Matches(list[j].path) /\ \E body : Put("manifest", Apply(list[j].path), body)
      BY <2>3 DEF CloseManifest, NoPut, OutsidePrefix
    <3> QED
      BY <2>1, <3>1, ApplyInScope, PutSpares
  <2>4. CASE CloseList
    <3> DEFINE r == Metadata.refs[i]
    <3>1. \/ UNCHANGED store
          \/ /\ Apply(r.path) # r.path \/ Matches(r.path)
             /\ \E body : Put("list", Apply(r.path), body)
      BY <2>4 DEF CloseList, NoPut, OutsidePrefix
    <3>2. Apply(r.path) # r.path => Matches(r.path)
      BY DEF Apply
    <3> QED
      BY <2>1, <3>1, <3>2, ApplyInScope, PutSpares
  <2>5. CASE RewriteMetadataJSON
    <3>1. UNCHANGED store \/ \E body : Put("metadata", Apply(old), body)
      BY <2>5 DEF RewriteMetadataJSON, NoPut
    <3>2. Matches(old)
      BY <2>5 DEF RewriteMetadataJSON, InScope
    <3> QED
      BY <2>1, <3>1, <3>2, ApplyInScope, PutSpares
  <2>6. ASSUME NEW d \in BOOLEAN, Boot(d) PROVE Spared
    BY <2>6 DEF Boot, Recopied, Spared
  <2> QED
    BY <2>1, <2>2, <2>3, <2>4, <2>5, <2>6, Writes
<1> QED
  BY <1>1, ScopeCorrect, DomainCorrect, PTL DEF Spec, SourceUntouched, Spared

-----------------------------------------------------------------------------
(* Types *)

LEMMA ApplyType ==
  ASSUME NEW u \in URI
  PROVE  Apply(u) \in URI
BY DEF Apply, URI, Matches

LEMMA ApplyAllType ==
  ASSUME NEW S \in SUBSET URI
  PROVE  ApplyAll(S) \in SUBSET URI
BY ApplyType DEF ApplyAll

LEMMA RefFields ==
  ASSUME NEW r \in Ref
  PROVE  /\ r.role \in Roles /\ r.snap \in Nat /\ r.path \in URI /\ r.len \in Nat
         /\ r.live \in BOOLEAN /\ r.bounds \in SUBSET URI /\ r.refd \in SUBSET URI
BY DEF Ref

LEMMA ElementType ==
  ASSUME NEW refs \in Seq(Ref), NEW n \in DOMAIN refs
  PROVE  refs[n] \in Ref /\ refs[n].path \in URI
BY RefFields

LEMMA NextElement ==
  ASSUME NEW S, NEW s \in Seq(S), NEW n \in Nat, n < Len(s)
  PROVE  n + 1 \in DOMAIN s /\ s[n + 1] \in S
OBVIOUS

LEMMA MovedType ==
  ASSUME NEW e \in Ref
  PROVE  Moved(e) \in Ref
<1>1. Apply(e.path) \in URI /\ ApplyAll(e.refd) \in SUBSET URI
  BY RefFields, ApplyType, ApplyAllType
<1> QED
  BY <1>1 DEF Moved, Ref

LEMMA FixedUpType ==
  ASSUME NEW e \in Ref, NEW size \in Nat
  PROVE  FixedUp(e, size) \in Ref
<1>1. ApplyAll(e.bounds) \in SUBSET URI
  BY RefFields, ApplyAllType
<1> QED
  BY <1>1 DEF FixedUp, Ref

LEMMA RelistedType ==
  ASSUME NEW r \in Ref, NEW uri \in URI, NEW size \in Nat
  PROVE  Relisted(r, uri, size) \in Ref
BY DEF Relisted, Ref

\* A sequence of references stays one when each becomes another reference.
LEMMA MappedType ==
  ASSUME NEW refs \in Seq(Ref), NEW image, DOMAIN image = DOMAIN refs,
         image = [n \in DOMAIN refs |-> image[n]],
         \A n \in DOMAIN refs : image[n] \in Ref
  PROVE  image \in Seq(Ref)
<1>1. PICK m \in Nat : refs \in [1..m -> Ref]
  BY SeqDef
<1>2. image \in [1..m -> Ref]
  BY <1>1
<1> QED
  BY <1>2, SeqDef

LEMMA MovedAllType ==
  ASSUME NEW refs \in Seq(Ref)
  PROVE  MovedAll(refs) \in Seq(Ref)
<1>1. \A n \in DOMAIN refs : Moved(refs[n]) \in Ref
  BY MovedType
<1> QED
  BY <1>1, MappedType DEF MovedAll

LEMMA RoundedType ==
  ASSUME NEW n \in Nat
  PROVE  Rounded(n) \in Nat
<1>1. n % 4 = 1 => n # 0
  OBVIOUS
<1> QED
  BY <1>1 DEF Rounded

LEMMA MarshalledType ==
  ASSUME NEW b \in Body
  PROVE  /\ Marshalled(b) \in Body
         /\ Marshalled(b).current = Rounded(b.current)
<1> DEFINE refs == Mapped(b.refs)
<1>1. b.refs \in Seq(Ref) /\ b.current \in Nat
  BY DEF Body
<1>2. refs \in Seq(Ref)
  BY <1>1, MovedAllType DEF Mapped
<1> HIDE DEF refs
<1>3. AsFloats(refs) \in Seq(Ref)
  <2>1. ASSUME NEW n \in DOMAIN refs
        PROVE  [refs[n] EXCEPT !.snap = Rounded(@)] \in Ref
    <3>1. refs[n] \in Ref /\ Rounded(refs[n].snap) \in Nat
      BY <1>2, RoundedType, RefFields
    <3> QED
      BY <3>1 DEF Ref
  <2> QED
    BY <1>2, <2>1, MappedType DEF AsFloats
<1>4. Marshalled(b) = [b EXCEPT !.refs = AsFloats(refs), !.current = Rounded(b.current)]
  BY DEF Marshalled, refs, Body
<1>5. Rounded(b.current) \in Nat
  BY <1>1, RoundedType
<1> QED
  BY <1>3, <1>4, <1>5 DEF Body

LEMMA MovedRowsType ==
  ASSUME NEW refs \in Seq(Ref)
  PROVE  MovedRows(refs) \in Seq(Ref)
<1>1. ASSUME NEW n \in DOMAIN refs
      PROVE  [refs[n] EXCEPT !.path = Apply(@)] \in Ref
  <2>1. refs[n] \in Ref /\ Apply(refs[n].path) \in URI
    BY ApplyType, RefFields
  <2> QED
    BY <2>1 DEF Ref
<1> QED
  BY <1>1, MappedType DEF MovedRows

\* A reference in hand is one of the sequence walked.
Indices ==
  /\ \/ pc \in {"list", "manifest"}
     \/ pc = "verify" /\ put.level \in {"delete", "manifest", "list"}
     => i \in DOMAIN Metadata.refs
  /\ pc = "manifest" \/ (pc = "verify" /\ put.level \in {"delete", "manifest"})
     => j \in DOMAIN list
  /\ pc = "verify" /\ put.level = "delete" => k \in DOMAIN man

\* A coming commit does not write over a metadata file in use.
Fresh ==
  \A c \in DOMAIN table.commits :
    c > commits => {pointer.key, old.key, new.key} \cap KeysOf(table.commits[c]) = {}

\* TypeOK by parts: storage and history, the walk in hand, the rest of a process.
StorageOK ==
  /\ table \in Tables
  /\ store \in [URI -> Body]
  /\ pointer \in URI
  /\ foretold \subseteq [of : URI, hits : SUBSET Hit]
CountsOK ==
  /\ commits \in Nat /\ faults \in Nat /\ runs \in Nat /\ dryRuns \in Nat
WalkOK ==
  /\ i \in Nat \ {0} /\ j \in Nat \ {0} /\ k \in Nat \ {0}
  /\ list \in Seq(Ref) /\ man \in Seq(Ref)
FlagsOK == dirty \in BOOLEAN /\ changed \in BOOLEAN
Object == [level : {"none", "delete", "manifest", "list", "metadata"},
           uri : URI, size : {Cut, Original, Reencoded}]
ProcessOK ==
  /\ pc \in {"down", "load", "walk", "list", "manifest", "verify", "swap", "write",
             "validate"}
  /\ dry \in BOOLEAN
  /\ old \in URI /\ new \in URI
  /\ put \in Object
  /\ hits \subseteq Hit
  /\ report \in Outcomes

LEMMA TypeParts == TypeOK <=> StorageOK /\ CountsOK /\ WalkOK /\ FlagsOK /\ ProcessOK
BY Zenon DEF TypeOK, StorageOK, CountsOK, WalkOK, FlagsOK, ProcessOK, Object

TypeInv ==
  /\ StorageOK /\ CountsOK /\ WalkOK /\ FlagsOK /\ ProcessOK
  /\ Indices /\ Fresh /\ InScope

LEMMA OriginType ==
  ASSUME NEW t, IsTable(t)
  PROVE  Origin(t) \in [URI -> Body]
<1>1. Nothing \in Body
  BY DEF Nothing, Body, Cut
<1> QED
  BY <1>1 DEF Origin, IsTable

LEMMA EmptyType == <<>> \in Seq(Ref)
OBVIOUS

LEMMA NoObjectType ==
  ASSUME table.metadata \in URI
  PROVE  NoObject \in Object
BY DEF NoObject, Object

\* What a writer's commit makes of storage.
LEMMA PlacedType ==
  ASSUME NEW s \in [URI -> Body], NEW u \in URI, NEW x \in Key
  PROVE  /\ Placed(s, u, x) \in URI /\ Placed(s, u, x).key = x
         /\ LET bases == {r.path.base : r \in {q \in RefsOf(s, u) : q.role = "location"}}
            IN Placed(s, u, x).base \in IF bases = {} THEN {u.base} ELSE bases
<1> DEFINE refs == s[u].refs
           hints == {refs[n].path.base : n \in {m \in DOMAIN refs : refs[m].role = "location"}}
           bases == {r.path.base : r \in {q \in RefsOf(s, u) : q.role = "location"}}
<1>1. refs \in Seq(Ref)
  BY DEF Body
<1>2. hints \subseteq {"source", "target", "elsewhere"}
  BY <1>1, RefFields DEF URI
<1>3. hints = bases
  BY DEF RefsOf
<1>4. (IF hints = {} THEN u.base ELSE CHOOSE h \in hints : TRUE)
        \in IF hints = {} THEN {u.base} ELSE hints
  <2> HIDE DEF hints
  <2> QED
    OBVIOUS
<1> QED
  BY <1>2, <1>3, <1>4 DEF Placed, URI

LEMMA OlderType ==
  ASSUME NEW s \in [URI -> Body], NEW u \in URI
  PROVE  /\ Older(s, u) \in Seq(Ref)
         /\ \/ Older(s, u) = <<>>
            \/ \E l \in RefsOf(s, u) : /\ l.snap = s[u].current /\ l.role = "list"
                                      /\ Older(s, u) = s[l.path].refs
<1> DEFINE refs == s[u].refs
           current == {n \in DOMAIN refs : refs[n].snap = s[u].current /\ refs[n].role = "list"}
<1>1. refs \in Seq(Ref)
  BY DEF Body
<1>2. CASE current = {}
  BY <1>2, EmptyType DEF Older
<1>3. CASE current # {}
  <2>1. PICK n \in current : Older(s, u) = s[refs[n].path].refs
    BY <1>3 DEF Older
  <2>2. n \in DOMAIN refs /\ refs[n] \in RefsOf(s, u) /\ refs[n].path \in URI
    BY <1>1, <2>1, ElementType DEF RefsOf
  <2> QED
    BY <2>1, <2>2 DEF Body
<1> QED
  BY <1>2, <1>3

CommitKeys == [meta : Key, list : Key, man : Key, data : Key]

LEMMA AppendedType ==
  ASSUME NEW s \in [URI -> Body], NEW u \in URI, NEW key \in CommitKeys
  PROVE  /\ Appended(s, u, key) \in [URI -> Body]
         /\ \A v \in URI : Appended(s, u, key)[v] = s[v] \/ Appended(s, u, key)[v].size = Original
         /\ \A v \in URI : v.key \notin KeysOf(key) => Appended(s, u, key)[v] = s[v]
         /\ \A v \in URI :
              v.base # Placed(s, u, key.meta).base => Appended(s, u, key)[v] = s[v]
<1> DEFINE refs == s[u].refs
           n == 1 + Len(refs)
           at(x) == Placed(s, u, x)
           data == Named("data", 0, at(key.data), Original)
           manifest == Named("manifest", 0, at(key.man), Original)
           snapshot == Named("list", n, at(key.list), 0)
           d == Written(<<>>, 0)
           m == Written(<<data>>, 0)
           l == Written(<<manifest>> \o Older(s, u), 0)
           md == Written(Append(refs, snapshot), n)
<1>1. /\ key.data \in Key /\ key.man \in Key /\ key.list \in Key /\ key.meta \in Key
      /\ KeysOf(key) = {key.meta, key.list, key.man, key.data}
  BY DEF CommitKeys, KeysOf
<1>2. /\ at(key.data) \in URI /\ at(key.man) \in URI /\ at(key.list) \in URI /\ at(key.meta) \in URI
      /\ at(key.data).key = key.data /\ at(key.man).key = key.man
      /\ at(key.list).key = key.list /\ at(key.meta).key = key.meta
  BY <1>1, PlacedType
<1>3. /\ at(key.data).base = at(key.meta).base /\ at(key.man).base = at(key.meta).base
      /\ at(key.list).base = at(key.meta).base
  BY DEF Placed
<1>4. refs \in Seq(Ref) /\ n \in Nat /\ Older(s, u) \in Seq(Ref)
  BY OlderType DEF Body
<1>5. Appended(s, u, key) = [s EXCEPT ![at(key.data)] = d, ![at(key.man)] = m,
                                     ![at(key.list)] = l, ![at(key.meta)] = md]
  BY DEF Appended
<1> HIDE DEF at
<1>6. data \in Ref /\ manifest \in Ref /\ snapshot \in Ref
  BY <1>2, <1>4 DEF Named, Ref, Roles, Original
<1>7. d \in Body /\ m \in Body /\ l \in Body /\ md \in Body
  <2> HIDE DEF data, manifest, snapshot, refs, n
  <2>1. /\ <<data>> \in Seq(Ref) /\ <<manifest>> \o Older(s, u) \in Seq(Ref)
        /\ Append(refs, snapshot) \in Seq(Ref)
    BY <1>4, <1>6
  <2> QED
    BY <1>4, <2>1, EmptyType DEF Written, Body, Original
<1>8. d.size = Original /\ m.size = Original /\ l.size = Original /\ md.size = Original
  BY DEF Written
<1> HIDE DEF d, m, l, md
<1>9. Appended(s, u, key) \in [URI -> Body]
  BY <1>2, <1>5, <1>7
<1>10. ASSUME NEW v \in URI
       PROVE  \/ Appended(s, u, key)[v] = s[v]
              \/ /\ v \in {at(key.data), at(key.man), at(key.list), at(key.meta)}
                 /\ Appended(s, u, key)[v] \in {d, m, l, md}
  BY <1>5
<1> QED
  BY <1>1, <1>2, <1>3, <1>8, <1>9, <1>10 DEF at

\* The keys of the next commit.
LEMMA CommitKey ==
  ASSUME StorageOK, CountsOK, Commit
  PROVE  /\ commits + 1 \in DOMAIN table.commits
         /\ table.commits[commits + 1] \in CommitKeys
<1>1. commits \in Nat /\ commits < Len(table.commits)
  BY DEF Commit, CountsOK
<1>2. table.commits \in Seq(CommitKeys)
  BY TablesAssumption DEF IsTable, StorageOK, CommitKeys
<1> QED
  BY <1>1, <1>2, NextElement

LEMMA InitType == Init => TypeInv
<1> SUFFICES ASSUME Init PROVE TypeInv
  OBVIOUS
<1>1. table \in Tables /\ table.metadata \in URI /\ IsTable(table)
  BY TablesAssumption DEF IsTable, Init
<1>2. store \in [URI -> Body]
  <2>1. PICK all \in BOOLEAN : store = Copied(table, all)
    BY DEF Init
  <2>2. \A u \in URI : [base |-> "source", key |-> u.key] \in URI
    BY DEF URI
  <2> QED
    BY <1>1, <2>1, <2>2, OriginType DEF Copied
<1>3. StorageOK /\ CountsOK
  BY <1>1, <1>2 DEF Init, StorageOK, CountsOK
<1>4. WalkOK
  BY EmptyType DEF Init, Idle, WalkOK
<1>5. FlagsOK /\ ProcessOK
  BY <1>1, NoObjectType DEF Init, Idle, FlagsOK, ProcessOK, Outcomes
<1>6. Fresh
  BY <1>1, TablesAssumption DEF IsTable, Init, Idle, Fresh
<1> QED
  BY <1>3, <1>4, <1>5, <1>6 DEF TypeInv, Indices, InScope, Init

\* The end of a process.
LEMMA FinishType ==
  ASSUME TypeInv, NEW o \in Outcomes, Finish(o),
         UNCHANGED <<table, store, foretold, commits, dryRuns, runs>>,
         pointer' \in {pointer, new, old}, faults' \in Nat
  PROVE  TypeInv'
<1>1. table \in Tables /\ table.metadata \in URI
  BY TablesAssumption DEF IsTable, TypeInv, StorageOK
<1>2. StorageOK' /\ CountsOK'
  BY DEF TypeInv, StorageOK, CountsOK, ProcessOK
<1>3. WalkOK'
  BY EmptyType DEF WalkOK, Finish
<1>4. FlagsOK' /\ ProcessOK'
  BY <1>1, NoObjectType DEF FlagsOK, ProcessOK, Finish
<1>5. Fresh'
  BY <1>1, TablesAssumption DEF IsTable, TypeInv, Fresh, Finish
<1> QED
  BY <1>2, <1>3, <1>4, <1>5 DEF TypeInv, Indices, InScope, Finish

\* A step within the process that moves no metadata.
LEMMA FreshKept ==
  ASSUME Fresh, UNCHANGED <<table, pointer, old, commits>>,
         new' = new \/ new'.key = old.key
  PROVE  Fresh'
BY DEF Fresh

LEMMA ChangesType ==
  ASSUME NEW u \in URI, NEW before \in Seq(Ref), NEW after
  PROVE  Changes(u, before, after) \subseteq Hit
BY DEF Changes, Hit

\* A PUT leaves the metadata walked alone.
LEMMA PutType ==
  ASSUME TypeInv, pc # "down", pc # "load", pc # "validate",
         NEW level \in {"delete", "manifest", "list", "metadata"}, NEW uri \in URI,
         uri.base = "target", NEW body \in Body, Put(level, uri, body),
         UNCHANGED <<table, pointer, foretold, commits, runs, dryRuns>>, new' \in URI
  PROVE  /\ StorageOK' /\ CountsOK' /\ WalkOK' /\ FlagsOK' /\ ProcessOK'
         /\ Metadata' = Metadata
<1>1. /\ [body EXCEPT !.size = Reencoded] \in Body
      /\ [body EXCEPT !.size = Cut] \in Body
  BY DEF Body
<1>2. StorageOK'
  BY <1>1 DEF Put, TypeInv, StorageOK
<1>3. CountsOK'
  BY DEF Put, TypeInv, CountsOK
<1>4. WalkOK'
  BY DEF Put, TypeInv, WalkOK
<1>5. FlagsOK' /\ ProcessOK'
  BY DEF Put, TypeInv, FlagsOK, ProcessOK, Object
<1>6. old # uri /\ old \in URI
  BY DEF TypeInv, InScope, Matches, ProcessOK
<1>7. Metadata' = Metadata
  BY <1>6 DEF Put, Metadata, TypeInv, StorageOK
<1> QED
  BY <1>2, <1>3, <1>4, <1>5, <1>7

\* Entry k of a manifest is rewritten, or reported.
LEMMA EntryType ==
  ASSUME TypeInv, pc \in {"manifest", "verify"}, j \in DOMAIN list,
         i \in DOMAIN Metadata.refs, UNCHANGED <<table, store, pointer, foretold, bounds>>,
         \/ pc = "manifest" /\ Reported
         \/ \E e \in Ref : Mutate(e)
  PROVE  TypeInv'
<1> USE DEF TypeInv
<1>1. /\ UNCHANGED <<dry, old, new, i, list, j, changed, put, report>>
      /\ pc' = "manifest" /\ k' = k + 1
  BY DEF Reported, Mutate
<1>2. StorageOK' /\ CountsOK'
  BY DEF StorageOK, CountsOK, bounds
<1>3. man' \in Seq(Ref)
  BY DEF Reported, Mutate, WalkOK
<1>4. WalkOK'
  BY <1>1, <1>3 DEF WalkOK
<1>5. hits' \subseteq Hit
  <2>1. list[j].path \in URI
    BY RefFields DEF WalkOK
  <2>2. EntryHits \subseteq Hit
    BY <2>1, ChangesType DEF EntryHits, WalkOK
  <2> QED
    BY <2>2 DEF Reported, Mutate, ProcessOK
<1>6. FlagsOK'
  BY DEF Reported, Mutate, FlagsOK
<1>p. ProcessOK'
  BY <1>1, <1>5 DEF ProcessOK
<1>7. Indices' /\ InScope'
  BY <1>1 DEF Indices, InScope, Metadata, Reported, Mutate
<1> QED
  BY <1>1, <1>2, <1>4, <1>6, <1>7, <1>p, FreshKept DEF bounds

\* Manifest j is dealt with.
LEMMA RelistType ==
  ASSUME TypeInv, pc \in {"manifest", "verify"}, j \in DOMAIN list,
         i \in DOMAIN Metadata.refs, NEW r \in Ref, Relist(r),
         UNCHANGED <<table, store, pointer, foretold, bounds>>
  PROVE  TypeInv'
<1> USE DEF TypeInv
<1>1. StorageOK' /\ CountsOK'
  BY DEF StorageOK, CountsOK, bounds
<1>2. list' \in Seq(Ref)
  BY DEF Relist, WalkOK
<1>3. WalkOK'
  BY <1>2 DEF Relist, WalkOK
<1>4. FlagsOK'
  BY DEF Relist, FlagsOK
<1>5. ProcessOK'
  BY DEF Relist, ProcessOK
<1>6. Indices'
  BY DEF Relist, Indices, Metadata
<1>7. InScope'
  BY DEF Relist, InScope, Indices
<1> QED
  BY <1>1, <1>3, <1>4, <1>5, <1>6, <1>7, FreshKept DEF Relist, bounds

LEMMA StepType == TypeInv /\ [Next]_vars => TypeInv'
<1> SUFFICES ASSUME TypeInv, [Next]_vars PROVE TypeInv'
  OBVIOUS
<1> USE DEF TypeInv
<1>s. InScope'
  BY NextScope
<1>o. \A u \in URI : store[u].refs \in Seq(Ref) /\ store[u].size \in Nat
  BY DEF StorageOK, Body, Cut, Original, Reencoded
<1>c. /\ UNCHANGED <<table, store, pointer, foretold>> => StorageOK'
      /\ UNCHANGED bounds => CountsOK'
  BY DEF StorageOK, CountsOK, bounds
<1>n. faults' \in {faults, faults + 1} => faults' \in Nat
  BY DEF CountsOK
<1>1. CASE Load
  <2>1. ASSUME NEW o \in Outcomes, Finish(o) PROVE TypeInv'
    BY <1>1, <1>n, <2>1, FinishType DEF Load, bounds
  <2>2. CASE pc' = "walk"
    <3>1. old' = pointer /\ pointer \in URI
          /\ UNCHANGED <<dry, new, i, list, j, man, k, dirty, changed, put, report>>
      BY <1>1, <2>2 DEF Load, Finish, StorageOK
    <3>2. hits' \subseteq Hit
      BY <1>1, <1>o, <2>2, <3>1, ChangesType DEF Load, Finish
    <3>3. UNCHANGED <<table, store, pointer, foretold, bounds>>
      BY <1>1 DEF Load
    <3>4. WalkOK' /\ FlagsOK' /\ ProcessOK' /\ Fresh'
      BY <2>2, <3>1, <3>2, <3>3 DEF WalkOK, FlagsOK, ProcessOK, Fresh, bounds
    <3> QED
      BY <1>c, <1>s, <2>2, <3>3, <3>4 DEF Indices
  <2> QED
    BY <1>1, <2>1, <2>2 DEF Load, Outcomes, Refusals
<1>2. CASE OpenSnapshot
  <2> DEFINE r == Metadata.refs[i]
  <2>1. i \in DOMAIN Metadata.refs /\ r \in Ref /\ r.path \in URI
    BY <1>2, <1>o, RefFields DEF OpenSnapshot, Metadata, ProcessOK, WalkOK
  <2>2. CASE Finish("failed")
    BY <1>2, <1>n, <2>2, FinishType DEF OpenSnapshot, Outcomes, bounds
  <2>3. CASE NextSnapshot
    <3>1. WalkOK' /\ FlagsOK' /\ ProcessOK' /\ Indices'
      BY <2>3 DEF NextSnapshot, WalkOK, FlagsOK, ProcessOK, Indices
    <3> QED
      BY <1>2, <1>c, <1>s, <2>3, <3>1, FreshKept DEF OpenSnapshot, NextSnapshot, bounds
  <2>4. CASE pc' = "list"
    <3>1. list' \in Seq(Ref)
      <4>1. CASE list' = store[r.path].refs
        BY <4>1, <1>o, <2>1
      <4>2. CASE list' = <<[r EXCEPT !.len = store[r.path].size]>>
        <5>1. [r EXCEPT !.len = store[r.path].size] \in Ref
          BY <1>o, <2>1 DEF Ref
        <5> QED
          BY <4>2, <5>1
      <4> QED
        BY <1>2, <2>4, <4>1, <4>2 DEF OpenSnapshot, NextSnapshot, Finish
    <3>2. hits' \subseteq Hit
      <4>1. Changes(r.path, store[r.path].refs, MovedAll(store[r.path].refs)) \subseteq Hit
        BY <1>o, <2>1, ChangesType
      <4> QED
        BY <1>2, <2>4, <4>1 DEF OpenSnapshot, NextSnapshot, Finish, ProcessOK
    <3>3. UNCHANGED <<dry, old, new, i, man, k, dirty, put, report>> /\ j' = 1 /\ changed' = FALSE
      BY <1>2, <2>4 DEF OpenSnapshot, NextSnapshot, Finish
    <3>4. UNCHANGED <<table, store, pointer, foretold, bounds>>
      BY <1>2 DEF OpenSnapshot
    <3>5. WalkOK'
      BY <3>1, <3>3 DEF WalkOK
    <3>p. FlagsOK' /\ ProcessOK'
      BY <2>4, <3>2, <3>3 DEF FlagsOK, ProcessOK
    <3>6. Indices'
      BY <2>1, <2>4, <3>3, <3>4 DEF Indices, Metadata
    <3> QED
      BY <1>c, <1>s, <3>3, <3>4, <3>5, <3>6, <3>p, FreshKept DEF bounds
  <2> QED
    BY <1>2, <2>2, <2>3, <2>4 DEF OpenSnapshot
<1>3. CASE ReadManifest
  <2>1. j \in DOMAIN list /\ list[j].path \in URI
    BY <1>3, RefFields DEF ReadManifest, WalkOK
  <2>2. CASE Finish("failed")
    BY <1>3, <1>n, <2>2, FinishType DEF ReadManifest, Outcomes, bounds
  <2>3. CASE pc' = "manifest"
    <3>1. man' = store[list[j].path].refs /\ k' = 1 /\ dirty' = FALSE
          /\ UNCHANGED <<dry, old, new, i, list, j, changed, put, hits, report>>
      BY <1>3, <2>3 DEF ReadManifest, Finish
    <3>2. UNCHANGED <<table, store, pointer, foretold, bounds>>
      BY <1>3 DEF ReadManifest
    <3>3. WalkOK'
      BY <1>o, <2>1, <3>1 DEF WalkOK
    <3>p. FlagsOK' /\ ProcessOK'
      BY <2>3, <3>1 DEF FlagsOK, ProcessOK
    <3>4. Indices'
      BY <1>3, <2>1, <2>3, <3>1, <3>2 DEF Indices, Metadata, ReadManifest
    <3> QED
      BY <1>c, <1>s, <3>1, <3>2, <3>3, <3>4, <3>p, FreshKept DEF bounds
  <2> QED
    BY <1>3, <2>2, <2>3 DEF ReadManifest
<1>4. CASE PlainEntry
  <2>1. k \in DOMAIN man /\ i \in DOMAIN Metadata.refs /\ j \in DOMAIN list /\ pc = "manifest"
    BY <1>4 DEF PlainEntry, WalkOK, Indices
  <2>2. Moved(man[k]) \in Ref
    BY <2>1, MovedType DEF WalkOK
  <2> QED
    BY <1>4, <2>1, <2>2, EntryType DEF PlainEntry, NoPut, bounds
<1>5. CASE RefuseEntry
  BY <1>5, <1>n, FinishType DEF RefuseEntry, Outcomes, Refusals, bounds
<1>6. CASE DeleteFile
  <2> DEFINE body == store[man[k].path]
             e == Moved(FixedUp(man[k], body.size))
             new_body == Avro(MovedRows(body.refs))
  <2>1. k \in DOMAIN man /\ i \in DOMAIN Metadata.refs /\ j \in DOMAIN list /\ pc = "manifest"
    BY <1>6 DEF DeleteFile, WalkOK, Indices
  <2>2. man[k] \in Ref /\ man[k].path \in URI
    BY <2>1, RefFields DEF WalkOK
  <2>3. ASSUME NEW o \in {"failed", "foreign"}, Finish(o), NoPut PROVE TypeInv'
    BY <1>6, <1>n, <2>3, FinishType DEF DeleteFile, NoPut, Outcomes, Refusals
  <2>4. e \in Ref
    BY <1>o, <2>2, FixedUpType, MovedType
  <2>5. CASE Reported /\ NoPut
    BY <1>6, <2>1, <2>5, EntryType DEF DeleteFile, NoPut, bounds
  <2>6. CASE Mutate(e) /\ NoPut
    BY <1>6, <2>1, <2>4, <2>6, EntryType DEF DeleteFile, NoPut, bounds
  <2>7. CASE Put("delete", Apply(man[k].path), new_body) /\ UNCHANGED new
    <3>1. new_body \in Body
      BY <1>o, <2>2, MovedRowsType DEF Avro, Body
    <3>2. Apply(man[k].path) \in URI /\ Apply(man[k].path).base = "target"
      BY <1>6, <2>2, ApplyType, ApplyInScope DEF DeleteFile
    <3>3. UNCHANGED <<table, pointer, foretold, commits, runs, dryRuns, old, i, list, j, man, k>>
      BY <1>6, <2>7 DEF DeleteFile, Put
    <3>4. /\ StorageOK' /\ CountsOK' /\ WalkOK' /\ FlagsOK' /\ ProcessOK'
          /\ Metadata' = Metadata
      BY <2>1, <2>7, <3>1, <3>2, <3>3, PutType DEF ProcessOK
    <3>5. Indices'
      BY <2>1, <2>7, <3>3, <3>4 DEF Indices
    <3> QED
      BY <1>s, <2>7, <3>3, <3>4, <3>5, FreshKept
  <2> QED
    BY <1>6, <2>3, <2>5, <2>6, <2>7 DEF DeleteFile
<1>7. CASE CloseManifest
  <2> DEFINE uri == list[j].path
             body == Avro([n \in DOMAIN man |-> Added(man[n])])
  <2>1. i \in DOMAIN Metadata.refs /\ j \in DOMAIN list /\ pc = "manifest"
    BY <1>7 DEF CloseManifest, Indices
  <2>2. list[j] \in Ref /\ uri \in URI
    BY <2>1, RefFields DEF WalkOK
  <2>3. CASE Finish("outside") /\ NoPut
    BY <1>7, <1>n, <2>3, FinishType DEF CloseManifest, NoPut, Outcomes, Refusals
  <2>4. CASE Relist(list[j]) /\ NoPut
    BY <1>7, <2>1, <2>2, <2>4, RelistType DEF CloseManifest, NoPut, bounds
  <2>5. CASE Put("manifest", Apply(uri), body) /\ UNCHANGED new /\ ~OutsidePrefix(uri)
    <3>1. body \in Body
      <4>1. [n \in DOMAIN man |-> Added(man[n])] = man
        BY DEF Added, WalkOK
      <4> QED
        BY <4>1 DEF Avro, Body, WalkOK
    <3>2. Apply(uri) \in URI /\ Apply(uri).base = "target"
      BY <2>2, <2>5, ApplyType, ApplyInScope DEF OutsidePrefix
    <3>3. UNCHANGED <<table, pointer, foretold, commits, runs, dryRuns, old, i, list, j, man, k>>
      BY <1>7, <2>5 DEF CloseManifest, Put
    <3>4. /\ StorageOK' /\ CountsOK' /\ WalkOK' /\ FlagsOK' /\ ProcessOK'
          /\ Metadata' = Metadata
      BY <2>1, <2>5, <3>1, <3>2, <3>3, PutType DEF ProcessOK
    <3>5. Indices'
      BY <2>1, <2>5, <3>3, <3>4 DEF Indices, Put
    <3> QED
      BY <1>s, <2>5, <3>3, <3>4, <3>5, FreshKept
  <2> QED
    BY <1>7, <2>3, <2>4, <2>5 DEF CloseManifest
<1>8. CASE CloseList
  <2> DEFINE r == Metadata.refs[i]
  <2>1. i \in DOMAIN Metadata.refs /\ pc = "list" /\ r \in Ref /\ r.path \in URI
    BY <1>8, <1>o, RefFields DEF CloseList, Indices, Metadata, ProcessOK
  <2>2. CASE Finish("outside") /\ NoPut
    BY <1>8, <1>n, <2>2, FinishType DEF CloseList, NoPut, Outcomes, Refusals
  <2>3. CASE NextSnapshot /\ NoPut
    <3>1. WalkOK' /\ FlagsOK' /\ ProcessOK' /\ Indices'
      BY <2>3 DEF NextSnapshot, WalkOK, FlagsOK, ProcessOK, Indices
    <3>2. UNCHANGED <<table, store, pointer, foretold, bounds>>
      BY <1>8, <2>3 DEF CloseList, NoPut, bounds
    <3> QED
      BY <1>c, <1>s, <2>3, <3>1, <3>2, FreshKept DEF NextSnapshot, bounds
  <2>4. CASE Put("list", Apply(r.path), Avro(list)) /\ UNCHANGED new /\ Matches(r.path)
    <3>1. Avro(list) \in Body
      BY DEF Avro, Body, WalkOK
    <3>2. Apply(r.path) \in URI /\ Apply(r.path).base = "target"
      BY <2>1, <2>4, ApplyType, ApplyInScope
    <3>3. UNCHANGED <<table, pointer, foretold, commits, runs, dryRuns, old, i, list, j, man, k>>
      BY <1>8, <2>4 DEF CloseList, Put
    <3>4. /\ StorageOK' /\ CountsOK' /\ WalkOK' /\ FlagsOK' /\ ProcessOK'
          /\ Metadata' = Metadata
      BY <2>1, <2>4, <3>1, <3>2, <3>3, PutType DEF ProcessOK
    <3>5. Indices'
      BY <2>1, <2>4, <3>3, <3>4 DEF Indices, Put
    <3> QED
      BY <1>s, <2>4, <3>3, <3>4, <3>5, FreshKept
  <2>5. Apply(r.path) # r.path \/ ~OutsidePrefix(r.path) => Matches(r.path)
    BY DEF Apply, OutsidePrefix
  <2> QED
    BY <1>8, <2>2, <2>3, <2>4, <2>5 DEF CloseList
<1>9. CASE EndDryRun
  <2>1. [of |-> old, hits |-> hits] \in [of : URI, hits : SUBSET Hit]
    BY DEF ProcessOK
  <2>2. StorageOK'
    BY <1>9, <2>1 DEF EndDryRun, StorageOK
  <2>3. table.metadata \in URI
    BY TablesAssumption DEF IsTable, StorageOK
  <2>4. WalkOK'
    BY <1>9, EmptyType DEF EndDryRun, Finish, WalkOK
  <2>5. FlagsOK' /\ ProcessOK'
    BY <1>9, <2>3, NoObjectType DEF EndDryRun, Finish, FlagsOK, ProcessOK, Outcomes
  <2>6. Fresh'
    BY <1>9, TablesAssumption DEF IsTable, EndDryRun, Finish, Fresh, StorageOK, bounds
  <2> QED
    BY <1>9, <1>c, <1>s, <2>2, <2>4, <2>5, <2>6 DEF EndDryRun, Finish, Indices
<1>10. CASE RewriteMetadataJSON
  <2> DEFINE body == Marshalled(Metadata)
  <2>1. Matches(old) /\ old \in URI /\ pc = "walk" /\ Metadata \in Body
    BY <1>10 DEF RewriteMetadataJSON, InScope, ProcessOK, StorageOK, Metadata
  <2>2. CASE Finish("failed") /\ NoPut
    BY <1>10, <1>n, <2>2, FinishType DEF RewriteMetadataJSON, NoPut, Outcomes
  <2>3. CASE /\ new' = old /\ pc' = "swap" /\ NoPut
             /\ UNCHANGED <<dry, old, i, list, j, man, k, dirty, changed, put, hits, report>>
    <3>1. UNCHANGED <<table, store, pointer, foretold, bounds>>
      BY <1>10, <2>3 DEF RewriteMetadataJSON, NoPut, bounds
    <3>2. WalkOK' /\ FlagsOK' /\ ProcessOK' /\ Indices'
      BY <2>1, <2>3 DEF WalkOK, FlagsOK, ProcessOK, Indices
    <3> QED
      BY <1>c, <1>s, <2>3, <3>1, <3>2, FreshKept DEF bounds
  <2>4. CASE Put("metadata", Apply(old), body) /\ new' = Apply(old)
    <3>1. body \in Body
      BY <2>1, MarshalledType
    <3>2. Apply(old) \in URI /\ Apply(old).base = "target" /\ Apply(old).key = old.key
      BY <2>1, ApplyType DEF Apply
    <3>3. UNCHANGED <<table, pointer, foretold, commits, runs, dryRuns, old>>
      BY <1>10, <2>4 DEF RewriteMetadataJSON, Put
    <3>4. /\ StorageOK' /\ CountsOK' /\ WalkOK' /\ FlagsOK' /\ ProcessOK'
          /\ Metadata' = Metadata
      BY <2>1, <2>4, <3>1, <3>2, <3>3, PutType DEF ProcessOK
    <3>5. Indices'
      BY <2>4 DEF Indices, Put
    <3> QED
      BY <1>s, <2>4, <3>2, <3>3, <3>4, <3>5, FreshKept
  <2> QED
    BY <1>10, <2>2, <2>3, <2>4 DEF RewriteMetadataJSON
<1>11. CASE Verify
  <2>1. put.uri \in URI /\ put.size \in Nat /\ pc = "verify"
    BY <1>11 DEF Verify, ProcessOK, Object, Cut, Original, Reencoded
  <2>2. UNCHANGED <<table, store, pointer, foretold, bounds>>
    BY <1>11 DEF Verify
  <2>3. CASE Finish("failed")
    BY <1>n, <2>2, <2>3, FinishType DEF Outcomes, bounds
  <2>4. CASE put.level = "delete" /\ Mutate(Moved(FixedUp(man[k], put.size)))
    <3>1. k \in DOMAIN man /\ i \in DOMAIN Metadata.refs /\ j \in DOMAIN list
      BY <2>1, <2>4 DEF Indices
    <3>2. Moved(FixedUp(man[k], put.size)) \in Ref
      BY <2>1, <3>1, FixedUpType, MovedType DEF WalkOK
    <3> QED
      BY <2>1, <2>2, <2>4, <3>1, <3>2, EntryType
  <2>5. CASE put.level = "manifest" /\ Relist(Relisted(list[j], put.uri, put.size))
    <3>1. i \in DOMAIN Metadata.refs /\ j \in DOMAIN list
      BY <2>1, <2>5 DEF Indices
    <3>2. Relisted(list[j], put.uri, put.size) \in Ref
      BY <2>1, <3>1, RelistedType DEF WalkOK
    <3> QED
      BY <2>1, <2>2, <2>5, <3>1, <3>2, RelistType
  <2>6. CASE put.level = "list" /\ NextSnapshot
    <3>1. WalkOK' /\ FlagsOK' /\ ProcessOK' /\ Indices'
      BY <2>6 DEF NextSnapshot, WalkOK, FlagsOK, ProcessOK, Indices
    <3> QED
      BY <1>c, <1>s, <2>2, <2>6, <3>1, FreshKept DEF NextSnapshot, bounds
  <2>7. CASE pc' = "swap" /\ UNCHANGED <<procVars, report>>
    <3>1. WalkOK' /\ FlagsOK' /\ ProcessOK' /\ Indices'
      BY <2>7 DEF procVars, walkVars, WalkOK, FlagsOK, ProcessOK, Indices
    <3> QED
      BY <1>c, <1>s, <2>2, <2>7, <3>1, FreshKept DEF procVars, walkVars, bounds
  <2> QED
    BY <1>11, <2>3, <2>4, <2>5, <2>6, <2>7 DEF Verify
<1>12. CASE Swap \/ Write
  <2>1. faults' \in Nat /\ pointer' \in {pointer, new, old}
    BY <1>12, <1>n DEF Swap, Write, bounds
  <2>2. ASSUME NEW o \in Outcomes, Finish(o) PROVE TypeInv'
    BY <1>12, <2>1, <2>2, FinishType DEF Swap, Write, bounds
  <2>3. CASE pc' \in {"write", "validate"} /\ UNCHANGED <<procVars, report>>
    <3>1. UNCHANGED <<table, store, foretold, commits, runs, dryRuns>>
      BY <1>12 DEF Swap, Write, bounds
    <3>2. StorageOK' /\ CountsOK' /\ WalkOK' /\ FlagsOK' /\ ProcessOK'
      BY <2>1, <2>3, <3>1 DEF StorageOK, CountsOK, WalkOK, FlagsOK, ProcessOK, procVars, walkVars
    <3>3. Fresh'
      BY <2>1, <2>3, <3>1 DEF Fresh, procVars, walkVars
    <3> QED
      BY <1>s, <2>3, <3>2, <3>3 DEF Indices
  <2> QED
    BY <1>12, <2>2, <2>3 DEF Swap, Write, Swapped, Outcomes
<1>13. CASE Validate
  <2>1. PICK o \in Outcomes : Finish(o)
    BY <1>13 DEF Validate, Outcomes
  <2> QED
    BY <1>13, <1>n, <2>1, FinishType DEF Validate, bounds
<1>14. CASE Start \/ StartDry
  <2>1. PICK d \in BOOLEAN : Boot(d)
    BY <1>14 DEF Start, StartDry
  <2>2. store' \in [URI -> Body]
    <3>1. \A u \in URI : [u EXCEPT !.base = "source"] \in URI
      BY DEF URI
    <3> QED
      BY <2>1, <3>1 DEF Boot, Recopied, StorageOK
  <2>3. CountsOK'
    BY <1>14, <2>1 DEF Start, StartDry, Boot, CountsOK
  <2>4. StorageOK' /\ WalkOK' /\ FlagsOK' /\ ProcessOK' /\ Indices'
    BY <2>1, <2>2 DEF Boot, StorageOK, WalkOK, FlagsOK, ProcessOK, Indices, walkVars
  <2> QED
    BY <1>s, <2>1, <2>3, <2>4, FreshKept DEF Boot, walkVars
<1>15. CASE Fail \/ Kill
  <2>1. PICK o \in Outcomes : Finish(o)
    BY <1>15 DEF Fail, Kill, Outcomes
  <2> QED
    BY <1>15, <1>n, <2>1, FinishType DEF Fail, Kill
<1>16. CASE Commit
  <2> DEFINE key == table.commits[commits + 1]
             at(x) == Placed(store, pointer, x)
  <2>1. /\ commits + 1 \in DOMAIN table.commits
        /\ key \in CommitKeys
    BY <1>16, <1>s, CommitKey
  <2>2. store \in [URI -> Body] /\ pointer \in URI
    BY <1>s DEF StorageOK
  <2>3. /\ Appended(store, pointer, key) \in [URI -> Body]
        /\ at(key.meta) \in URI /\ at(key.meta).key = key.meta
        /\ \A u \in URI : u.key \notin KeysOf(key) => Appended(store, pointer, key)[u] = store[u]
    <3>1. key.meta \in Key
      BY <2>1 DEF CommitKeys
    <3> QED
      <4> HIDE DEF key
      <4>1. /\ Appended(store, pointer, key) \in [URI -> Body]
            /\ \A u \in URI : u.key \notin KeysOf(key) => Appended(store, pointer, key)[u] = store[u]
        BY <2>1, <2>2, AppendedType
      <4>2. at(key.meta) \in URI /\ at(key.meta).key = key.meta
        BY <2>2, <3>1, PlacedType
      <4> QED
        BY <4>1, <4>2
  <2>4. /\ store' = Appended(store, pointer, key) /\ pointer' = at(key.meta)
        /\ commits' = commits + 1
        /\ UNCHANGED <<table, pc, procVars, report, foretold, faults, runs, dryRuns>>
    BY <1>16 DEF Commit
  <2> HIDE DEF at
  <2>5. StorageOK' /\ CountsOK'
    BY <2>3, <2>4 DEF StorageOK, CountsOK
  <2>6. WalkOK' /\ FlagsOK' /\ ProcessOK'
    BY <2>4 DEF procVars, walkVars, WalkOK, FlagsOK, ProcessOK
  <2>7. Metadata' = Metadata
    <3>1. old.key \notin KeysOf(key)
      BY <2>1 DEF Fresh, CountsOK
    <3> QED
      BY <2>3, <2>4, <3>1 DEF Metadata, ProcessOK, procVars
  <2>8. Indices'
    BY <2>4, <2>7 DEF Indices, procVars, walkVars
  <2>9. Fresh'
    <3> SUFFICES ASSUME NEW c \in DOMAIN table.commits, c > commits + 1
                 PROVE  {key.meta, old.key, new.key} \cap KeysOf(table.commits[c]) = {}
      BY <2>3, <2>4 DEF Fresh, procVars, walkVars
    <3>1. c \in Nat /\ commits \in Nat
      BY TablesAssumption DEF IsTable, StorageOK, CountsOK
    <3>2. {old.key, new.key} \cap KeysOf(table.commits[c]) = {}
      BY <3>1 DEF Fresh
    <3>3. key.meta \in KeysOf(key) /\ commits + 1 \in 1..(c - 1)
      BY <3>1 DEF KeysOf
    <3>4. key.meta \notin KeysOf(table.commits[c])
      <4>1. \A x \in KeysOf(table.commits[c]) : x \notin KeysOf(table.commits[commits + 1])
        BY <3>3, TablesAssumption DEF IsTable, StorageOK
      <4> QED
        BY <3>3, <4>1
    <3> QED
      BY <3>2, <3>4
  <2> QED
    BY <1>s, <2>5, <2>6, <2>8, <2>9
<1>17. CASE UNCHANGED vars
  <2> USE <1>17 DEF vars, procVars, walkVars, bounds
  <2>1. WalkOK' /\ FlagsOK' /\ ProcessOK'
    BY DEF WalkOK, FlagsOK, ProcessOK
  <2>2. Indices'
    BY DEF Indices, Metadata
  <2>3. Fresh'
    BY DEF Fresh
  <2> QED
    BY <1>c, <1>s, <2>1, <2>2, <2>3
<1> QED
  BY <1>1, <1>2, <1>3, <1>4, <1>5, <1>6, <1>7, <1>8, <1>9, <1>10, <1>11, <1>12, <1>13, <1>14,
     <1>15, <1>16, <1>17 DEF Next, Process

\* Whatever processes read, write and leave behind, and writers commit, every
\* variable keeps its type: in particular no mapping makes anything but a URI of
\* a URI.
THEOREM TypeCorrect == Spec => []TypeOK
<1>1. TypeInv => TypeOK
  BY TypeParts DEF TypeInv
<1> QED
  BY <1>1, InitType, StepType, PTL DEF Spec

-----------------------------------------------------------------------------
(* Validation *)

\* The metadata about to be swapped in is there, with the current snapshot of
\* that walked, as a float64.
Checked ==
  /\ pc \in {"swap", "write", "validate"} => Exists(new)
  /\ pc = "verify" /\ put.level = "metadata" => put.uri = new /\ put.size = Reencoded
  /\ pc \in {"swap", "write", "validate"} \/ (pc = "verify" /\ put.level = "metadata") =>
       new = old \/ store[new].current = Rounded(Metadata.current)

\* A commit removes no object, and none of a walk's metadata.
LEMMA CommitSpares ==
  ASSUME TypeInv, Commit
  PROVE  /\ \A u \in URI : Exists(u) => Exists(u)'
         /\ store'[new] = store[new] /\ store'[old] = store[old]
<1> DEFINE key == table.commits[commits + 1]
<1>1. key \in CommitKeys
  BY CommitKey DEF TypeInv
<1>2. store \in [URI -> Body] /\ pointer \in URI /\ store' = Appended(store, pointer, key)
  BY DEF TypeInv, StorageOK, Commit
<1> HIDE DEF key
<1>3. /\ \A u \in URI : store'[u] = store[u] \/ store'[u].size = Original
      /\ \A u \in URI : u.key \notin KeysOf(key) => store'[u] = store[u]
  BY <1>1, <1>2, AppendedType
<1>4. {old.key, new.key} \cap KeysOf(key) = {} /\ old \in URI /\ new \in URI
  BY CommitKey DEF TypeInv, Fresh, CountsOK, ProcessOK, key
<1> QED
  BY <1>3, <1>4 DEF Exists, Original, Cut

LEMMA StepChecked == TypeInv /\ Checked /\ [Next]_vars => Checked'
<1> SUFFICES ASSUME TypeInv, Checked, [Next]_vars PROVE Checked'
  OBVIOUS
<1>1. ASSUME NEW o, Finish(o) PROVE Checked'
  BY <1>1 DEF Finish, Checked
<1>2. CASE Load \/ OpenSnapshot
  BY <1>1, <1>2 DEF Load, OpenSnapshot, NextSnapshot, Checked
<1>3. CASE ReadManifest \/ PlainEntry \/ RefuseEntry
  BY <1>1, <1>3 DEF ReadManifest, PlainEntry, RefuseEntry, Mutate, Reported, Checked
<1>4. CASE DeleteFile
  BY <1>1, <1>4 DEF DeleteFile, Put, Mutate, Reported, Checked
<1>5. CASE CloseManifest \/ CloseList
  BY <1>1, <1>5 DEF CloseManifest, CloseList, Relist, NextSnapshot, Put, Checked
<1>6. CASE EndDryRun
  BY <1>1, <1>6 DEF EndDryRun
<1>7. CASE RewriteMetadataJSON
  <2>1. old \in URI /\ Metadata \in Body /\ Apply(old) \in URI /\ Apply(old) # old
    BY <1>7, ApplyType, ApplyInScope
       DEF RewriteMetadataJSON, TypeInv, ProcessOK, StorageOK, InScope, Metadata, Matches
  <2>2. CASE Put("metadata", Apply(old), Marshalled(Metadata)) /\ new' = Apply(old)
    <3>1. /\ Marshalled(Metadata) \in Body
          /\ Marshalled(Metadata).current = Rounded(Metadata.current)
      BY <2>1, MarshalledType
    <3>2. store'[Apply(old)].current = Rounded(Metadata.current) /\ store'[old] = store[old]
      BY <2>1, <2>2, <3>1 DEF Put, TypeInv, StorageOK, Body
    <3> QED
      BY <2>2, <3>2 DEF Put, Checked, Metadata
  <2>3. CASE NoPut /\ new' = old /\ old' = old /\ pc' = "swap" /\ Readable(old)
    BY <2>3 DEF NoPut, Readable, Present, Exists, Checked
  <2> QED
    BY <1>1, <1>7, <2>2, <2>3 DEF RewriteMetadataJSON
<1>8. CASE Verify
  BY <1>1, <1>8 DEF Verify, Mutate, Relist, NextSnapshot, Landed, Exists, Checked, Metadata,
                    procVars, walkVars, Cut, Reencoded
<1>9. CASE Swap \/ Write
  BY <1>1, <1>9 DEF Swap, Write, Swapped, Exists, Checked, Metadata, procVars, walkVars
<1>10. CASE Validate \/ Fail \/ Kill
  BY <1>1, <1>10 DEF Validate, Fail, Kill
<1>11. CASE Start \/ StartDry
  BY <1>11 DEF Start, StartDry, Boot, Checked
<1>12. CASE Commit
  <2>1. UNCHANGED <<pc, put, new>> /\ new \in URI
    BY <1>12 DEF Commit, procVars, walkVars, TypeInv, ProcessOK
  <2>2. old' = old
    BY <1>12 DEF Commit, procVars
  <2> QED
    BY <2>1, <2>2, <1>12, CommitSpares DEF Checked, Metadata
<1>13. CASE UNCHANGED vars
  BY <1>13 DEF vars, procVars, walkVars, Checked, Exists, Metadata
<1> QED
  BY <1>2, <1>3, <1>4, <1>5, <1>6, <1>7, <1>8, <1>9, <1>10, <1>11, <1>12, <1>13
     DEF Next, Process

\* A nonempty set of indices of a sequence has a last one.
LEMMA LastIndex ==
  ASSUME NEW N \in Nat, NEW S, S \subseteq 1..N, S # {}
  PROVE  \E n \in S : \A m \in S : m <= n
<1> DEFINE T == {N - n : n \in S}
<1>1. T \subseteq Nat /\ T # {}
  <2>1. \A n \in S : N - n \in Nat
    OBVIOUS
  <2>2. PICK n \in S : TRUE
    OBVIOUS
  <2>3. N - n \in T
    OBVIOUS
  <2> QED
    BY <2>1, <2>3
<1>2. PICK x \in T : \A y \in T : ~(<<y, x>> \in OpToRel(<, Nat))
  <2> HIDE DEF T
  <2> QED
    BY <1>1, NatLessThanWellFounded, WFMin
<1>3. PICK n \in S : x = N - n
  BY <1>2
<1>4. ASSUME NEW m \in S PROVE m <= n
  <2>1. N - m \in T /\ N - m \in Nat /\ x \in Nat
    BY <1>1
  <2>2. ~(N - m < x)
    BY <1>2, <2>1 DEF OpToRel
  <2> QED
    BY <1>3, <2>2
<1> QED
  BY <1>4

\* The snapshot sampled is one of those carried over.
LEMMA SampleKept ==
  ASSUME NEW b \in Body, Snapshots(b) # {}, NEW currentOnly \in BOOLEAN
  PROVE  /\ Sampled(b) \in DOMAIN b.refs
         /\ InSnapshot(b.refs[Sampled(b)])
         /\ b.refs[Sampled(b)].snap \in Selected(currentOnly, b)
<1> DEFINE lists == {n \in DOMAIN b.refs : InSnapshot(b.refs[n])}
           wanted == {n \in lists : b.refs[n].snap = b.current}
<1>1. lists # {} /\ Snapshots(b) = {b.refs[n].snap : n \in lists}
  BY DEF Snapshots
<1>2. Sampled(b) \in lists /\ (wanted # {} => Sampled(b) \in wanted)
  <2>1. PICK n \in lists : \A m \in lists : m <= n
    <3>1. b.refs \in Seq(Ref)
      BY DEF Body
    <3>2. Len(b.refs) \in Nat /\ lists \subseteq 1..Len(b.refs)
      BY <3>1
    <3> QED
      BY <1>1, <3>2, LastIndex
  <2> QED
    BY <2>1 DEF Sampled
<1>3. b.current \in Snapshots(b) => wanted # {}
  BY <1>1
<1> QED
  BY <1>1, <1>2, <1>3 DEF Selected

\* A failed validation is about a table readers cannot read, for any table and
\* any writers, but for four false alarms: a current snapshot whose id a float64
\* does not hold (main.go:476), an object the target's client cannot see
\* (validate.go:51), an entry of status DELETED (validate.go:76) and a cap below
\* the rewritten objects (s3.go:97).
THEOREM AlarmsAreRealCorrect == Spec => AlarmsAreReal
<1> DEFINE Excused ==
      \/ pointer # new
      \/ table.maxObjectSize < Reencoded
      \/ new # old /\ Rounded(Metadata.current) # Metadata.current
      \/ ~ByTarget(new)
      \/ \E n \in Kept :
           \/ ~Seen[n].intact
           \/ \E r \in Followed(store, pointer, n) : ~ByTarget(r.path)
           \/ \E r \in ManifestsOf(store, pointer, n) :
                LET entries == store[r.path].refs IN entries # <<>> /\ ~entries[1].live
    Alarm == pc = "validate" /\ pc' = "down" /\ report' = "invalid" /\ faults' = faults
<1>1. ASSUME TypeInv, Checked, pc = "validate", ~Excused
      PROVE  pointer = new /\ SameSnapshot /\ ValidateAfterSwap
  <2>1. /\ pointer = new /\ new \in URI /\ store \in [URI -> Body] /\ table \in Tables
        /\ TargetPresent(new) /\ SameSnapshot
    BY <1>1 DEF TypeInv, StorageOK, ProcessOK, Checked, SameSnapshot, Metadata, TargetPresent
  <2>2. ASSUME NEW u \in URI, TargetPresent(u) PROVE TargetReadable(u)
    <3>1. table.maxObjectSize \in Nat /\ ~(table.maxObjectSize < Reencoded)
      BY <1>1, <2>1, TablesAssumption DEF IsTable
    <3>2. store[u].size \in {Cut, Original, Reencoded}
      BY <2>1 DEF Body
    <3> QED
      BY <2>2, <3>1, <3>2 DEF TargetReadable, Fits, Cut, Original, Reencoded
  <2>3. ASSUME NEW u \in URI
        PROVE  /\ store[u].refs \in Seq(Ref)
               /\ store[u].refs # <<>> =>
                    1 \in DOMAIN store[u].refs /\ store[u].refs[1] \in RefsOf(store, u)
    <3>1. store[u].refs \in Seq(Ref)
      BY <2>1 DEF Body
    <3> QED
      BY <3>1 DEF RefsOf
  <2>4. ASSUME NEW u \in URI, NEW r \in RefsOf(store, u) PROVE r.path \in URI
    BY <2>3, ElementType, RefFields DEF RefsOf
  <2> DEFINE snap == store[new].refs[Sampled(store[new])]
             manifests == store[snap.path].refs
             entries == store[manifests[1].path].refs
  <2> SUFFICES ASSUME Snapshots(store[new]) # {}, snap.role = "list"
               PROVE  /\ TargetReadable(snap.path)
                      /\ manifests # <<>> =>
                           /\ TargetReadable(manifests[1].path)
                           /\ entries # <<>> => TargetPresent(entries[1].path)
    BY <2>1, <2>2 DEF ValidateAfterSwap, FirstEntry
  <2> DEFINE n == snap.snap
  <2>5. snap \in RefsOf(store, new) /\ InSnapshot(snap) /\ n \in Kept
    <3>1. table.currentOnly \in BOOLEAN /\ store[new] \in Body
      BY <2>1, TablesAssumption DEF IsTable
    <3> QED
      BY <2>1, <3>1, SampleKept DEF RefsOf, Kept
  <2>6. \A r \in Followed(store, new, n) : TargetPresent(r.path)
    BY <1>1, <2>1, <2>5 DEF Seen, Scan, Resolves, TargetPresent, Exists
  <2>7. snap \in Followed(store, new, n) /\ snap.path \in URI
    BY <2>1, <2>4, <2>5 DEF Followed
  <2>8. ASSUME manifests # <<>>
        PROVE  /\ manifests[1] \in ManifestsOf(store, new, n)
               /\ manifests[1].path \in URI
    <3>1. manifests[1] \in RefsOf(store, snap.path)
      BY <2>3, <2>7, <2>8
    <3> QED
      BY <2>4, <2>5, <2>7, <3>1 DEF ManifestsOf
  <2>9. ASSUME manifests # <<>>, entries # <<>>
        PROVE  entries[1] \in EntriesOf(store, new, n) /\ entries[1].path \in URI
    <3>1. entries[1] \in RefsOf(store, manifests[1].path)
      BY <2>3, <2>8, <2>9
    <3>2. entries[1].live
      <4>1. entries[1].live \in BOOLEAN
        BY <2>3, <2>8, <2>9, ElementType DEF Ref
      <4> QED
        BY <1>1, <2>1, <2>5, <2>8, <2>9, <4>1
    <3> QED
      BY <2>4, <2>8, <2>9, <3>1, <3>2 DEF EntriesOf
  <2>10. TargetReadable(snap.path)
    BY <2>2, <2>6, <2>7
  <2>11. manifests # <<>> => TargetReadable(manifests[1].path)
    BY <2>2, <2>6, <2>8 DEF Followed
  <2>12. manifests # <<>> /\ entries # <<>> => TargetPresent(entries[1].path)
    BY <2>6, <2>9 DEF Followed
  <2> QED
    BY <2>10, <2>11, <2>12
<1>2. TypeInv /\ Checked /\ [Next]_vars => [Alarm => Excused]_vars
  <2> SUFFICES ASSUME TypeInv, Checked, [Next]_vars, Alarm, ~Excused PROVE FALSE
    OBVIOUS
  <2>1. Validate
    <3>1. faults \in Nat
      BY DEF TypeInv, CountsOK
    <3> QED
      BY <3>1 DEF Next, Process, Load, OpenSnapshot, ReadManifest, PlainEntry, RefuseEntry,
                  DeleteFile, CloseManifest, CloseList, EndDryRun, RewriteMetadataJSON, Verify,
                  Swap, Write, Start, StartDry, Boot, Fail, Kill, Commit, vars
  <2>2. pointer = new /\ SameSnapshot /\ ValidateAfterSwap
    BY <1>1
  <2>3. report' = IF new = old THEN "noop" ELSE "ok"
    BY <2>1, <2>2 DEF Validate, Finish
  <2> QED
    BY <2>3
<1>3. Init => Checked
  BY DEF Init, Checked
<1> QED
  BY <1>2, <1>3, InitType, StepType, StepChecked, PTL DEF Spec, AlarmsAreReal
=============================================================================
