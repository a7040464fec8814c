-------------------------- MODULE TableDryRunProofs --------------------------
(***************************************************************************)
(* For every set of orderly tables: a dry run that ended cleanly foretells   *)
(* what a live run of the same metadata changes, and that no object or entry  *)
(* stops it.                                                                *)
(***************************************************************************)
EXTENDS TableRebaseProofs

(* What does not stop a process *)

MayRead(t, u) == LET size == Origin(t)[u].size IN size # Cut /\ size <= t.maxObjectSize

EntryPasses(t, e) ==
  /\ ~Unsupported(e)
  /\ e.role = "pos" /\ Matches(e.path) =>
       MayRead(t, e.path) /\ ~ForeignRows(Origin(t)[e.path].refs)

ManifestPasses(t, u) ==
  MayRead(t, u) /\ \A e \in RefsOf(Origin(t), u) : EntryPasses(t, e)

RefPasses(t, r) ==
  /\ r.role = "list" =>
       /\ MayRead(t, r.path)
       /\ \A q \in RefsOf(Origin(t), r.path) : ManifestPasses(t, q.path)
  /\ r.role = "manifest" => ManifestPasses(t, r.path)

(* What a dry run reports as rewritten *)

Fields(t, u) == LET refs == Origin(t)[u].refs IN Changes(u, refs, MovedAll(refs))

MetadataHits(t) ==
  {h \in Fields(t, t.metadata) : Origin(t)[t.metadata].refs[h[2]].role # "summary"}

RefHits(t, r) ==
  Fields(t, r.path)
  \cup IF r.role = "list" THEN UNION {Fields(t, q.path) : q \in RefsOf(Origin(t), r.path)} ELSE {}

TableHits(t) == MetadataHits(t) \cup UNION {RefHits(t, r) : r \in WalkedRefs(t)}

(* How far a dry run has come *)

\* A process walks t.
InWalk(t) == TypeInv /\ ShapeInv /\ IsTable(t) /\ Orderly(t) /\ RebaseInv(t)

DryWalk == dry /\ pc \in {"walk", "list", "manifest"}
DryList == dry /\ pc \in {"list", "manifest"}
DryManifest == dry /\ pc = "manifest"

\* The snapshots before i pass.
WalkedBefore(t) ==
  {Meta(t).refs[n] : n \in {m \in DOMAIN Meta(t).refs : m < i /\ Meta(t).refs[m] \in WalkedRefs(t)}}

\* The manifests before j pass, and the list is as it was read.
DryListInv(t) ==
  /\ i \in DOMAIN Meta(t).refs /\ Meta(t).refs[i] \in WalkedRefs(t)
  /\ list = Listed(t)
  /\ Meta(t).refs[i].role = "list" => MayRead(t, Meta(t).refs[i].path)
  /\ \A m \in DOMAIN list : m < j => ManifestPasses(t, list[m].path)

\* The entries before k pass, and the manifest is as it was read.
DryManifestInv(t) ==
  /\ j \in DOMAIN list
  /\ man = Before(t)
  /\ MayRead(t, list[j].path)
  /\ \A m \in DOMAIN man : m < k => EntryPasses(t, man[m])

\* What has been reported: the metadata, the snapshots before i, the manifests
\* before j, the entries before k.
ListHits(t) ==
  (IF Meta(t).refs[i].role = "list" THEN Fields(t, Meta(t).refs[i].path) ELSE {})
  \cup UNION {Fields(t, list[m].path) : m \in {n \in DOMAIN list : n < j}}
ManifestHits(t) == {h \in Fields(t, list[j].path) : h[2] < k}

HitsInv(t) ==
  hits = MetadataHits(t) \cup (UNION {RefHits(t, r) : r \in WalkedBefore(t)})
         \cup (IF DryList THEN ListHits(t) ELSE {})
         \cup (IF DryManifest THEN ManifestHits(t) ELSE {})

\* Before the swap everything walked is installed, or nothing was to be done.
SwapInv(t) ==
  /\ \A r \in WalkedRefs(t) : RefDone(t, store, r)
  /\ IF new = old THEN MovedAll(Meta(t).refs) = Meta(t).refs ELSE Rebased(t, store)

DryInv(t) ==
  /\ MayRead(t, t.metadata)
  /\ DryWalk => HitsInv(t) /\ \A r \in WalkedBefore(t) : RefPasses(t, r)
  /\ DryList => DryListInv(t)
  /\ DryManifest => DryManifestInv(t)
  /\ pc = "swap" => SwapInv(t)

-----------------------------------------------------------------------------
(* Reading *)

\* Outside the target prefix a GET gives what it would have given at first.
LEMMA ReadableIff ==
  ASSUME NEW t, InWalk(t), NEW u \in URI, Known(t, u)
  PROVE  Readable(u) <=> MayRead(t, u)
<1>1. store[u] = Origin(t)[u] /\ t.maxObjectSize = table.maxObjectSize
  BY Reads DEF InWalk, RebaseInv, ProcessInv
<1> QED
  BY <1>1 DEF Readable, Present, Exists, Fits, BySource, Known, MayRead

\* The manifest in hand of a dry run.
LEMMA DryRead ==
  ASSUME NEW t, InWalk(t), DryListInv(t), j \in DOMAIN list
  PROVE  /\ list[j].path \in URI /\ Known(t, list[j].path)
         /\ store[list[j].path] = Origin(t)[list[j].path]
         /\ Before(t) \in Seq(Ref)
         /\ RefsOf(Origin(t), list[j].path) = {Before(t)[m] : m \in DOMAIN Before(t)}
         /\ \A m \in DOMAIN Before(t) :
              /\ Before(t)[m] \in Ref /\ Before(t)[m].path \in URI
              /\ Known(t, Before(t)[m].path)
<1>0. TypeInv /\ IsTable(t) /\ Orderly(t) /\ CopyInv(t) /\ ProcessInv(t)
  BY DEF InWalk, RebaseInv
<1>1. list[j].path \in URI /\ Known(t, list[j].path)
  BY <1>0, ListRead DEF DryListInv
<1>2. store[list[j].path] = Origin(t)[list[j].path]
  BY <1>0, <1>1, Reads
<1>3. Before(t) \in Seq(Ref)
  BY <1>0, <1>1, RefsType, TableType DEF Before
<1>4. RefsOf(Origin(t), list[j].path) = {Before(t)[m] : m \in DOMAIN Before(t)}
  BY DEF RefsOf, Before
<1>5. \A m \in DOMAIN Before(t) :
        Before(t)[m] \in Ref /\ Before(t)[m].path \in URI /\ Known(t, Before(t)[m].path)
  <2> TAKE m \in DOMAIN Before(t)
  <2>1. Before(t)[m] \in RefsOf(Origin(t), list[j].path)
    BY <1>4
  <2> QED
    BY <1>0, <1>1, <1>3, <2>1, ElementType, NoTarget, TableType
<1> QED
  BY <1>1, <1>2, <1>3, <1>4, <1>5

\* A field is one of a reference of its object.
LEMMA FieldOf ==
  ASSUME NEW t, NEW u, NEW h \in Fields(t, u)
  PROVE  h[1] = u /\ h[2] \in DOMAIN Origin(t)[u].refs
BY DEF Fields, Changes

-----------------------------------------------------------------------------
(* Steps of live processes, and ends *)

LEMMA LiveStepKept ==
  ASSUME NEW t, DryInv(t), ~DryWalk', pc' # "swap"
  PROVE  DryInv(t)'
<1>1. ~DryList' /\ ~DryManifest'
  BY DEF DryWalk, DryList, DryManifest
<1> QED
  BY <1>1 DEF DryInv

LEMMA EndKept ==
  ASSUME NEW t, DryInv(t), NEW o, Finish(o)
  PROVE  DryInv(t)'
BY LiveStepKept DEF Finish, DryWalk

LEMMA LoadDry ==
  ASSUME TypeInv, NEW t, IsTable(t), Orderly(t), CopyInv(t), t.metadata = pointer,
         t.maxObjectSize = table.maxObjectSize, i = 1, Load, pc' = "walk"
  PROVE  DryInv(t)'
<1>1. /\ Readable(pointer) /\ UNCHANGED <<dry, i>>
      /\ dry => hits' = {h \in Changes(pointer, store[pointer].refs,
                                       MovedAll(store[pointer].refs)) :
                           store[pointer].refs[h[2]].role # "summary"}
  BY DEF Load, Finish
<1>2. store[pointer] = Meta(t) /\ MayRead(t, t.metadata)
  BY <1>1, TableType, Reads DEF Meta, Readable, Present, Exists, Fits, MayRead
<1>3. WalkedBefore(t)' = {}
  <2>1. Meta(t).refs \in Seq(Ref)
    BY OrderlyTypes, RefsType DEF Meta
  <2>2. \A n \in DOMAIN Meta(t).refs : ~(n < 1)
    BY <2>1
  <2>3. Meta(t)' = Meta(t)
    BY DEF Meta
  <2> QED
    BY <1>1, <2>2, <2>3 DEF WalkedBefore
<1>4. dry => hits' = MetadataHits(t)
  BY <1>1, <1>2 DEF MetadataHits, Fields, Meta
<1>5. DryWalk' => HitsInv(t)'
  BY <1>1, <1>3, <1>4 DEF HitsInv, DryWalk, DryList, DryManifest
<1> QED
  BY <1>2, <1>3, <1>5 DEF DryInv, DryList, DryManifest

\* Live processes reach the swap with everything installed.
LEMMA RewriteMetadataDry ==
  ASSUME NEW t, InWalk(t), DryInv(t), RewriteMetadataJSON
  PROVE  DryInv(t)'
<1>1. UNCHANGED <<table, foretold>> /\ pc = "walk" /\ i > Len(Metadata.refs) /\ ~dry
  BY DEF RewriteMetadataJSON
<1>2. ASSUME NEW o, Finish(o) PROVE DryInv(t)'
  BY <1>1, <1>2, EndKept
<1>3. CASE pc' = "verify" /\ ~dry'
  BY <1>1, <1>3, LiveStepKept DEF DryWalk
<1>4. CASE /\ Mapped(Metadata.refs) = Metadata.refs /\ new' = old /\ pc' = "swap"
           /\ UNCHANGED <<store, dry, old>>
  <2>1. /\ Metadata = Meta(t) /\ Meta(t).refs \in Seq(Ref) /\ old = t.metadata
        /\ WalkInv(t) /\ Landing = store
    BY <1>1, MetadataRead DEF InWalk, RebaseInv, ProcessInv, Rewriting, Landing
  <2>2. \A r \in WalkedRefs(t) : RefDone(t, store, r)
    <3> TAKE r \in WalkedRefs(t)
    <3>1. PICK n \in DOMAIN Meta(t).refs : r = Meta(t).refs[n]
      BY DEF WalkedRefs, RefsOf, Meta
    <3>2. n < i
      BY <1>1, <2>1, TableType DEF InWalk
    <3> QED
      BY <2>1, <3>1, <3>2 DEF WalkInv
  <2>3. SwapInv(t)'
    BY <1>1, <1>4, <2>1, <2>2 DEF SwapInv, Mapped, Meta
  <2> QED
    BY <1>1, <1>4, <2>3 DEF DryInv, DryWalk, DryList, DryManifest
<1> QED
  BY <1>1, <1>2, <1>3, <1>4 DEF RewriteMetadataJSON, Put, NoPut

LEMMA VerifyDry ==
  ASSUME NEW t, InWalk(t), DryInv(t), Verify
  PROVE  DryInv(t)'
<1>1. UNCHANGED <<table, store, foretold>> /\ pc = "verify" /\ ~dry
  BY DEF Verify, InWalk, ShapeInv
<1>2. ASSUME NEW o, Finish(o) PROVE DryInv(t)'
  BY <1>1, <1>2, EndKept
<1>3. CASE pc' \in {"manifest", "list", "walk"} /\ dry' = dry
  BY <1>1, <1>3, LiveStepKept DEF DryWalk
<1>4. CASE Landed /\ put.level = "metadata" /\ pc' = "swap" /\ UNCHANGED <<procVars, report>>
  <2>1. Landing = store
    BY <1>4, TableType, LandedWhole DEF Object, InWalk
  <2>2. Rebased(t, store) /\ new = Apply(t.metadata)
    BY <1>1, <1>4, <2>1 DEF InWalk, RebaseInv, PutInv
  <2>3. new # old
    BY <2>2, TableType, ApplyBase DEF InWalk, Rebased, Matches, RebaseInv, ProcessInv
  <2>4. SwapInv(t)'
    BY <1>1, <1>4, <2>2, <2>3 DEF SwapInv, Rebased, procVars, walkVars
  <2> QED
    BY <1>1, <1>4, <2>4 DEF DryInv, DryWalk, DryList, DryManifest, procVars
<1> QED
  BY <1>2, <1>3, <1>4 DEF Verify, Mutate, Relist, NextSnapshot

-----------------------------------------------------------------------------
(* Steps of dry runs *)

LEMMA DryStepTo ==
  ASSUME NEW t, DryInv(t), pc' \in {"walk", "list", "manifest"},
         HitsInv(t)', (\A r \in WalkedBefore(t) : RefPasses(t, r))',
         pc' # "walk" => DryListInv(t)',
         pc' = "manifest" => DryManifestInv(t)'
  PROVE  DryInv(t)'
BY DEF DryInv, DryWalk, DryList, DryManifest

\* Snapshot i is behind.
LEMMA WalkedOn ==
  ASSUME NEW t, InWalk(t), i \in DOMAIN Meta(t).refs, i' = i + 1
  PROVE  WalkedBefore(t)' = WalkedBefore(t)
           \cup IF Meta(t).refs[i] \in WalkedRefs(t) THEN {Meta(t).refs[i]} ELSE {}
<1>1. i \in Nat /\ DOMAIN Meta(t).refs \subseteq Nat
  BY TableType, MetadataRead DEF InWalk, RebaseInv
<1>2. \A n \in DOMAIN Meta(t).refs : n < i + 1 <=> n < i \/ n = i
  BY <1>1
<1>3. Meta(t)' = Meta(t)
  BY DEF Meta
<1> QED
  BY <1>2, <1>3 DEF WalkedBefore

LEMMA OpenSnapshotDry ==
  ASSUME NEW t, InWalk(t), DryInv(t), OpenSnapshot
  PROVE  DryInv(t)'
<1> DEFINE r == Meta(t).refs[i]
<1>1. UNCHANGED <<table, store, foretold>> /\ pc = "walk"
  BY DEF OpenSnapshot
<1>2. /\ Metadata = Meta(t) /\ i \in DOMAIN Meta(t).refs
      /\ Walked(i) <=> r \in WalkedRefs(t)
      /\ r.path \in URI /\ Known(t, r.path)
      /\ TypeInv /\ IsTable(t) /\ Orderly(t) /\ CopyInv(t) /\ ProcessInv(t)
  <2>1. /\ Metadata = Meta(t) /\ Meta(t).refs \in Seq(Ref) /\ i \in Nat \ {0}
        /\ TypeInv /\ IsTable(t) /\ Orderly(t) /\ CopyInv(t) /\ ProcessInv(t)
    BY MetadataRead, TableType DEF InWalk, RebaseInv
  <2>2. i \in DOMAIN Meta(t).refs
    BY <2>1 DEF OpenSnapshot
  <2> QED
    BY <2>1, <2>2, MetadataRead
<1>3. CASE Finish("failed")
  BY <1>1, <1>3, EndKept
<1>4. CASE ~dry /\ ~dry' /\ pc' \in {"walk", "list"}
  BY <1>1, <1>4, LiveStepKept DEF DryWalk
<1>5. CASE dry /\ ~Walked(i) /\ NextSnapshot
  <2>1. pc' = "walk" /\ i' = i + 1 /\ UNCHANGED <<dry, hits>>
    BY <1>5 DEF NextSnapshot
  <2>2. WalkedBefore(t)' = WalkedBefore(t)
    BY <1>1, <1>2, <1>5, <2>1, WalkedOn
  <2>3. HitsInv(t)' /\ (\A q \in WalkedBefore(t) : RefPasses(t, q))'
    BY <1>1, <1>5, <2>1, <2>2 DEF DryInv, DryWalk, DryList, DryManifest, HitsInv
  <2> QED
    BY <1>1, <2>1, <2>3, DryStepTo
<1>6. CASE dry /\ pc' = "list"
  <2>1. /\ r \in WalkedRefs(t)
        /\ j' = 1 /\ UNCHANGED <<dry, i>>
        /\ \/ /\ r.role = "list" /\ Readable(r.path)
              /\ list' = store[r.path].refs
              /\ hits' = hits \cup Changes(r.path, list', MovedAll(list'))
           \/ /\ r.role = "manifest" /\ hits' = hits
              /\ list' = <<[r EXCEPT !.len = store[r.path].size]>>
    BY <1>2, <1>6 DEF OpenSnapshot, Finish, NextSnapshot
  <2>2. store[r.path] = Origin(t)[r.path] /\ (Readable(r.path) <=> MayRead(t, r.path))
    BY <1>2, Reads, ReadableIff
  <2>3. list' = Listed(t) /\ Listed(t)' = Listed(t) /\ Meta(t)' = Meta(t)
    BY <1>1, <2>1, <2>2 DEF Listed, Meta
  <2>4. \A m \in DOMAIN Listed(t) : ~(m < 1)
    BY <1>2, <2>1, ListRead
  <2>5. DryListInv(t)'
    BY <1>1, <1>2, <2>1, <2>2, <2>3, <2>4 DEF DryListInv
  <2>6. WalkedBefore(t)' = WalkedBefore(t)
    BY <1>1, <2>1, <2>3 DEF WalkedBefore
  <2>7. ListHits(t)' = IF r.role = "list" THEN Fields(t, r.path) ELSE {}
    <3>1. {n \in DOMAIN list' : n < j'} = {}
      BY <2>1, <2>3, <2>4
    <3> QED
      BY <1>1, <2>1, <2>3, <3>1 DEF ListHits
  <2>8. hits' = hits \cup ListHits(t)'
    <3>1. r.role = "list" => Changes(r.path, list', MovedAll(list')) = Fields(t, r.path)
      BY <2>1, <2>2 DEF Fields
    <3>2. "list" # "manifest"
      OBVIOUS
    <3> QED
      BY <2>1, <2>7, <3>1
  <2>9. HitsInv(t)
    BY <1>1, <1>6 DEF DryInv, DryWalk
  <2>10. HitsInv(t)'
    BY <1>1, <1>6, <2>1, <2>6, <2>8, <2>9 DEF DryWalk, DryList, DryManifest, HitsInv
  <2>11. (\A q \in WalkedBefore(t) : RefPasses(t, q))'
    BY <1>1, <1>6, <2>6 DEF DryInv, DryWalk
  <2> QED
    BY <1>1, <1>6, <2>1, <2>5, <2>10, <2>11, DryStepTo
<1>7. \/ Finish("failed")
      \/ ~Walked(i) /\ NextSnapshot
      \/ pc' = "list" /\ dry' = dry
  BY DEF OpenSnapshot
<1> QED
  BY <1>3, <1>4, <1>5, <1>6, <1>7 DEF NextSnapshot

LEMMA ReadManifestDry ==
  ASSUME NEW t, InWalk(t), DryInv(t), ReadManifest
  PROVE  DryInv(t)'
<1>1. UNCHANGED <<table, store, foretold>> /\ pc = "list"
  BY DEF ReadManifest
<1>2. CASE Finish("failed")
  BY <1>1, <1>2, EndKept
<1>3. CASE ~dry /\ pc' = "manifest" /\ dry' = dry
  BY <1>1, <1>3, LiveStepKept DEF DryWalk
<1>4. CASE dry /\ pc' = "manifest" /\ dry' = dry
  <2>1. /\ man' = store[list[j].path].refs /\ k' = 1 /\ Readable(list[j].path)
        /\ UNCHANGED <<i, list, j, hits>>
    BY <1>4 DEF ReadManifest, Finish
  <2>2. j \in DOMAIN list
    BY TableType DEF InWalk, ReadManifest
  <2>3. DryListInv(t) /\ HitsInv(t) /\ \A r \in WalkedBefore(t) : RefPasses(t, r)
    BY <1>1, <1>4 DEF DryInv, DryWalk, DryList
  <2>4. /\ man' = Before(t) /\ MayRead(t, list[j].path)
        /\ Before(t) \in Seq(Ref)
        /\ UNCHANGED <<Before(t), Listed(t), Meta(t), WalkedBefore(t)>>
    BY <1>1, <2>1, <2>2, <2>3, DryRead, ReadableIff DEF Before, Listed, Meta, WalkedBefore
  <2>5. DryListInv(t)'
    BY <1>1, <2>1, <2>3, <2>4 DEF DryListInv
  <2>6. \A m \in DOMAIN Before(t) : ~(m < 1)
    BY <2>4
  <2>7. DryManifestInv(t)'
    BY <1>1, <2>1, <2>2, <2>4, <2>6 DEF DryManifestInv
  <2>8. ManifestHits(t)' = {}
    <3>1. \A h \in Fields(t, list[j].path) : ~(h[2] < 1)
      BY <2>6, FieldOf DEF Before
    <3> QED
      BY <1>1, <2>1, <3>1 DEF ManifestHits
  <2>9. ListHits(t)' = ListHits(t)
    BY <1>1, <2>1, <2>4 DEF ListHits
  <2>10. HitsInv(t)'
    BY <1>1, <1>4, <2>1, <2>3, <2>4, <2>8, <2>9 DEF HitsInv, DryWalk, DryList, DryManifest
  <2>11. (\A r \in WalkedBefore(t) : RefPasses(t, r))'
    BY <1>1, <2>3, <2>4
  <2> QED
    BY <1>1, <1>4, <2>5, <2>7, <2>10, <2>11, DryStepTo
<1> QED
  BY <1>2, <1>3, <1>4 DEF ReadManifest

LEMMA ReportedDry ==
  ASSUME NEW t, InWalk(t), DryInv(t), pc = "manifest", dry, k <= Len(man), Reported,
         EntryPasses(t, man[k]), UNCHANGED <<table, store, foretold>>
  PROVE  DryInv(t)'
<1>1. /\ DryListInv(t) /\ DryManifestInv(t) /\ HitsInv(t)
      /\ \A r \in WalkedBefore(t) : RefPasses(t, r)
  BY DEF DryInv, DryWalk, DryList, DryManifest
<1>2. hits' = hits \cup EntryHits /\ k' = k + 1 /\ UNCHANGED <<pc, dry, i, list, j, man>>
  BY DEF Reported
<1>3. man = Before(t) /\ Before(t) \in Seq(Ref) /\ k \in Nat /\ DOMAIN Before(t) \subseteq Nat
  BY <1>1, DryRead, TableType DEF DryManifestInv, InWalk
<1>4. UNCHANGED <<Before(t), Listed(t), Meta(t), WalkedBefore(t), ListHits(t)>>
  BY <1>2 DEF Before, Listed, Meta, WalkedBefore, ListHits
<1>5. DryListInv(t)'
  BY <1>1, <1>2, <1>4 DEF DryListInv
<1>6. DryManifestInv(t)'
  <2>1. \A m \in DOMAIN man : m < k + 1 <=> m < k \/ m = k
    BY <1>3
  <2> QED
    BY <1>1, <1>2, <1>4, <2>1 DEF DryManifestInv
<1>7. ManifestHits(t)' = ManifestHits(t) \cup EntryHits
  <2>1. EntryHits = {h \in Fields(t, list[j].path) : h[2] = k}
    BY <1>3 DEF EntryHits, Fields, Before
  <2>2. \A h \in Fields(t, list[j].path) : h[2] \in DOMAIN Before(t)
    BY FieldOf DEF Before
  <2>3. \A h \in Fields(t, list[j].path) : h[2] < k + 1 <=> h[2] < k \/ h[2] = k
    BY <1>3, <2>2
  <2>4. ManifestHits(t)' = {h \in Fields(t, list[j].path) : h[2] < k + 1}
    BY <1>2 DEF ManifestHits
  <2> QED
    BY <2>1, <2>3, <2>4 DEF ManifestHits
<1>8. HitsInv(t)'
  BY <1>1, <1>2, <1>4, <1>7 DEF HitsInv, DryList, DryManifest
<1>9. (\A r \in WalkedBefore(t) : RefPasses(t, r))'
  BY <1>1, <1>4
<1> QED
  BY <1>2, <1>5, <1>6, <1>8, <1>9, DryStepTo

\* The entry in hand of a dry run.
LEMMA DryEntry ==
  ASSUME NEW t, InWalk(t), DryInv(t), pc = "manifest", dry, k <= Len(man)
  PROVE  man[k].path \in URI /\ Known(t, man[k].path)
<1>1. DryListInv(t) /\ DryManifestInv(t)
  BY DEF DryInv, DryList, DryManifest
<1>2. k \in DOMAIN man /\ man = Before(t)
  BY <1>1, TableType DEF InWalk, DryManifestInv
<1> QED
  BY <1>1, <1>2, DryRead DEF DryManifestInv

LEMMA PlainEntryDry ==
  ASSUME NEW t, InWalk(t), DryInv(t), PlainEntry
  PROVE  DryInv(t)'
<1>1. UNCHANGED <<table, store, foretold>> /\ pc = "manifest" /\ k <= Len(man)
  BY DEF PlainEntry, NoPut
<1>2. CASE ~dry /\ Mutate(Moved(man[k]))
  BY <1>1, <1>2, LiveStepKept DEF Mutate, DryWalk
<1>3. CASE dry /\ Reported
  <2>1. EntryPasses(t, man[k])
    BY DEF PlainEntry, PathOnly, EntryPasses, Unsupported
  <2> QED
    BY <1>1, <1>3, <2>1, ReportedDry
<1> QED
  BY <1>2, <1>3 DEF PlainEntry

LEMMA DeleteFileDry ==
  ASSUME NEW t, InWalk(t), DryInv(t), DeleteFile
  PROVE  DryInv(t)'
<1> DEFINE p == man[k].path
<1>1. UNCHANGED <<table, foretold>> /\ pc = "manifest" /\ k <= Len(man)
  BY DEF DeleteFile
<1>2. ASSUME NEW o, Finish(o) PROVE DryInv(t)'
  BY <1>1, <1>2, EndKept
<1>3. CASE ~dry /\ ~dry' /\ pc' \in {"manifest", "verify"}
  BY <1>1, <1>3, LiveStepKept DEF DryWalk
<1>4. CASE dry /\ Readable(p) /\ ~WalkRefuses(store[p].refs) /\ Reported /\ NoPut
  <2>1. p \in URI /\ Known(t, p)
    BY <1>1, <1>4, DryEntry
  <2>2. store[p] = Origin(t)[p] /\ MayRead(t, p)
    BY <1>4, <2>1, Reads, ReadableIff DEF InWalk, RebaseInv
  <2>3. EntryPasses(t, man[k])
    BY <1>4, <2>2 DEF DeleteFile, EntryPasses, Unsupported, WalkRefuses
  <2> QED
    BY <1>1, <1>4, <2>3, ReportedDry DEF NoPut
<1> QED
  BY <1>2, <1>3, <1>4 DEF DeleteFile, Mutate, Put

LEMMA CloseManifestDry ==
  ASSUME NEW t, InWalk(t), DryInv(t), CloseManifest
  PROVE  DryInv(t)'
<1> DEFINE u == list[j].path
<1>1. UNCHANGED <<table, foretold>> /\ pc = "manifest" /\ k > Len(man)
  BY DEF CloseManifest
<1>2. ASSUME NEW o, Finish(o) PROVE DryInv(t)'
  BY <1>1, <1>2, EndKept
<1>3. CASE ~dry /\ ~dry' /\ pc' \in {"list", "verify"}
  BY <1>1, <1>3, LiveStepKept DEF DryWalk
<1>4. CASE dry /\ Relist(list[j]) /\ NoPut
  <2>1. /\ DryListInv(t) /\ DryManifestInv(t) /\ HitsInv(t) /\ j \in DOMAIN list
        /\ \A r \in WalkedBefore(t) : RefPasses(t, r)
    BY <1>1, <1>4 DEF DryInv, DryWalk, DryList, DryManifest, DryManifestInv
  <2>2. /\ list' = list /\ j' = j + 1 /\ pc' = "list" /\ UNCHANGED <<dry, i, hits>>
        /\ list \in Seq(Ref) /\ j \in Nat
    BY <1>4, <2>1, TableType DEF Relist, InWalk
  <2>3. /\ man = Before(t) /\ Before(t) \in Seq(Ref) /\ \A m \in DOMAIN Before(t) : m < k
        /\ RefsOf(Origin(t), u) = {Before(t)[m] : m \in DOMAIN Before(t)}
    BY <1>1, <2>1, DryRead, TableType DEF DryManifestInv, InWalk
  <2>4. ManifestPasses(t, u)
    BY <2>1, <2>3 DEF DryManifestInv, ManifestPasses
  <2>5. UNCHANGED <<Listed(t), Meta(t), WalkedBefore(t)>>
    BY <1>1, <2>2 DEF Listed, Meta, WalkedBefore
  <2>6. \A m \in DOMAIN list : m < j + 1 <=> m < j \/ m = j
    BY <2>2
  <2>7. DryListInv(t)'
    BY <1>1, <2>1, <2>2, <2>4, <2>5, <2>6 DEF DryListInv
  <2>8. ManifestHits(t) = Fields(t, u)
    BY <2>3, FieldOf DEF ManifestHits, Before
  <2>9. ListHits(t)' = ListHits(t) \cup Fields(t, u)
    <3>1. {n \in DOMAIN list : n < j + 1} = {n \in DOMAIN list : n < j} \cup {j}
      BY <2>1, <2>6
    <3>2. ListHits(t)' = (IF Meta(t).refs[i].role = "list" THEN Fields(t, Meta(t).refs[i].path) ELSE {})
                        \cup UNION {Fields(t, list[m].path) : m \in {n \in DOMAIN list : n < j + 1}}
      BY <1>1, <2>2, <2>5 DEF ListHits
    <3> QED
      BY <3>1, <3>2 DEF ListHits
  <2>10. HitsInv(t)'
    BY <1>1, <1>4, <2>1, <2>2, <2>5, <2>8, <2>9 DEF HitsInv, DryWalk, DryList, DryManifest
  <2>11. (\A r \in WalkedBefore(t) : RefPasses(t, r))'
    BY <1>1, <2>1, <2>5
  <2> QED
    BY <1>1, <2>2, <2>7, <2>10, <2>11, DryStepTo
<1>5. dry => ~dirty
  BY <1>1 DEF InWalk, ShapeInv
<1> QED
  BY <1>2, <1>3, <1>4, <1>5 DEF CloseManifest, Relist, Put

LEMMA CloseListDry ==
  ASSUME NEW t, InWalk(t), DryInv(t), CloseList
  PROVE  DryInv(t)'
<1> DEFINE r == Meta(t).refs[i]
           O == Origin(t)
<1>1. UNCHANGED <<table, foretold>> /\ pc = "list" /\ j > Len(list)
  BY DEF CloseList
<1>2. ASSUME NEW o, Finish(o) PROVE DryInv(t)'
  BY <1>1, <1>2, EndKept
<1>3. CASE ~dry /\ ~dry' /\ pc' \in {"walk", "verify"}
  BY <1>1, <1>3, LiveStepKept DEF DryWalk
<1>4. CASE dry /\ NextSnapshot
  <2>1. /\ DryListInv(t) /\ HitsInv(t) /\ \A q \in WalkedBefore(t) : RefPasses(t, q)
    BY <1>1, <1>4 DEF DryInv, DryWalk, DryList
  <2>2. pc' = "walk" /\ i' = i + 1 /\ UNCHANGED <<dry, hits>>
    BY <1>4 DEF NextSnapshot
  <2>3. /\ i \in DOMAIN Meta(t).refs /\ r \in WalkedRefs(t) /\ list = Listed(t)
        /\ \A m \in DOMAIN list : m < j /\ ManifestPasses(t, list[m].path)
        /\ r.role = "list" => MayRead(t, r.path)
    BY <1>1, <2>1, TableType DEF DryListInv, InWalk
  <2>4. /\ r.role \in {"list", "manifest"}
        /\ r.role = "list" => RefsOf(O, r.path) = {Listed(t)[m] : m \in DOMAIN Listed(t)}
        /\ r.role = "manifest" => DOMAIN Listed(t) = {1} /\ Listed(t)[1].path = r.path
    BY <2>3, ListRead DEF InWalk, RebaseInv
  <2>5. RefPasses(t, r)
    BY <2>3, <2>4 DEF RefPasses
  <2>6. ListHits(t) = RefHits(t, r)
    <3>1. {n \in DOMAIN list : n < j} = DOMAIN Listed(t)
      BY <2>3
    <3>2. CASE r.role = "list"
      <4>1. UNION {Fields(t, q.path) : q \in RefsOf(O, r.path)}
              = UNION {Fields(t, Listed(t)[m].path) : m \in DOMAIN Listed(t)}
        BY <2>4, <3>2
      <4> QED
        BY <2>3, <3>1, <3>2, <4>1 DEF ListHits, RefHits
    <3>3. CASE r.role = "manifest"
      BY <2>3, <2>4, <3>1, <3>3 DEF ListHits, RefHits
    <3> QED
      BY <2>4, <3>2, <3>3
  <2>7. WalkedBefore(t)' = WalkedBefore(t) \cup {r}
    BY <1>1, <2>2, <2>3, WalkedOn
  <2>8. HitsInv(t)'
    <3>1. UNION {RefHits(t, q) : q \in WalkedBefore(t) \cup {r}}
            = (UNION {RefHits(t, q) : q \in WalkedBefore(t)}) \cup RefHits(t, r)
      OBVIOUS
    <3>2. hits = MetadataHits(t) \cup (UNION {RefHits(t, q) : q \in WalkedBefore(t)}) \cup ListHits(t)
      BY <1>1, <1>4, <2>1 DEF HitsInv, DryList, DryManifest
    <3>3. hits' = MetadataHits(t) \cup UNION {RefHits(t, q) : q \in WalkedBefore(t)'}
      BY <2>2, <2>6, <2>7, <3>1, <3>2
    <3> QED
      BY <1>1, <2>2, <3>3 DEF HitsInv, DryList, DryManifest
  <2>9. (\A q \in WalkedBefore(t) : RefPasses(t, q))'
    BY <1>1, <2>1, <2>5, <2>7
  <2> QED
    BY <1>1, <2>2, <2>8, <2>9, DryStepTo
<1> QED
  BY <1>2, <1>3, <1>4 DEF CloseList, NextSnapshot, Put

-----------------------------------------------------------------------------
(* Every step of a process that walks t *)

\* What is written beside the table walked, and not under the target prefix,
\* leaves a walk as it is.
LEMMA DryUndisturbed ==
  ASSUME NEW t, InWalk(t), DryInv(t), Walking, UNCHANGED <<table, pc, procVars>>,
         store' \in [URI -> Body],
         \A u \in URI : u.base = "target" \/ Known(t, u) => store'[u] = store[u]
  PROVE  DryInv(t)'
<1>1. UNCHANGED <<dry, old, new, i, list, j, man, k, hits>>
  BY DEF procVars, walkVars
<1>2. UNCHANGED <<Meta(t), Listed(t), Before(t), DryWalk, DryList, DryManifest>>
  BY <1>1 DEF Meta, Listed, Before, DryWalk, DryList, DryManifest
<1>3. UNCHANGED <<WalkedBefore(t), ListHits(t), ManifestHits(t)>>
  BY <1>1, <1>2 DEF WalkedBefore, ListHits, ManifestHits
<1>4. DryWalk' => (HitsInv(t) /\ \A r \in WalkedBefore(t) : RefPasses(t, r))'
  BY <1>1, <1>2, <1>3 DEF DryInv, HitsInv
<1>5. DryList' => DryListInv(t)'
  BY <1>1, <1>2 DEF DryInv, DryListInv
<1>6. DryManifest' => DryManifestInv(t)'
  BY <1>1, <1>2 DEF DryInv, DryManifestInv
<1>7. pc = "swap" => SwapInv(t)'
  <2> SUFFICES ASSUME pc = "swap" PROVE SwapInv(t)'
    OBVIOUS
  <2>1. IsTable(t) /\ SwapInv(t)
    BY DEF InWalk, DryInv
  <2>2. Keeps(t, store, store')
    BY ApplyType, ApplyBase DEF Keeps, Installed
  <2>3. \A r \in WalkedRefs(t) : r \in Ref
    BY <2>1, OrderlyTypes, RefsType DEF WalkedRefs
  <2>4. \A r \in WalkedRefs(t) : RefDone(t, store', r)
    BY <2>1, <2>2, <2>3, RefKept DEF SwapInv
  <2>5. new # old => Rebased(t, store')
    <3>1. RebaseInv(t)'
      BY WalkUndisturbed DEF InWalk
    <3> QED
      BY <1>1, <3>1 DEF RebaseInv
  <2> QED
    BY <1>1, <1>2, <2>1, <2>4, <2>5 DEF SwapInv
<1> QED
  BY <1>4, <1>5, <1>6, <1>7 DEF DryInv

LEMMA StepDry ==
  ASSUME SideInv, [Next]_vars, Walking, NEW t, WalkedAs(t), InWalk(t), DryInv(t)
  PROVE  DryInv(t)'
<1>1. SourceInv /\ TypeInv /\ ShapeInv
  BY WalksSource DEF InWalk
<1>2. CASE Walks
  BY <1>2, OpenSnapshotDry, ReadManifestDry, PlainEntryDry, DeleteFileDry, CloseManifestDry,
     CloseListDry, RewriteMetadataDry, VerifyDry DEF Walks
<1>3. CASE Quiet
  <2>1. CASE pc' = "down"
    BY <2>1, LiveStepKept DEF DryWalk
  <2>2. CASE UNCHANGED <<pc, procVars>>
    <3>1. UNCHANGED <<table, store>> /\ store \in [URI -> Body]
      BY <1>1, <1>3 DEF Quiet, TypeInv, StorageOK
    <3> QED
      BY <2>2, <3>1, DryUndisturbed
  <2> QED
    BY <1>3, <2>1, <2>2 DEF Quiet
<1>4. CASE Commit
  <2>1. Grows /\ UNCHANGED <<table, pc, procVars>>
    BY <1>1, <1>4, CommitGrows
  <2>2. /\ store' \in [URI -> Body]
        /\ \A u \in URI : u.base = "target" \/ u.key \notin KeysOf(Left[1]) => store'[u] = store[u]
        /\ KeysOf(Left[1]) \subseteq Future(t)
    BY <1>1, <2>1, NowGrows, LeftShrinks DEF Grows, WalkedAs
  <2>3. \A u \in URI : u.base = "target" \/ Known(t, u) => store'[u] = store[u]
    BY <2>2 DEF Known
  <2> QED
    BY <2>1, <2>2, <2>3, DryUndisturbed
<1>5. CASE Swap
  <2>1. pc' \in {"down", "write", "validate"}
    BY <1>5 DEF Swap, Swapped, Finish
  <2> QED
    BY <2>1, LiveStepKept DEF DryWalk
<1>6. CASE Write
  <2>1. pc' \in {"down", "validate"}
    BY <1>6 DEF Write, Swapped, Finish
  <2> QED
    BY <2>1, LiveStepKept DEF DryWalk
<1>7. CASE Load \/ \E d \in BOOLEAN : Boot(d)
  BY <1>7 DEF Load, Boot, Walking
<1> QED
  BY <1>2, <1>3, <1>4, <1>5, <1>6, <1>7, StepKinds

-----------------------------------------------------------------------------
(* What dry runs foretold *)

Foretold(t) == \A r \in WalkedRefs(t) : RefPasses(t, r)
Foretells(t, f) == f.hits = TableHits(t) /\ Foretold(t)

\* Of the table now, and of the one a process walks.
ForetoldInv ==
  \A f \in foretold :
    /\ f.of.base # "target" /\ f.of.key \notin Coming
    /\ f.of = pointer => Foretells(Now, f)
DryAs(t) ==
  /\ WalkedAs(t) /\ DryInv(t)
  /\ \A f \in foretold : f.of = t.metadata => Foretells(t, f)

LEMMA EndForetells ==
  ASSUME NEW t, InWalk(t), DryInv(t), EndDryRun
  PROVE  /\ foretold' = foretold \cup {[of |-> t.metadata, hits |-> hits]}
         /\ Foretells(t, [of |-> t.metadata, hits |-> hits])
<1>1. /\ pc = "walk" /\ i > Len(Metadata.refs) /\ dry
      /\ foretold' = foretold \cup {[of |-> old, hits |-> hits]}
  BY DEF EndDryRun
<1>2. Metadata = Meta(t) /\ Meta(t).refs \in Seq(Ref) /\ old = t.metadata
  BY MetadataRead DEF InWalk, RebaseInv, ProcessInv
<1>3. WalkedBefore(t) = WalkedRefs(t)
  <2>1. \A n \in DOMAIN Meta(t).refs : n < i
    BY <1>1, <1>2, TableType DEF InWalk
  <2>2. WalkedRefs(t) \subseteq {Meta(t).refs[n] : n \in DOMAIN Meta(t).refs}
    BY DEF WalkedRefs, RefsOf, Meta
  <2> QED
    BY <2>1, <2>2 DEF WalkedBefore
<1>4. hits = TableHits(t) /\ Foretold(t)
  BY <1>1, <1>3 DEF DryInv, DryWalk, DryList, DryManifest, HitsInv, TableHits, Foretold
<1> QED
  BY <1>1, <1>2, <1>4 DEF Foretells

\* Before the swap, while the pointer stays the table does.
LEMMA PointerStays ==
  ASSUME RInv, [Next]_vars, pointer' = pointer, pointer.base # "target", ~Commit
  PROVE  Now' = Now /\ Coming' = Coming
<1>1. TypeInv /\ ShapeInv /\ Orderly(table) /\ SideInv /\ (Walking => \E t : WalkedAs(t))
      /\ SourceInv
  BY DEF RInv, SideInv
<1>2. CASE Walks
  <2>1. UNCHANGED <<table, pointer, commits>> /\ Walking /\ pc' # "load"
    BY <1>2, WalksStay
  <2>2. PICK t : WalkedAs(t)
    BY <1>1, <2>1
  <2>3. Now' = Now
    BY <1>1, <1>2, <2>1, <2>2, WalksAdvance, SourceInstall DEF WalkedAs, Advances
  <2> QED
    BY <2>1, <2>3 DEF Coming, Left
<1>3. CASE UNCHANGED <<table, store, pointer, commits>>
  BY <1>3, NowStays
<1>4. ASSUME NEW d \in BOOLEAN, Boot(d) PROVE Now' = Now /\ Coming' = Coming
  <2>1. Now' = Now
    BY <1>1, <1>4, SourceBoot
  <2> QED
    BY <1>4, <2>1 DEF Coming, Left, Boot
<1>5. CASE Quiet \/ Load \/ Swap \/ Write
  BY <1>3, <1>5 DEF Quiet, Load, Swap, Write, bounds
<1> QED
  BY <1>2, <1>4, <1>5, StepKinds

LEMMA OnlyEndForetells ==
  ASSUME [Next]_vars, ~EndDryRun
  PROVE  foretold' = foretold
BY DEF Next, Process, Load, OpenSnapshot, ReadManifest, PlainEntry, RefuseEntry, DeleteFile,
       CloseManifest, CloseList, RewriteMetadataJSON, Verify, Swap, Write, Validate, Start,
       StartDry, Boot, Fail, Kill, Commit, vars

LEMMA ForetoldStep ==
  ASSUME RInv, [Next]_vars, ForetoldInv, Walking => \E t : DryAs(t)
  PROVE  ForetoldInv'
<1>1. TypeInv /\ ShapeInv /\ SideInv /\ table' = table
  BY ShapeStep DEF RInv
<1>2. CASE Commit
  <2>1. Grows /\ UNCHANGED table /\ foretold' = foretold
    BY <1>1, <1>2, CommitGrows DEF Commit
  <2>2. Coming' \subseteq Coming /\ KeysOf(Left[1]) \subseteq Coming
    BY <1>1, <2>1, LeftShrinks DEF Grows
  <2>3. pointer'.key \in Coming
    BY <2>1, <2>2 DEF Grows, Placed, KeysOf
  <2> QED
    BY <2>1, <2>2, <2>3 DEF ForetoldInv
<1>3. CASE EndDryRun
  <2>1. Walking /\ UNCHANGED <<table, store, pointer, commits>>
    BY <1>3 DEF EndDryRun, Walking, bounds
  <2>2. PICK t : DryAs(t)
    BY <2>1
  <2> DEFINE f == [of |-> t.metadata, hits |-> hits]
  <2>3. /\ IsTable(t) /\ Orderly(t) /\ RebaseInv(t) /\ InWalk(t) /\ DryInv(t)
        /\ Coming \subseteq Future(t) /\ (pointer = old => t = Now)
    BY <1>1, <2>2 DEF DryAs, WalkedAs, InWalk
  <2>4. foretold' = foretold \cup {f} /\ Foretells(t, f) /\ f.of = t.metadata
    BY <1>3, <2>3, EndForetells
  <2> HIDE DEF f
  <2>5. f.of.base # "target" /\ f.of.key \notin Coming
    BY <2>3, <2>4, MetadataKnown DEF Known
  <2>6. f.of = pointer => Foretells(Now, f)
    BY <2>3, <2>4 DEF RebaseInv, ProcessInv
  <2>7. Now' = Now /\ Coming' = Coming
    BY <2>1, NowStays
  <2>8. ASSUME NEW g \in foretold'
        PROVE  /\ g.of.base # "target" /\ g.of.key \notin Coming
               /\ g.of = pointer => Foretells(Now, g)
    BY <2>4, <2>5, <2>6, <2>8 DEF ForetoldInv
  <2> QED
    BY <2>1, <2>7, <2>8 DEF ForetoldInv
<1>4. CASE ~Commit /\ ~EndDryRun /\ pointer' = pointer
  <2>1. foretold' = foretold
    BY <1>4, OnlyEndForetells
  <2>2. CASE pointer.base = "target"
    <3>1. commits' = commits
      BY <1>4 DEF Next, Process, Load, OpenSnapshot, ReadManifest, PlainEntry, RefuseEntry,
           DeleteFile, CloseManifest, CloseList, EndDryRun, RewriteMetadataJSON, Verify, Swap,
           Write, Validate, Start, StartDry, Boot, Fail, Kill, vars, bounds
    <3>2. Coming' = Coming
      BY <1>1, <3>1 DEF Coming, Left
    <3> QED
      BY <1>4, <2>1, <2>2, <3>2 DEF ForetoldInv
  <2>3. CASE pointer.base # "target"
    <3>1. Now' = Now /\ Coming' = Coming
      BY <1>4, <2>3, PointerStays
    <3> QED
      BY <1>4, <2>1, <3>1 DEF ForetoldInv
  <2> QED
    BY <2>2, <2>3
<1>5. CASE ~Commit /\ pointer' # pointer
  <2>1. Write
    BY <1>5 DEF Next, Process, Load, OpenSnapshot, ReadManifest, PlainEntry, RefuseEntry,
         DeleteFile, CloseManifest, CloseList, EndDryRun, RewriteMetadataJSON, Verify,
         Swap, bounds, Validate, Start, StartDry, Boot, Fail, Kill, vars
  <2>2. UNCHANGED <<table, commits, foretold>> /\ Walking
    BY <2>1 DEF Write, Walking
  <2>3. Coming' = Coming
    BY <2>2 DEF Coming, Left
  <2>4. pointer'.base = "target"
    <3>1. PICK t : DryAs(t)
      BY <2>2
    <3>2. pointer' = Apply(pointer) /\ Rebased(Now, store)
      BY <1>1, <1>5, <2>1, <3>1, WriteMoves DEF DryAs
    <3>3. Matches(pointer) /\ pointer \in URI
      BY <1>1, <3>2, NowFields DEF Rebased, TypeInv, StorageOK
    <3> QED
      BY <3>2, <3>3, ApplyBase
  <2> QED
    BY <2>2, <2>3, <2>4 DEF ForetoldInv
<1> QED
  BY <1>2, <1>3, <1>4, <1>5

DInv == RInv /\ ForetoldInv /\ (Walking => \E t : DryAs(t))

LEMMA DryStep ==
  ASSUME DInv, [Next]_vars
  PROVE  DInv'
<1>1. /\ RInv /\ ForetoldInv /\ (Walking => \E t : DryAs(t))
      /\ TypeInv /\ ShapeInv /\ Orderly(table) /\ SideInv
  BY DEF DInv, RInv
<1>2. RInv' /\ ForetoldInv'
  BY <1>1, RebaseStep, ForetoldStep
<1>3. CASE Walking /\ Walking'
  <2>1. PICK t : DryAs(t)
    BY <1>1, <1>3
  <2>2. WalkedAs(t) /\ InWalk(t) /\ DryInv(t)
    BY <1>1, <2>1 DEF DryAs, WalkedAs, InWalk
  <2>3. WalkedAs(t)' /\ DryInv(t)'
    BY <1>1, <1>3, <2>2, WalkStep, StepDry
  <2>4. foretold' = foretold
    <3>1. ~EndDryRun
      BY <1>3 DEF EndDryRun, Finish, Walking
    <3> QED
      BY <3>1, OnlyEndForetells
  <2>5. DryAs(t)'
    BY <2>1, <2>3, <2>4 DEF DryAs
  <2> QED
    BY <1>1, <1>2, <2>5 DEF DInv
<1>4. CASE ~Walking /\ Walking'
  <2>1. /\ UNCHANGED <<table, store, pointer, commits>> /\ Now' = Now /\ WalkedAs(Now)'
        /\ Load /\ Matches(pointer)
    BY <1>1, <1>4, WalkStart
  <2>2. PICK t : t = Now
    OBVIOUS
  <2>3. WalkedAs(t)'
    BY <2>1, <2>2
  <2>4. /\ IsTable(t) /\ Orderly(t) /\ CopyInv(t) /\ pc' = "walk" /\ i = 1
        /\ t.metadata = pointer /\ t.maxObjectSize = table.maxObjectSize
        /\ foretold' = foretold
    <3>1. pc = "load" /\ pc' = "walk" /\ foretold' = foretold
      BY <1>4, <2>1 DEF Load, Finish, Walking
    <3>2. SourceInv /\ i = 1
      BY <1>1, <2>1, <3>1 DEF SideInv, TargetInv, ShapeInv, Matches
    <3> QED
      BY <2>2, <3>1, <3>2, NowFields DEF SourceInv
  <2>5. DryInv(t)'
    BY <1>1, <2>1, <2>4, LoadDry
  <2>6. \A f \in foretold' : f.of = t.metadata => Foretells(t, f)
    BY <1>1, <2>2, <2>4 DEF ForetoldInv
  <2>7. DryAs(t)'
    BY <2>3, <2>5, <2>6 DEF DryAs
  <2> QED
    BY <1>2, <2>7 DEF DInv
<1> QED
  BY <1>2, <1>3, <1>4 DEF DInv

LEMMA DryCorrect == OrderlyAll /\ Spec => []DInv
<1>1. OrderlyAll /\ Init => DInv
  <2> SUFFICES ASSUME OrderlyAll, Init PROVE DInv
    OBVIOUS
  <2>1. RInv /\ ~Walking
    BY InitType, InitSide DEF OrderlyAll, Init, RInv
  <2> QED
    BY <2>1 DEF DInv, ForetoldInv, Init
<1>2. DInv /\ [Next]_vars => DInv'
  BY DryStep
<1> QED
  BY <1>1, <1>2, PTL DEF Spec

-----------------------------------------------------------------------------
(* What a dry run that ended cleanly says of a live run *)

\* Whatever a live run has in hand is something the dry run got past.
LEMMA ManifestForetold ==
  ASSUME NEW t, InWalk(t), Foretold(t), ~dry, pc \in {"list", "manifest"}, j \in DOMAIN list
  PROVE  /\ ManifestPasses(t, list[j].path)
         /\ list[j].path \in URI /\ Known(t, list[j].path)
<1> DEFINE r == Meta(t).refs[i]
<1>1. ListInv(t) /\ TypeInv /\ IsTable(t) /\ Orderly(t) /\ CopyInv(t) /\ ProcessInv(t)
  BY DEF InWalk, RebaseInv, InList
<1>2. /\ r \in WalkedRefs(t) /\ j \in DOMAIN Listed(t) /\ list[j] = Listed(t)[j]
      /\ list[j].path \in URI /\ Known(t, list[j].path)
  BY <1>1, ManifestRead DEF ListInv
<1>3. /\ r.role \in {"list", "manifest"}
      /\ r.role = "list" => Listed(t)[j] \in RefsOf(Origin(t), r.path)
      /\ r.role = "manifest" => Listed(t)[j].path = r.path
  BY <1>1, <1>2, ListRead DEF ListInv
<1>4. RefPasses(t, r)
  BY <1>2 DEF Foretold
<1> QED
  BY <1>2, <1>3, <1>4 DEF RefPasses

LEMMA EntryForetold ==
  ASSUME NEW t, InWalk(t), Foretold(t), ~dry, pc = "manifest", k <= Len(man)
  PROVE  EntryPasses(t, man[k]) /\ man[k].path \in URI /\ Known(t, man[k].path)
<1>1. /\ j \in DOMAIN list /\ k \in DOMAIN Before(t) /\ man[k] = Before(t)[k]
      /\ man[k].path \in URI /\ Known(t, man[k].path)
  BY EntryInHand DEF InWalk
<1>2. Before(t)[k] \in RefsOf(Origin(t), list[j].path)
  BY <1>1 DEF RefsOf, Before
<1> QED
  BY <1>1, <1>2, ManifestForetold DEF ManifestPasses

\* How a process may end after a dry run of its metadata.
MayEnd ==
  \/ report' \in {"ok", "noop", "outside", "drift", "invalid", "killed"}
  \/ report' = "failed" /\ (faults' > faults \/ pc = "verify")

LEMMA EndsForetold ==
  ASSUME NEW t, InWalk(t), DryInv(t), Foretold(t), Next, ~dry, Walking, pc' = "down"
  PROVE  MayEnd
<1>0. TypeInv /\ IsTable(t) /\ Orderly(t) /\ CopyInv(t) /\ ProcessInv(t) /\ faults \in Nat
  BY DEF InWalk, RebaseInv, TypeInv, CountsOK
<1>1. CASE OpenSnapshot
  <2> DEFINE r == Meta(t).refs[i]
  <2>1. Metadata = Meta(t) /\ i \in DOMAIN Meta(t).refs
    BY <1>0, <1>1, MetadataRead, TableType DEF OpenSnapshot
  <2>2. r.path \in URI /\ Known(t, r.path) /\ (Walked(i) <=> r \in WalkedRefs(t))
    BY <1>0, <2>1, MetadataRead
  <2>3. ~(Walked(i) /\ ~(IF r.role = "list" THEN Readable(r.path) ELSE Present(r.path)))
    <3> SUFFICES ASSUME Walked(i)
                 PROVE  IF r.role = "list" THEN Readable(r.path) ELSE Present(r.path)
      OBVIOUS
    <3>1. RefPasses(t, r) /\ r.role \in {"list", "manifest"}
      BY <2>2 DEF Foretold, WalkedRefs, InSnapshot
    <3>2. MayRead(t, r.path)
      BY <3>1 DEF RefPasses, ManifestPasses
    <3> QED
      BY <2>2, <3>2, ReadableIff DEF Readable
  <2> QED
    BY <1>1, <2>1, <2>3 DEF OpenSnapshot, NextSnapshot
<1>2. CASE ReadManifest
  <2>1. pc = "list" /\ j \in DOMAIN list
    BY <1>0, <1>2, TableType DEF ReadManifest
  <2>2. Readable(list[j].path)
    BY <2>1, ManifestForetold, ReadableIff DEF ManifestPasses
  <2> QED
    BY <1>2, <2>2 DEF ReadManifest
<1>3. CASE RefuseEntry
  BY <1>3, EntryForetold DEF RefuseEntry, EntryPasses
<1>4. CASE DeleteFile
  <2> DEFINE p == man[k].path
  <2>1. pc = "manifest" /\ k <= Len(man) /\ man[k].role = "pos" /\ Matches(p)
    BY <1>4 DEF DeleteFile
  <2>2. EntryPasses(t, man[k]) /\ p \in URI /\ Known(t, p)
    BY <2>1, EntryForetold
  <2>3. store[p] = Origin(t)[p]
    BY <1>0, <2>2, Reads
  <2>4. Readable(p) /\ ~ForeignRows(store[p].refs)
    BY <2>1, <2>2, <2>3, ReadableIff DEF EntryPasses
  <2> QED
    BY <1>4, <2>4 DEF DeleteFile, Mutate, Put, Reported
<1>5. CASE PlainEntry
  BY <1>5 DEF PlainEntry, Mutate, Reported
<1>6. CASE CloseManifest
  BY <1>6 DEF CloseManifest, Relist, Put, Finish, MayEnd
<1>7. CASE CloseList
  BY <1>7 DEF CloseList, NextSnapshot, Put, Finish, MayEnd
<1>8. CASE RewriteMetadataJSON
  <2>1. old = t.metadata /\ MayRead(t, t.metadata)
    BY <1>0 DEF ProcessInv, DryInv
  <2>2. Readable(old)
    BY <1>0, <2>1, TableType, ReadableIff
  <2> QED
    BY <1>8, <2>2 DEF RewriteMetadataJSON, Put
<1>9. CASE Verify
  BY <1>9 DEF Verify, Mutate, Relist, NextSnapshot, Finish, MayEnd
<1>10. CASE Swap
  BY <1>0, <1>10 DEF Swap, Swapped, Finish, MayEnd
<1>14. CASE Write
  BY <1>0, <1>14 DEF Write, Swapped, Finish, MayEnd
<1>11. CASE Validate
  BY <1>11 DEF Validate, Finish, MayEnd
<1>12. CASE Fail \/ Kill
  BY <1>0, <1>12 DEF Fail, Kill, Finish, MayEnd
<1>13. CASE Load \/ EndDryRun \/ Start \/ StartDry \/ Commit
  BY <1>13 DEF Load, EndDryRun, Start, StartDry, Boot, Commit, Walking
<1> QED
  BY <1>1, <1>2, <1>3, <1>4, <1>5, <1>6, <1>7, <1>8, <1>9, <1>10, <1>11, <1>12, <1>13,
     <1>14 DEF Next, Process

\* Of orderly tables, after a dry run that ended cleanly: no body or entry stops
\* a live run, whatever earlier runs left behind (positiondelete.go:148).
THEOREM DryRunPredictsCorrect == OrderlyAll /\ Spec => DryRunPredicts
<1>1. DInv /\ [Next]_vars =>
        [(\E f \in foretold : f.of = old) /\ ~dry /\ pc \notin {"down", "load"} /\ pc' = "down" =>
           \/ report' \in {"ok", "noop", "outside", "drift", "invalid", "killed"}
           \/ report' = "failed" /\ (faults' > faults \/ pc = "verify")]_vars
  <2> SUFFICES ASSUME DInv, Next, NEW f \in foretold, f.of = old,
                      ~dry, pc \notin {"down", "load"}, pc' = "down"
               PROVE  MayEnd
    BY DEF MayEnd
  <2>1. CASE Walking
    <3>1. PICK t : DryAs(t)
      BY <2>1 DEF DInv
    <3>2. InWalk(t) /\ DryInv(t)
      BY <3>1 DEF DInv, RInv, DryAs, WalkedAs, InWalk
    <3>3. Foretold(t)
      BY <3>1, <3>2 DEF DryAs, InWalk, RebaseInv, ProcessInv, Foretells
    <3> QED
      BY <2>1, <3>2, <3>3, EndsForetold
  <2>2. CASE ~Walking
    <3>1. pc = "validate" /\ faults \in Nat
      BY <2>2 DEF DInv, RInv, TypeInv, FlagsOK, ProcessOK, CountsOK, Walking
    <3>2. Validate \/ Fail \/ Kill \/ Commit
      BY <3>1 DEF Next, Process, Load, OpenSnapshot, ReadManifest, PlainEntry, RefuseEntry,
         DeleteFile, CloseManifest, CloseList, EndDryRun, RewriteMetadataJSON, Verify, Swap,
         Write, Start, StartDry, Boot
    <3> QED
      BY <3>1, <3>2 DEF Validate, Fail, Kill, Commit, Finish, MayEnd
  <2> QED
    BY <2>1, <2>2
<1> QED
  BY <1>1, DryCorrect, PTL DEF DryRunPredicts, Spec

-----------------------------------------------------------------------------
(* What a live run has changed when the swap is next *)

\* What a scan of the wanted snapshots follows above the entries.
LEMMA Below ==
  ASSUME NEW t, IsTable(t), Orderly(t)
  PROVE  {r \in UNION {Followed(Origin(t), t.metadata, n) : n \in Wanted(t)} :
            r.role \in {"list", "manifest"}}
           = WalkedRefs(t)
             \cup UNION {RefsOf(Origin(t), r.path) : r \in {q \in WalkedRefs(t) : q.role = "list"}}
<1> DEFINE O == Origin(t)
           md == t.metadata
           Above == WalkedRefs(t)
                    \cup UNION {RefsOf(O, r.path) : r \in {q \in WalkedRefs(t) : q.role = "list"}}
<1>1. ASSUME NEW n \in Wanted(t), NEW r \in Followed(O, md, n), r.role \in {"list", "manifest"}
      PROVE  r \in Above
  <2>1. CASE r \in RefsOf(O, md) /\ r.snap = n
    BY <1>1, <2>1 DEF WalkedRefs, InSnapshot
  <2>2. CASE \E l \in RefsOf(O, md) : l.snap = n /\ l.role = "list" /\ r \in RefsOf(O, l.path)
    BY <2>2 DEF WalkedRefs, InSnapshot
  <2>3. r \notin EntriesOf(O, md, n)
    <3> SUFFICES ASSUME r \in EntriesOf(O, md, n) PROVE FALSE
      OBVIOUS
    <3>1. PICK q \in ManifestsOf(O, md, n) : r \in RefsOf(O, q.path)
      BY DEF EntriesOf
    <3>2. q \in ManifestRefs(t)
      BY DEF ManifestsOf, ManifestRefs, ListRefs
    <3>3. r \in Entries(t)
      BY <3>1, <3>2 DEF Entries
    <3> QED
      BY <1>1, <3>3 DEF Orderly, WellFormed
  <2> QED
    BY <2>1, <2>2, <2>3 DEF Followed, ManifestsOf
<1>2. ASSUME NEW r \in WalkedRefs(t)
      PROVE  r.role \in {"list", "manifest"} /\ \E n \in Wanted(t) : r \in Followed(O, md, n)
  BY DEF WalkedRefs, InSnapshot, Followed, ManifestsOf
<1>3. ASSUME NEW l \in WalkedRefs(t), l.role = "list", NEW r \in RefsOf(O, l.path)
      PROVE  r.role = "manifest" /\ \E n \in Wanted(t) : r \in Followed(O, md, n)
  <2>1. l \in ListRefs(t)
    BY <1>3 DEF WalkedRefs, ListRefs
  <2>2. r.role = "manifest"
    BY <2>1 DEF Orderly, WellFormed
  <2> QED
    BY <1>3, <2>2 DEF WalkedRefs, InSnapshot, Followed, ManifestsOf
<1> QED
  BY <1>1, <1>2, <1>3

After(u) == store[IF new = old THEN u ELSE Apply(u)].refs
Rewritten(u) == {h \in Changes(u, store[u].refs, After(u)) : store[u].refs[h[2]].role # "summary"}

\* Reference n of object u has become the one a dry run foretells.
Foreseen(t, u, n) ==
  LET r == Origin(t)[u].refs[n]
  IN After(u)[n].path = Moved(r).path /\ After(u)[n].refd = Moved(r).refd

LEMMA ForeseenFields ==
  ASSUME NEW t, InWalk(t), NEW u \in URI, Known(t, u),
         \A n \in DOMAIN Origin(t)[u].refs : Foreseen(t, u, n)
  PROVE  Rewritten(u) = {h \in Fields(t, u) : Origin(t)[u].refs[h[2]].role # "summary"}
<1> DEFINE refs == Origin(t)[u].refs
<1>1. store[u].refs = refs
  BY Reads DEF InWalk, RebaseInv
<1>2. \A n \in DOMAIN refs : MovedAll(refs)[n] = Moved(refs[n])
  BY DEF MovedAll
<1>3. Changes(u, refs, After(u)) = Fields(t, u)
  BY <1>2 DEF Foreseen, Fields, Changes
<1> QED
  BY <1>1, <1>3 DEF Rewritten

\* Nothing is under the source prefix when there was nothing to do.
LEMMA NothingToDo ==
  ASSUME NEW t, InWalk(t), SwapInv(t), new = old, NEW r \in WalkedRefs(t)
  PROVE  /\ ~Matches(r.path)
         /\ r.role = "list" => \A q \in RefsOf(Origin(t), r.path) : ~Matches(q.path)
<1>1. MovedAll(Meta(t).refs) = Meta(t).refs
  BY DEF InWalk, RebaseInv, ProcessInv, SwapInv
<1>2. PICK n \in DOMAIN Meta(t).refs : r = Meta(t).refs[n]
  BY DEF WalkedRefs, RefsOf, Meta
<1>3. r \in Ref /\ r.path \in URI
  BY <1>2, MetadataRead DEF InWalk, RebaseInv
<1>4. Moved(r) = r
  BY <1>1, <1>2 DEF MovedAll
<1>5. ~Matches(r.path)
  BY <1>3, <1>4, MovedFields, ApplyBase
<1> QED
  BY <1>5 DEF SwapInv, RefDone, ListDone

LEMMA MetadataForeseen ==
  ASSUME NEW t, InWalk(t), SwapInv(t), NEW n \in DOMAIN Meta(t).refs
  PROVE  Foreseen(t, t.metadata, n)
<1>1. /\ old = t.metadata /\ TypeInv /\ IsTable(t) /\ Orderly(t) /\ CopyInv(t) /\ t.metadata \in URI
      /\ Known(t, t.metadata)
  BY TableType DEF InWalk, RebaseInv, ProcessInv
<1>2. CASE new = old
  <2>1. After(t.metadata) = Meta(t).refs
    BY <1>1, <1>2, Reads DEF After, Meta
  <2>2. MovedAll(Meta(t).refs) = Meta(t).refs
    BY <1>1, <1>2 DEF SwapInv
  <2>3. Moved(Meta(t).refs[n]) = Meta(t).refs[n]
    BY <2>2 DEF MovedAll
  <2> QED
    BY <2>1, <2>3 DEF Foreseen, Meta
<1>3. CASE new # old
  <2>1. store[Apply(t.metadata)] = MetadataImage(t)
    BY <1>1, <1>3, ImageOfMetadata DEF SwapInv, Rebased, Installed
  <2>2. MetadataImage(t).refs = MovedAll(Meta(t).refs)
    BY <1>1, ExactImage DEF Meta
  <2>3. After(t.metadata)[n] = Moved(Meta(t).refs[n])
    BY <1>3, <2>1, <2>2 DEF After, MovedAll
  <2> QED
    BY <2>3 DEF Foreseen, Meta
<1> QED
  BY <1>2, <1>3

LEMMA ListForeseen ==
  ASSUME NEW t, InWalk(t), SwapInv(t), NEW l \in WalkedRefs(t), l.role = "list",
         NEW n \in DOMAIN Origin(t)[l.path].refs
  PROVE  Foreseen(t, l.path, n) /\ Origin(t)[l.path].refs[n].role # "summary"
<1> DEFINE refs == Origin(t)[l.path].refs
           r == refs[n]
<1>1. /\ l \in ListRefs(t) /\ l.path \in URI /\ Known(t, l.path)
      /\ TypeInv /\ IsTable(t) /\ Orderly(t) /\ CopyInv(t)
      /\ ListDone(t, store, l.path)
  <2>1. l \in RefsOf(Origin(t), t.metadata) /\ l \in ListRefs(t)
    BY DEF WalkedRefs, ListRefs
  <2>2. TypeInv /\ IsTable(t) /\ Orderly(t) /\ CopyInv(t) /\ t.metadata \in URI
    BY TableType DEF InWalk, RebaseInv
  <2>3. l.path \in URI /\ Known(t, l.path)
    BY <2>1, <2>2, OrderlyTypes, RefFields, NoTarget
  <2> QED
    BY <2>1, <2>2, <2>3 DEF SwapInv, RefDone
<1>2. r \in RefsOf(Origin(t), l.path)
  BY DEF RefsOf
<1>3. r \in Ref /\ r.path \in URI
  BY <1>1, <1>2, OrderlyTypes, RefsType, RefFields
<1>4. r.role = "manifest" /\ r.refd = {}
  BY <1>1, <1>2 DEF Orderly, WellFormed, ManifestRefs
<1>5. Moved(r).path = Apply(r.path) /\ Moved(r).refd = {}
  BY <1>3, <1>4, MovedFields DEF ApplyAll
<1>6. CASE Matches(l.path)
  <2>1. new # old
    BY <1>6, NothingToDo
  <2>2. store[Apply(l.path)] = ListImage(t, l.path)
    BY <1>1, <1>6, ImageOfList DEF ListDone, Installed
  <2>3. After(l.path)[n] = RefImage(r)
    BY <2>1, <2>2 DEF After, ListImage, RefImages
  <2>4. RefImage(r).refd = r.refd
    BY <1>3 DEF RefImage, Relisted, Ref
  <2> QED
    BY <1>3, <1>4, <1>5, <2>3, <2>4, RefImagePath DEF Foreseen
<1>7. CASE ~Matches(l.path)
  <2>1. After(l.path) = refs
    BY <1>1, <1>7, ApplyBase, Reads DEF After
  <2>2. Apply(r.path) = r.path
    BY <1>1, <1>2, <1>3, <1>7, ApplyBase DEF ListDone
  <2> QED
    BY <1>4, <1>5, <2>1, <2>2 DEF Foreseen
<1> QED
  BY <1>6, <1>7

LEMMA ManifestForeseen ==
  ASSUME NEW t, InWalk(t), NEW q \in ManifestRefs(t), ManifestDone(t, store, q.path),
         Known(t, q.path), new = old => ~Matches(q.path),
         NEW n \in DOMAIN Origin(t)[q.path].refs
  PROVE  Foreseen(t, q.path, n) /\ Origin(t)[q.path].refs[n].role # "summary"
<1> DEFINE refs == Origin(t)[q.path].refs
           e == refs[n]
<1>1. /\ q.path \in URI /\ TypeInv /\ IsTable(t) /\ Orderly(t) /\ CopyInv(t)
  BY TableType, OrderlyTypes, RefFields DEF InWalk, RebaseInv
<1>2. e \in RefsOf(Origin(t), q.path)
  BY DEF RefsOf
<1>3. e \in Ref /\ e.role # "summary"
  <2>1. e \in Entries(t)
    BY <1>2 DEF Entries
  <2> QED
    BY <1>1, <2>1, OrderlyTypes DEF Orderly, WellFormed
<1>4. EntryImage(t, e).path = Moved(e).path /\ EntryImage(t, e).refd = Moved(e).refd
  BY <1>1, <1>3, EntryFields, MovedFields
<1>5. CASE Matches(q.path)
  <2>1. store[Apply(q.path)] = ManifestImage(t, q.path)
    BY <1>1, <1>5, ImageOfManifest DEF ManifestDone, Installed
  <2>2. After(q.path)[n] = EntryImage(t, e)
    BY <1>5, <2>1 DEF After, ManifestImage, EntryImages
  <2> QED
    BY <1>3, <1>4, <2>2 DEF Foreseen
<1>6. CASE ~Matches(q.path)
  <2>1. After(q.path) = refs
    BY <1>1, <1>6, ApplyBase, Reads DEF After
  <2>2. EntryImage(t, e) = e
    BY <1>2, <1>6 DEF ManifestDone
  <2> QED
    BY <1>3, <1>4, <2>1, <2>2 DEF Foreseen
<1> QED
  BY <1>5, <1>6

\* Objects none of whose references is of a snapshot summary.
LEMMA PlainFields ==
  ASSUME NEW t, InWalk(t), NEW u \in URI, Known(t, u),
         \A n \in DOMAIN Origin(t)[u].refs :
           Foreseen(t, u, n) /\ Origin(t)[u].refs[n].role # "summary"
  PROVE  Rewritten(u) = Fields(t, u)
<1>1. Rewritten(u) = {h \in Fields(t, u) : Origin(t)[u].refs[h[2]].role # "summary"}
  BY ForeseenFields
<1> QED
  BY <1>1, FieldOf

\* What a live run rewrote of a snapshot is what a dry run reports of it.
LEMMA RefForeseen ==
  ASSUME NEW t, InWalk(t), SwapInv(t), NEW r \in WalkedRefs(t)
  PROVE  /\ Rewritten(r.path) = Fields(t, r.path)
         /\ r.role = "list" =>
              \A q \in RefsOf(Origin(t), r.path) : Rewritten(q.path) = Fields(t, q.path)
<1> DEFINE O == Origin(t)
<1>1. /\ TypeInv /\ IsTable(t) /\ Orderly(t) /\ CopyInv(t) /\ t.metadata \in URI
      /\ r \in RefsOf(O, t.metadata) /\ r.role \in {"list", "manifest"}
  BY TableType DEF InWalk, RebaseInv, WalkedRefs, InSnapshot
<1>2. r \in Ref /\ r.path \in URI /\ Known(t, r.path)
  BY <1>1, OrderlyTypes, RefsType, RefFields, NoTarget
<1>3. RefDone(t, store, r) /\ (new = old => ~Matches(r.path))
  BY NothingToDo DEF SwapInv
<1>4. CASE r.role = "list"
  <2>1. Rewritten(r.path) = Fields(t, r.path)
    BY <1>2, <1>4, ListForeseen, PlainFields
  <2>2. ASSUME NEW q \in RefsOf(O, r.path) PROVE Rewritten(q.path) = Fields(t, q.path)
    <3>1. q \in ManifestRefs(t)
      BY <1>1, <1>4 DEF ListRefs, ManifestRefs
    <3>2. q.path \in URI /\ Known(t, q.path)
      BY <1>1, <1>2, <3>1, OrderlyTypes, RefFields, NoTarget
    <3>3. ManifestDone(t, store, q.path) /\ (new = old => ~Matches(q.path))
      BY <1>3, <1>4, NothingToDo DEF RefDone, ListDone
    <3> QED
      BY <3>1, <3>2, <3>3, ManifestForeseen, PlainFields
  <2> QED
    BY <2>1, <2>2
<1>5. CASE r.role = "manifest"
  <2>1. r \in ManifestRefs(t) /\ ManifestDone(t, store, r.path)
    BY <1>1, <1>3, <1>5 DEF ManifestRefs, RefDone
  <2> QED
    BY <1>2, <1>3, <1>5, <2>1, ManifestForeseen, PlainFields
<1> QED
  BY <1>1, <1>4, <1>5

LEMMA SwapForeseen ==
  ASSUME NEW t, InWalk(t), SwapInv(t)
  PROVE  TableHits(t)
           = Rewritten(old)
             \cup UNION {Rewritten(r.path) :
                           r \in {q \in UNION {Followed(store, old, n) :
                                                 n \in Selected(table.currentOnly, Metadata)} :
                                    q.role \in {"list", "manifest"}}}
<1> DEFINE O == Origin(t)
           md == t.metadata
           lists == {q \in WalkedRefs(t) : q.role = "list"}
           below == WalkedRefs(t) \cup UNION {RefsOf(O, r.path) : r \in lists}
<1>1. /\ TypeInv /\ IsTable(t) /\ Orderly(t) /\ CopyInv(t) /\ md \in URI
      /\ Known(t, md) /\ old = md /\ Metadata = Meta(t) /\ Agrees(t, store)
      /\ t.currentOnly = table.currentOnly
  BY TableType, MetadataRead DEF InWalk, RebaseInv, ProcessInv, CopyInv
<1>2. Rewritten(md) = MetadataHits(t)
  BY <1>1, MetadataForeseen, ForeseenFields DEF MetadataHits, Meta
<1>3. {q \in UNION {Followed(store, old, n) : n \in Selected(table.currentOnly, Metadata)} :
         q.role \in {"list", "manifest"}} = below
  <2>1. Selected(table.currentOnly, Metadata) = Wanted(t)
    BY <1>1 DEF Wanted, Meta
  <2>2. \A n : Followed(store, old, n) = Followed(O, md, n)
    BY <1>1, SourceLooksTheSame
  <2>3. UNION {Followed(store, old, n) : n \in Wanted(t)}
          = UNION {Followed(O, md, n) : n \in Wanted(t)}
    BY <2>2
  <2> QED
    BY <1>1, <2>1, <2>3, Below
<1>4. UNION {Rewritten(r.path) : r \in below} = UNION {RefHits(t, r) : r \in WalkedRefs(t)}
  <2>1. ASSUME NEW r \in below, NEW h \in Rewritten(r.path)
        PROVE  \E w \in WalkedRefs(t) : h \in RefHits(t, w)
    <3>1. CASE r \in WalkedRefs(t)
      BY <2>1, <3>1, RefForeseen DEF RefHits
    <3>2. CASE \E l \in lists : r \in RefsOf(O, l.path)
      <4>1. PICK l \in lists : r \in RefsOf(O, l.path)
        BY <3>2
      <4>2. h \in Fields(t, r.path)
        BY <2>1, <4>1, RefForeseen
      <4> QED
        BY <4>1, <4>2 DEF RefHits
    <3> QED
      BY <3>1, <3>2
  <2>2. ASSUME NEW w \in WalkedRefs(t), NEW h \in RefHits(t, w)
        PROVE  \E r \in below : h \in Rewritten(r.path)
    <3>1. CASE h \in Fields(t, w.path)
      BY <3>1, RefForeseen
    <3>2. CASE w.role = "list" /\ \E q \in RefsOf(O, w.path) : h \in Fields(t, q.path)
      <4>1. PICK q \in RefsOf(O, w.path) : h \in Fields(t, q.path)
        BY <3>2
      <4>2. h \in Rewritten(q.path) /\ w \in lists
        BY <3>2, <4>1, RefForeseen
      <4> QED
        BY <4>1, <4>2
    <3> QED
      BY <2>2, <3>1, <3>2 DEF RefHits
  <2> QED
    BY <2>1, <2>2
<1> QED
  BY <1>1, <1>2, <1>3, <1>4 DEF TableHits

\* Of orderly tables: what a dry run reported as rewritten is, field by field,
\* what a live run has changed when its swap is next, snapshot summaries apart
\* (walker.go:48).
THEOREM DryRunForetellsCorrect == OrderlyAll /\ Spec => []DryRunForetells
<1>1. DInv => DryRunForetells
  <2> SUFFICES ASSUME DInv, pc = "swap", NEW f \in foretold, f.of = old
               PROVE  f.hits = Rewritten(old)
                        \cup UNION {Rewritten(r.path) :
                                      r \in {q \in UNION {Followed(store, old, n) :
                                                n \in Selected(table.currentOnly, Metadata)} :
                                               q.role \in {"list", "manifest"}}}
    BY DEF DryRunForetells, Rewritten, After
  <2>1. PICK t : DryAs(t)
    BY DEF DInv, Walking
  <2>2. InWalk(t) /\ SwapInv(t)
    BY <2>1 DEF DInv, RInv, DryAs, WalkedAs, InWalk, DryInv
  <2>3. f.hits = TableHits(t)
    BY <2>1, <2>2 DEF DryAs, InWalk, RebaseInv, ProcessInv, Foretells
  <2> QED
    BY <2>2, <2>3, SwapForeseen
<1> QED
  BY <1>1, DryCorrect, PTL
=============================================================================
