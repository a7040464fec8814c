-------------------------- MODULE TableRebaseProofs --------------------------
(***************************************************************************)
(* For every set of orderly tables, whose writers may commit: the migration  *)
(* of one implements TableView, and once the pointer moved nothing readers   *)
(* follow is under the source prefix.  The invariant says, at every step of a *)
(* live process, which images of TableImage are installed, and how the table *)
(* the process loaded is related to the table as it is by now.              *)
(***************************************************************************)
EXTENDS TableImage

Meta(t) == Origin(t)[t.metadata]

\* Storage as it will be if the pending PUT landed whole.
Landing == IF pc = "verify" THEN [store EXCEPT ![put.uri].size = put.size] ELSE store

\* The bulk copy installed what no process PUTs, and nothing overwrites it.
Unmoved(t, e) ==
  e.role = "pos" => MovedRows(Origin(t)[e.path].refs) = Origin(t)[e.path].refs
CopyInv(t) ==
  /\ Agrees(t, store)
  /\ \A e \in Entries(t) :
       Matches(e.path) /\ Unmoved(t, e) => Installed(t, store, e.path)

ProcessInv(t) ==
  /\ old = t.metadata
  /\ t.currentOnly = table.currentOnly
  /\ t.maxObjectSize = table.maxObjectSize

Walking == pc \in {"walk", "list", "manifest", "verify", "swap", "write"}
Rewriting == ~dry /\ pc \in {"walk", "list", "manifest", "verify"}
InList ==
  /\ ~dry
  /\ \/ pc \in {"list", "manifest"}
     \/ pc = "verify" /\ put.level \in {"delete", "manifest"}
InManifest ==
  /\ ~dry
  /\ \/ pc = "manifest"
     \/ pc = "verify" /\ put.level = "delete"

\* The snapshots before i are done.
WalkInv(t) ==
  \A n \in DOMAIN Meta(t).refs :
    n < i /\ Meta(t).refs[n] \in WalkedRefs(t) => RefDone(t, Landing, Meta(t).refs[n])

\* The list as it was read.
Listed(t) ==
  LET r == Meta(t).refs[i]
  IN IF r.role = "list" THEN Origin(t)[r.path].refs
     ELSE <<[r EXCEPT !.len = Origin(t)[r.path].size]>>

\* The manifests before j are done; those from j on are as they were.
ListInv(t) ==
  /\ i \in DOMAIN Meta(t).refs /\ Meta(t).refs[i] \in WalkedRefs(t)
  /\ DOMAIN list = DOMAIN Listed(t)
  /\ \A m \in DOMAIN list :
       /\ m < j => /\ list[m] = RefImage(Listed(t)[m])
                   /\ ManifestDone(t, Landing, Listed(t)[m].path)
       /\ ~(m < j) => list[m] = Listed(t)[m]
       /\ ~changed => list[m] = Listed(t)[m]

\* The entries before k are done; those from k on are as they were.
Before(t) == Origin(t)[list[j].path].refs
ManifestInv(t) ==
  /\ j \in DOMAIN list
  /\ DOMAIN man = DOMAIN Before(t)
  /\ \A m \in DOMAIN man :
       /\ m < k => /\ man[m] = EntryImage(t, Before(t)[m])
                   /\ EntryDone(t, Landing, Before(t)[m])
       /\ ~(m < k) => man[m] = Before(t)[m]
       /\ ~dirty => man[m] = Before(t)[m]

\* What the pending PUT installs.
PutInv(t) ==
  /\ put.uri.base = "target" /\ put.size = Reencoded
  /\ put.level \in {"delete", "manifest", "list", "metadata"}
  /\ put.level = "delete" =>
       /\ k \in DOMAIN man /\ man[k].role = "pos" /\ Matches(man[k].path)
       /\ Installed(t, Landing, man[k].path)
       /\ DeleteImage(t, man[k].path).size = Reencoded
  /\ put.level = "manifest" =>
       /\ j \in DOMAIN list /\ Matches(list[j].path) /\ put.uri = Apply(list[j].path)
       /\ ManifestDone(t, Landing, list[j].path)
  /\ put.level = "list" => i \in DOMAIN Meta(t).refs /\ RefDone(t, Landing, Meta(t).refs[i])
  /\ put.level = "metadata" => new = Apply(t.metadata) /\ Rebased(t, Landing)

RebaseInv(t) ==
  /\ CopyInv(t) /\ ProcessInv(t)
  /\ Rewriting => WalkInv(t)
  /\ InList => ListInv(t)
  /\ InManifest => ManifestInv(t)
  /\ pc = "verify" => PutInv(t)
  /\ pc \in {"swap", "write"} => new = old \/ (new = Apply(old) /\ Rebased(t, store))

StepInv(t) == Walking => RebaseInv(t)

\* What a step of a process writes: nothing, or the image of an object that the
\* bulk copy has not installed.
Installs(t) ==
  \/ store' = store
  \/ \E p \in URI :
       /\ Matches(p) /\ Known(t, p)
       /\ \A e \in Entries(t) : Unmoved(t, e) => e.path # p
       /\ \E b \in Body : store' = [store EXCEPT ![Apply(p)] = b]
Advances(t) == StepInv(t)' /\ Installs(t)

\* What holds of any process, of any table: where a dry run never is, and how
\* many commits there may have been.
ShapeInv ==
  /\ pc \in {"down", "load"} => i = 1
  /\ dry => pc \notin {"verify", "swap", "write", "validate"} /\ (pc = "manifest" => ~dirty)
  /\ commits <= Len(table.commits)

-----------------------------------------------------------------------------
(* Installed images *)

LEMMA TableType ==
  ASSUME TypeInv, NEW t, IsTable(t), Orderly(t)
  PROVE  /\ store \in [URI -> Body] /\ t.metadata \in URI
         /\ Known(t, t.metadata) /\ t.metadata.base # "target"
         /\ Origin(t) \in [URI -> Body]
         /\ list \in Seq(Ref) /\ man \in Seq(Ref) /\ put \in Object
         /\ i \in Nat \ {0} /\ j \in Nat \ {0} /\ k \in Nat \ {0}
         /\ dirty \in BOOLEAN /\ changed \in BOOLEAN /\ dry \in BOOLEAN
BY OrderlyTypes, MetadataKnown DEF TypeInv, StorageOK, WalkOK, FlagsOK, ProcessOK

\* What is done stays done as long as no image is lost.
LEMMA EntryKept ==
  ASSUME NEW t, NEW s, NEW s2, Keeps(t, s, s2), NEW e \in Ref, EntryDone(t, s, e)
  PROVE  EntryDone(t, s2, e)
BY RefFields DEF EntryDone, Keeps

LEMMA ManifestKept ==
  ASSUME NEW t, IsTable(t), NEW s, NEW s2, Keeps(t, s, s2), NEW u \in URI,
         ManifestDone(t, s, u)
  PROVE  ManifestDone(t, s2, u)
<1>1. \A e \in RefsOf(Origin(t), u) : e \in Ref
  BY OrderlyTypes, RefsType
<1>2. \A e \in RefsOf(Origin(t), u) : EntryDone(t, s2, e)
  BY <1>1, EntryKept DEF ManifestDone
<1>3. Matches(u) => Installed(t, s2, u)
  BY DEF ManifestDone, Keeps
<1> QED
  BY <1>2, <1>3 DEF ManifestDone

LEMMA RefKept ==
  ASSUME NEW t, IsTable(t), NEW s, NEW s2, Keeps(t, s, s2), NEW r \in Ref, RefDone(t, s, r)
  PROVE  RefDone(t, s2, r)
<1>1. r.path \in URI /\ \A q \in RefsOf(Origin(t), r.path) : q.path \in URI
  BY OrderlyTypes, RefsType, RefFields
<1>2. r.role = "manifest" => ManifestDone(t, s2, r.path)
  BY <1>1, ManifestKept DEF RefDone
<1>3. r.role = "list" => ListDone(t, s2, r.path)
  <2> SUFFICES ASSUME ListDone(t, s, r.path) PROVE ListDone(t, s2, r.path)
    BY DEF RefDone
  <2>1. \A q \in RefsOf(Origin(t), r.path) : ManifestDone(t, s2, q.path)
    BY <1>1, ManifestKept DEF ListDone
  <2>2. Matches(r.path) => Installed(t, s2, r.path)
    BY <1>1 DEF ListDone, Keeps
  <2> QED
    BY <2>1, <2>2 DEF ListDone
<1> QED
  BY <1>2, <1>3 DEF RefDone

\* Storage in which an image has been put.
LEMMA ImagePut ==
  ASSUME NEW t, IsTable(t), NEW s \in [URI -> Body], Agrees(t, s), NEW p \in URI, Matches(p),
         NEW b, NEW s2, s2 = [s EXCEPT ![Apply(p)] = b]
  PROVE  /\ Agrees(t, s2)
         /\ s2[Apply(p)] = b
         /\ \A u \in URI : Matches(u) /\ u # p => s2[Apply(u)] = s[Apply(u)]
         /\ b = Image(t, p) => Keeps(t, s, s2) /\ Installed(t, s2, p)
<1>1. Apply(p) \in URI /\ Apply(p).base = "target"
  BY ApplyType, ApplyBase
<1>2. Agrees(t, s2) /\ s2[Apply(p)] = b
  BY <1>1 DEF Agrees, Known
<1>3. \A u \in URI : Matches(u) /\ u # p => s2[Apply(u)] = s[Apply(u)]
  BY <1>1, ApplyType, ApplyInjective DEF Matches
<1> QED
  BY <1>2, <1>3 DEF Keeps, Installed

\* A PUT, landed or not.
LEMMA PutLands ==
  ASSUME store \in [URI -> Body], NEW level, NEW uri \in URI, NEW body \in Body,
         Put(level, uri, body)
  PROVE  /\ Landing' = [store EXCEPT ![uri] = [body EXCEPT !.size = Reencoded]]
         /\ \E size : store' = [store EXCEPT ![uri] = [body EXCEPT !.size = size]]
         /\ pc' = "verify"
         /\ put' = [level |-> level, uri |-> uri, size |-> Reencoded]
<1>1. PICK size \in {Reencoded, Cut} : store' = [store EXCEPT ![uri] = [body EXCEPT !.size = size]]
  BY DEF Put
<1>2. pc' = "verify" /\ put' = [level |-> level, uri |-> uri, size |-> Reencoded]
  BY DEF Put
<1>3. Landing' = [store' EXCEPT ![uri].size = Reencoded]
  BY <1>2 DEF Landing
<1>4. [[body EXCEPT !.size = size] EXCEPT !.size = Reencoded] = [body EXCEPT !.size = Reencoded]
  BY DEF Body
<1>5. store'[uri] = [body EXCEPT !.size = size]
  BY <1>1
<1>6. Landing' = [store EXCEPT ![uri] = [body EXCEPT !.size = Reencoded]]
  BY <1>1, <1>3, <1>4, <1>5
<1> QED
  BY <1>1, <1>2, <1>6

\* A PUT that is as long as its body landed whole.
LEMMA LandedWhole ==
  ASSUME store \in [URI -> Body], put.uri \in URI, Landed
  PROVE  Landing = store
<1>1. [store[put.uri] EXCEPT !.size = put.size] = store[put.uri]
  BY DEF Landed, Body
<1>2. [store EXCEPT ![put.uri].size = put.size] = store
  BY <1>1
<1> QED
  BY <1>2 DEF Landing

-----------------------------------------------------------------------------
(* What a process reads *)

\* Outside the target prefix storage is as it was.
LEMMA Reads ==
  ASSUME TypeInv, NEW t, IsTable(t), Orderly(t), CopyInv(t), NEW u \in URI, Known(t, u)
  PROVE  store[u] = Origin(t)[u]
BY DEF CopyInv, Agrees

LEMMA MetadataRead ==
  ASSUME TypeInv, NEW t, IsTable(t), Orderly(t), CopyInv(t), ProcessInv(t)
  PROVE  /\ Metadata = Meta(t)
         /\ Meta(t) \in Body /\ Meta(t).refs \in Seq(Ref)
         /\ \A n \in DOMAIN Meta(t).refs :
              /\ Meta(t).refs[n] \in Ref /\ Meta(t).refs[n].path \in URI
              /\ Known(t, Meta(t).refs[n].path)
              /\ Walked(n) <=> Meta(t).refs[n] \in WalkedRefs(t)
<1>1. Metadata = Meta(t)
  BY TableType, Reads DEF Metadata, Meta, ProcessInv
<1>2. Meta(t) \in Body /\ Meta(t).refs \in Seq(Ref)
  BY TableType, RefsType DEF Meta
<1>3. ASSUME NEW n \in DOMAIN Meta(t).refs
      PROVE  /\ Meta(t).refs[n] \in RefsOf(Origin(t), t.metadata)
             /\ Meta(t).refs[n] \in Ref /\ Meta(t).refs[n].path \in URI
             /\ Known(t, Meta(t).refs[n].path)
  BY <1>2, ElementType, NoTarget, TableType DEF RefsOf, Meta
<1>4. \A n \in DOMAIN Meta(t).refs : Walked(n) <=> Meta(t).refs[n] \in WalkedRefs(t)
  BY <1>1, <1>3 DEF Walked, WalkedRefs, Wanted, Meta, ProcessInv
<1> QED
  BY <1>1, <1>2, <1>3, <1>4

\* The manifests of the snapshot in hand.
LEMMA ListRead ==
  ASSUME TypeInv, NEW t, IsTable(t), Orderly(t), CopyInv(t), ProcessInv(t),
         i \in DOMAIN Meta(t).refs, Meta(t).refs[i] \in WalkedRefs(t)
  PROVE  /\ Listed(t) \in Seq(Ref)
         /\ \A m \in DOMAIN Listed(t) :
              /\ Listed(t)[m] \in Ref /\ Listed(t)[m].path \in URI
              /\ Known(t, Listed(t)[m].path)
              /\ \E q \in ManifestRefs(t) : q.path = Listed(t)[m].path
         /\ LET r == Meta(t).refs[i] IN
            /\ r.role \in {"list", "manifest"}
            /\ r.role = "list" => r \in ListRefs(t)
                                  /\ RefsOf(Origin(t), r.path) = {Listed(t)[m] : m \in DOMAIN Listed(t)}
            /\ r.role = "manifest" => DOMAIN Listed(t) = {1} /\ Listed(t)[1].path = r.path
<1> DEFINE r == Meta(t).refs[i]
           O == Origin(t)
<1>1. r \in Ref /\ r.path \in URI /\ Known(t, r.path)
  BY MetadataRead
<1>2. r.role \in {"list", "manifest"} /\ r \in RefsOf(O, t.metadata)
  BY DEF WalkedRefs, InSnapshot
<1>3. CASE r.role = "list"
  <2>1. Listed(t) = O[r.path].refs /\ r \in ListRefs(t)
    BY <1>2, <1>3 DEF Listed, ListRefs
  <2>2. Listed(t) \in Seq(Ref) /\ RefsOf(O, r.path) = {Listed(t)[m] : m \in DOMAIN Listed(t)}
    BY <1>1, <2>1, RefsType, TableType DEF RefsOf
  <2>3. ASSUME NEW m \in DOMAIN Listed(t)
        PROVE  /\ Listed(t)[m] \in Ref /\ Listed(t)[m].path \in URI
               /\ Known(t, Listed(t)[m].path) /\ Listed(t)[m] \in ManifestRefs(t)
    <3>1. Listed(t)[m] \in RefsOf(O, r.path)
      BY <2>2
    <3> QED
      BY <1>1, <2>1, <2>2, <3>1, ElementType, NoTarget, TableType DEF ManifestRefs
  <2> QED
    BY <1>2, <1>3, <2>1, <2>2, <2>3
<1>4. CASE r.role = "manifest"
  <2> DEFINE q == [r EXCEPT !.len = O[r.path].size]
  <2>1. Listed(t) = <<q>>
    BY <1>4 DEF Listed
  <2>2. O[r.path].size \in Nat
    <3>1. O[r.path] \in Body
      BY <1>1, TableType
    <3> QED
      BY <3>1 DEF Body, Cut, Original, Reencoded
  <2>3. q \in Ref /\ q.path = r.path
    BY <1>1, <2>2 DEF Ref
  <2>4. r \in ManifestRefs(t)
    BY <1>2, <1>4 DEF ManifestRefs
  <2> HIDE DEF q
  <2>5. DOMAIN Listed(t) = {1} /\ Listed(t)[1] = q /\ Listed(t) \in Seq(Ref)
    BY <2>1, <2>3
  <2> QED
    BY <1>1, <1>2, <1>4, <2>3, <2>4, <2>5
<1> QED
  BY <1>2, <1>3, <1>4

\* The entries of the manifest in hand.
LEMMA ManifestRead ==
  ASSUME TypeInv, NEW t, IsTable(t), Orderly(t), CopyInv(t), ProcessInv(t), ListInv(t),
         j \in DOMAIN list
  PROVE  /\ list[j].path \in URI /\ Known(t, list[j].path)
         /\ ~(j < j) /\ list[j] = Listed(t)[j]
         /\ \E q \in ManifestRefs(t) : q.path = list[j].path
         /\ Before(t) \in Seq(Ref)
         /\ RefsOf(Origin(t), list[j].path) = {Before(t)[m] : m \in DOMAIN Before(t)}
         /\ \A m \in DOMAIN Before(t) :
              /\ Before(t)[m] \in Ref /\ Before(t)[m].path \in URI
              /\ Known(t, Before(t)[m].path) /\ Before(t)[m] \in Entries(t)
<1>1. ~(j < j)
  BY TableType
<1>2. list[j] = Listed(t)[j] /\ j \in DOMAIN Listed(t)
  BY <1>1 DEF ListInv
<1>3. /\ list[j].path \in URI /\ Known(t, list[j].path)
      /\ \E q \in ManifestRefs(t) : q.path = list[j].path
  BY <1>2, ListRead DEF ListInv
<1>4. Before(t) \in Seq(Ref)
  BY <1>3, RefsType, TableType DEF Before
<1>5. RefsOf(Origin(t), list[j].path) = {Before(t)[m] : m \in DOMAIN Before(t)}
  BY DEF RefsOf, Before
<1>6. \A m \in DOMAIN Before(t) :
        /\ Before(t)[m] \in Ref /\ Before(t)[m].path \in URI
        /\ Known(t, Before(t)[m].path) /\ Before(t)[m] \in Entries(t)
  <2> TAKE m \in DOMAIN Before(t)
  <2>1. Before(t)[m] \in RefsOf(Origin(t), list[j].path)
    BY <1>5
  <2> QED
    BY <1>3, <1>4, <2>1, ElementType, NoTarget, TableType DEF Entries
<1> QED
  BY <1>1, <1>2, <1>3, <1>4, <1>5, <1>6

-----------------------------------------------------------------------------
(* Steps *)

\* Storage is left alone.
LEMMA CopyKept ==
  ASSUME NEW t, CopyInv(t), UNCHANGED store
  PROVE  CopyInv(t)'
BY DEF CopyInv

\* The end of a process.
LEMMA FinishKept ==
  ASSUME NEW t, NEW o, Finish(o), UNCHANGED store
  PROVE  Advances(t)
BY DEF Finish, StepInv, Walking, Advances, Installs

\* Entry k is dealt with, in storage that has been verified.
LEMMA EntryDealt ==
  ASSUME TypeInv, ShapeInv, NEW t, IsTable(t), Orderly(t), RebaseInv(t),
         InManifest, Landing = store, k \in DOMAIN man,
         NEW e, Mutate(e), e = EntryImage(t, Before(t)[k]),
         EntryDone(t, store, Before(t)[k]),
         UNCHANGED <<table, store>>
  PROVE  Advances(t)
<1>1. WalkInv(t) /\ ListInv(t) /\ ManifestInv(t) /\ CopyInv(t) /\ ProcessInv(t)
  BY DEF RebaseInv, InManifest, InList, Rewriting
<1>2. /\ pc' = "manifest" /\ k' = k + 1 /\ dirty' = (dirty \/ e # man[k])
      /\ man' = [man EXCEPT ![k] = e]
      /\ UNCHANGED <<dry, old, new, i, list, j, changed, put>>
  BY DEF Mutate
<1>3. Landing' = store /\ UNCHANGED <<Meta(t), Listed(t), Before(t)>>
  BY <1>2 DEF Landing, Meta, Listed, Before
<1>4. CopyInv(t)'
  BY <1>1, CopyKept
<1>6. ~dry
  BY DEF InManifest
<1>7. ProcessInv(t)'
  BY <1>1, <1>2, <1>6 DEF ProcessInv
<1>8. WalkInv(t)'
  BY <1>1, <1>2, <1>3 DEF WalkInv
<1>9. ListInv(t)'
  BY <1>1, <1>2, <1>3 DEF ListInv
<1>10. ManifestInv(t)'
  <2>1. j \in DOMAIN list /\ DOMAIN man' = DOMAIN man /\ DOMAIN man = DOMAIN Before(t)
    BY <1>1, <1>2 DEF ManifestInv
  <2>2. k \in Nat /\ k \in DOMAIN man /\ DOMAIN man \subseteq Nat
    BY TableType
  <2>3. ASSUME NEW m \in DOMAIN man
        PROVE  /\ m < k' => /\ man'[m] = EntryImage(t, Before(t)[m])
                            /\ EntryDone(t, store, Before(t)[m])
               /\ ~(m < k') => man'[m] = Before(t)[m]
    <3>1. CASE m = k
      BY <1>2, <2>2, <3>1
    <3>2. CASE m # k
      <4>1. man'[m] = man[m] /\ (m < k' <=> m < k)
        BY <1>2, <2>2, <3>2
      <4> QED
        BY <1>1, <4>1 DEF ManifestInv
    <3> QED
      BY <3>1, <3>2
  <2>4. ASSUME NEW m \in DOMAIN man, ~dirty' PROVE man'[m] = Before(t)[m]
    <3>1. ~dirty /\ e = man[k]
      BY <1>2, <2>4
    <3>2. man'[m] = man[m]
      BY <1>2, <3>1
    <3> QED
      BY <1>1, <3>1, <3>2 DEF ManifestInv
  <2> QED
    BY <1>2, <1>3, <2>1, <2>3, <2>4 DEF ManifestInv
<1> QED
  BY <1>2, <1>4, <1>7, <1>8, <1>9, <1>10 DEF RebaseInv, StepInv, Walking, Advances, Installs

\* Manifest j is dealt with.
LEMMA ManifestDealt ==
  ASSUME TypeInv, ShapeInv, NEW t, IsTable(t), Orderly(t), RebaseInv(t),
         InList, Landing = store, j \in DOMAIN list,
         NEW r, Relist(r), r = RefImage(Listed(t)[j]),
         ManifestDone(t, store, Listed(t)[j].path),
         UNCHANGED <<table, store>>
  PROVE  Advances(t)
<1>1. WalkInv(t) /\ ListInv(t) /\ CopyInv(t) /\ ProcessInv(t)
  BY DEF RebaseInv, InList, Rewriting
<1>2. /\ pc' = "list" /\ j' = j + 1 /\ changed' = (changed \/ r # list[j])
      /\ list' = [list EXCEPT ![j] = r]
      /\ UNCHANGED <<dry, old, new, i, put>>
  BY DEF Relist
<1>3. Landing' = store /\ UNCHANGED <<Meta(t), Listed(t)>>
  BY <1>2 DEF Landing, Meta, Listed
<1>4. CopyInv(t)'
  BY <1>1, CopyKept
<1>6. ProcessInv(t)'
  BY <1>1, <1>2 DEF ProcessInv, InList
<1>7. WalkInv(t)'
  BY <1>1, <1>2, <1>3 DEF WalkInv
<1>8. ListInv(t)'
  <2>1. /\ i \in DOMAIN Meta(t).refs /\ Meta(t).refs[i] \in WalkedRefs(t)
        /\ DOMAIN list' = DOMAIN list /\ DOMAIN list = DOMAIN Listed(t)
    BY <1>1, <1>2 DEF ListInv
  <2>2. j \in Nat /\ j \in DOMAIN list /\ DOMAIN list \subseteq Nat
    BY TableType
  <2>3. ASSUME NEW m \in DOMAIN list
        PROVE  /\ m < j' => /\ list'[m] = RefImage(Listed(t)[m])
                            /\ ManifestDone(t, store, Listed(t)[m].path)
               /\ ~(m < j') => list'[m] = Listed(t)[m]
    <3>1. CASE m = j
      BY <1>2, <2>2, <3>1
    <3>2. CASE m # j
      <4>1. list'[m] = list[m] /\ (m < j' <=> m < j)
        BY <1>2, <2>2, <3>2
      <4> QED
        BY <1>1, <4>1 DEF ListInv
    <3> QED
      BY <3>1, <3>2
  <2>4. ASSUME NEW m \in DOMAIN list, ~changed' PROVE list'[m] = Listed(t)[m]
    <3>1. ~changed /\ r = list[j]
      BY <1>2, <2>4
    <3>2. list'[m] = list[m]
      BY <1>2, <3>1
    <3> QED
      BY <1>1, <3>1, <3>2 DEF ListInv
  <2> QED
    BY <1>2, <1>3, <2>1, <2>3, <2>4 DEF ListInv
<1> QED
  BY <1>2, <1>4, <1>6, <1>7, <1>8 DEF RebaseInv, InManifest,
         StepInv, Walking, Advances, Installs

\* Snapshot i is dealt with, or a dry run goes past it.
LEMMA SnapshotDealt ==
  ASSUME TypeInv, ShapeInv, NEW t, IsTable(t), Orderly(t), RebaseInv(t),
         Landing = store, NextSnapshot,
         pc \in {"walk", "list", "verify"}, i \in DOMAIN Meta(t).refs,
         ~dry /\ Meta(t).refs[i] \in WalkedRefs(t) => RefDone(t, store, Meta(t).refs[i]),
         UNCHANGED <<table, store>>
  PROVE  Advances(t)
<1>1. CopyInv(t) /\ ProcessInv(t)
  BY DEF RebaseInv
<1>2. pc' = "walk" /\ i' = i + 1 /\ UNCHANGED <<dry, old, new, put>>
  BY DEF NextSnapshot
<1>3. Landing' = store /\ UNCHANGED Meta(t)
  BY <1>2 DEF Landing, Meta
<1>4. CopyInv(t)'
  BY <1>1, CopyKept
<1>5. ProcessInv(t)'
  BY <1>1, <1>2 DEF ProcessInv
<1>6. ASSUME ~dry PROVE WalkInv(t)'
  <2>1. WalkInv(t)
    BY <1>6 DEF RebaseInv, Rewriting
  <2>2. i \in Nat /\ DOMAIN Meta(t).refs \subseteq Nat
    BY <1>1, TableType, MetadataRead
  <2>3. \A n \in DOMAIN Meta(t).refs : n < i + 1 => n < i \/ n = i
    BY <2>2
  <2> QED
    BY <1>2, <1>3, <1>6, <2>1, <2>3 DEF WalkInv
<1> QED
  BY <1>2, <1>4, <1>5, <1>6 DEF RebaseInv, Rewriting, InList, InManifest,
         StepInv, Walking, Advances, Installs

\* A PUT of the image of p, and what it keeps once landed.
ImagePUT(t, level, p, body) ==
  /\ pc \in {"walk", "list", "manifest"} /\ ~dry
  /\ level \in {"delete", "manifest", "list", "metadata"}
  /\ level \in {"delete", "manifest"} => pc = "manifest"
  /\ p \in URI /\ Matches(p) /\ Known(t, p) /\ body \in Body
  /\ [body EXCEPT !.size = Reencoded] = Image(t, p)
  /\ \A e \in Entries(t) : Unmoved(t, e) => e.path # p
  /\ Put(level, Apply(p), body)
  /\ UNCHANGED table

LEMMA PutInstalls ==
  ASSUME TypeInv, ShapeInv, NEW t, IsTable(t), Orderly(t), RebaseInv(t),
         NEW level, NEW p, NEW body,
         ImagePUT(t, level, p, body)
  PROVE  /\ Landing = store
         /\ Keeps(t, store, Landing') /\ Installed(t, Landing', p)
         /\ Agrees(t, Landing') /\ Landing' \in [URI -> Body]
         /\ pc' = "verify" /\ put' = [level |-> level, uri |-> Apply(p), size |-> Reencoded]
         /\ CopyInv(t)'
<1>1. /\ store \in [URI -> Body] /\ CopyInv(t) /\ Agrees(t, store)
      /\ Apply(p) \in URI /\ Apply(p).base = "target"
  BY TableType, ApplyType, ApplyBase DEF RebaseInv, CopyInv, ImagePUT
<1>2. /\ Landing' = [store EXCEPT ![Apply(p)] = Image(t, p)]
      /\ \E size : store' = [store EXCEPT ![Apply(p)] = [body EXCEPT !.size = size]]
      /\ pc' = "verify" /\ put' = [level |-> level, uri |-> Apply(p), size |-> Reencoded]
  BY <1>1, PutLands DEF ImagePUT
<1>3. Keeps(t, store, Landing') /\ Installed(t, Landing', p) /\ Agrees(t, Landing')
  BY <1>1, <1>2, TableType, ImagePut DEF ImagePUT
<1>4. Landing' \in [URI -> Body]
  <2>1. Image(t, p) \in Body
    BY DEF ImagePUT, Body
  <2> QED
    BY <1>1, <1>2, <2>1
<1>5. /\ Agrees(t, store')
      /\ \A u \in URI : Matches(u) /\ u # p => store'[Apply(u)] = store[Apply(u)]
  <2>1. PICK size : store' = [store EXCEPT ![Apply(p)] = [body EXCEPT !.size = size]]
    BY <1>2
  <2> DEFINE b == [body EXCEPT !.size = size]
  <2>2. store' = [store EXCEPT ![Apply(p)] = b]
    BY <2>1
  <2> HIDE DEF b
  <2>3. p \in URI /\ Matches(p)
    BY TableType DEF ImagePUT
  <2>4. Agrees(t, store')
    BY <1>1, <2>2 DEF Agrees, Known
  <2>5. \A u \in URI : Matches(u) /\ u # p => store'[Apply(u)] = store[Apply(u)]
    BY <1>1, <2>2, <2>3, ApplyType, ApplyInjective DEF Matches
  <2> QED
    BY <2>4, <2>5
<1>6. CopyInv(t)'
  <2>1. ASSUME NEW e \in Entries(t), Matches(e.path), Unmoved(t, e)
        PROVE  Installed(t, store', e.path)
    <3>1. e.path \in URI /\ e.path # p
      BY <2>1, OrderlyTypes, TableType, RefFields DEF ImagePUT
    <3>2. Installed(t, store, e.path)
      BY <1>1, <2>1 DEF CopyInv
    <3> QED
      BY <1>5, <2>1, <3>1, <3>2 DEF Installed
  <2> QED
    BY <1>1, <1>5, <2>1 DEF CopyInv, ImagePUT
<1>7. Landing = store
  BY DEF Landing, ImagePUT
<1> QED
  BY <1>2, <1>3, <1>4, <1>6, <1>7

LEMMA PutKept ==
  ASSUME TypeInv, ShapeInv, NEW t, IsTable(t), Orderly(t), RebaseInv(t),
         NEW level, NEW p, NEW body,
         ImagePUT(t, level, p, body), PutInv(t)'
  PROVE  Advances(t)
<1>1. CopyInv(t) /\ ProcessInv(t) /\ WalkInv(t)
  BY DEF RebaseInv, Rewriting, ImagePUT
<1>2. /\ Keeps(t, store, Landing') /\ Landing = store /\ CopyInv(t)'
      /\ pc' = "verify" /\ put'.level = level
  BY PutInstalls
<1>3. UNCHANGED <<table, dry, old, i, list, j, man, k, dirty, changed>>
  BY DEF ImagePUT, Put
<1>4. UNCHANGED <<Meta(t), Listed(t), Before(t)>>
  BY <1>3 DEF Meta, Listed, Before
<1>5. ProcessInv(t)'
  BY <1>1, <1>2, <1>3 DEF ProcessInv, ImagePUT
<1>6. WalkInv(t)'
  <2> SUFFICES ASSUME NEW n \in DOMAIN Meta(t).refs, n < i, Meta(t).refs[n] \in WalkedRefs(t)
               PROVE  RefDone(t, Landing', Meta(t).refs[n])
    BY <1>3, <1>4 DEF WalkInv
  <2>1. Meta(t).refs[n] \in Ref
    BY <1>1, MetadataRead
  <2>2. RefDone(t, store, Meta(t).refs[n])
    BY <1>1, <1>2 DEF WalkInv
  <2> QED
    BY <1>2, <2>1, <2>2, RefKept, TableType
<1>7. InList' => ListInv(t)'
  <2> SUFFICES ASSUME InList' PROVE ListInv(t)'
    OBVIOUS
  <2>1. ListInv(t)
    BY <1>2 DEF InList, RebaseInv, ImagePUT
  <2>2. ASSUME NEW m \in DOMAIN list, m < j
        PROVE  ManifestDone(t, Landing', Listed(t)[m].path)
    <3>1. ManifestDone(t, store, Listed(t)[m].path) /\ m \in DOMAIN Listed(t)
      BY <1>2, <2>1, <2>2 DEF ListInv
    <3>2. Listed(t)[m].path \in URI
      BY <1>1, <2>1, <3>1, ListRead DEF ListInv
    <3> QED
      BY <1>2, <3>1, <3>2, ManifestKept, TableType
  <2> QED
    BY <1>3, <1>4, <2>1, <2>2 DEF ListInv
<1>8. InManifest' => ManifestInv(t)'
  <2> SUFFICES ASSUME InManifest' PROVE ManifestInv(t)'
    OBVIOUS
  <2>1. ListInv(t) /\ ManifestInv(t)
    BY <1>2 DEF InList, InManifest, RebaseInv, ImagePUT
  <2>2. ASSUME NEW m \in DOMAIN man, m < k
        PROVE  EntryDone(t, Landing', Before(t)[m])
    <3>1. EntryDone(t, store, Before(t)[m]) /\ m \in DOMAIN Before(t) /\ j \in DOMAIN list
      BY <1>2, <2>1, <2>2 DEF ManifestInv
    <3>2. Before(t)[m] \in Ref
      BY <1>1, <2>1, <3>1, ManifestRead
    <3> QED
      BY <1>2, <3>1, <3>2, EntryKept
  <2> QED
    BY <1>3, <1>4, <2>1, <2>2 DEF ManifestInv
<1>9. Installs(t)
  <2>1. PICK size \in {Reencoded, Cut} :
               store' = [store EXCEPT ![Apply(p)] = [body EXCEPT !.size = size]]
    BY DEF ImagePUT, Put
  <2>2. [body EXCEPT !.size = size] \in Body
    BY DEF ImagePUT, Body
  <2> DEFINE b == [body EXCEPT !.size = size]
  <2>3. b \in Body /\ store' = [store EXCEPT ![Apply(p)] = b]
    BY <2>1, <2>2
  <2> HIDE DEF b
  <2> QED
    BY <2>3 DEF ImagePUT, Installs
<1> QED
  BY <1>2, <1>5, <1>6, <1>7, <1>8, <1>9 DEF RebaseInv, StepInv, Walking, Advances

\* A step of a dry run.
LEMMA DryStepKept ==
  ASSUME ShapeInv, NEW t, RebaseInv(t), dry,
         pc' \in {"walk", "list", "manifest"}, pc' = "manifest" => ~dirty',
         pc \in {"walk", "list", "manifest"},
         UNCHANGED <<table, store, dry, old, new>>
  PROVE  Advances(t)
<1>1. CopyInv(t) /\ ProcessInv(t)
  BY DEF RebaseInv
<1>2. CopyInv(t)'
  BY <1>1, CopyKept
<1>3. ProcessInv(t)'
  BY <1>1 DEF ProcessInv
<1> QED
  BY <1>2, <1>3 DEF RebaseInv, Rewriting, InList, InManifest,
         StepInv, Walking, Advances, Installs

LEMMA OpenSnapshotKept ==
  ASSUME TypeInv, ShapeInv, NEW t, IsTable(t), Orderly(t), RebaseInv(t),
         OpenSnapshot
  PROVE  Advances(t)
<1> DEFINE r == Meta(t).refs[i]
<1>1. CopyInv(t) /\ ProcessInv(t)
  BY DEF RebaseInv
<1>2. UNCHANGED <<table, store>> /\ pc = "walk"
  BY DEF OpenSnapshot, bounds
<1>3. /\ Metadata = Meta(t) /\ i \in DOMAIN Meta(t).refs
      /\ Walked(i) <=> r \in WalkedRefs(t)
      /\ r.path \in URI /\ Known(t, r.path)
  <2>1. Metadata = Meta(t) /\ Meta(t).refs \in Seq(Ref) /\ i \in Nat \ {0}
    BY <1>1, MetadataRead, TableType
  <2>2. i \in DOMAIN Meta(t).refs
    BY <2>1 DEF OpenSnapshot
  <2> QED
    BY <1>1, <2>1, <2>2, MetadataRead
<1>4. Landing = store
  BY <1>2 DEF Landing
<1>5. CASE Finish("failed")
  BY <1>2, <1>5, FinishKept
<1>6. CASE ~Walked(i) /\ NextSnapshot
  BY <1>2, <1>3, <1>4, <1>6, SnapshotDealt
<1>7. CASE pc' = "list"
  <2>1. /\ r \in WalkedRefs(t)
        /\ j' = 1 /\ changed' = FALSE
        /\ UNCHANGED <<dry, old, new, i, put>>
    BY <1>3, <1>7 DEF OpenSnapshot, Finish, NextSnapshot
  <2>2. store[r.path] = Origin(t)[r.path]
    BY <1>1, <1>3, Reads
  <2>3. list' = Listed(t)
    <3>1. \/ r.role = "list" /\ list' = store[r.path].refs
          \/ r.role = "manifest" /\ list' = <<[r EXCEPT !.len = store[r.path].size]>>
      BY <1>3, <1>7 DEF OpenSnapshot, Finish, NextSnapshot
    <3> QED
      BY <2>2, <3>1 DEF Listed
  <2>4. UNCHANGED <<Meta(t), Listed(t)>> /\ Landing' = store
    BY <1>2, <1>7, <2>1 DEF Meta, Listed, Landing
  <2>5. CopyInv(t)'
    BY <1>1, <1>2, CopyKept
  <2>6. ProcessInv(t)'
    BY <1>1, <1>2, <1>7, <2>1 DEF ProcessInv
  <2>7. ~dry => WalkInv(t)'
    BY <1>2, <1>4, <2>1, <2>4 DEF RebaseInv, Rewriting, WalkInv
  <2>8. ListInv(t)'
    <3>1. Listed(t) \in Seq(Ref)
      BY <1>1, <1>3, <2>1, ListRead
    <3>2. \A m \in DOMAIN Listed(t) : ~(m < 1)
      BY <3>1
    <3> QED
      BY <1>2, <1>3, <2>1, <2>3, <2>4, <3>2 DEF ListInv
  <2> QED
    BY <1>2, <1>7, <2>1, <2>5, <2>6, <2>7, <2>8 DEF RebaseInv, Rewriting, InManifest,
         StepInv, Walking, Advances, Installs
<1> QED
  BY <1>5, <1>6, <1>7 DEF OpenSnapshot

LEMMA ReadManifestKept ==
  ASSUME TypeInv, ShapeInv, NEW t, IsTable(t), Orderly(t), RebaseInv(t),
         ReadManifest
  PROVE  Advances(t)
<1>1. CopyInv(t) /\ ProcessInv(t)
  BY DEF RebaseInv
<1>2. UNCHANGED <<table, store>> /\ pc = "list"
  BY DEF ReadManifest, bounds
<1>3. CASE Finish("failed")
  BY <1>2, <1>3, FinishKept
<1>4. CASE pc' = "manifest"
  <2>1. /\ man' = store[list[j].path].refs /\ k' = 1 /\ dirty' = FALSE
        /\ UNCHANGED <<dry, old, new, i, list, j, changed, put>>
    BY <1>4 DEF ReadManifest, Finish
  <2>2. CASE dry
    BY <1>2, <1>4, <2>1, <2>2, DryStepKept
  <2>3. CASE ~dry
    <3>1. WalkInv(t) /\ ListInv(t) /\ Landing = store
      BY <1>2, <2>3 DEF RebaseInv, Rewriting, InList, Landing
    <3>2. j \in DOMAIN list
      BY TableType DEF ReadManifest
    <3>3. /\ Before(t) \in Seq(Ref) /\ man' = Before(t)
      <4>1. store[list[j].path] = Origin(t)[list[j].path]
        BY <1>1, <3>1, <3>2, ManifestRead, Reads
      <4> QED
        BY <1>1, <2>1, <3>1, <3>2, <4>1, ManifestRead DEF Before
    <3>4. UNCHANGED <<Meta(t), Listed(t), Before(t)>> /\ Landing' = store
      BY <1>2, <1>4, <2>1 DEF Meta, Listed, Before, Landing
    <3>5. CopyInv(t)'
      BY <1>1, <1>2, CopyKept
    <3>6. ProcessInv(t)'
      BY <1>1, <1>2, <1>4, <2>1 DEF ProcessInv
    <3>7. WalkInv(t)' /\ ListInv(t)'
      BY <1>2, <2>1, <3>1, <3>4 DEF WalkInv, ListInv
    <3>8. ManifestInv(t)'
      <4>1. \A m \in DOMAIN Before(t) : ~(m < 1)
        BY <3>3
      <4> QED
        BY <2>1, <3>2, <3>3, <3>4, <4>1 DEF ManifestInv
    <3> QED
      BY <1>2, <1>4, <3>5, <3>6, <3>7, <3>8 DEF RebaseInv, StepInv, Walking, Advances, Installs
  <2> QED
    BY <2>2, <2>3
<1> QED
  BY <1>3, <1>4 DEF ReadManifest

\* What is known of entry k of a live process.
LEMMA EntryInHand ==
  ASSUME TypeInv, ShapeInv, NEW t, IsTable(t), Orderly(t), RebaseInv(t),
         pc = "manifest", ~dry, k <= Len(man)
  PROVE  /\ InManifest /\ Landing = store /\ ListInv(t) /\ ManifestInv(t) /\ j \in DOMAIN list
         /\ k \in DOMAIN man /\ k \in DOMAIN Before(t) /\ man[k] = Before(t)[k]
         /\ man[k] \in Entries(t) /\ man[k] \in Ref /\ man[k].path \in URI
         /\ Known(t, man[k].path)
         /\ CopyInv(t)
<1>1. InManifest /\ Landing = store /\ ListInv(t) /\ ManifestInv(t) /\ CopyInv(t) /\ ProcessInv(t)
  BY DEF RebaseInv, InManifest, InList, Landing
<1>2. k \in DOMAIN man /\ ~(k < k)
  BY TableType
<1>3. j \in DOMAIN list /\ k \in DOMAIN Before(t) /\ man[k] = Before(t)[k]
  BY <1>1, <1>2 DEF ManifestInv
<1>4. /\ Before(t)[k] \in Entries(t) /\ Before(t)[k] \in Ref /\ Before(t)[k].path \in URI
      /\ Known(t, Before(t)[k].path)
  BY <1>1, <1>3, ManifestRead
<1> QED
  BY <1>1, <1>2, <1>3, <1>4

LEMMA ReportedKept ==
  ASSUME ShapeInv, NEW t, RebaseInv(t), pc = "manifest", dry, Reported,
         UNCHANGED <<table, store>>
  PROVE  Advances(t)
<1>1. ~dirty
  BY DEF ShapeInv
<1>2. UNCHANGED <<pc, dry, dirty, old, new>>
  BY DEF Reported
<1> QED
  BY <1>1, <1>2, DryStepKept

LEMMA PlainEntryKept ==
  ASSUME TypeInv, ShapeInv, NEW t, IsTable(t), Orderly(t), RebaseInv(t),
         PlainEntry
  PROVE  Advances(t)
<1>1. UNCHANGED <<table, store>> /\ pc = "manifest" /\ k <= Len(man)
  BY DEF PlainEntry, NoPut
<1>2. CASE dry /\ Reported
  BY <1>1, <1>2, ReportedKept
<1>3. CASE ~dry /\ Mutate(Moved(man[k]))
  <2>1. /\ InManifest /\ Landing = store /\ k \in DOMAIN man /\ man[k] = Before(t)[k]
        /\ man[k] \in Entries(t) /\ CopyInv(t)
    BY <1>1, <1>3, EntryInHand
  <2>2. man[k].role \in {"data", "eq"} \/ (man[k].role = "pos" /\ ~Matches(man[k].path))
    BY DEF PlainEntry, PathOnly
  <2>3. Moved(man[k]) = EntryImage(t, Before(t)[k])
    BY <2>1, <2>2 DEF EntryImage
  <2>4. EntryDone(t, store, Before(t)[k])
    BY <2>1, <2>2 DEF EntryDone, CopyInv, Unmoved, Unsupported
  <2> QED
    BY <1>1, <1>3, <2>1, <2>3, <2>4, EntryDealt
<1> QED
  BY <1>2, <1>3 DEF PlainEntry

LEMMA DeleteFileKept ==
  ASSUME TypeInv, ShapeInv, NEW t, IsTable(t), Orderly(t), RebaseInv(t),
         DeleteFile
  PROVE  Advances(t)
<1> DEFINE p == man[k].path
           body == store[p]
           rows == MovedRows(body.refs)
<1>1. UNCHANGED table /\ pc = "manifest" /\ k <= Len(man)
  BY DEF DeleteFile
<1>2. ASSUME NEW o, Finish(o), NoPut PROVE Advances(t)
  BY <1>1, <1>2, FinishKept DEF NoPut
<1>3. CASE dry /\ Reported /\ NoPut
  BY <1>1, <1>3, ReportedKept DEF NoPut
<1>4. CASE ~dry /\ rows = body.refs /\ Mutate(Moved(FixedUp(man[k], body.size))) /\ NoPut
  <2>1. /\ InManifest /\ Landing = store /\ k \in DOMAIN man /\ man[k] = Before(t)[k]
        /\ man[k] \in Entries(t) /\ CopyInv(t) /\ p \in URI /\ Known(t, p)
    BY <1>1, <1>4, EntryInHand
  <2>2. man[k].role = "pos" /\ Matches(p)
    BY DEF DeleteFile
  <2>3. body = Origin(t)[p]
    BY <2>1, Reads
  <2>4. DeleteImage(t, p) = body
    BY <1>4, <2>3 DEF DeleteImage
  <2>5. Moved(FixedUp(man[k], body.size)) = EntryImage(t, Before(t)[k])
    BY <2>1, <2>2, <2>4 DEF EntryImage
  <2>6. EntryDone(t, store, Before(t)[k])
    BY <1>4, <2>1, <2>2, <2>3 DEF EntryDone, CopyInv, Unmoved, Unsupported
  <2> QED
    BY <1>1, <1>4, <2>1, <2>5, <2>6, EntryDealt DEF NoPut
<1>5. CASE ~dry /\ rows # body.refs /\ Put("delete", Apply(p), Avro(rows)) /\ UNCHANGED new
  <2>1. /\ InManifest /\ Landing = store /\ k \in DOMAIN man
        /\ man[k] \in Entries(t) /\ CopyInv(t) /\ p \in URI /\ Known(t, p)
    BY <1>1, <1>5, EntryInHand
  <2>2. man[k].role = "pos" /\ Matches(p) /\ man[k] \in DeleteRefs(t)
    BY <2>1 DEF DeleteFile, DeleteRefs
  <2>3. body = Origin(t)[p]
    BY <2>1, Reads
  <2>4. DeleteImage(t, p) = [refs |-> rows, size |-> Reencoded, current |-> 0]
    BY <1>5, <2>3 DEF DeleteImage
  <2>5. ImagePUT(t, "delete", p, Avro(rows))
    <3>1. Avro(rows) \in Body
      <4>1. body.refs \in Seq(Ref)
        BY <2>1, TableType, RefsType
      <4> QED
        BY <4>1, MovedRowsType DEF Avro, Body
    <3>2. [Avro(rows) EXCEPT !.size = Reencoded] = Image(t, p)
      <4>1. Image(t, p) = DeleteImage(t, p)
        BY <2>2, ImageOfDelete, TableType
      <4>2. [Avro(rows) EXCEPT !.size = Reencoded]
              = [refs |-> rows, size |-> Reencoded, current |-> 0]
        BY DEF Avro
      <4> QED
        BY <2>4, <4>1, <4>2
    <3>3. ASSUME NEW e \in Entries(t), Unmoved(t, e) PROVE e.path # p
      <4>1. CASE e \in FileRefs(t)
        BY <2>2, <4>1, Kinds, TableType
      <4>2. CASE e.role = "pos"
        BY <1>5, <2>3, <3>3, <4>2 DEF Unmoved
      <4> QED
        BY <4>1, <4>2 DEF FileRefs
    <3> QED
      BY <1>1, <1>5, <2>1, <2>2, <3>1, <3>2, <3>3 DEF ImagePUT
  <2>6. PutInv(t)'
    <3>1. /\ Installed(t, Landing', p)
          /\ put' = [level |-> "delete", uri |-> Apply(p), size |-> Reencoded]
          /\ UNCHANGED <<table, man, k>>
      BY <1>1, <1>5, <2>5, PutInstalls DEF Put
    <3>2. DeleteImage(t, p).size = Reencoded /\ Apply(p).base = "target"
      BY <2>1, <2>2, <2>4, ApplyBase
    <3> QED
      BY <2>1, <2>2, <3>1, <3>2 DEF PutInv
  <2> QED
    BY <2>5, <2>6, PutKept
<1> QED
  BY <1>2, <1>3, <1>4, <1>5 DEF DeleteFile

\* Manifest j of a live process, every entry dealt with.
LEMMA EntriesDealt ==
  ASSUME TypeInv, ShapeInv, NEW t, IsTable(t), Orderly(t), RebaseInv(t),
         pc = "manifest", ~dry, k > Len(man)
  PROVE  /\ InList /\ Landing = store /\ ListInv(t) /\ CopyInv(t) /\ j \in DOMAIN list
         /\ list[j] = Listed(t)[j] /\ list[j].path \in URI /\ Known(t, list[j].path)
         /\ \E q \in ManifestRefs(t) : q.path = list[j].path
         /\ man = EntryImages(t, Before(t))
         /\ \A e \in RefsOf(Origin(t), list[j].path) : e \in Ref /\ EntryDone(t, store, e)
         /\ ~dirty => ~Matches(list[j].path)
                      /\ \A e \in RefsOf(Origin(t), list[j].path) : EntryImage(t, e) = e
<1>1. /\ InList /\ Landing = store /\ ListInv(t) /\ ManifestInv(t) /\ CopyInv(t) /\ ProcessInv(t)
      /\ j \in DOMAIN list
  BY DEF RebaseInv, InManifest, InList, Landing, ManifestInv
<1>2. /\ list[j] = Listed(t)[j] /\ list[j].path \in URI /\ Known(t, list[j].path)
      /\ \E q \in ManifestRefs(t) : q.path = list[j].path
      /\ RefsOf(Origin(t), list[j].path) = {Before(t)[m] : m \in DOMAIN Before(t)}
      /\ \A m \in DOMAIN Before(t) : Before(t)[m] \in Ref
  BY <1>1, ManifestRead
<1>3. DOMAIN man = DOMAIN Before(t) /\ \A m \in DOMAIN man : m < k
  BY <1>1, TableType DEF ManifestInv
<1>4. /\ \A m \in DOMAIN Before(t) : /\ man[m] = EntryImage(t, Before(t)[m])
                                  /\ EntryDone(t, store, Before(t)[m])
      /\ ~dirty => \A m \in DOMAIN Before(t) : EntryImage(t, Before(t)[m]) = Before(t)[m]
  BY <1>1, <1>3 DEF ManifestInv
<1>5. man = EntryImages(t, Before(t))
  <2>1. man = [m \in DOMAIN Before(t) |-> man[m]]
    BY <1>3, TableType
  <2> QED
    BY <1>4, <2>1 DEF EntryImages
<1>6. ASSUME ~dirty, Matches(list[j].path) PROVE FALSE
  <2>1. PICK e \in RefsOf(Origin(t), list[j].path) : Matches(e.path)
    BY <1>2, <1>6 DEF Orderly, SelfContained
  <2>2. e \in Ref /\ EntryImage(t, e) = e
    BY <1>2, <1>4, <1>6, <2>1
  <2>3. e.path = Apply(e.path) /\ e.path \in URI
    BY <2>2, EntryFields, RefFields, TableType
  <2> QED
    BY <2>1, <2>3, ApplyBase
<1> QED
  BY <1>1, <1>2, <1>4, <1>5, <1>6

LEMMA CloseManifestKept ==
  ASSUME TypeInv, ShapeInv, NEW t, IsTable(t), Orderly(t), RebaseInv(t),
         CloseManifest
  PROVE  Advances(t)
<1> DEFINE uri == list[j].path
           body == Avro([n \in DOMAIN man |-> Added(man[n])])
<1>1. UNCHANGED table /\ pc = "manifest" /\ k > Len(man)
  BY DEF CloseManifest
<1>2. CASE Finish("outside") /\ NoPut
  BY <1>1, <1>2, FinishKept DEF NoPut
<1>3. CASE dry /\ Relist(list[j]) /\ NoPut
  <2>1. pc' = "list" /\ UNCHANGED <<store, dry, old, new>>
    BY <1>3 DEF Relist, NoPut
  <2> QED
    BY <1>1, <1>3, <2>1, DryStepKept
<1>4. CASE ~dry /\ ~dirty /\ Relist(list[j]) /\ NoPut
  <2>1. /\ InList /\ Landing = store /\ j \in DOMAIN list /\ list[j] = Listed(t)[j]
        /\ ~Matches(uri)
        /\ \A e \in RefsOf(Origin(t), uri) : EntryDone(t, store, e) /\ EntryImage(t, e) = e
    BY <1>1, <1>4, EntriesDealt
  <2>2. list[j] = RefImage(Listed(t)[j])
    BY <2>1 DEF RefImage
  <2>3. ManifestDone(t, store, Listed(t)[j].path)
    BY <2>1 DEF ManifestDone
  <2> QED
    BY <1>1, <1>4, <2>1, <2>2, <2>3, ManifestDealt DEF NoPut
<1>5. CASE /\ dirty /\ ~OutsidePrefix(uri)
           /\ Put("manifest", Apply(uri), body) /\ UNCHANGED new
  <2>1. ~dry /\ Matches(uri)
    BY <1>1, <1>5 DEF ShapeInv, OutsidePrefix
  <2>2. /\ Landing = store /\ CopyInv(t) /\ j \in DOMAIN list /\ uri \in URI /\ Known(t, uri)
        /\ man = EntryImages(t, Before(t))
        /\ \A e \in RefsOf(Origin(t), uri) : e \in Ref /\ EntryDone(t, store, e)
    BY <1>1, <2>1, EntriesDealt
  <2>3. PICK q \in ManifestRefs(t) : q.path = uri
    BY <1>1, <2>1, EntriesDealt
  <2>4. body = Avro(man)
    <3>1. [n \in DOMAIN man |-> Added(man[n])] = man
      BY TableType DEF Added
    <3> QED
      BY <3>1
  <2>5. ImagePUT(t, "manifest", uri, body)
    <3>1. body \in Body
      BY <2>4, TableType DEF Avro, Body
    <3>2. [body EXCEPT !.size = Reencoded] = Image(t, uri)
      <4>1. Image(t, uri) = ManifestImage(t, uri)
        BY <2>3, ImageOfManifest, TableType
      <4>2. [body EXCEPT !.size = Reencoded] = [refs |-> man, size |-> Reencoded, current |-> 0]
        BY <2>4 DEF Avro
      <4> QED
        BY <2>2, <4>1, <4>2 DEF ManifestImage, Before
    <3>3. \A e \in Entries(t) : e.path # uri
      BY <2>3, Kinds, TableType
    <3> HIDE DEF body
    <3> QED
      BY <1>1, <1>5, <2>1, <2>2, <3>1, <3>2, <3>3 DEF ImagePUT
  <2>6. PutInv(t)'
    <3>1. /\ Keeps(t, store, Landing') /\ Installed(t, Landing', uri)
          /\ put' = [level |-> "manifest", uri |-> Apply(uri), size |-> Reencoded]
          /\ UNCHANGED <<table, list, j>>
      BY <1>1, <1>5, <2>5, PutInstalls DEF Put
    <3>2. ManifestDone(t, Landing', uri)
      BY <2>1, <2>2, <3>1, EntryKept DEF ManifestDone
    <3>3. Apply(uri).base = "target"
      BY <2>1, <2>2, ApplyBase
    <3> QED
      BY <2>1, <2>2, <3>1, <3>2, <3>3 DEF PutInv
  <2> QED
    BY <2>5, <2>6, PutKept
<1> QED
  BY <1>2, <1>3, <1>4, <1>5 DEF CloseManifest

LEMMA CloseListKept ==
  ASSUME TypeInv, ShapeInv, NEW t, IsTable(t), Orderly(t), RebaseInv(t),
         CloseList
  PROVE  Advances(t)
<1> DEFINE r == Meta(t).refs[i]
           O == Origin(t)
<1>1. UNCHANGED table /\ pc = "list" /\ j > Len(list)
  BY DEF CloseList
<1>2. CopyInv(t) /\ ProcessInv(t) /\ Landing = store /\ Metadata = Meta(t)
  BY <1>1, MetadataRead DEF RebaseInv, Landing
<1>3. CASE dry /\ NextSnapshot /\ NoPut
  <2>1. pc' = "walk" /\ UNCHANGED <<store, dry, old, new>>
    BY <1>3 DEF NextSnapshot, NoPut
  <2> QED
    BY <1>1, <1>3, <2>1, DryStepKept
<1>4. CASE Finish("outside") /\ NoPut
  BY <1>1, <1>4, FinishKept DEF NoPut
<1>5. CASE ~dry
  <2>1. InList /\ ListInv(t) /\ i \in DOMAIN Meta(t).refs /\ r \in WalkedRefs(t)
    BY <1>1, <1>5 DEF RebaseInv, InList, ListInv
  <2>2. /\ Listed(t) \in Seq(Ref)
        /\ \A m \in DOMAIN Listed(t) : Listed(t)[m] \in Ref /\ Listed(t)[m].path \in URI
        /\ r.role \in {"list", "manifest"}
        /\ r.role = "list" => /\ r \in ListRefs(t)
                              /\ RefsOf(O, r.path) = {Listed(t)[m] : m \in DOMAIN Listed(t)}
        /\ r.role = "manifest" => DOMAIN Listed(t) = {1} /\ Listed(t)[1].path = r.path
    BY <1>2, <2>1, ListRead
  <2>3. /\ r.path \in URI /\ Known(t, r.path) /\ r \in Ref
    BY <1>2, <2>1, MetadataRead
  <2>4. DOMAIN list = DOMAIN Listed(t) /\ \A m \in DOMAIN list : m < j
    BY <1>1, <2>1, TableType DEF ListInv
  <2>5. /\ \A m \in DOMAIN Listed(t) : /\ list[m] = RefImage(Listed(t)[m])
                                    /\ ManifestDone(t, store, Listed(t)[m].path)
        /\ ~changed => \A m \in DOMAIN Listed(t) : RefImage(Listed(t)[m]) = Listed(t)[m]
    BY <1>2, <2>1, <2>4 DEF ListInv
  <2>6. r.role = "list" => \A q \in RefsOf(O, r.path) : ManifestDone(t, store, q.path)
    BY <2>2, <2>5
  <2>7. CASE r.role = "manifest" /\ NextSnapshot /\ NoPut
    <3>1. RefDone(t, store, r)
      BY <2>2, <2>5, <2>7 DEF RefDone
    <3> QED
      BY <1>1, <1>2, <2>1, <2>7, <3>1, SnapshotDealt DEF NoPut
  <2>8. CASE r.role = "list" /\ ~changed /\ Apply(r.path) = r.path /\ NextSnapshot /\ NoPut
    <3>1. ~Matches(r.path)
      BY <2>3, <2>8, ApplyBase
    <3>2. ASSUME NEW m \in DOMAIN Listed(t) PROVE ~Matches(Listed(t)[m].path)
      <4>1. Apply(Listed(t)[m].path) = Listed(t)[m].path /\ Listed(t)[m].path \in URI
        BY <2>2, <2>5, <2>8, RefImagePath
      <4> QED
        BY <4>1, ApplyBase
    <3>3. RefDone(t, store, r)
      BY <2>2, <2>6, <2>8, <3>1, <3>2 DEF RefDone, ListDone
    <3> QED
      BY <1>1, <1>2, <2>1, <2>8, <3>3, SnapshotDealt DEF NoPut
  <2>9. CASE /\ r.role = "list" /\ Matches(r.path)
             /\ Put("list", Apply(r.path), Avro(list)) /\ UNCHANGED new
    <3>1. ImagePUT(t, "list", r.path, Avro(list))
      <4>1. Avro(list) \in Body
        BY TableType DEF Avro, Body
      <4>2. [Avro(list) EXCEPT !.size = Reencoded] = Image(t, r.path)
        <5>1. Image(t, r.path) = ListImage(t, r.path)
          BY <2>2, <2>9, ImageOfList, TableType
        <5>2. [Avro(list) EXCEPT !.size = Reencoded]
                = [refs |-> list, size |-> Reencoded, current |-> 0]
          BY DEF Avro
        <5>3. list = RefImages(Listed(t))
          <6>1. list = [m \in DOMAIN Listed(t) |-> list[m]]
            BY <2>4, TableType
          <6> QED
            BY <2>5, <6>1 DEF RefImages
        <5>4. Listed(t) = O[r.path].refs
          BY <2>9 DEF Listed
        <5> QED
          BY <5>1, <5>2, <5>3, <5>4 DEF ListImage
      <4>3. \A e \in Entries(t) : e.path # r.path
        BY <2>2, <2>9, Kinds, TableType
      <4> QED
        BY <1>1, <1>5, <2>3, <2>9, <4>1, <4>2, <4>3 DEF ImagePUT
    <3>2. PutInv(t)'
      <4>1. /\ Keeps(t, store, Landing') /\ Installed(t, Landing', r.path)
            /\ put' = [level |-> "list", uri |-> Apply(r.path), size |-> Reencoded]
            /\ UNCHANGED <<table, i, Meta(t)>>
        BY <1>1, <2>9, <3>1, PutInstalls DEF Put, Meta
      <4>2. \A q \in RefsOf(O, r.path) : ManifestDone(t, Landing', q.path)
        BY <2>2, <2>6, <2>9, <4>1, ManifestKept, TableType
      <4>3. RefDone(t, Landing', r)
        BY <2>9, <4>1, <4>2 DEF RefDone, ListDone
      <4>4. Apply(r.path).base = "target"
        BY <2>3, <2>9, ApplyBase
      <4> QED
        BY <2>1, <4>1, <4>3, <4>4 DEF PutInv
    <3> QED
      BY <3>1, <3>2, PutKept
  <2>10. Apply(r.path) # r.path \/ ~OutsidePrefix(r.path) => Matches(r.path)
    BY DEF Apply, OutsidePrefix
  <2> QED
    BY <1>2, <1>4, <1>5, <2>7, <2>8, <2>9, <2>10 DEF CloseList
<1> QED
  BY <1>3, <1>4, <1>5 DEF CloseList

LEMMA RewriteMetadataKept ==
  ASSUME TypeInv, ShapeInv, NEW t, IsTable(t), Orderly(t), RebaseInv(t),
         RewriteMetadataJSON
  PROVE  Advances(t)
<1> DEFINE md == t.metadata
           body == Marshalled(Metadata)
<1>1. UNCHANGED table /\ pc = "walk" /\ i > Len(Metadata.refs) /\ ~dry
  BY DEF RewriteMetadataJSON
<1>2. CopyInv(t) /\ ProcessInv(t) /\ Landing = store /\ WalkInv(t)
  BY <1>1 DEF RebaseInv, Landing, Rewriting
<1>3. /\ Metadata = Meta(t) /\ Meta(t) \in Body /\ Meta(t).refs \in Seq(Ref) /\ old = md
      /\ Matches(md) /\ md \in URI /\ \A n \in DOMAIN Meta(t).refs : Meta(t).refs[n] \in Ref
  BY <1>1, <1>2, MetadataRead, TableType DEF ProcessInv, TypeInv, InScope
<1>4. CASE Finish("failed") /\ NoPut
  BY <1>1, <1>4, FinishKept DEF NoPut
<1>5. CASE new' = old /\ pc' = "swap" /\ NoPut /\ UNCHANGED <<dry, old, i>>
  <2>1. CopyInv(t)'
    BY <1>1, <1>2, <1>5, CopyKept DEF NoPut
  <2>2. ProcessInv(t)'
    BY <1>1, <1>2, <1>3, <1>5 DEF ProcessInv
  <2> QED
    BY <1>1, <1>3, <1>5, <2>1, <2>2 DEF RebaseInv, Rewriting, InList, InManifest,
         StepInv, Walking, Advances, Installs, NoPut
<1>6. CASE new' = Apply(old) /\ Put("metadata", Apply(old), body)
  <2>1. \A r \in WalkedRefs(t) : r \in Ref /\ RefDone(t, store, r)
    <3> TAKE r \in WalkedRefs(t)
    <3>1. PICK n \in DOMAIN Meta(t).refs : r = Meta(t).refs[n]
      BY DEF WalkedRefs, RefsOf, Meta
    <3>2. n < i
      BY <1>1, <1>3, TableType
    <3> QED
      BY <1>2, <1>3, <3>1, <3>2 DEF WalkInv
  <2>2. ImagePUT(t, "metadata", md, body)
    <3>1. body \in Body
      BY <1>3, MarshalledType
    <3>2. [body EXCEPT !.size = Reencoded] = Image(t, md)
      BY <1>3, ImageOfMetadata DEF MetadataImage, Meta
    <3>3. \A e \in Entries(t) : e.path # md
      BY Kinds, TableType
    <3>4. Known(t, md)
      BY TableType
    <3> HIDE DEF body
    <3> QED
      BY <1>1, <1>3, <1>6, <3>1, <3>2, <3>3, <3>4 DEF ImagePUT
  <2>3. PutInv(t)'
    <3>1. /\ Keeps(t, store, Landing') /\ Installed(t, Landing', md)
          /\ Agrees(t, Landing') /\ Landing' \in [URI -> Body]
          /\ put' = [level |-> "metadata", uri |-> Apply(md), size |-> Reencoded]
      BY <2>2, PutInstalls
    <3>2. \A r \in WalkedRefs(t) : RefDone(t, Landing', r)
      BY <2>1, <3>1, RefKept, TableType
    <3>3. Rebased(t, Landing')
      BY <1>3, <3>1, <3>2 DEF Rebased
    <3>4. Apply(md).base = "target"
      BY <1>3, ApplyBase
    <3> QED
      BY <1>1, <1>3, <1>6, <3>1, <3>3, <3>4 DEF PutInv
  <2> QED
    BY <1>3, <1>6, <2>2, <2>3, PutKept
<1> QED
  BY <1>4, <1>5, <1>6 DEF RewriteMetadataJSON

LEMMA VerifyKept ==
  ASSUME TypeInv, ShapeInv, NEW t, IsTable(t), Orderly(t), RebaseInv(t),
         Verify
  PROVE  Advances(t)
<1>1. UNCHANGED <<table, store>> /\ pc = "verify"
  BY DEF Verify, bounds
<1>2. CopyInv(t) /\ ProcessInv(t) /\ PutInv(t) /\ ~dry
  BY <1>1 DEF RebaseInv, ShapeInv, Walking
<1>3. CASE Finish("failed")
  BY <1>1, <1>3, FinishKept
<1>4. CASE Landed
  <2>1. Landing = store
    BY <1>4, TableType, LandedWhole DEF Object
  <2>2. CASE put.level = "delete" /\ Mutate(Moved(FixedUp(man[k], put.size)))
    <3>1. InManifest /\ ManifestInv(t) /\ ListInv(t)
      BY <1>1, <1>2, <2>2 DEF RebaseInv, InManifest, InList
    <3>2. /\ k \in DOMAIN man /\ man[k].role = "pos" /\ Matches(man[k].path)
          /\ Installed(t, store, man[k].path)
          /\ DeleteImage(t, man[k].path).size = put.size
      BY <1>2, <2>1, <2>2 DEF PutInv
    <3>3. man[k] = Before(t)[k]
      <4>1. ~(k < k)
        BY TableType
      <4> QED
        BY <3>1, <3>2, <4>1 DEF ManifestInv
    <3>4. Moved(FixedUp(man[k], put.size)) = EntryImage(t, Before(t)[k])
      BY <3>2, <3>3 DEF EntryImage
    <3>5. EntryDone(t, store, Before(t)[k])
      BY <3>2, <3>3 DEF EntryDone, Unsupported
    <3> QED
      BY <1>1, <2>1, <2>2, <3>1, <3>2, <3>4, <3>5, EntryDealt
  <2>3. CASE put.level = "manifest" /\ Relist(Relisted(list[j], put.uri, put.size))
    <3>1. InList /\ ListInv(t)
      BY <1>1, <1>2, <2>3 DEF RebaseInv, InList
    <3>2. /\ j \in DOMAIN list /\ Matches(list[j].path) /\ put.uri = Apply(list[j].path)
          /\ ManifestDone(t, store, list[j].path) /\ put.size = Reencoded
      BY <1>2, <2>1, <2>3 DEF PutInv
    <3>3. list[j] = Listed(t)[j]
      BY <1>2, <3>1, <3>2, ManifestRead
    <3>4. Relisted(list[j], put.uri, put.size) = RefImage(Listed(t)[j])
      BY <3>2, <3>3 DEF RefImage
    <3> QED
      BY <1>1, <2>1, <2>3, <3>1, <3>2, <3>3, <3>4, ManifestDealt
  <2>4. CASE put.level = "list" /\ NextSnapshot
    <3>1. i \in DOMAIN Meta(t).refs /\ RefDone(t, store, Meta(t).refs[i])
      BY <1>2, <2>1, <2>4 DEF PutInv
    <3> QED
      BY <1>1, <2>1, <2>4, <3>1, SnapshotDealt
  <2>5. CASE put.level = "metadata" /\ pc' = "swap" /\ UNCHANGED <<procVars, report>>
    <3>1. Rebased(t, store) /\ new = Apply(old)
      BY <1>2, <2>1, <2>5 DEF PutInv, ProcessInv
    <3>2. UNCHANGED <<dry, old, new, i>>
      BY <2>5 DEF procVars, walkVars
    <3>3. CopyInv(t)'
      BY <1>1, <1>2, CopyKept
    <3>4. ProcessInv(t)'
      BY <1>1, <1>2, <2>5, <3>2 DEF ProcessInv
    <3> QED
      BY <1>1, <2>5, <3>1, <3>2, <3>3, <3>4 DEF RebaseInv, Rewriting, InList, InManifest,
         StepInv, Walking, Advances, Installs
  <2> QED
    BY <1>3, <2>2, <2>3, <2>4, <2>5 DEF Verify
<1> QED
  BY <1>3, <1>4 DEF Verify

-----------------------------------------------------------------------------
(* The table as it is now *)

\* The commits its writers have yet to make, and the keys these will use.
Left == [c \in 1..(Len(table.commits) - commits) |-> table.commits[c + commits]]
Coming == UNION {KeysOf(Left[c]) : c \in DOMAIN Left}

\* What is not under the target prefix, from the catalog's pointer on.
Sources(s) == [u \in {v \in URI : v.base # "target" /\ s[v] # Nothing} |-> s[u]]
Now ==
  [objects |-> Sources(store), metadata |-> pointer, commits |-> Left,
   currentOnly |-> table.currentOnly, noValidate |-> table.noValidate, split |-> table.split,
   maxObjectSize |-> table.maxObjectSize]

LEMMA NowFields ==
  /\ Now.metadata = pointer /\ Now.commits = Left /\ Now.objects = Sources(store)
  /\ Now.currentOnly = table.currentOnly /\ Now.noValidate = table.noValidate
  /\ Now.split = table.split
  /\ Now.maxObjectSize = table.maxObjectSize
  /\ Future(Now) = Coming
BY DEF Now, Future, Coming

LEMMA OriginNow ==
  ASSUME TypeInv, NEW u \in URI
  PROVE  Origin(Now)[u] = IF u.base = "target" THEN Nothing ELSE store[u]
BY NowFields DEF Origin, Sources

\* The table stays as it is while nothing but its image changes.
LEMMA NowStays ==
  ASSUME UNCHANGED <<table, pointer, commits>>,
         \A u \in URI : u.base # "target" => store'[u] = store[u]
  PROVE  Now' = Now /\ Left' = Left /\ Coming' = Coming
<1>1. Left' = Left
  BY DEF Left
<1>2. Sources(store') = Sources(store)
  BY DEF Sources
<1> QED
  BY <1>1, <1>2 DEF Now, Coming

\* The commits to come.
LEMMA LeftType ==
  ASSUME TypeInv, ShapeInv
  PROVE  /\ Left \in Seq(CommitKeys) /\ DOMAIN Left = 1..(Len(table.commits) - commits)
         /\ Len(table.commits) - commits \in Nat
         /\ \A c \in DOMAIN Left : c + commits \in DOMAIN table.commits
                                   /\ Left[c] = table.commits[c + commits]
         /\ commits < Len(table.commits) <=> Left # <<>>
         /\ commits < Len(table.commits) => Left[1] = table.commits[commits + 1]
<1>1. table.commits \in Seq(CommitKeys) /\ commits \in Nat /\ commits <= Len(table.commits)
  BY TablesAssumption DEF IsTable, TypeInv, StorageOK, CountsOK, ShapeInv, CommitKeys
<1>2. Len(table.commits) \in Nat /\ DOMAIN table.commits = 1..Len(table.commits)
  BY <1>1
<1> DEFINE N == Len(table.commits) - commits
<1>3. N \in Nat
  BY <1>1, <1>2
<1>4. \A c \in 1..N : c + commits \in DOMAIN table.commits /\ table.commits[c + commits] \in CommitKeys
  BY <1>1, <1>2, <1>3
<1>5. DOMAIN Left = 1..N /\ \A c \in 1..N : Left[c] = table.commits[c + commits]
  BY DEF Left
<1>6. Left \in Seq(CommitKeys) /\ Len(Left) = N
  <2>1. Left \in [1..N -> CommitKeys]
    BY <1>4 DEF Left
  <2> QED
    BY <1>3, <2>1, SeqDef
<1>7. commits < Len(table.commits) <=> Left # <<>>
  BY <1>1, <1>2, <1>3, <1>6
<1>8. commits < Len(table.commits) => Left[1] = table.commits[commits + 1]
  BY <1>1, <1>2, <1>3, <1>5
<1> QED
  BY <1>3, <1>4, <1>5, <1>6, <1>7, <1>8

-----------------------------------------------------------------------------
(* The two sides of the migration *)

\* Every table is orderly.
OrderlyAll == \A t \in Tables : Orderly(t)

\* The keys of what writers have added.
AddedKeys == UNION {KeysOf(table.commits[c]) : c \in 1..commits}

\* No object of a commit to come is there yet.
FutureInv == \A u \in URI : u.key \in Coming => store[u] = Nothing

\* The bulk copy has what no process PUTs, but for what was added since.
StaleInv ==
  \A e \in Entries(Now) : Matches(e.path) /\ Unmoved(Now, e) =>
     \/ store[Apply(e.path)] = store[e.path]
     \/ store[Apply(e.path)] = Nothing /\ e.path.key \in AddedKeys

\* Before the swap the table stays orderly, and LoadTable finds all of it copied.
SourceInv ==
  /\ IsTable(Now) /\ Orderly(Now)
  /\ FutureInv /\ StaleInv
  /\ pc = "load" => CopyInv(Now)

\* After it nobody walks the table, and its readers and writers stay there.
Settled(s, u) ==
  \A n \in Selected(table.currentOnly, s[u]) :
    /\ \A r \in Followed(s, u, n) : ~Matches(r.path) /\ r.path.key \notin Coming
    /\ \A e \in EntriesOf(s, u, n) : ~Unsupported(e)
TargetInv ==
  /\ pc \in {"down", "load", "validate"}
  /\ pointer.key \notin Coming
  /\ Settled(store, pointer)
  /\ Left # <<>> => \A r \in RefsOf(store, pointer) : r.role = "location" => r.path.base = "target"

SideInv == IF pointer.base = "target" THEN TargetInv ELSE SourceInv

\* A process walks a table t that was the table when it was loaded.
WalkedAs(t) ==
  /\ IsTable(t) /\ Orderly(t) /\ RebaseInv(t)
  /\ \A e \in Entries(Now) : e \in Entries(t) \/ e.path.key \in Future(t)
  /\ Coming \subseteq Future(t)
  /\ pointer = old => t = Now
  /\ pc = "write" => pointer = old /\ new # old

\* An object that no process PUTs becomes itself.
LEMMA ImageUnmoved ==
  ASSUME NEW t, IsTable(t), Orderly(t), NEW e \in Entries(t), Matches(e.path), Unmoved(t, e)
  PROVE  Image(t, e.path) = Origin(t)[e.path]
<1>1. CASE e.role = "pos"
  <2>1. Image(t, e.path) = DeleteImage(t, e.path)
    BY <1>1, ImageOfDelete DEF DeleteRefs
  <2> QED
    BY <1>1, <2>1 DEF DeleteImage, Unmoved
<1>2. CASE e.role # "pos"
  BY <1>2, ImageOfFile DEF FileRefs
<1> QED
  BY <1>1, <1>2

\* The table now knows what storage holds.
LEMMA NowAgrees ==
  ASSUME TypeInv
  PROVE  Agrees(Now, store)
BY OriginNow DEF Agrees, Known

\* What the table refers to, in storage.
LEMMA NowRefs ==
  ASSUME TypeInv, IsTable(Now), Orderly(Now), NEW u \in URI, u.base # "target"
  PROVE  /\ RefsOf(store, u) = RefsOf(Origin(Now), u)
         /\ \A r \in RefsOf(store, u) :
              /\ r \in Ref /\ r.path \in URI
              /\ r.path.base # "target" /\ r.path.key \notin Coming
<1>1. store[u] = Origin(Now)[u]
  BY OriginNow
<1>2. RefsOf(store, u) = RefsOf(Origin(Now), u)
  BY <1>1 DEF RefsOf
<1>3. \A r \in RefsOf(Origin(Now), u) : Known(Now, r.path)
  BY NoTarget
<1>4. \A r \in RefsOf(Origin(Now), u) : r \in Ref /\ r.path \in URI
  BY OrderlyTypes, RefsType, RefFields
<1> QED
  BY <1>2, <1>3, <1>4, NowFields DEF Known

LEMMA NowKnown ==
  ASSUME TypeInv, IsTable(Now), Orderly(Now)
  PROVE  /\ pointer \in URI /\ pointer.base # "target" /\ pointer.key \notin Coming
         /\ \A e \in Entries(Now) :
              /\ e \in Ref /\ e.path \in URI /\ Known(Now, e.path)
              /\ e.path.base # "target" /\ e.path.key \notin Coming
BY MetadataKnown, RefsKnown, NowFields DEF Known

-----------------------------------------------------------------------------
(* The first state *)

\* A table of the same objects, metadata and commits is as orderly.
LEMMA OrderlySame ==
  ASSUME NEW t, IsTable(t), Orderly(t), NEW t2, Origin(t2) = Origin(t),
         t2.metadata = t.metadata, t2.commits = t.commits,
         t2.currentOnly = t.currentOnly, t2.noValidate = t.noValidate, t2.split = t.split,
         t2.maxObjectSize = t.maxObjectSize, DOMAIN t2.objects \subseteq DOMAIN t.objects,
         \A u \in DOMAIN t2.objects : t2.objects[u] = t.objects[u]
  PROVE  IsTable(t2) /\ Orderly(t2)
<1>1. IsTable(t2)
  BY DEF IsTable
<1>2. /\ ListRefs(t2) = ListRefs(t) /\ ManifestRefs(t2) = ManifestRefs(t)
      /\ Entries(t2) = Entries(t)
  BY DEF ListRefs, ManifestRefs, Entries
<1>3. DeleteRefs(t2) = DeleteRefs(t) /\ FileRefs(t2) = FileRefs(t)
  BY <1>2 DEF DeleteRefs, FileRefs
<1>4. Outside(t2)
  BY DEF Orderly, Outside
<1>5. Writable(t2)
  BY DEF Orderly, Writable, Future
<1>6. WellFormed(t2)
  <2>1. WellFormed(t)
    BY DEF Orderly
  <2> QED
    BY <1>2, <1>3, <2>1 DEF WellFormed
<1>7. SelfContained(t2)
  BY <1>2, <1>3 DEF Orderly, SelfContained
<1>8. Intact(t2)
  BY DEF Orderly, Intact
<1>9. ExactIds(t2)
  BY DEF Orderly, ExactIds
<1> QED
  BY <1>1, <1>4, <1>5, <1>6, <1>7, <1>8, <1>9 DEF Orderly

LEMMA InitSide ==
  ASSUME Init, Orderly(table)
  PROVE  ShapeInv /\ SideInv /\ ~Walking
<1> DEFINE O == Origin(table)
<1>1. IsTable(table) /\ TypeInv /\ O \in [URI -> Body] /\ store \in [URI -> Body]
  BY TablesAssumption, OrderlyTypes, InitType DEF Init, TypeInv, StorageOK
<1>2. /\ pc = "down" /\ i = 1 /\ commits = 0 /\ dry = FALSE
      /\ pointer = table.metadata /\ pointer.base # "target" /\ pointer \in URI
  BY <1>1, MetadataKnown DEF Init, Idle
<1>3. ShapeInv /\ ~Walking
  <2>1. table.commits \in Seq(CommitKeys)
    BY <1>1 DEF IsTable, CommitKeys
  <2>2. Len(table.commits) \in Nat
    BY <2>1
  <2> QED
    BY <1>2, <2>2 DEF ShapeInv, Walking
<1>4. \A u \in URI : u.base = "target" => O[u] = Nothing
  BY DEF Orderly, Outside, Origin
<1>5. PICK all \in BOOLEAN : store = Copied(table, all)
  BY DEF Init
<1>6. \A u \in URI : u.base # "target" => store[u] = O[u]
  BY <1>5 DEF Copied
<1>7. Origin(Now) = O
  <2>1. \A u \in URI : Origin(Now)[u] = O[u]
    BY <1>1, <1>4, <1>6, OriginNow
  <2>2. Origin(Now) = [u \in URI |-> Origin(Now)[u]] /\ O = [u \in URI |-> O[u]]
    BY DEF Origin
  <2> QED
    BY <2>1, <2>2
<1>8. Now.commits = table.commits
  <2>1. table.commits \in Seq(CommitKeys)
    BY <1>1 DEF IsTable, CommitKeys
  <2>2. Left \in Seq(CommitKeys) /\ DOMAIN Left = DOMAIN table.commits
        /\ \A c \in DOMAIN Left : Left[c] = table.commits[c]
    BY <1>1, <1>2, <1>3, <2>1, LeftType
  <2> QED
    BY <2>1, <2>2, NowFields
<1>9. ASSUME NEW u \in DOMAIN Now.objects
      PROVE  u \in DOMAIN table.objects /\ Now.objects[u] = table.objects[u]
  <2>1. u \in URI /\ u.base # "target" /\ store[u] # Nothing /\ Now.objects[u] = store[u]
    BY NowFields DEF Sources
  <2> QED
    BY <1>6, <2>1 DEF Origin
<1>10. IsTable(Now) /\ Orderly(Now)
  BY <1>1, <1>2, <1>7, <1>8, <1>9, NowFields, OrderlySame
<1>11. FutureInv
  <2> SUFFICES ASSUME NEW u \in URI, u.key \in Coming PROVE store[u] = Nothing
    BY DEF FutureInv
  <2> DEFINE from == [base |-> "source", key |-> u.key]
  <2>1. u.key \in Future(table)
    BY <1>8, NowFields DEF Future
  <2>2. from \in URI /\ from.key = u.key
    BY DEF URI
  <2>3. O[u] = Nothing /\ O[from] = Nothing
    BY <1>1, <2>1, <2>2 DEF IsTable, Future, Origin
  <2> QED
    BY <1>5, <2>3 DEF Copied
<1>12. StaleInv
  <2> SUFFICES ASSUME NEW e \in Entries(Now), Matches(e.path)
               PROVE  store[Apply(e.path)] = store[e.path]
    BY DEF StaleInv
  <2>1. e.path \in URI /\ Apply(e.path) \in URI /\ Apply(e.path).base = "target"
        /\ e.path.base # "target"
    BY <1>1, <1>10, NowKnown, ApplyType, ApplyBase
  <2>2. [base |-> "source", key |-> Apply(e.path).key] = e.path
    BY <2>1, ApplyBase DEF Matches, URI
  <2>3. \A r \in RefsOf(O, e.path) : r.role = "row"
    BY <1>7, <1>10 DEF Orderly, WellFormed, DeleteRefs, FileRefs
  <2>4. store[Apply(e.path)] = O[e.path]
    BY <1>4, <1>5, <2>1, <2>2, <2>3 DEF Copied
  <2> QED
    BY <1>6, <2>1, <2>4
<1> QED
  BY <1>2, <1>3, <1>10, <1>11, <1>12 DEF SideInv, SourceInv

-----------------------------------------------------------------------------
(* Steps before the swap *)

\* Storage is left alone.
LEMMA SourceQuiet ==
  ASSUME TypeInv, SourceInv, UNCHANGED <<table, store, pointer, commits>>,
         pc' = "load" => pc = "load"
  PROVE  SourceInv' /\ Now' = Now /\ Coming' = Coming
<1>1. Now' = Now /\ Left' = Left /\ Coming' = Coming
  BY NowStays
<1>2. IsTable(Now') /\ Orderly(Now')
  BY <1>1 DEF SourceInv
<1>3. FutureInv' /\ StaleInv'
  BY <1>1 DEF SourceInv, FutureInv, StaleInv, AddedKeys
<1>4. pc' = "load" => CopyInv(Now)'
  BY <1>1 DEF SourceInv, CopyInv
<1> QED
  BY <1>1, <1>2, <1>3, <1>4 DEF SourceInv

\* A process starts.
LEMMA SourceBoot ==
  ASSUME TypeInv, ShapeInv, Orderly(table), SourceInv, pointer.base # "target",
         NEW d \in BOOLEAN, Boot(d)
  PROVE  SourceInv' /\ Now' = Now
<1>1. UNCHANGED <<table, pointer, commits>> /\ store \in [URI -> Body]
  BY DEF Boot, TypeInv, StorageOK
<1>2. store' = IF CopyFresh THEN Recopied ELSE store
  BY DEF Boot, Migrated
<1>3. \A u \in URI : \/ store'[u] = store[u]
                     \/ /\ u.base = "target" /\ u.key \in AddedKeys /\ store[u] = Nothing
                        /\ store'[u] = store[[u EXCEPT !.base = "source"]]
  BY <1>1, <1>2 DEF Recopied, AddedKeys
<1>4. Now' = Now /\ Left' = Left /\ Coming' = Coming
  BY <1>1, <1>3, NowStays
<1>5. IsTable(Now') /\ Orderly(Now')
  BY <1>4 DEF SourceInv
<1>6. FutureInv'
  <2> SUFFICES ASSUME NEW u \in URI, u.key \in Coming PROVE store'[u] = Nothing
    BY <1>4 DEF FutureInv
  <2>1. [u EXCEPT !.base = "source"] \in URI /\ [u EXCEPT !.base = "source"].key = u.key
    BY DEF URI
  <2> QED
    BY <1>3, <2>1 DEF SourceInv, FutureInv
<1>7. ASSUME NEW e \in Entries(Now), Matches(e.path), Unmoved(Now, e)
      PROVE  store'[Apply(e.path)] = store[e.path] /\ store'[e.path] = store[e.path]
  <2>1. e.path \in URI /\ e.path.base # "target" /\ Apply(e.path) \in URI
        /\ Apply(e.path).base = "target" /\ Apply(e.path).key = e.path.key
    BY <1>7, NowKnown, ApplyType, ApplyBase DEF SourceInv
  <2>2. [Apply(e.path) EXCEPT !.base = "source"] = e.path
    BY <1>7, <2>1 DEF Matches, URI
  <2>3. \/ store[Apply(e.path)] = store[e.path]
        \/ store[Apply(e.path)] = Nothing /\ e.path.key \in AddedKeys
    BY <1>7 DEF SourceInv, StaleInv
  <2>4. CASE store[Apply(e.path)] = store[e.path]
    BY <1>3, <2>1, <2>2, <2>4
  <2>5. CASE store[Apply(e.path)] = Nothing /\ e.path.key \in AddedKeys
    <3>1. CopyFresh
      <4>1. CASE ~CopyFresh
        <5>1. table.commits = <<>>
          BY <4>1 DEF Orderly, Writable
        <5>2. Len(table.commits) = 0 /\ commits \in Nat /\ commits <= Len(table.commits)
          BY <5>1 DEF TypeInv, CountsOK, ShapeInv
        <5>3. 1..commits = {}
          BY <5>2
        <5> QED
          BY <2>5, <5>3 DEF AddedKeys
      <4> QED
        BY <4>1
    <3>2. store'[Apply(e.path)] = store[[Apply(e.path) EXCEPT !.base = "source"]]
      BY <1>2, <2>1, <2>5, <3>1 DEF Recopied, AddedKeys
    <3> QED
      BY <1>3, <2>1, <2>2, <3>2
  <2> QED
    BY <2>3, <2>4, <2>5
<1>8. StaleInv'
  BY <1>1, <1>4, <1>7 DEF StaleInv
<1>9. CopyInv(Now)'
  <2>1. Agrees(Now, store')
    BY <1>3, NowAgrees DEF Agrees, Known
  <2>2. ASSUME NEW e \in Entries(Now), Matches(e.path), Unmoved(Now, e)
        PROVE  Installed(Now, store', e.path)
    <3>1. Image(Now, e.path) = Origin(Now)[e.path]
      BY <2>2, ImageUnmoved DEF SourceInv
    <3>2. Origin(Now)[e.path] = store[e.path]
      BY NowKnown, OriginNow DEF SourceInv
    <3> QED
      BY <1>7, <2>2, <3>1, <3>2 DEF Installed
  <2> QED
    BY <1>4, <2>1, <2>2 DEF CopyInv
<1> QED
  BY <1>4, <1>5, <1>6, <1>8, <1>9 DEF SourceInv

\* A commit of the table's writers: the table grows, and nothing else changes.
Grows ==
  /\ Left # <<>> /\ Left[1] = table.commits[commits + 1]
  /\ Left[1] \in CommitKeys /\ Apart(Left[1]) /\ KeysOf(Left[1]) \subseteq Coming
  /\ store \in [URI -> Body] /\ store' \in [URI -> Body]
  /\ store' = Appended(store, pointer, Left[1])
  /\ pointer' = Placed(store, pointer, Left[1].meta)
  /\ store[pointer].size # Cut
  /\ Numbered(store, pointer)
  /\ commits' = commits + 1

LEMMA CommitGrows ==
  ASSUME TypeInv, ShapeInv, Commit
  PROVE  Grows /\ UNCHANGED <<table, pc, procVars>>
<1>1. store \in [URI -> Body] /\ pointer \in URI /\ IsTable(table)
  BY TablesAssumption DEF TypeInv, StorageOK
<1>2. Left # <<>> /\ Left[1] = table.commits[commits + 1]
  BY LeftType DEF Commit
<1>3. 1 \in DOMAIN Left /\ Left[1] \in CommitKeys
  BY <1>2, LeftType
<1>4. Apart(Left[1])
  BY <1>1, <1>2, <1>3, LeftType DEF IsTable
<1>5. KeysOf(Left[1]) \subseteq Coming
  BY <1>3 DEF Coming
<1>6. store' = Appended(store, pointer, Left[1]) /\ pointer' = Placed(store, pointer, Left[1].meta)
  BY <1>2 DEF Commit
<1>7. store' \in [URI -> Body]
  BY <1>1, <1>3, <1>6, AppendedType
<1>8. store[pointer].size # Cut /\ Numbered(store, pointer)
  BY DEF Commit, Exists, Numbered, RefsOf
<1>9. commits' = commits + 1 /\ UNCHANGED <<table, pc, procVars>>
  BY DEF Commit
<1> QED
  BY <1>1, <1>2, <1>3, <1>4, <1>5, <1>6, <1>7, <1>8, <1>9 DEF Grows

\* One commit less is left, of keys of its own.
LEMMA LeftShrinks ==
  ASSUME TypeInv, ShapeInv, Grows, UNCHANGED table
  PROVE  /\ Left' \in Seq(CommitKeys) /\ DOMAIN Left' = 1..(Len(Left) - 1)
         /\ \A c \in DOMAIN Left' : Left'[c] = Left[c + 1] /\ c + 1 \in DOMAIN Left
         /\ Coming' \subseteq Coming
         /\ KeysOf(Left[1]) \cap Coming' = {}
         /\ AddedKeys \subseteq AddedKeys' /\ KeysOf(Left[1]) \subseteq AddedKeys'
         /\ commits' <= Len(table.commits)
<1> DEFINE N == Len(table.commits) - commits
<1>1. /\ IsTable(table) /\ commits \in Nat /\ table.commits \in Seq(CommitKeys)
      /\ commits' = commits + 1 /\ Len(table.commits) \in Nat
  <2>1. IsTable(table) /\ commits \in Nat /\ commits' = commits + 1
    BY TablesAssumption DEF TypeInv, StorageOK, CountsOK, Grows
  <2>2. table.commits \in Seq(CommitKeys)
    BY <2>1 DEF IsTable, CommitKeys
  <2> QED
    BY <2>1, <2>2
<1>2. /\ Left \in Seq(CommitKeys) /\ DOMAIN Left = 1..N /\ N \in Nat /\ Left # <<>>
      /\ \A c \in 1..N : c + commits \in DOMAIN table.commits /\ Left[c] = table.commits[c + commits]
  BY LeftType DEF Grows
<1>3. Len(Left) = N /\ N > 0
  BY <1>2
<1>4. Len(table.commits) - (commits + 1) = N - 1 /\ N - 1 \in Nat
  BY <1>1, <1>3
<1>5. /\ Left' = [c \in 1..(N - 1) |-> table.commits[c + (commits + 1)]]
      /\ DOMAIN Left' = 1..(N - 1)
  BY <1>1, <1>4 DEF Left
<1>6. ASSUME NEW c \in 1..(N - 1)
      PROVE  /\ c + 1 \in 1..N /\ c + (commits + 1) = (c + 1) + commits
             /\ Left'[c] = Left[c + 1]
  <2>1. c + 1 \in 1..N /\ c + (commits + 1) = (c + 1) + commits
    BY <1>1, <1>3
  <2> QED
    BY <1>2, <1>5, <2>1
<1>7. Left' \in Seq(CommitKeys)
  <2>1. Left' \in [1..(N - 1) -> CommitKeys]
    <3>1. \A c \in 1..(N - 1) : table.commits[c + (commits + 1)] \in CommitKeys
      BY <1>1, <1>2, <1>6
    <3> QED
      BY <1>5, <3>1
  <2> QED
    BY <1>4, <2>1, SeqDef
<1>8. Coming' \subseteq Coming
  <2> SUFFICES ASSUME NEW c \in DOMAIN Left', NEW x \in KeysOf(Left'[c]) PROVE x \in Coming
    BY DEF Coming
  <2> QED
    BY <1>2, <1>5, <1>6 DEF Coming
<1>9. KeysOf(Left[1]) \cap Coming' = {}
  <2> SUFFICES ASSUME NEW c \in DOMAIN Left', NEW x \in KeysOf(Left'[c]), x \in KeysOf(Left[1])
               PROVE  FALSE
    BY DEF Coming
  <2>1. /\ Left'[c] = table.commits[c + (commits + 1)] /\ Left[1] = table.commits[commits + 1]
        /\ c + (commits + 1) \in DOMAIN table.commits
    BY <1>1, <1>2, <1>5, <1>6 DEF Grows
  <2>2. commits + 1 \in 1..((c + (commits + 1)) - 1)
    BY <1>1, <1>5
  <2> QED
    BY <1>1, <2>1, <2>2 DEF IsTable
<1>10. AddedKeys \subseteq AddedKeys' /\ KeysOf(Left[1]) \subseteq AddedKeys'
  <2>1. \A c \in 1..commits : c \in 1..(commits + 1)
    BY <1>1
  <2>2. commits + 1 \in 1..(commits + 1) /\ Left[1] = table.commits[commits + 1]
    BY <1>1 DEF Grows
  <2> QED
    BY <1>1, <2>1, <2>2 DEF AddedKeys
<1>11. commits' <= Len(table.commits)
  BY <1>1, <1>3
<1>12. /\ DOMAIN Left' = 1..(Len(Left) - 1)
       /\ \A c \in DOMAIN Left' : Left'[c] = Left[c + 1] /\ c + 1 \in DOMAIN Left
  BY <1>2, <1>3, <1>5, <1>6
<1> QED
  BY <1>7, <1>8, <1>9, <1>10, <1>11, <1>12

\* On the source, the table now grows.
LEMMA NowGrows ==
  ASSUME TypeInv, ShapeInv, SourceInv, Grows, UNCHANGED table
  PROVE  /\ Grown(Now, Now')
         /\ \A u \in URI : u.base = "target" \/ u.key \notin KeysOf(Left[1]) => store'[u] = store[u]
<1> DEFINE O == Origin(Now)
           key == Left[1]
<1>1. /\ O \in [URI -> Body] /\ pointer \in URI /\ pointer.base # "target"
      /\ store \in [URI -> Body] /\ store' \in [URI -> Body] /\ key \in CommitKeys
      /\ Now.metadata = pointer /\ Now.commits = Left
  BY OrderlyTypes, NowKnown, NowFields DEF SourceInv, Grows
<1> HIDE DEF key
<1>2. O[pointer] = store[pointer] /\ RefsOf(O, pointer) = RefsOf(store, pointer)
  BY <1>1, OriginNow DEF RefsOf
<1>3. \A r \in RefsOf(O, pointer) : store[r.path] = O[r.path]
  BY <1>1, <1>2, NowRefs, OriginNow DEF SourceInv
<1>4. /\ \A x : Placed(store, pointer, x) = Placed(O, pointer, x)
      /\ \A v \in URI :
           store[v] = O[v] => Appended(store, pointer, key)[v] = Appended(O, pointer, key)[v]
  BY <1>1, <1>2, <1>3, AppendedAlike
<1>5. key.meta \in Key
  BY <1>1 DEF CommitKeys
<1>6. Placed(O, pointer, key.meta).base # "target"
  BY <1>1, <1>5, GrownPlaces DEF SourceInv
<1>7. /\ Appended(O, pointer, key) \in [URI -> Body]
      /\ \A v \in URI : v.base = "target" => Appended(O, pointer, key)[v] = O[v]
  <2> HIDE DEF O
  <2>1. /\ Appended(O, pointer, key) \in [URI -> Body]
        /\ \A v \in URI :
             v.base # Placed(O, pointer, key.meta).base => Appended(O, pointer, key)[v] = O[v]
    BY <1>1, AppendedType
  <2> QED
    BY <1>6, <2>1
<1>8. /\ store' = Appended(store, pointer, key) /\ pointer' = Placed(store, pointer, key.meta)
      /\ store[pointer].size # Cut /\ Numbered(store, pointer) /\ Left # <<>>
  BY DEF Grows, key
<1>9. /\ \A v \in URI : v.base = "target" => store'[v] = store[v]
      /\ \A v \in URI : v.key \notin KeysOf(key) => store'[v] = store[v]
  BY <1>1, <1>4, <1>6, <1>8, AppendedType
<1>10. Now'.objects = Sources(store') /\ Now'.metadata = pointer' /\ Now'.commits = Left'
       /\ Now'.currentOnly = table.currentOnly /\ Now'.noValidate = table.noValidate
       /\ Now'.split = table.split
       /\ Now'.maxObjectSize = table.maxObjectSize
  BY DEF Now
<1>11. \A u \in URI : Origin(Now')[u] = IF u.base = "target" THEN Nothing ELSE store'[u]
  BY <1>10 DEF Origin, Sources
<1>12. Origin(Now') = Appended(O, pointer, key)
  <2>1. \A u \in URI : Origin(Now')[u] = Appended(O, pointer, key)[u]
    BY <1>1, <1>4, <1>7, <1>8, <1>11, OriginNow
  <2>2. Origin(Now') = [u \in URI |-> Origin(Now')[u]]
    BY DEF Origin
  <2> QED
    BY <1>7, <2>1, <2>2
<1>13. ASSUME NEW u \in DOMAIN Now'.objects
       PROVE  /\ u \in URI /\ u.base # "target" /\ Now'.objects[u] \in Body
              /\ u \in DOMAIN Now.objects \/ u.key \in KeysOf(key)
  <2>1. u \in URI /\ u.base # "target" /\ store'[u] # Nothing /\ Now'.objects[u] = store'[u]
    BY <1>10, <1>13 DEF Sources
  <2>2. DOMAIN Now.objects = {v \in URI : v.base # "target" /\ store[v] # Nothing}
    BY NowFields DEF Sources
  <2> QED
    BY <1>1, <1>9, <2>1, <2>2
<1>14. Numbered(O, pointer)
  BY <1>2, <1>8 DEF Numbered
<1>15. /\ Left' \in Seq(CommitKeys) /\ DOMAIN Left' = 1..(Len(Left) - 1)
       /\ \A c \in DOMAIN Left' : Left'[c] = Left[c + 1]
  BY LeftShrinks
<1>16. Now.commits[1] = key
  BY <1>1 DEF key
<1>17. Grown(Now, Now')
  BY <1>1, <1>2, <1>4, <1>8, <1>10, <1>12, <1>13, <1>14, <1>15, <1>16, NowFields DEF Grown
<1> QED
  BY <1>9, <1>17 DEF key

LEMMA SourceCommit ==
  ASSUME TypeInv, ShapeInv, SourceInv, Grows, UNCHANGED <<table, pc>>, pc # "load"
  PROVE  SourceInv' /\ pointer'.base # "target"
<1> DEFINE key == Left[1]
<1>1. /\ Grown(Now, Now') /\ IsTable(Now) /\ Orderly(Now)
      /\ \A u \in URI : u.base = "target" \/ u.key \notin KeysOf(key) => store'[u] = store[u]
  BY NowGrows DEF SourceInv
<1>2. IsTable(Now') /\ Orderly(Now')
  BY <1>1, CommitsKeepOrder
<1>3. /\ Coming' \subseteq Coming /\ KeysOf(key) \cap Coming' = {} /\ KeysOf(key) \subseteq Coming
      /\ AddedKeys \subseteq AddedKeys' /\ KeysOf(key) \subseteq AddedKeys'
  BY LeftShrinks DEF Grows
<1>4. Now'.metadata = pointer' /\ Now.commits[1] = key
  BY NowFields DEF Now
<1> HIDE DEF key
<1>5. pointer'.base # "target"
  BY <1>2, <1>4, MetadataKnown
<1>6. FutureInv'
  BY <1>1, <1>3 DEF SourceInv, FutureInv
<1>7. StaleInv'
  <2> SUFFICES ASSUME NEW e \in Entries(Now'), Matches(e.path), Unmoved(Now', e)
               PROVE  \/ store'[Apply(e.path)] = store'[e.path]
                      \/ store'[Apply(e.path)] = Nothing /\ e.path.key \in AddedKeys'
    BY DEF StaleInv
  <2>1. e \in Entries(Now) \/ e = AddedData(Now)
    BY <1>1, GrownRefs
  <2>2. CASE e \in Entries(Now)
    <3>1. /\ e.path \in URI /\ e.path.base # "target" /\ e.path.key \notin KeysOf(key)
          /\ Known(Now, e.path)
      BY <1>1, <1>3, <2>2, NowKnown
    <3>2. /\ store'[e.path] = store[e.path]
          /\ store'[Apply(e.path)] = store[Apply(e.path)]
      BY <1>1, <2>2, <3>1, ApplyType, ApplyBase
    <3>3. Origin(Now')[e.path] = Origin(Now)[e.path]
      BY <1>1, <3>1, GrownRefs
    <3>4. Unmoved(Now, e)
      BY <3>3 DEF Unmoved
    <3> QED
      BY <1>3, <2>2, <3>2, <3>4 DEF SourceInv, StaleInv
  <2>3. CASE e = AddedData(Now)
    <3>1. e.path \in URI /\ e.path.key \in KeysOf(key)
      BY <1>1, <1>4, <2>3, GrownNew
    <3>2. Apply(e.path) \in URI /\ Apply(e.path).base = "target" /\ Apply(e.path).key = e.path.key
      BY <3>1, ApplyType, ApplyBase
    <3>3. store[Apply(e.path)] = Nothing /\ store'[Apply(e.path)] = store[Apply(e.path)]
      BY <1>1, <1>3, <3>1, <3>2 DEF SourceInv, FutureInv
    <3> QED
      BY <1>3, <3>1, <3>3
  <2> QED
    BY <2>1, <2>2, <2>3
<1> QED
  BY <1>2, <1>5, <1>6, <1>7 DEF SourceInv

\* A process writes the image of an object of the table it walks.
LEMMA SourceInstall ==
  ASSUME TypeInv, SourceInv, NEW t, WalkedAs(t), Installs(t),
         UNCHANGED <<table, pointer, commits>>, pc' # "load"
  PROVE  SourceInv' /\ Now' = Now
<1>1. CASE store' = store
  BY <1>1, SourceQuiet
<1>2. CASE store' # store
  <2>1. PICK p \in URI, b \in Body :
           /\ Matches(p) /\ Known(t, p)
           /\ \A e \in Entries(t) : Unmoved(t, e) => e.path # p
           /\ store' = [store EXCEPT ![Apply(p)] = b]
    BY <1>2 DEF Installs
  <2>2. /\ store \in [URI -> Body] /\ Apply(p) \in URI /\ Apply(p).base = "target"
        /\ Apply(p).key = p.key /\ p.key \notin Coming /\ p.base # "target"
    BY <2>1, ApplyType, ApplyBase DEF TypeInv, StorageOK, WalkedAs, Known, Matches
  <2>3. \A u \in URI : u # Apply(p) => store'[u] = store[u]
    BY <2>1, <2>2
  <2>4. Now' = Now /\ Left' = Left /\ Coming' = Coming
    BY <2>2, <2>3, NowStays
  <2>5. IsTable(Now') /\ Orderly(Now')
    BY <2>4 DEF SourceInv
  <2>6. FutureInv'
    BY <2>2, <2>3, <2>4 DEF SourceInv, FutureInv
  <2>7. StaleInv'
    <3> SUFFICES ASSUME NEW e \in Entries(Now), Matches(e.path), Unmoved(Now, e)
                 PROVE  store'[e.path] = store[e.path] /\ store'[Apply(e.path)] = store[Apply(e.path)]
      BY <2>4 DEF SourceInv, StaleInv, AddedKeys
    <3>1. e.path \in URI /\ e.path.base # "target" /\ Apply(e.path) \in URI
      BY NowKnown, ApplyType DEF SourceInv
    <3>2. e.path # p
      <4>1. CASE e.path.key \in Future(t)
        BY <2>1, <4>1 DEF Known
      <4>2. CASE e.path.key \notin Future(t)
        <5>1. e \in Entries(t) /\ Known(t, e.path)
          BY <3>1, <4>2 DEF WalkedAs, Known
        <5>2. Origin(t)[e.path] = Origin(Now)[e.path]
          BY <3>1, <5>1, OriginNow DEF WalkedAs, RebaseInv, CopyInv, Agrees
        <5> QED
          BY <2>1, <5>1, <5>2 DEF Unmoved
      <4> QED
        BY <4>1, <4>2
    <3>3. Apply(e.path) # Apply(p)
      BY <2>2, <3>1, <3>2, ApplyInjective
    <3> QED
      BY <2>2, <2>3, <3>1, <3>3
  <2> QED
    BY <2>4, <2>5, <2>6, <2>7 DEF SourceInv
<1> QED
  BY <1>1, <1>2

\* The pointer moves to the image of the table now, all of it installed.
LEMMA WriteMoves ==
  ASSUME TypeInv, NEW t, WalkedAs(t), Write, pointer' # pointer
  PROVE  /\ t = Now /\ pointer' = Apply(pointer) /\ Rebased(Now, store)
         /\ pc' \in {"down", "validate"}
<1>1. pc = "write" /\ pointer' = new /\ new # old /\ pointer = old /\ pc' \in {"down", "validate"}
  BY DEF Write, Swapped, WalkedAs, Finish
<1>2. new = Apply(old) /\ Rebased(t, store)
  BY <1>1 DEF WalkedAs, RebaseInv
<1> QED
  BY <1>1, <1>2 DEF WalkedAs

LEMMA WriteSide ==
  ASSUME TypeInv, ShapeInv, SourceInv, NEW t, WalkedAs(t), Write
  PROVE  SideInv'
<1>1. UNCHANGED <<table, store, commits>> /\ pc' # "load"
  BY DEF Write, Swapped, Finish
<1>2. CASE pointer' = pointer
  BY <1>1, <1>2, SourceQuiet, NowKnown DEF SideInv, SourceInv
<1>3. CASE pointer' # pointer
  <2>1. /\ pointer' = Apply(pointer) /\ Rebased(Now, store) /\ pc' \in {"down", "validate"}
        /\ IsTable(Now) /\ Orderly(Now) /\ Now.metadata = pointer /\ Future(Now) = Coming
        /\ Now.commits = Left /\ Now.currentOnly = table.currentOnly
    BY <1>3, WriteMoves, NowFields DEF SourceInv
  <2>2. pointer \in URI /\ Matches(pointer) /\ pointer.key \notin Coming
    BY <2>1, NowKnown DEF Rebased
  <2>3. pointer'.base = "target" /\ pointer'.key \notin Coming
    BY <2>1, <2>2, ApplyBase
  <2>4. Left' = Left /\ Coming' = Coming
    BY <1>1 DEF Left, Coming
  <2>5. Settled(store, pointer')
    <3>1. Selected(table.currentOnly, store[pointer']) = Wanted(Now)
      BY <2>1, SnapshotsKept
    <3> QED
      BY <2>1, <3>1, NothingFollowedBack DEF Settled
  <2>6. ASSUME Left # <<>>, NEW r \in RefsOf(store, pointer'), r.role = "location"
        PROVE  r.path.base = "target"
    <3>0. RefsOf(store, Apply(pointer)) = {Moved(q) : q \in RefsOf(Origin(Now), pointer)}
      BY <2>1, MetadataContents
    <3>1. PICK q \in RefsOf(Origin(Now), pointer) : r = Moved(q)
      BY <2>1, <2>6, <3>0
    <3>2. q \in Ref /\ q.path \in URI
      BY <2>1, <2>2, OrderlyTypes, RefsType, RefFields
    <3>3. q.role = "location"
      BY <2>6, <3>1, <3>2, MovedFields
    <3>4. Matches(q.path)
      BY <2>1, <2>6, <3>3 DEF Orderly, Writable
    <3> QED
      BY <3>1, <3>2, <3>4, MovedFields, ApplyBase
  <2>7. Settled(store, pointer)'
    BY <1>1, <2>4, <2>5 DEF Settled
  <2>8. TargetInv'
    BY <1>1, <2>1, <2>3, <2>4, <2>6, <2>7 DEF TargetInv
  <2> QED
    BY <2>3, <2>8 DEF SideInv
<1> QED
  BY <1>2, <1>3

-----------------------------------------------------------------------------
(* Steps after the swap *)

LEMMA TargetQuiet ==
  ASSUME TargetInv, pointer.base = "target", UNCHANGED <<table, store, pointer, commits>>,
         pc' \in {"down", "load", "validate"}
  PROVE  SideInv'
<1>1. Left' = Left /\ Coming' = Coming
  BY DEF Left, Coming
<1>2. Settled(store, pointer)'
  BY <1>1 DEF TargetInv, Settled
<1> QED
  BY <1>1, <1>2 DEF TargetInv, SideInv

\* Writers go on at the target.
LEMMA TargetGrows ==
  ASSUME TypeInv, ShapeInv, TargetInv, pointer.base = "target", Grows, UNCHANGED <<table, pc>>
  PROVE  /\ SideInv' /\ pointer'.base = "target"
         /\ 1 + Len(store[pointer].refs) \in Kept' \ Kept
         /\ \A m \in Kept' : m # 1 + Len(store[pointer].refs) =>
              m \in Kept /\ Scan(store', pointer', m) = Scan(store, pointer, m)
<1> DEFINE key == Left[1]
           n == 1 + Len(store[pointer].refs)
           c == store[pointer].current
           only == table.currentOnly
<1>1. /\ store \in [URI -> Body] /\ pointer \in URI /\ key \in CommitKeys /\ Apart(key)
      /\ store' = Appended(store, pointer, key) /\ pointer' = Placed(store, pointer, key.meta)
      /\ store[pointer].size # Cut /\ Numbered(store, pointer) /\ Left # <<>>
      /\ KeysOf(key) \subseteq Coming
  BY DEF Grows, TypeInv, StorageOK
<1>2. only \in BOOLEAN
  BY TablesAssumption DEF IsTable, TypeInv, StorageOK
<1>3. Coming' \subseteq Coming /\ KeysOf(key) \cap Coming' = {} /\ (Left' # <<>> => Left # <<>>)
  BY <1>1, LeftShrinks
<1> HIDE DEF key
<1>4. ASSUME NEW x \in KeysOf(key)
      PROVE  /\ Placed(store, pointer, x) \in URI /\ Placed(store, pointer, x).key = x
             /\ Placed(store, pointer, x).base = "target"
  <2>1. x \in Key
    BY <1>1, <1>4 DEF KeysOf, CommitKeys
  <2> DEFINE bases == {r.path.base : r \in {q \in RefsOf(store, pointer) : q.role = "location"}}
  <2>2. /\ Placed(store, pointer, x) \in URI /\ Placed(store, pointer, x).key = x
        /\ Placed(store, pointer, x).base \in IF bases = {} THEN {pointer.base} ELSE bases
    BY <1>1, <2>1, PlacedType
  <2>3. \A b \in bases : b = "target"
    BY <1>1 DEF TargetInv
  <2> HIDE DEF bases
  <2> QED
    BY <2>2, <2>3
<1>5. key.meta \in KeysOf(key) /\ key.list \in KeysOf(key) /\ key.man \in KeysOf(key)
      /\ key.data \in KeysOf(key)
  BY DEF KeysOf
<1>6. /\ n \in Selected(only, store'[pointer']) /\ n \notin Selected(only, store[pointer])
      /\ \A m \in Selected(only, store'[pointer']) : m # n => m \in Selected(only, store[pointer])
      /\ c \in Snapshots(store[pointer]) => c \in Selected(only, store[pointer])
  BY <1>1, <1>2, CommitSelected
<1>7. \A m \in Selected(only, store[pointer]) :
        /\ \A r \in Followed(store, pointer, m) : ~Matches(r.path) /\ r.path.key \notin Coming
        /\ \A e \in EntriesOf(store, pointer, m) : ~Unsupported(e)
  BY DEF TargetInv, Settled
<1>8. \A m : Followed(store, pointer, m) \subseteq Ref
  <2> TAKE m
  <2>1. \A u \in URI : RefsOf(store, u) \subseteq Ref
    BY <1>1, RefsType
  <2>2. \A r \in Ref : r.path \in URI
    BY RefFields
  <2> QED
    BY <1>1, <2>1, <2>2 DEF Followed, ManifestsOf, EntriesOf
<1>9. ASSUME NEW m \in Selected(only, store'[pointer']), m # n
      PROVE  /\ Followed(store', pointer', m) = Followed(store, pointer, m)
             /\ EntriesOf(store', pointer', m) = EntriesOf(store, pointer, m)
             /\ Scan(store', pointer', m) = Scan(store, pointer, m)
  <2>1. \A r \in Followed(store, pointer, m) : r.path \in URI /\ r.path.key \notin KeysOf(key)
    BY <1>1, <1>6, <1>7, <1>8, <1>9, RefFields
  <2> QED
    BY <1>1, <1>9, <2>1, CommitOld
<1>10. /\ \A r \in Followed(store', pointer', n) : ~Matches(r.path) /\ r.path.key \notin Coming'
       /\ \A e \in EntriesOf(store', pointer', n) : ~Unsupported(e)
  <2>1. \A r \in Followed(store, pointer, c) : ~Matches(r.path) /\ r.path.key \notin Coming
    BY <1>6, <1>7, SnapshotsFollowed
  <2>2. \A e \in EntriesOf(store, pointer, c) : e \in Followed(store, pointer, c)
    BY DEF Followed
  <2>3. \A e \in EntriesOf(store, pointer, c) : ~Unsupported(e)
    BY <1>6, <1>7, <2>2, SnapshotsFollowed
  <2>4. \A r \in Followed(store, pointer, c) : r.path.key \notin KeysOf(key)
    BY <1>1, <2>1
  <2> DEFINE added == {NewSnapshot(store, pointer, key), NewManifest(store, pointer, key),
                       NewData(store, pointer, key)}
  <2>5. /\ Followed(store', pointer', n) \subseteq added \cup Followed(store, pointer, c)
        /\ EntriesOf(store', pointer', n)
             \subseteq {NewData(store, pointer, key)} \cup EntriesOf(store, pointer, c)
    BY <1>1, <2>4, CommitNew
  <2>6. \A r \in added : r.path.base = "target" /\ r.path.key \in KeysOf(key)
    BY <1>4, <1>5 DEF NewSnapshot, NewManifest, NewData, Named
  <2>7. ~Unsupported(NewData(store, pointer, key))
    BY DEF NewData, Named, Unsupported
  <2> HIDE DEF added
  <2>8. ASSUME NEW r \in Followed(store', pointer', n)
        PROVE  ~Matches(r.path) /\ r.path.key \notin Coming'
    <3>1. r \in added \/ r \in Followed(store, pointer, c)
      BY <2>5, <2>8
    <3> QED
      BY <1>3, <2>1, <2>6, <3>1 DEF Matches
  <2> QED
    BY <2>3, <2>5, <2>7, <2>8
<1>11. pointer'.base = "target" /\ pointer'.key \notin Coming'
  BY <1>1, <1>3, <1>4, <1>5
<1>12. Settled(store, pointer)'
  <2> SUFFICES ASSUME NEW m \in Selected(only, store'[pointer'])
               PROVE  /\ \A r \in Followed(store', pointer', m) :
                            ~Matches(r.path) /\ r.path.key \notin Coming'
                      /\ \A e \in EntriesOf(store', pointer', m) : ~Unsupported(e)
    BY DEF Settled
  <2>1. CASE m = n
    BY <1>10, <2>1
  <2>2. CASE m # n
    BY <1>3, <1>6, <1>7, <1>9, <2>2
  <2> QED
    BY <2>1, <2>2
<1>13. \A r \in RefsOf(store', pointer') : r.role = "location" => r.path.base = "target"
  <2>1. WritesCommit(store, pointer, key)
    BY <1>1, AppendedObjects
  <2>2. RefsOf(store', pointer') = RefsOf(store, pointer) \cup {NewSnapshot(store, pointer, key)}
    BY <1>1, <2>1 DEF WritesCommit
  <2>3. NewSnapshot(store, pointer, key).role = "list"
    BY DEF NewSnapshot, Named
  <2> QED
    BY <1>1, <2>2, <2>3 DEF TargetInv
<1>14. SideInv'
  BY <1>11, <1>12, <1>13 DEF TargetInv, SideInv
<1>15. Kept' = Selected(only, store'[pointer']) /\ Kept = Selected(only, store[pointer])
  BY DEF Kept
<1> QED
  BY <1>6, <1>9, <1>11, <1>14, <1>15

-----------------------------------------------------------------------------
(* Every step *)

LEMMA ShapeStep ==
  ASSUME TypeInv, ShapeInv, [Next]_vars
  PROVE  ShapeInv' /\ table' = table
<1>1. table' = table
  BY DEF Next, Process, Load, OpenSnapshot, ReadManifest, PlainEntry, RefuseEntry, DeleteFile,
         CloseManifest, CloseList, EndDryRun, RewriteMetadataJSON, Verify, Swap, Write, Validate,
         Start, StartDry, Boot, Fail, Kill, Commit, vars
<1>2. commits' <= Len(table.commits)
  <2>1. CASE Commit
    BY <1>1, <2>1, CommitGrows, LeftShrinks
  <2>2. CASE ~Commit
    <3>1. commits' = commits
      BY <2>2 DEF Next, Process, Load, OpenSnapshot, ReadManifest, PlainEntry, RefuseEntry,
           DeleteFile, CloseManifest, CloseList, EndDryRun, RewriteMetadataJSON, Verify, Swap,
           Write, Validate, Start, StartDry, Boot, Fail, Kill, vars, bounds
    <3> QED
      BY <3>1 DEF ShapeInv
  <2> QED
    BY <2>1, <2>2
<1>3. /\ pc' \in {"down", "load"} => i' = 1
      /\ dry' => pc' \notin {"verify", "swap", "write", "validate"} /\ (pc' = "manifest" => ~dirty')
  <2> USE DEF ShapeInv
  <2>1. ASSUME NEW o, Finish(o) PROVE pc' = "down" /\ i' = 1 /\ ~dry'
    BY <2>1 DEF Finish
  <2>2. CASE Load
    BY <2>1, <2>2 DEF Load
  <2>3. CASE OpenSnapshot \/ ReadManifest \/ RefuseEntry
    BY <2>1, <2>3 DEF OpenSnapshot, ReadManifest, RefuseEntry, NextSnapshot
  <2>4. CASE PlainEntry
    BY <2>4 DEF PlainEntry, Reported, Mutate
  <2>5. CASE DeleteFile
    BY <2>1, <2>5 DEF DeleteFile, Reported, Mutate, Put
  <2>6. CASE CloseManifest
    BY <2>1, <2>6 DEF CloseManifest, Relist, Put
  <2>7. CASE CloseList
    BY <2>1, <2>7 DEF CloseList, NextSnapshot, Put
  <2>8. CASE RewriteMetadataJSON
    BY <2>1, <2>8 DEF RewriteMetadataJSON, Put
  <2>9. CASE Verify
    BY <2>1, <2>9 DEF Verify, Mutate, Relist, NextSnapshot, procVars, walkVars
  <2>10. CASE Swap \/ Write
    BY <2>1, <2>10 DEF Swap, Write, Swapped, procVars, walkVars
  <2>11. CASE EndDryRun \/ Validate \/ Fail \/ Kill
    BY <2>1, <2>11 DEF EndDryRun, Validate, Fail, Kill
  <2>12. CASE Start \/ StartDry
    BY <2>12 DEF Start, StartDry, Boot, walkVars
  <2>13. CASE Commit \/ UNCHANGED vars
    BY <2>13 DEF Commit, vars, procVars, walkVars
  <2> QED
    BY <2>2, <2>3, <2>4, <2>5, <2>6, <2>7, <2>8, <2>9, <2>10, <2>11, <2>12, <2>13
       DEF Next, Process
<1> QED
  BY <1>1, <1>2, <1>3 DEF ShapeInv

\* A step of a walk.
Walks ==
  \/ OpenSnapshot \/ ReadManifest \/ PlainEntry \/ DeleteFile \/ CloseManifest
  \/ CloseList \/ RewriteMetadataJSON \/ Verify

\* A step that writes nothing and moves no pointer: the end of a process, or none.
Quiet ==
  /\ UNCHANGED <<table, store, pointer, commits>>
  /\ pc' = "down" \/ UNCHANGED <<pc, procVars>>

LEMMA StepKinds ==
  ASSUME [Next]_vars
  PROVE  Walks \/ Quiet \/ Load \/ Swap \/ Write \/ Commit \/ \E d \in BOOLEAN : Boot(d)
<1>1. ASSUME RefuseEntry \/ EndDryRun \/ Validate \/ Fail \/ Kill
      PROVE  Quiet
  BY <1>1 DEF RefuseEntry, EndDryRun, Validate, Fail, Kill, Finish, Quiet, bounds
<1>2. ASSUME UNCHANGED vars PROVE Quiet
  BY <1>2 DEF vars, Quiet, bounds
<1>3. ASSUME Start \/ StartDry PROVE \E d \in BOOLEAN : Boot(d)
  BY <1>3 DEF Start, StartDry
<1> QED
  BY <1>1, <1>2, <1>3 DEF Next, Process, Walks

LEMMA WalksAdvance ==
  ASSUME TypeInv, ShapeInv, NEW t, IsTable(t), Orderly(t), RebaseInv(t), Walks
  PROVE  Advances(t)
BY OpenSnapshotKept, ReadManifestKept, PlainEntryKept, DeleteFileKept, CloseManifestKept,
   CloseListKept, RewriteMetadataKept, VerifyKept DEF Walks

LEMMA WalksStay ==
  ASSUME Walks
  PROVE  /\ UNCHANGED <<table, pointer, commits>> /\ Walking
         /\ pc' \notin {"load", "write", "validate"}
         /\ Walking' => old' = old
<1> USE DEF Walking, Finish
<1>1. CASE OpenSnapshot \/ ReadManifest
  BY <1>1 DEF OpenSnapshot, ReadManifest, NextSnapshot, bounds
<1>2. CASE PlainEntry \/ DeleteFile
  BY <1>2 DEF PlainEntry, DeleteFile, Reported, Mutate, Put, NoPut
<1>3. CASE CloseManifest
  BY <1>3 DEF CloseManifest, Relist, Put
<1>4. CASE CloseList \/ RewriteMetadataJSON
  BY <1>4 DEF CloseList, RewriteMetadataJSON, NextSnapshot, Put
<1>5. CASE Verify
  BY <1>5 DEF Verify, Mutate, Relist, NextSnapshot, procVars, walkVars, bounds
<1> QED
  BY <1>1, <1>2, <1>3, <1>4, <1>5 DEF Walks

\* What holds of every state.
RInv == TypeInv /\ ShapeInv /\ Orderly(table) /\ SideInv /\ (Walking => \E t : WalkedAs(t))

\* A process walks the table before the swap only.
LEMMA WalksSource ==
  ASSUME SideInv, Walking
  PROVE  SourceInv /\ pointer.base # "target"
BY DEF SideInv, TargetInv, Walking

LEMMA SideStep ==
  ASSUME RInv, [Next]_vars
  PROVE  SideInv'
<1>1. TypeInv /\ ShapeInv /\ Orderly(table) /\ SideInv /\ (Walking => \E t : WalkedAs(t))
  BY DEF RInv
<1>2. table' = table
  BY <1>1, ShapeStep
<1>3. CASE Walks
  <2>1. UNCHANGED <<table, pointer, commits>> /\ Walking /\ pc' # "load"
    BY <1>3, WalksStay
  <2>2. SourceInv /\ pointer.base # "target"
    BY <1>1, <2>1, WalksSource
  <2>3. PICK t : WalkedAs(t)
    BY <1>1, <2>1
  <2>4. Installs(t)
    BY <1>1, <1>3, <2>3, WalksAdvance DEF WalkedAs, Advances
  <2>5. SourceInv'
    BY <1>1, <2>1, <2>2, <2>3, <2>4, SourceInstall
  <2> QED
    BY <2>1, <2>2, <2>5 DEF SideInv
<1>4. CASE Quiet \/ Load
  <2>1. /\ UNCHANGED <<table, store, pointer, commits>>
        /\ pc' \in {"down", "walk"} \/ pc' = pc
        /\ pointer.base = "target" => pc' = "down" \/ pc' = pc
    BY <1>4 DEF Quiet, Load, Finish, Migrated, Matches, bounds
  <2>2. CASE pointer.base = "target"
    <3>1. TargetInv /\ pc' \in {"down", "load", "validate"}
      BY <1>1, <2>1, <2>2 DEF SideInv, TargetInv
    <3> QED
      BY <2>1, <2>2, <3>1, TargetQuiet
  <2>3. CASE pointer.base # "target"
    <3>1. SourceInv /\ (pc' = "load" => pc = "load")
      BY <1>1, <2>1, <2>3 DEF SideInv
    <3>2. SourceInv'
      BY <1>1, <2>1, <3>1, SourceQuiet
    <3> QED
      BY <2>1, <2>3, <3>2 DEF SideInv
  <2> QED
    BY <2>2, <2>3
<1>5. CASE Swap \/ Write
  <2>1. Walking
    BY <1>5 DEF Swap, Write, Walking
  <2>2. PICK t : WalkedAs(t)
    BY <1>1, <2>1
  <2>3. SourceInv /\ pointer.base # "target"
    BY <1>1, <2>1, WalksSource
  <2>4. CASE Swap
    <3>1. UNCHANGED <<table, store, pointer, commits>> /\ pc' # "load"
      BY <2>4 DEF Swap, Swapped, Finish, bounds
    <3> QED
      BY <1>1, <2>3, <3>1, SourceQuiet DEF SideInv
  <2> QED
    BY <1>1, <1>5, <2>2, <2>3, <2>4, WriteSide
<1>6. CASE Commit
  <2>1. Grows /\ UNCHANGED <<table, pc>>
    BY <1>1, <1>6, CommitGrows
  <2>2. CASE pointer.base = "target"
    BY <1>1, <2>1, <2>2, TargetGrows DEF SideInv
  <2>3. CASE pointer.base # "target"
    <3>1. SourceInv
      BY <1>1, <2>3 DEF SideInv
    <3>2. pc # "load"
      <4>1. Now.commits = Left /\ Left # <<>>
        BY <2>1, NowFields DEF Grows
      <4>2. CopyFresh
        BY <3>1, <4>1 DEF SourceInv, Orderly, Writable
      <4> QED
        BY <1>6, <4>2 DEF Commit
    <3> QED
      BY <1>1, <2>1, <3>1, <3>2, SourceCommit DEF SideInv
  <2> QED
    BY <2>2, <2>3
<1>7. ASSUME NEW d \in BOOLEAN, Boot(d) PROVE SideInv'
  <2>1. UNCHANGED <<table, pointer, commits>> /\ pc' = "load"
    BY <1>7 DEF Boot
  <2>2. CASE pointer.base = "target"
    <3>1. store' = store
      BY <1>7, <2>2 DEF Boot, Migrated
    <3> QED
      BY <1>1, <2>1, <2>2, <3>1, TargetQuiet DEF SideInv
  <2>3. CASE pointer.base # "target"
    BY <1>1, <1>7, <2>1, <2>3, SourceBoot DEF SideInv
  <2> QED
    BY <2>2, <2>3
<1> QED
  BY <1>3, <1>4, <1>5, <1>6, <1>7, StepKinds

-----------------------------------------------------------------------------
(* The walk *)

\* What is written beside the table walked, and not under the target prefix,
\* leaves the walk as it is.
LEMMA WalkUndisturbed ==
  ASSUME TypeInv, ShapeInv, NEW t, IsTable(t), Orderly(t), RebaseInv(t), Walking,
         UNCHANGED <<table, pc, procVars>>, store' \in [URI -> Body],
         \A u \in URI : u.base = "target" \/ Known(t, u) => store'[u] = store[u]
  PROVE  RebaseInv(t)'
<1>1. UNCHANGED <<dry, old, new, i, list, j, man, k, dirty, changed, put>>
  BY DEF procVars, walkVars
<1>2. UNCHANGED <<Meta(t), Listed(t), Before(t)>>
  BY <1>1 DEF Meta, Listed, Before
<1>3. store \in [URI -> Body] /\ put \in Object /\ put.uri \in URI
  BY TableType DEF Object
<1>4. pc = "verify" => put.uri.base = "target"
  BY DEF RebaseInv, PutInv
<1>5. \A u \in URI : u.base = "target" \/ Known(t, u) => Landing'[u] = Landing[u]
  BY <1>1, <1>3, <1>4 DEF Landing
<1>6. \A u \in URI : Matches(u) => Apply(u) \in URI /\ Apply(u).base = "target"
  BY ApplyType, ApplyBase
<1>7. Keeps(t, Landing, Landing') /\ Keeps(t, store, store')
  BY <1>5, <1>6 DEF Keeps, Installed
<1>8. ASSUME NEW s, NEW s2 \in [URI -> Body], Keeps(t, s, s2), Rebased(t, s),
             \A u \in URI : u.base = "target" \/ Known(t, u) => s2[u] = s[u]
      PROVE  Rebased(t, s2)
  <2>1. Agrees(t, s2)
    BY <1>8 DEF Rebased, Agrees
  <2>2. \A r \in WalkedRefs(t) : r \in Ref
    BY OrderlyTypes, RefsType DEF WalkedRefs
  <2>3. \A r \in WalkedRefs(t) : RefDone(t, s2, r)
    BY <1>8, <2>2, RefKept DEF Rebased
  <2>4. Installed(t, s2, t.metadata)
    BY <1>8, TableType DEF Rebased, Keeps
  <2> QED
    BY <1>8, <2>1, <2>3, <2>4 DEF Rebased
<1>9. CopyInv(t) /\ ProcessInv(t)
  BY DEF RebaseInv
<1>10. CopyInv(t)'
  <2>1. Agrees(t, store')
    BY <1>9 DEF CopyInv, Agrees
  <2>2. \A e \in Entries(t) :
          Matches(e.path) /\ Unmoved(t, e) => Installed(t, store', e.path)
    BY <1>7, <1>9, RefsKnown DEF CopyInv, Keeps
  <2> QED
    BY <2>1, <2>2 DEF CopyInv
<1>11. ProcessInv(t)'
  BY <1>1, <1>9 DEF ProcessInv
<1>12. Rewriting => WalkInv(t)'
  <2> SUFFICES ASSUME Rewriting, NEW n \in DOMAIN Meta(t).refs, n < i,
                      Meta(t).refs[n] \in WalkedRefs(t)
               PROVE  RefDone(t, Landing', Meta(t).refs[n])
    BY <1>1, <1>2 DEF WalkInv
  <2>1. Meta(t).refs[n] \in Ref
    BY <1>9, MetadataRead
  <2>2. RefDone(t, Landing, Meta(t).refs[n])
    BY DEF RebaseInv, WalkInv
  <2> QED
    BY <1>7, <2>1, <2>2, RefKept
<1>13. InList => ListInv(t)'
  <2> SUFFICES ASSUME InList PROVE ListInv(t)'
    OBVIOUS
  <2>1. ListInv(t)
    BY DEF RebaseInv
  <2>2. ASSUME NEW m \in DOMAIN list, m < j
        PROVE  ManifestDone(t, Landing', Listed(t)[m].path)
    <3>1. ManifestDone(t, Landing, Listed(t)[m].path) /\ m \in DOMAIN Listed(t)
      BY <2>1, <2>2 DEF ListInv
    <3>2. Listed(t)[m].path \in URI
      BY <1>9, <2>1, <3>1, ListRead DEF ListInv
    <3> QED
      BY <1>7, <3>1, <3>2, ManifestKept
  <2> QED
    BY <1>1, <1>2, <2>1, <2>2 DEF ListInv
<1>14. InManifest => ManifestInv(t)'
  <2> SUFFICES ASSUME InManifest PROVE ManifestInv(t)'
    OBVIOUS
  <2>1. ListInv(t) /\ ManifestInv(t)
    BY DEF RebaseInv, InManifest, InList
  <2>2. ASSUME NEW m \in DOMAIN man, m < k
        PROVE  EntryDone(t, Landing', Before(t)[m])
    <3>1. EntryDone(t, Landing, Before(t)[m]) /\ m \in DOMAIN Before(t) /\ j \in DOMAIN list
      BY <2>1, <2>2 DEF ManifestInv
    <3>2. Before(t)[m] \in Ref
      BY <1>9, <2>1, <3>1, ManifestRead
    <3> QED
      BY <1>7, <3>1, <3>2, EntryKept
  <2> QED
    BY <1>1, <1>2, <2>1, <2>2 DEF ManifestInv
<1>15. pc = "verify" => PutInv(t)'
  <2> SUFFICES ASSUME pc = "verify" PROVE PutInv(t)'
    OBVIOUS
  <2>1. PutInv(t)
    BY DEF RebaseInv
  <2>2. put.level = "delete" => Installed(t, Landing', man[k].path)
    <3> SUFFICES ASSUME put.level = "delete" PROVE Installed(t, Landing', man[k].path)
      OBVIOUS
    <3>1. k \in DOMAIN man /\ Matches(man[k].path) /\ Installed(t, Landing, man[k].path)
      BY <2>1 DEF PutInv
    <3>2. man[k].path \in URI
      BY <3>1, TableType, ElementType
    <3> QED
      BY <1>7, <3>1, <3>2 DEF Keeps
  <2>3. put.level = "manifest" => ManifestDone(t, Landing', list[j].path)
    <3> SUFFICES ASSUME put.level = "manifest" PROVE ManifestDone(t, Landing', list[j].path)
      OBVIOUS
    <3>1. j \in DOMAIN list /\ ManifestDone(t, Landing, list[j].path)
      BY <2>1 DEF PutInv
    <3>2. list[j].path \in URI
      BY <3>1, TableType, ElementType
    <3> QED
      BY <1>7, <3>1, <3>2, ManifestKept
  <2>4. put.level = "list" => RefDone(t, Landing', Meta(t).refs[i])
    <3> SUFFICES ASSUME put.level = "list" PROVE RefDone(t, Landing', Meta(t).refs[i])
      OBVIOUS
    <3>1. i \in DOMAIN Meta(t).refs /\ RefDone(t, Landing, Meta(t).refs[i])
      BY <2>1 DEF PutInv
    <3>2. Meta(t).refs[i] \in Ref
      BY <1>9, <3>1, MetadataRead
    <3> QED
      BY <1>7, <3>1, <3>2, RefKept
  <2>5. put.level = "metadata" => Rebased(t, Landing')
    <3>1. Landing' \in [URI -> Body]
      <4>1. [store'[put.uri] EXCEPT !.size = put.size] \in Body
        BY <1>1, <1>3 DEF Body, Object
      <4> QED
        BY <1>1, <4>1 DEF Landing
    <3> QED
      BY <1>5, <1>7, <1>8, <2>1, <3>1 DEF PutInv
  <2> QED
    BY <1>1, <1>2, <2>1, <2>2, <2>3, <2>4, <2>5 DEF PutInv
<1>16. pc \in {"swap", "write"} => new = old \/ (new = Apply(old) /\ Rebased(t, store'))
  BY <1>7, <1>8 DEF RebaseInv
<1>17. Rewriting' = Rewriting /\ InList' = InList /\ InManifest' = InManifest
  BY <1>1 DEF Rewriting, InList, InManifest
<1>18. pc \in {"swap", "write"} => (new = old \/ (new = Apply(old) /\ Rebased(t, store)))'
  BY <1>1, <1>16
<1> QED
  BY <1>10, <1>11, <1>12, <1>13, <1>14, <1>15, <1>17, <1>18 DEF RebaseInv

LEMMA WalkGrows ==
  ASSUME TypeInv, ShapeInv, SourceInv, Grows, UNCHANGED <<table, pc, procVars>>, Walking,
         pc # "write", NEW t, WalkedAs(t)
  PROVE  WalkedAs(t)'
<1> DEFINE key == Left[1]
<1>1. /\ Grown(Now, Now') /\ IsTable(Now) /\ Orderly(Now)
      /\ \A u \in URI : u.base = "target" \/ u.key \notin KeysOf(key) => store'[u] = store[u]
      /\ store' \in [URI -> Body] /\ KeysOf(key) \subseteq Coming /\ Coming' \subseteq Coming
      /\ Now.commits[1] = key
  BY NowGrows, LeftShrinks, NowFields DEF SourceInv, Grows
<1>2. /\ IsTable(t) /\ Orderly(t) /\ RebaseInv(t) /\ Coming \subseteq Future(t)
      /\ \A e \in Entries(Now) : e \in Entries(t) \/ e.path.key \in Future(t)
  BY DEF WalkedAs
<1>3. UNCHANGED <<table, pc, procVars>>
  OBVIOUS
<1> HIDE DEF key
<1>4. \A u \in URI : u.base = "target" \/ Known(t, u) => store'[u] = store[u]
  BY <1>1, <1>2 DEF Known
<1>5. RebaseInv(t)'
  BY <1>1, <1>2, <1>3, <1>4, WalkUndisturbed
<1>6. \A e \in Entries(Now') : e \in Entries(t) \/ e.path.key \in Future(t)
  <2> TAKE e \in Entries(Now')
  <2>1. e \in Entries(Now) \/ e = AddedData(Now)
    BY <1>1, GrownRefs
  <2>2. AddedData(Now).path.key \in KeysOf(key)
    BY <1>1, GrownNew
  <2> QED
    BY <1>1, <1>2, <2>1, <2>2
<1>7. Coming' \subseteq Future(t)
  BY <1>1, <1>2
<1>8. pointer' # old'
  <2>1. Now'.metadata.key \in KeysOf(key) /\ Now'.metadata = pointer'
    BY <1>1, GrownNew DEF Now
  <2>2. old' = old /\ old = t.metadata
    BY <1>2 DEF procVars, RebaseInv, ProcessInv
  <2>3. t.metadata.key \notin Future(t)
    BY <1>2, MetadataKnown DEF Known
  <2> QED
    BY <1>1, <1>2, <2>1, <2>2, <2>3
<1> QED
  BY <1>2, <1>5, <1>6, <1>7, <1>8 DEF WalkedAs

\* The table walked stays the same from LoadTable on.
LEMMA WalkStep ==
  ASSUME TypeInv, ShapeInv, Orderly(table), SideInv, [Next]_vars, Walking, Walking',
         NEW t, WalkedAs(t)
  PROVE  WalkedAs(t)'
<1>1. SourceInv /\ pointer.base # "target" /\ table' = table
  BY WalksSource, ShapeStep
<1>2. /\ IsTable(t) /\ Orderly(t) /\ RebaseInv(t) /\ Coming \subseteq Future(t)
      /\ \A e \in Entries(Now) : e \in Entries(t) \/ e.path.key \in Future(t)
      /\ pointer = old => t = Now
      /\ pc = "write" => pointer = old /\ new # old
  BY DEF WalkedAs
<1>3. CASE Walks
  <2>1. UNCHANGED <<table, pointer, commits>> /\ pc' \notin {"load", "write"} /\ old' = old
    BY <1>3, WalksStay
  <2>2. Advances(t)
    BY <1>2, <1>3, WalksAdvance
  <2>3. Now' = Now
    BY <1>1, <2>1, <2>2, SourceInstall DEF Advances
  <2>4. Coming' = Coming
    BY <2>1 DEF Left, Coming
  <2>5. RebaseInv(t)'
    BY <2>2 DEF Advances, StepInv
  <2> QED
    BY <1>2, <2>1, <2>3, <2>4, <2>5 DEF WalkedAs
<1>4. CASE Quiet
  <2>1. UNCHANGED <<table, store, pointer, commits, pc, procVars>>
    BY <1>4 DEF Quiet, Walking
  <2>2. store \in [URI -> Body] /\ old' = old /\ new' = new
    BY <2>1, TableType, <1>2 DEF procVars, walkVars
  <2>3. RebaseInv(t)'
    BY <1>2, <2>1, <2>2, WalkUndisturbed
  <2>4. Now' = Now /\ Coming' = Coming
    BY <2>1, NowStays
  <2> QED
    BY <1>2, <2>1, <2>2, <2>3, <2>4 DEF WalkedAs
<1>5. CASE Commit
  <2>1. Grows /\ UNCHANGED <<table, pc, procVars>>
    BY <1>5, CommitGrows
  <2>2. WritersPaused
    BY <1>1, <2>1, NowFields DEF Grows, SourceInv, Orderly, Writable
  <2> QED
    BY <1>1, <1>5, <2>1, <2>2, WalkGrows DEF Commit
<1>6. CASE Load \/ \E d \in BOOLEAN : Boot(d)
  BY <1>6 DEF Load, Boot, Walking
<1>7. CASE Swap
  <2>1. pc = "swap" /\ pc' = "write" /\ new # old /\ pointer = old
        /\ UNCHANGED <<table, store, pointer, commits, procVars>>
    BY <1>7 DEF Swap, Swapped, Walking, Finish, Drifted, bounds
  <2>2. UNCHANGED <<dry, old, new>> /\ Now' = Now /\ Coming' = Coming
    BY <2>1, NowStays DEF procVars, walkVars
  <2>3. CopyInv(t)' /\ ProcessInv(t)'
    BY <1>2, <2>1, <2>2 DEF RebaseInv, CopyInv, ProcessInv
  <2>4. RebaseInv(t)'
    BY <1>2, <2>1, <2>2, <2>3 DEF RebaseInv, Rewriting, InList, InManifest
  <2> QED
    BY <1>2, <2>1, <2>2, <2>4 DEF WalkedAs
<1>8. CASE Write
  BY <1>8 DEF Write, Swapped, Walking, Finish
<1> QED
  BY <1>3, <1>4, <1>5, <1>6, <1>7, <1>8, StepKinds

\* LoadTable loads the table as it is.
LEMMA WalkStart ==
  ASSUME TypeInv, ShapeInv, SideInv, [Next]_vars, ~Walking, Walking'
  PROVE  /\ UNCHANGED <<table, store, pointer, commits>> /\ Now' = Now /\ WalkedAs(Now)'
         /\ Load /\ old' = pointer /\ Matches(pointer)
<1>1. Load
  <2>1. CASE Walks
    BY <2>1, WalksStay
  <2>2. CASE Quiet \/ Swap \/ Write
    BY <2>2 DEF Quiet, Swap, Write, Walking
  <2>3. CASE Commit \/ \E d \in BOOLEAN : Boot(d)
    BY <2>3 DEF Commit, Boot, Walking
  <2> QED
    BY <2>1, <2>2, <2>3, StepKinds
<1>2. /\ pc = "load" /\ pc' = "walk" /\ old' = pointer /\ Matches(pointer)
      /\ UNCHANGED <<table, store, pointer, commits, dry, i>>
  BY <1>1 DEF Load, Finish, Walking, bounds
<1>3. Now' = Now /\ Coming' = Coming
  BY <1>2, NowStays
<1>4. SourceInv /\ IsTable(Now) /\ Orderly(Now) /\ CopyInv(Now)
  BY <1>2 DEF SideInv, SourceInv, Matches
<1>5. CopyInv(Now)'
  BY <1>2, <1>3, <1>4 DEF CopyInv
<1>6. ProcessInv(Now)'
  BY <1>2, <1>3, NowFields DEF ProcessInv
<1>7. WalkInv(Now)'
  <2>1. i' = 1
    BY <1>2 DEF ShapeInv
  <2>2. DOMAIN Meta(Now).refs \subseteq Nat \ {0}
    <3>1. Meta(Now).refs \in Seq(Ref)
      BY <1>4, OrderlyTypes, RefsType DEF Meta
    <3> QED
      BY <3>1
  <2>3. \A n \in DOMAIN Meta(Now).refs : ~(n < i')
    BY <2>1, <2>2
  <2>4. Meta(Now)' = Meta(Now)
    BY <1>3 DEF Meta
  <2> QED
    BY <1>3, <2>3, <2>4 DEF WalkInv
<1>8. RebaseInv(Now)'
  BY <1>2, <1>5, <1>6, <1>7 DEF RebaseInv, InList, InManifest
<1>9. WalkedAs(Now)'
  BY <1>2, <1>3, <1>4, <1>8, NowFields DEF WalkedAs
<1> QED
  BY <1>1, <1>2, <1>3, <1>9

LEMMA RebaseStep ==
  ASSUME RInv, [Next]_vars
  PROVE  RInv'
<1>1. TypeInv' /\ ShapeInv' /\ table' = table /\ SideInv'
  BY StepType, ShapeStep, SideStep DEF RInv
<1>2. Walking' => \E t : WalkedAs(t)'
  <2>1. CASE Walking /\ Walking'
    BY <2>1, WalkStep DEF RInv
  <2>2. CASE ~Walking /\ Walking'
    BY <2>2, WalkStart DEF RInv
  <2> QED
    BY <2>1, <2>2
<1> QED
  BY <1>1, <1>2 DEF RInv

LEMMA RebaseCorrect == OrderlyAll /\ Spec => []RInv
<1>1. OrderlyAll /\ Init => RInv
  BY InitType, InitSide DEF OrderlyAll, Init, RInv
<1>2. RInv /\ [Next]_vars => RInv'
  BY RebaseStep
<1> QED
  BY <1>1, <1>2, PTL DEF Spec

-----------------------------------------------------------------------------
(* The theorems *)

\* While storage agrees with the table now, readers see it so.
LEMMA SeenNow ==
  ASSUME TypeInv, SourceInv, NEW s, Agrees(Now, s)
  PROVE  /\ Selected(table.currentOnly, s[pointer]) = Wanted(Now)
         /\ \A n : Scan(s, pointer, n) = Scan(Origin(Now), pointer, n)
BY SourceLooksTheSame, NowFields DEF SourceInv, Wanted

\* What readers see depends on storage and the pointer.
LEMMA SeenStays ==
  ASSUME UNCHANGED <<table, pointer>>,
         Selected(table.currentOnly, store'[pointer]) = Selected(table.currentOnly, store[pointer]),
         \A n \in Kept : Scan(store', pointer, n) = Scan(store, pointer, n)
  PROVE  Seen' = Seen
<1>1. Kept' = Kept
  BY DEF Kept
<1>2. \A n \in Kept : Scan(store', pointer', n) = Scan(store, pointer, n)
  OBVIOUS
<1> QED
  BY <1>1, <1>2 DEF Seen

\* Before the swap only the pointer's table is seen, and it changes by commits only.
LEMMA SourceSeen ==
  ASSUME TypeInv, SourceInv, UNCHANGED <<table, pointer>>, Now' = Now, TypeInv'
  PROVE  Seen' = Seen
<1>1. Agrees(Now, store)
  BY NowAgrees
<1>2. Agrees(Now, store')
  <2>1. \A u \in URI : u.base # "target" => Origin(Now')[u] = store'[u]
    BY DEF TypeInv, StorageOK, Now, Origin, Sources
  <2> QED
    BY <2>1 DEF Agrees, Known
<1> QED
  BY <1>1, <1>2, SeenNow, SeenStays DEF Kept

\* A commit adds a snapshot and changes none.
LEMMA CommitSeen ==
  ASSUME RInv, Commit
  PROVE  View!Commit
<1>1. /\ TypeInv /\ ShapeInv /\ SideInv /\ Grows /\ UNCHANGED <<table, pc, procVars>>
  BY CommitGrows DEF RInv
<1> DEFINE n == 1 + Len(store[pointer].refs)
<1>2. (/\ pointer.base = "target" <=> pointer'.base = "target"
       /\ n \in Kept' \ Kept
       /\ \A m \in Kept' : m # n => m \in Kept /\ Scan(store', pointer', m) = Scan(store, pointer, m))
      => View!Commit
  BY DEF View!Commit, Seen
<1>3. CASE pointer.base = "target"
  BY <1>1, <1>2, <1>3, TargetGrows DEF SideInv
<1>4. CASE pointer.base # "target"
  <2>1. SourceInv
    BY <1>1, <1>4 DEF SideInv
  <2>2. /\ Grown(Now, Now') /\ IsTable(Now) /\ Orderly(Now) /\ Now.metadata = pointer
        /\ Now'.metadata = pointer' /\ Now'.currentOnly = table.currentOnly
    BY <1>1, <2>1, NowGrows, NowFields DEF SourceInv, Now
  <2>3. IsTable(Now') /\ Orderly(Now')
    BY <2>2, CommitsKeepOrder
  <2>4. pointer'.base # "target"
    BY <2>2, <2>3, MetadataKnown
  <2>5. /\ Kept = Wanted(Now)
        /\ \A m : Scan(store, pointer, m) = Scan(Origin(Now), pointer, m)
        /\ store[pointer] = Origin(Now)[pointer]
    BY <1>1, <2>1, <2>2, NowAgrees, SeenNow, SourceLooksTheSame DEF Kept
  <2>6. Agrees(Now', store')
    BY <1>1 DEF Agrees, Known, Now, Origin, Sources
  <2>7. /\ store'[pointer'] = Origin(Now')[pointer']
        /\ \A m : Scan(store', pointer', m) = Scan(Origin(Now'), pointer', m)
    BY <2>2, <2>3, <2>6, SourceLooksTheSame
  <2>8. Kept' = Wanted(Now')
    BY <1>1, <2>2, <2>7 DEF Kept, Wanted
  <2>9. /\ n \in Wanted(Now') \ Wanted(Now)
        /\ \A m \in Wanted(Now') : m # n =>
             m \in Wanted(Now) /\ Scan(Origin(Now'), pointer', m) = Scan(Origin(Now), pointer, m)
    BY <2>2, <2>5, GrownScan
  <2> QED
    BY <1>2, <1>4, <2>4, <2>5, <2>7, <2>8, <2>9
<1> QED
  BY <1>3, <1>4

\* At the write of the swap readers see the same table in the images.
LEMMA WriteSeen ==
  ASSUME RInv, Write, pointer' # pointer
  PROVE  View!Rebase
<1>1. Walking /\ TypeInv /\ SideInv
  BY DEF Write, Walking, RInv
<1>2. SourceInv
  BY <1>1, WalksSource
<1>3. PICK t : WalkedAs(t)
  BY <1>1 DEF RInv
<1>4. pointer' = Apply(pointer) /\ Rebased(Now, store)
  BY <1>1, <1>3, WriteMoves
<1>5. /\ IsTable(Now) /\ Orderly(Now) /\ Now.metadata = pointer /\ UNCHANGED <<table, store>>
      /\ Now.currentOnly = table.currentOnly
  BY <1>2, NowFields DEF SourceInv, Write
<1>6. pointer \in URI /\ Matches(pointer)
  BY <1>1, <1>4, <1>5 DEF Rebased, TypeInv, StorageOK
<1>7. pointer.base = "source" /\ pointer'.base = "target"
  BY <1>4, <1>6, ApplyBase DEF Matches
<1>8. Kept = Wanted(Now) /\ \A n : Scan(store, pointer, n) = Scan(Origin(Now), pointer, n)
  BY <1>1, <1>2, NowAgrees, SeenNow DEF Kept
<1>9. Kept' = Wanted(Now)
  BY <1>4, <1>5, SnapshotsKept DEF Kept
<1>10. \A n \in Wanted(Now) : Scan(store, pointer', n) = Scan(Origin(Now), pointer, n)
  BY <1>4, <1>5, ImagesLookTheSame
<1>11. Seen' = Seen
  BY <1>5, <1>8, <1>9, <1>10 DEF Seen
<1> QED
  BY <1>7, <1>11 DEF View!Rebase

LEMMA StepSeen ==
  ASSUME RInv, [Next]_vars
  PROVE  [View!Next]_<<pointer.base, Seen>>
<1>1. TypeInv /\ ShapeInv /\ Orderly(table) /\ SideInv /\ (Walking => \E t : WalkedAs(t))
      /\ TypeInv' /\ table' = table
  BY ShapeStep, StepType DEF RInv
<1>2. CASE Commit
  BY <1>2, CommitSeen DEF View!Next
<1>3. CASE Write /\ pointer' # pointer
  BY <1>3, WriteSeen DEF View!Next
<1>4. CASE UNCHANGED <<store, pointer>>
  BY <1>1, <1>4 DEF Seen, Kept
<1>5. CASE Walks
  <2>1. UNCHANGED <<table, pointer, commits>> /\ Walking /\ pc' # "load"
    BY <1>5, WalksStay
  <2>2. SourceInv
    BY <1>1, <2>1, WalksSource
  <2>3. PICK t : WalkedAs(t)
    BY <1>1, <2>1
  <2>4. Now' = Now
    BY <1>1, <1>5, <2>1, <2>2, <2>3, WalksAdvance, SourceInstall DEF WalkedAs, Advances
  <2> QED
    BY <1>1, <2>1, <2>2, <2>4, SourceSeen
<1>6. ASSUME NEW d \in BOOLEAN, Boot(d) PROVE UNCHANGED <<pointer.base, Seen>>
  <2>1. UNCHANGED <<table, pointer>>
    BY <1>6 DEF Boot
  <2>2. CASE pointer.base = "target"
    <3>1. store' = store
      BY <1>6, <2>2 DEF Boot, Migrated
    <3> QED
      BY <2>1, <3>1 DEF Seen, Kept
  <2>3. CASE pointer.base # "target"
    <3>1. SourceInv /\ Now' = Now
      BY <1>1, <1>6, <2>3, SourceBoot DEF SideInv
    <3> QED
      BY <1>1, <2>1, <3>1, SourceSeen
  <2> QED
    BY <2>2, <2>3
<1>7. CASE Quiet \/ Load \/ Swap \/ (Write /\ pointer' = pointer)
  BY <1>4, <1>7 DEF Quiet, Load, Swap, Write
<1> QED
  BY <1>2, <1>3, <1>5, <1>6, <1>7, StepKinds

\* Of orderly tables, whatever fails or dies and whenever writers commit: the
\* pointer changes sides once, and readers see no snapshot change.
THEOREM ReadersSeeTheTableCorrect == OrderlyAll /\ Spec => ReadersSeeTheTable
<1>1. OrderlyAll /\ Init => View!Init
  <2> SUFFICES ASSUME OrderlyAll, Init PROVE View!Init
    OBVIOUS
  <2>1. pointer.base # "target"
    BY DEF Init, OrderlyAll, Orderly, Outside
  <2> QED
    BY <2>1 DEF View!Init
<1>2. RInv /\ [Next]_vars => [View!Next]_<<pointer.base, Seen>>
  BY StepSeen
<1> QED
  BY <1>1, <1>2, RebaseCorrect, PTL DEF Spec, ReadersSeeTheTable, View!Spec

\* Of orderly tables: once the pointer moved, nothing a scan follows is under
\* the source prefix, nor do writers add what is (design.md, D1).
THEOREM NothingLeftBehindCorrect == OrderlyAll /\ Spec => []NothingLeftBehind
<1>1. RInv => NothingLeftBehind
  BY DEF RInv, SideInv, TargetInv, Settled, NothingLeftBehind, Kept
<1> QED
  BY <1>1, RebaseCorrect, PTL

\* Of orderly tables: one with an entry the program does not support, a V3
\* deletion vector, is never swapped, from whatever intermediate state it is
\* retried (walker.go:57).
THEOREM NeverHalfRebasedCorrect == OrderlyAll /\ Spec => []NeverHalfRebased
<1>1. RInv => NeverHalfRebased
  BY DEF RInv, SideInv, TargetInv, Settled, NeverHalfRebased, Kept
<1> QED
  BY <1>1, RebaseCorrect, PTL
=============================================================================
