------------------------------ MODULE TableImage ------------------------------
(***************************************************************************)
(* What each object of an orderly table becomes under the target prefix,     *)
(* that readers see the same table in the images as in the originals, and    *)
(* that a writer's commit leaves an orderly table orderly.                  *)
(***************************************************************************)
EXTENDS TableMigrationProofs

\* A position-delete file: PUT when a row moves, else the bulk copy is right.
DeleteImage(t, u) ==
  LET rows == Origin(t)[u].refs
  IN IF MovedRows(rows) = rows THEN Origin(t)[u]
     ELSE [refs |-> MovedRows(rows), size |-> Reencoded, current |-> 0]

EntryImage(t, e) ==
  IF e.role = "pos" /\ Matches(e.path)
  THEN Moved(FixedUp(e, DeleteImage(t, e.path).size))
  ELSE Moved(e)

EntryImages(t, refs) == [n \in DOMAIN refs |-> EntryImage(t, refs[n])]
ManifestImage(t, u) ==
  [refs |-> EntryImages(t, Origin(t)[u].refs), size |-> Reencoded, current |-> 0]

RefImage(r) == IF Matches(r.path) THEN Relisted(r, Apply(r.path), Reencoded) ELSE r
RefImages(refs) == [n \in DOMAIN refs |-> RefImage(refs[n])]
ListImage(t, u) ==
  [refs |-> RefImages(Origin(t)[u].refs), size |-> Reencoded, current |-> 0]

MetadataImage(t) == [Marshalled(Origin(t)[t.metadata]) EXCEPT !.size = Reencoded]

\* Each object under the source prefix has one image.
Image(t, u) ==
  IF u = t.metadata THEN MetadataImage(t)
  ELSE IF \E r \in ListRefs(t) : r.path = u THEN ListImage(t, u)
  ELSE IF \E r \in ManifestRefs(t) : r.path = u THEN ManifestImage(t, u)
  ELSE IF \E r \in DeleteRefs(t) : r.path = u THEN DeleteImage(t, u)
  ELSE Origin(t)[u]

Installed(t, s, u) == s[Apply(u)] = Image(t, u)

-----------------------------------------------------------------------------
(* What has been dealt with, in storage s *)

EntryDone(t, s, e) ==
  ~Unsupported(e) /\ (Matches(e.path) => Installed(t, s, e.path))

ManifestDone(t, s, u) ==
  /\ \A e \in RefsOf(Origin(t), u) : EntryDone(t, s, e)
  /\ IF Matches(u) THEN Installed(t, s, u)
     ELSE \A e \in RefsOf(Origin(t), u) : EntryImage(t, e) = e

ListDone(t, s, u) ==
  /\ \A r \in RefsOf(Origin(t), u) : ManifestDone(t, s, r.path)
  /\ IF Matches(u) THEN Installed(t, s, u)
     ELSE \A r \in RefsOf(Origin(t), u) : ~Matches(r.path)

RefDone(t, s, r) ==
  /\ r.role = "list" => ListDone(t, s, r.path)
  /\ r.role = "manifest" => ManifestDone(t, s, r.path)

\* s2 holds every image s holds.
Keeps(t, s, s2) ==
  \A u \in URI : Matches(u) /\ Installed(t, s, u) => Installed(t, s2, u)

Wanted(t) == Selected(t.currentOnly, Origin(t)[t.metadata])

-----------------------------------------------------------------------------
LEMMA ApplyBase ==
  ASSUME NEW u \in URI
  PROVE  /\ ~Matches(Apply(u))
         /\ Apply(u).key = u.key
         /\ Matches(u) => Apply(u).base = "target"
         /\ ~Matches(u) => Apply(u) = u
BY DEF Apply, Matches, URI

LEMMA ApplyInjective ==
  ASSUME NEW u \in URI, NEW v \in URI, u.base # "target", v.base # "target"
  PROVE  /\ Apply(u) = Apply(v) <=> u = v
         /\ Apply(u).base = Apply(v).base <=> u.base = v.base
BY DEF Apply, Matches, URI

LEMMA RefsType ==
  ASSUME NEW s \in [URI -> Body], NEW u \in URI
  PROVE  s[u].refs \in Seq(Ref) /\ RefsOf(s, u) \subseteq Ref
BY ElementType DEF Body, RefsOf

\* The references followed from an orderly table's metadata.
LEMMA OrderlyTypes ==
  ASSUME NEW t, IsTable(t)
  PROVE  /\ ListRefs(t) \subseteq Ref /\ ManifestRefs(t) \subseteq Ref
         /\ Entries(t) \subseteq Ref /\ t.metadata \in URI
         /\ Origin(t) \in [URI -> Body]
<1>1. Origin(t) \in [URI -> Body] /\ t.metadata \in URI
  BY OriginType DEF IsTable
<1>2. ListRefs(t) \subseteq Ref
  BY <1>1, RefsType DEF ListRefs
<1>3. ManifestRefs(t) \subseteq Ref
  BY <1>1, <1>2, RefsType, RefFields DEF ManifestRefs
<1>4. Entries(t) \subseteq Ref
  BY <1>1, <1>3, RefsType, RefFields DEF Entries
<1> QED
  BY <1>1, <1>2, <1>3, <1>4

\* The URIs whose objects an orderly table is about: neither under the target
\* prefix nor of a commit to come.
Known(t, u) == u.base # "target" /\ u.key \notin Future(t)

LEMMA NoTarget ==
  ASSUME NEW t, IsTable(t), Orderly(t), NEW u \in URI, NEW r \in RefsOf(Origin(t), u)
  PROVE  /\ Known(t, r.path) /\ r.path.base # "target"
         /\ \A v \in r.bounds \cup r.refd : v.base # "target"
<1>1. CASE u \in DOMAIN t.objects
  <2>1. \A v \in {r.path} \cup r.bounds \cup r.refd : v.base # "target"
    BY <1>1 DEF Orderly, Outside
  <2>2. r.path.key \notin Future(t)
    BY <1>1 DEF Orderly, Writable, Future
  <2> QED
    BY <2>1, <2>2 DEF Known
<1>2. CASE u \notin DOMAIN t.objects
  BY <1>2 DEF RefsOf, Origin, Nothing
<1> QED
  BY <1>1, <1>2

LEMMA MetadataKnown ==
  ASSUME NEW t, IsTable(t), Orderly(t)
  PROVE  t.metadata \in URI /\ Known(t, t.metadata) /\ t.metadata.base # "target"
<1>1. t.metadata \in URI /\ t.metadata.base # "target"
  BY DEF IsTable, Orderly, Outside
<1>2. t.metadata.key \notin Future(t)
  BY DEF IsTable, Future
<1> QED
  BY <1>1, <1>2 DEF Known

\* The kinds of objects are apart.
LEMMA Kinds ==
  ASSUME NEW t, IsTable(t), Orderly(t)
  PROVE  /\ \A r \in ListRefs(t) : r.path # t.metadata
         /\ \A r \in ManifestRefs(t) : r.path # t.metadata
         /\ \A e \in Entries(t) : e.path # t.metadata
         /\ \A r \in ListRefs(t), q \in ManifestRefs(t) : r.path # q.path
         /\ \A r \in ListRefs(t), e \in Entries(t) : r.path # e.path
         /\ \A r \in ManifestRefs(t), e \in Entries(t) : r.path # e.path
         /\ \A d \in DeleteRefs(t), e \in FileRefs(t) : d.path # e.path
<1> DEFINE Paths(refs) == {r.path : r \in refs}
           kinds == <<{t.metadata}, Paths(ListRefs(t)), Paths(ManifestRefs(t)),
                      Paths(DeleteRefs(t)), Paths(FileRefs(t))>>
<1>1. \A m, n \in 1..5 : m # n => kinds[m] \cap kinds[n] = {}
  BY DEF Orderly, WellFormed
<1>2. /\ kinds[1] = {t.metadata} /\ kinds[2] = Paths(ListRefs(t))
      /\ kinds[3] = Paths(ManifestRefs(t)) /\ kinds[4] = Paths(DeleteRefs(t))
      /\ kinds[5] = Paths(FileRefs(t))
  OBVIOUS
<1>3. Entries(t) = DeleteRefs(t) \cup FileRefs(t)
  BY DEF DeleteRefs, FileRefs
<1> HIDE DEF kinds
<1>4. /\ kinds[1] \cap kinds[2] = {} /\ kinds[1] \cap kinds[3] = {}
      /\ kinds[1] \cap kinds[4] = {} /\ kinds[1] \cap kinds[5] = {}
      /\ kinds[2] \cap kinds[3] = {} /\ kinds[2] \cap kinds[4] = {}
      /\ kinds[2] \cap kinds[5] = {} /\ kinds[3] \cap kinds[4] = {}
      /\ kinds[3] \cap kinds[5] = {} /\ kinds[4] \cap kinds[5] = {}
  BY <1>1
<1>5. /\ t.metadata \in kinds[1]
      /\ \A r \in ListRefs(t) : r.path \in kinds[2]
      /\ \A r \in ManifestRefs(t) : r.path \in kinds[3]
      /\ \A e \in DeleteRefs(t) : e.path \in kinds[4]
      /\ \A e \in FileRefs(t) : e.path \in kinds[5]
  BY <1>2
<1> QED
  BY <1>3, <1>4, <1>5

LEMMA ImageOfMetadata ==
  ASSUME NEW t, IsTable(t)
  PROVE  Image(t, t.metadata) = MetadataImage(t)
BY DEF Image

\* The ids of an orderly table survive the float64s metadata.json is read into.
LEMMA ExactImage ==
  ASSUME NEW t, IsTable(t), Orderly(t)
  PROVE  /\ MetadataImage(t).refs = MovedAll(Origin(t)[t.metadata].refs)
         /\ MetadataImage(t).size = Reencoded
         /\ MetadataImage(t).current = Origin(t)[t.metadata].current
<1> DEFINE b == Origin(t)[t.metadata]
<1>1. b \in Body /\ b.refs \in Seq(Ref)
  BY OrderlyTypes, RefsType
<1>2. /\ Rounded(b.current) = b.current
      /\ \A n \in DOMAIN b.refs : Rounded(b.refs[n].snap) = b.refs[n].snap
  BY DEF Orderly, ExactIds, RefsOf
<1> HIDE DEF b
<1>3. ASSUME NEW n \in DOMAIN b.refs
      PROVE  [Moved(b.refs[n]) EXCEPT !.snap = Rounded(@)] = Moved(b.refs[n])
  <2>1. b.refs[n] \in Ref /\ Moved(b.refs[n]) \in Ref
    BY <1>1, MovedType
  <2>2. Rounded(Moved(b.refs[n]).snap) = Moved(b.refs[n]).snap
    BY <1>2, <2>1 DEF Moved, Ref
  <2> QED
    BY <2>1, <2>2 DEF Ref
<1>4. AsFloats(MovedAll(b.refs)) = MovedAll(b.refs)
  BY <1>3 DEF AsFloats, MovedAll
<1>5. Marshalled(b) = [b EXCEPT !.refs = MovedAll(b.refs), !.current = b.current]
  BY <1>1, <1>2, <1>4 DEF Marshalled, Mapped, Body
<1> QED
  BY <1>1, <1>5 DEF MetadataImage, Body, b

LEMMA ImageOfList ==
  ASSUME NEW t, IsTable(t), Orderly(t), NEW r \in ListRefs(t)
  PROVE  Image(t, r.path) = ListImage(t, r.path)
BY Kinds DEF Image

LEMMA ImageOfManifest ==
  ASSUME NEW t, IsTable(t), Orderly(t), NEW r \in ManifestRefs(t)
  PROVE  Image(t, r.path) = ManifestImage(t, r.path)
BY Kinds DEF Image

LEMMA ImageOfDelete ==
  ASSUME NEW t, IsTable(t), Orderly(t), NEW e \in DeleteRefs(t)
  PROVE  Image(t, e.path) = DeleteImage(t, e.path)
<1>1. e \in Entries(t)
  BY DEF DeleteRefs
<1> QED
  BY <1>1, Kinds DEF Image

LEMMA ImageOfFile ==
  ASSUME NEW t, IsTable(t), Orderly(t), NEW e \in FileRefs(t)
  PROVE  Image(t, e.path) = Origin(t)[e.path]
<1>1. e \in Entries(t)
  BY DEF FileRefs
<1> QED
  BY <1>1, Kinds DEF Image

-----------------------------------------------------------------------------
(* Readers of the images *)

\* Storage s is as table t has it, but for what its writers add and under the
\* target prefix.
Agrees(t, s) == \A u \in URI : Known(t, u) => s[u] = Origin(t)[u]

WalkedRefs(t) ==
  {r \in RefsOf(Origin(t), t.metadata) : InSnapshot(r) /\ r.snap \in Wanted(t)}

\* Everything walked is installed, and the metadata.
Rebased(t, s) ==
  /\ s \in [URI -> Body]
  /\ Agrees(t, s)
  /\ \A r \in WalkedRefs(t) : RefDone(t, s, r)
  /\ Matches(t.metadata) /\ Installed(t, s, t.metadata)

LEMMA MetadataContents ==
  ASSUME NEW t, IsTable(t), Orderly(t), NEW s, Rebased(t, s)
  PROVE  /\ RefsOf(s, Apply(t.metadata)) = {Moved(r) : r \in RefsOf(Origin(t), t.metadata)}
         /\ s[Apply(t.metadata)].size = Reencoded
         /\ s[Apply(t.metadata)].current = Origin(t)[t.metadata].current
<1>1. s[Apply(t.metadata)] = MetadataImage(t)
  BY ImageOfMetadata DEF Rebased, Installed
<1>2. /\ s[Apply(t.metadata)].refs = MovedAll(Origin(t)[t.metadata].refs)
      /\ s[Apply(t.metadata)].size = Reencoded
      /\ s[Apply(t.metadata)].current = Origin(t)[t.metadata].current
  BY <1>1, ExactImage
<1> QED
  BY <1>2 DEF RefsOf, MovedAll

LEMMA RefImagePath ==
  ASSUME NEW r \in Ref
  PROVE  RefImage(r).path = Apply(r.path)
BY RefFields, ApplyBase DEF RefImage, Relisted, Ref

LEMMA ListContents ==
  ASSUME NEW t, IsTable(t), Orderly(t), NEW s, Agrees(t, s), NEW l \in ListRefs(t),
         ListDone(t, s, l.path), Known(t, l.path)
  PROVE  /\ RefsOf(s, Apply(l.path)) = {RefImage(r) : r \in RefsOf(Origin(t), l.path)}
         /\ Matches(l.path) => s[Apply(l.path)].size = Reencoded
<1>t. l.path \in URI
  BY OrderlyTypes, RefFields
<1>1. CASE Matches(l.path)
  <2>1. s[Apply(l.path)] = ListImage(t, l.path)
    BY <1>1, ImageOfList DEF ListDone, Installed
  <2>2. /\ s[Apply(l.path)].refs = RefImages(Origin(t)[l.path].refs)
        /\ s[Apply(l.path)].size = Reencoded
    BY <2>1 DEF ListImage
  <2> QED
    BY <2>2 DEF RefsOf, RefImages
<1>2. CASE ~Matches(l.path)
  <2>1. s[Apply(l.path)] = Origin(t)[l.path]
    BY <1>t, <1>2, ApplyBase DEF Agrees
  <2>2. \A r \in RefsOf(Origin(t), l.path) : RefImage(r) = r
    BY <1>2 DEF ListDone, RefImage
  <2>3. RefsOf(s, Apply(l.path)) = RefsOf(Origin(t), l.path)
    BY <2>1 DEF RefsOf
  <2> QED
    BY <1>2, <2>2, <2>3
<1> QED
  BY <1>1, <1>2

LEMMA ManifestContents ==
  ASSUME NEW t, IsTable(t), Orderly(t), NEW s, Agrees(t, s), NEW r \in ManifestRefs(t),
         ManifestDone(t, s, r.path), Known(t, r.path)
  PROVE  /\ RefsOf(s, Apply(r.path)) = {EntryImage(t, e) : e \in RefsOf(Origin(t), r.path)}
         /\ Matches(r.path) => s[Apply(r.path)].size = Reencoded
<1>t. r.path \in URI
  BY OrderlyTypes, RefFields
<1>1. CASE Matches(r.path)
  <2>1. s[Apply(r.path)] = ManifestImage(t, r.path)
    BY <1>1, ImageOfManifest DEF ManifestDone, Installed
  <2>2. /\ s[Apply(r.path)].refs = EntryImages(t, Origin(t)[r.path].refs)
        /\ s[Apply(r.path)].size = Reencoded
    BY <2>1 DEF ManifestImage
  <2> QED
    BY <2>2 DEF RefsOf, EntryImages
<1>2. CASE ~Matches(r.path)
  <2>1. s[Apply(r.path)] = Origin(t)[r.path]
    BY <1>t, <1>2, ApplyBase DEF Agrees
  <2>2. \A e \in RefsOf(Origin(t), r.path) : EntryImage(t, e) = e
    BY <1>2 DEF ManifestDone
  <2>3. RefsOf(s, Apply(r.path)) = RefsOf(Origin(t), r.path)
    BY <2>1 DEF RefsOf
  <2> QED
    BY <1>2, <2>2, <2>3
<1> QED
  BY <1>1, <1>2

\* A list, or a manifest of metadata.json, keeps its role and snapshot.
LEMMA MovedFields ==
  ASSUME NEW r \in Ref
  PROVE  /\ Moved(r).role = r.role /\ Moved(r).snap = r.snap /\ Moved(r).len = r.len
         /\ Moved(r).live = r.live /\ Moved(r).path = Apply(r.path)
         /\ Moved(r).bounds = r.bounds /\ Moved(r).refd = ApplyAll(r.refd)
BY DEF Moved, Ref

\* What a scan of a wanted snapshot follows in the originals.
LEMMA OriginalManifests ==
  ASSUME NEW t, IsTable(t), Orderly(t), NEW s, Rebased(t, s), NEW n \in Wanted(t)
  PROVE  /\ \A l \in RefsOf(Origin(t), t.metadata) :
              l.snap = n /\ l.role = "list" =>
                /\ l \in ListRefs(t) /\ Known(t, l.path) /\ l.len = 0
                /\ ListDone(t, s, l.path) /\ Resolves(Origin(t), l)
         /\ \A r \in RefsOf(Origin(t), t.metadata) : r.snap = n /\ r.role = "manifest" => r.len = 0
         /\ \A r \in ManifestsOf(Origin(t), t.metadata, n) :
              /\ r \in ManifestRefs(t) /\ Known(t, r.path)
              /\ ManifestDone(t, s, r.path) /\ Resolves(Origin(t), r)
<1> DEFINE O == Origin(t)
           md == t.metadata
<1>t. md \in URI /\ \A u \in URI : RefsOf(O, u) \subseteq Ref
  BY OrderlyTypes, RefsType
<1>0. \A r \in Followed(O, md, n) : Resolves(O, r)
  BY DEF Orderly, Intact, Wanted, Scan
<1>1. ASSUME NEW l \in RefsOf(O, md), l.snap = n, l.role = "list"
      PROVE  /\ l \in ListRefs(t) /\ Known(t, l.path) /\ l.len = 0
             /\ ListDone(t, s, l.path) /\ Resolves(O, l)
  <2>1. l \in ListRefs(t) /\ InSnapshot(l) /\ l \in Followed(O, md, n)
    BY <1>1 DEF ListRefs, InSnapshot, Followed
  <2>2. l.len = 0
    BY <2>1 DEF Orderly, WellFormed
  <2>3. ListDone(t, s, l.path)
    BY <1>1, <2>1 DEF Rebased, WalkedRefs, RefDone
  <2> QED
    BY <1>t, <1>0, <2>1, <2>2, <2>3, NoTarget
<1>2. ASSUME NEW r \in RefsOf(O, md), r.snap = n, r.role = "manifest"
      PROVE  /\ r.len = 0 /\ Known(t, r.path) /\ r \in ManifestRefs(t)
             /\ ManifestDone(t, s, r.path)
  <2>1. InSnapshot(r) /\ r \in ManifestRefs(t)
    BY <1>2 DEF InSnapshot, ManifestRefs
  <2> QED
    BY <1>2, <1>t, <2>1, NoTarget DEF Orderly, WellFormed, Rebased, WalkedRefs, RefDone
<1>3. ASSUME NEW r \in ManifestsOf(O, md, n)
      PROVE  /\ r \in ManifestRefs(t) /\ Known(t, r.path)
             /\ ManifestDone(t, s, r.path) /\ Resolves(O, r)
  <2>1. r \in Followed(O, md, n)
    BY DEF Followed
  <2>2. CASE r \in RefsOf(O, md) /\ r.snap = n /\ r.role = "manifest"
    BY <1>0, <1>2, <2>1, <2>2
  <2>3. ASSUME NEW l \in RefsOf(O, md), l.snap = n, l.role = "list", r \in RefsOf(O, l.path)
        PROVE  /\ r \in ManifestRefs(t) /\ Known(t, r.path) /\ ManifestDone(t, s, r.path)
    <3>1. l \in ListRefs(t) /\ ListDone(t, s, l.path) /\ l.path \in URI
      BY <1>1, <1>t, <2>3, RefFields
    <3> QED
      BY <2>3, <3>1, NoTarget DEF ManifestRefs, ListDone
  <2>4. \/ r \in RefsOf(O, md) /\ r.snap = n /\ r.role = "manifest"
        \/ \E l \in RefsOf(O, md) : l.snap = n /\ l.role = "list" /\ r \in RefsOf(O, l.path)
    BY DEF ManifestsOf
  <2> QED
    BY <1>0, <2>1, <2>2, <2>3, <2>4
<1> QED
  BY <1>1, <1>2, <1>3

\* The manifests of a snapshot are the images of the originals, and resolve.
LEMMA ManifestImages ==
  ASSUME NEW t, IsTable(t), Orderly(t), NEW s, Rebased(t, s), NEW n \in Wanted(t)
  PROVE  /\ \A q \in ManifestsOf(s, Apply(t.metadata), n) :
              \E r \in ManifestsOf(Origin(t), t.metadata, n) :
                q.path = Apply(r.path) /\ Resolves(s, q)
         /\ \A r \in ManifestsOf(Origin(t), t.metadata, n) :
              \E q \in ManifestsOf(s, Apply(t.metadata), n) : q.path = Apply(r.path)
<1> DEFINE O == Origin(t)
           md == t.metadata
<1>t. md \in URI /\ \A u \in URI : RefsOf(O, u) \subseteq Ref
  BY OrderlyTypes, RefsType
<1>m. RefsOf(s, Apply(md)) = {Moved(r) : r \in RefsOf(O, md)}
  BY MetadataContents
\* What is read at an image is whole.
<1>w. ASSUME NEW r \in ManifestsOf(O, md, n)
      PROVE  /\ s[Apply(r.path)].size # Cut
             /\ Matches(r.path) => s[Apply(r.path)].size = Reencoded
             /\ ~Matches(r.path) => Apply(r.path) = r.path /\ s[r.path] = O[r.path]
  <2>1. /\ r \in ManifestRefs(t) /\ Known(t, r.path) /\ r.path \in URI
        /\ ManifestDone(t, s, r.path) /\ Resolves(O, r)
    BY OriginalManifests, OrderlyTypes, RefFields
  <2>2. Matches(r.path) => s[Apply(r.path)].size = Reencoded
    BY <2>1, ManifestContents DEF Rebased
  <2>3. ~Matches(r.path) => Apply(r.path) = r.path /\ s[r.path] = O[r.path]
    BY <2>1, ApplyBase DEF Rebased, Agrees
  <2> QED
    BY <2>1, <2>2, <2>3 DEF Resolves, Cut, Reencoded
<1>l. ASSUME NEW l \in RefsOf(O, md), l.snap = n, l.role = "list"
      PROVE  RefsOf(s, Apply(l.path)) = {RefImage(r) : r \in RefsOf(O, l.path)}
  BY <1>l, OriginalManifests, ListContents DEF Rebased
<1>1. ASSUME NEW q \in ManifestsOf(s, Apply(md), n)
      PROVE  \E r \in ManifestsOf(O, md, n) : q.path = Apply(r.path) /\ Resolves(s, q)
  <2>1. CASE q \in RefsOf(s, Apply(md)) /\ q.snap = n /\ q.role = "manifest"
    <3>1. PICK r \in RefsOf(O, md) : q = Moved(r)
      BY <1>m, <2>1
    <3>2. r \in Ref /\ r.snap = n /\ r.role = "manifest" /\ q.path = Apply(r.path) /\ q.len = r.len
      BY <1>t, <2>1, <3>1, MovedFields
    <3>3. r \in ManifestsOf(O, md, n)
      BY <3>2 DEF ManifestsOf, InSnapshot
    <3>4. q.len = 0
      BY <3>2, OriginalManifests
    <3> QED
      BY <1>w, <3>2, <3>3, <3>4 DEF Resolves
  <2>2. ASSUME NEW p \in RefsOf(s, Apply(md)), p.snap = n, p.role = "list",
               q \in RefsOf(s, p.path)
        PROVE  \E r \in ManifestsOf(O, md, n) : q.path = Apply(r.path) /\ Resolves(s, q)
    <3>1. PICK l \in RefsOf(O, md) : p = Moved(l)
      BY <1>m
    <3>2. l \in Ref /\ l.snap = n /\ l.role = "list" /\ p.path = Apply(l.path)
      BY <1>t, <2>2, <3>1, MovedFields
    <3>3. PICK r \in RefsOf(O, l.path) : q = RefImage(r)
      BY <1>l, <2>2, <3>2
    <3>4. r \in ManifestsOf(O, md, n)
      BY <3>2 DEF ManifestsOf, InSnapshot
    <3>5. r \in Ref /\ Resolves(O, r)
      BY <1>t, <3>2, <3>4, OriginalManifests, RefFields
    <3>6. q.path = Apply(r.path)
      BY <3>3, <3>5, RefImagePath
    <3>7. CASE Matches(r.path)
      <4>1. q.len = Reencoded
        BY <3>3, <3>5, <3>7 DEF RefImage, Relisted, Ref
      <4> QED
        BY <1>w, <3>4, <3>6, <3>7, <4>1 DEF Resolves
    <3>8. CASE ~Matches(r.path)
      <4>1. q = r
        BY <3>3, <3>8 DEF RefImage
      <4> QED
        BY <1>w, <3>4, <3>5, <3>6, <3>8, <4>1 DEF Resolves
    <3> QED
      BY <3>7, <3>8
  <2>3. \/ q \in RefsOf(s, Apply(md)) /\ q.snap = n /\ q.role = "manifest"
        \/ \E p \in RefsOf(s, Apply(md)) : p.snap = n /\ p.role = "list" /\ q \in RefsOf(s, p.path)
    BY DEF ManifestsOf
  <2> QED
    BY <2>1, <2>2, <2>3
<1>2. ASSUME NEW r \in ManifestsOf(O, md, n)
      PROVE  \E q \in ManifestsOf(s, Apply(md), n) : q.path = Apply(r.path)
  <2>1. CASE r \in RefsOf(O, md) /\ r.snap = n /\ r.role = "manifest"
    <3>1. Moved(r) \in RefsOf(s, Apply(md)) /\ r \in Ref
      BY <1>m, <1>t, <2>1
    <3>2. Moved(r) \in ManifestsOf(s, Apply(md), n)
      BY <2>1, <3>1, MovedFields DEF ManifestsOf, InSnapshot
    <3> QED
      BY <3>1, <3>2, MovedFields
  <2>2. ASSUME NEW l \in RefsOf(O, md), l.snap = n, l.role = "list", r \in RefsOf(O, l.path)
        PROVE  \E q \in ManifestsOf(s, Apply(md), n) : q.path = Apply(r.path)
    <3>1. Moved(l) \in RefsOf(s, Apply(md)) /\ l \in Ref
      BY <1>m, <1>t
    <3>2. RefImage(r) \in RefsOf(s, Moved(l).path)
      BY <1>l, <2>2, <3>1, MovedFields
    <3>3. RefImage(r) \in ManifestsOf(s, Apply(md), n)
      BY <2>2, <3>1, <3>2, MovedFields DEF ManifestsOf, InSnapshot
    <3>4. r \in Ref
      BY <1>t, <2>2, <3>1, RefFields
    <3> QED
      BY <3>3, <3>4, RefImagePath
  <2>3. \/ r \in RefsOf(O, md) /\ r.snap = n /\ r.role = "manifest"
        \/ \E l \in RefsOf(O, md) : l.snap = n /\ l.role = "list" /\ r \in RefsOf(O, l.path)
    BY DEF ManifestsOf
  <2> QED
    BY <2>1, <2>2, <2>3
<1> QED
  BY <1>1, <1>2

LEMMA EntryFields ==
  ASSUME NEW t, IsTable(t), NEW e \in Ref
  PROVE  LET f == EntryImage(t, e) IN
         /\ f.role = e.role /\ f.live = e.live
         /\ f.path = Apply(e.path) /\ f.refd = ApplyAll(e.refd)
         /\ IF e.role = "pos" /\ Matches(e.path)
            THEN f.bounds = ApplyAll(e.bounds) /\ f.len = DeleteImage(t, e.path).size
            ELSE f.bounds = e.bounds /\ f.len = e.len
<1>1. CASE e.role = "pos" /\ Matches(e.path)
  BY <1>1 DEF EntryImage, Moved, FixedUp, Ref
<1>2. CASE ~(e.role = "pos" /\ Matches(e.path))
  BY <1>2, MovedFields DEF EntryImage
<1> QED
  BY <1>1, <1>2

LEMMA OriginalEntries ==
  ASSUME NEW t, IsTable(t), Orderly(t), NEW s, Rebased(t, s), NEW n \in Wanted(t),
         NEW e \in EntriesOf(Origin(t), t.metadata, n)
  PROVE  /\ e \in Entries(t) /\ e \in Ref /\ e.path \in URI /\ e.live
         /\ EntryDone(t, s, e) /\ Resolves(Origin(t), e)
         /\ e.role \in {"data", "eq", "pos"}
         /\ Known(t, e.path) /\ e.path.base # "target"
         /\ \A v \in e.bounds \cup e.refd : v.base # "target"
<1> DEFINE O == Origin(t)
<1>1. PICK r \in ManifestsOf(O, t.metadata, n) : e \in RefsOf(O, r.path) /\ e.live
  BY DEF EntriesOf
<1>2. r \in ManifestRefs(t) /\ ManifestDone(t, s, r.path) /\ r.path \in URI
  BY OriginalManifests, OrderlyTypes, RefFields
<1>3. e \in Entries(t) /\ EntryDone(t, s, e)
  BY <1>1, <1>2 DEF Entries, ManifestDone
<1>4. e \in Ref /\ e.path \in URI
  BY <1>3, OrderlyTypes, RefFields
<1>5. Resolves(O, e)
  BY DEF Orderly, Intact, Wanted, Scan, Followed
<1>6. e.role \in {"data", "eq", "pos"}
  BY <1>3 DEF Orderly, WellFormed, EntryDone, Unsupported
<1> QED
  BY <1>1, <1>2, <1>3, <1>4, <1>5, <1>6, NoTarget

LEMMA EntriesMoved ==
  ASSUME NEW t, IsTable(t), Orderly(t), NEW s, Rebased(t, s), NEW n \in Wanted(t)
  PROVE  EntriesOf(s, Apply(t.metadata), n)
           = {EntryImage(t, e) : e \in EntriesOf(Origin(t), t.metadata, n)}
<1> DEFINE O == Origin(t)
           md == t.metadata
<1>1. ASSUME NEW r \in ManifestsOf(O, md, n)
      PROVE  /\ RefsOf(s, Apply(r.path)) = {EntryImage(t, e) : e \in RefsOf(O, r.path)}
             /\ RefsOf(O, r.path) \subseteq Ref
  <2>1. r \in ManifestRefs(t) /\ ManifestDone(t, s, r.path) /\ Known(t, r.path)
        /\ r.path \in URI
    BY OriginalManifests, OrderlyTypes, RefFields
  <2> QED
    BY <2>1, ManifestContents, OrderlyTypes, RefsType DEF Rebased
<1>2. ASSUME NEW f \in EntriesOf(s, Apply(md), n)
      PROVE  \E e \in EntriesOf(O, md, n) : f = EntryImage(t, e)
  <2>1. PICK q \in ManifestsOf(s, Apply(md), n) : f \in RefsOf(s, q.path) /\ f.live
    BY DEF EntriesOf
  <2>2. PICK r \in ManifestsOf(O, md, n) : q.path = Apply(r.path)
    BY ManifestImages
  <2>3. PICK e \in RefsOf(O, r.path) : f = EntryImage(t, e)
    BY <1>1, <2>1, <2>2
  <2>4. e.live
    BY <1>1, <2>1, <2>3, EntryFields
  <2> QED
    BY <2>3, <2>4 DEF EntriesOf
<1>3. ASSUME NEW e \in EntriesOf(O, md, n)
      PROVE  EntryImage(t, e) \in EntriesOf(s, Apply(md), n)
  <2>1. PICK r \in ManifestsOf(O, md, n) : e \in RefsOf(O, r.path) /\ e.live
    BY DEF EntriesOf
  <2>2. PICK q \in ManifestsOf(s, Apply(md), n) : q.path = Apply(r.path)
    BY ManifestImages
  <2>3. EntryImage(t, e) \in RefsOf(s, q.path) /\ EntryImage(t, e).live
    BY <1>1, <2>1, <2>2, EntryFields
  <2> QED
    BY <2>3 DEF EntriesOf
<1> QED
  BY <1>2, <1>3

\* What is read at the image of an entry's file.
LEMMA FileContents ==
  ASSUME NEW t, IsTable(t), Orderly(t), NEW s, Rebased(t, s), NEW n \in Wanted(t),
         NEW e \in EntriesOf(Origin(t), t.metadata, n)
  PROVE  s[Apply(e.path)] = IF e.role = "pos" /\ Matches(e.path) THEN DeleteImage(t, e.path)
                            ELSE Origin(t)[e.path]
<1>1. /\ e \in Entries(t) /\ e.path \in URI /\ EntryDone(t, s, e) /\ Known(t, e.path)
  BY OriginalEntries
<1>2. CASE ~Matches(e.path)
  BY <1>1, <1>2, ApplyBase DEF Rebased, Agrees
<1>3. CASE Matches(e.path) /\ e.role = "pos"
  BY <1>1, <1>3, ImageOfDelete DEF DeleteRefs, EntryDone, Installed
<1>4. CASE Matches(e.path) /\ e.role # "pos"
  BY <1>1, <1>4, ImageOfFile DEF FileRefs, EntryDone, Installed
<1> QED
  BY <1>2, <1>3, <1>4

LEMMA EntryResolves ==
  ASSUME NEW t, IsTable(t), Orderly(t), NEW s, Rebased(t, s), NEW n \in Wanted(t),
         NEW e \in EntriesOf(Origin(t), t.metadata, n)
  PROVE  Resolves(s, EntryImage(t, e))
<1>1. e \in Ref /\ Resolves(Origin(t), e)
  BY OriginalEntries
<1>2. CASE e.role = "pos" /\ Matches(e.path)
  <2>1. DeleteImage(t, e.path).size # Cut
    BY <1>1 DEF DeleteImage, Resolves, Cut, Reencoded
  <2> QED
    BY <1>1, <1>2, <2>1, EntryFields, FileContents DEF Resolves
<1>3. CASE ~(e.role = "pos" /\ Matches(e.path))
  BY <1>1, <1>3, EntryFields, FileContents DEF Resolves
<1> QED
  BY <1>2, <1>3

\* The rows of a delete file, as read at its image.
LEMMA RowsMoved ==
  ASSUME NEW t, IsTable(t), Orderly(t), NEW s, Rebased(t, s), NEW n \in Wanted(t),
         NEW e \in EntriesOf(Origin(t), t.metadata, n), e.role = "pos", NEW u \in URI,
         u.base # "target"
  PROVE  (\E row \in RefsOf(s, Apply(e.path)) : row.path = Apply(u))
           <=> \E row \in RefsOf(Origin(t), e.path) : row.path = u
<1> DEFINE rows == Origin(t)[e.path].refs
<1>1. e.path \in URI /\ rows \in Seq(Ref) /\ e \in DeleteRefs(t)
  BY OriginalEntries, OrderlyTypes, RefsType DEF DeleteRefs
<1>2. \A m \in DOMAIN rows : rows[m] \in Ref /\ rows[m].path \in URI /\ rows[m].path.base # "target"
  BY <1>1, ElementType, NoTarget DEF RefsOf
<1>3. CASE Matches(e.path)
  <2>1. s[Apply(e.path)] = DeleteImage(t, e.path)
    BY <1>3, FileContents
  <2>2. s[Apply(e.path)].refs = MovedRows(rows)
    BY <2>1 DEF DeleteImage
  <2>3. /\ DOMAIN MovedRows(rows) = DOMAIN rows
        /\ \A m \in DOMAIN rows : MovedRows(rows)[m].path = Apply(rows[m].path)
    BY <1>2 DEF MovedRows, Ref
  <2>4. \A m \in DOMAIN rows : MovedRows(rows)[m].path = Apply(u) <=> rows[m].path = u
    BY <1>2, <2>3, ApplyInjective
  <2> QED
    BY <2>2, <2>3, <2>4 DEF RefsOf
<1>4. CASE ~Matches(e.path)
  <2>1. RefsOf(s, Apply(e.path)) = RefsOf(Origin(t), e.path)
    BY <1>4, FileContents DEF RefsOf
  <2>2. \A row \in RefsOf(Origin(t), e.path) : ~Matches(row.path)
    BY <1>1, <1>4 DEF Orderly, SelfContained
  <2>3. \A row \in RefsOf(Origin(t), e.path) : row.path = Apply(u) <=> row.path = u
    <3>1. CASE Matches(u)
      <4>1. Apply(u).base = "target"
        BY <3>1, ApplyBase
      <4> QED
        BY <1>2, <2>2, <3>1, <4>1 DEF RefsOf
    <3>2. CASE ~Matches(u)
      BY <3>2, ApplyBase
    <3> QED
      BY <3>1, <3>2
  <2> QED
    BY <2>1, <2>3
<1> QED
  BY <1>3, <1>4

\* A delete file's image applies to the images of the files it applied to.
LEMMA AppliesToImages ==
  ASSUME NEW t, IsTable(t), Orderly(t), NEW s, Rebased(t, s), NEW n \in Wanted(t),
         NEW p \in EntriesOf(Origin(t), t.metadata, n), p.role = "pos",
         NEW d \in EntriesOf(Origin(t), t.metadata, n)
  PROVE  AppliesTo(s, EntryImage(t, p), EntryImage(t, d)) <=> AppliesTo(Origin(t), p, d)
<1> DEFINE p1 == EntryImage(t, p)
           d1 == EntryImage(t, d)
<1>t. /\ p \in Ref /\ p.path \in URI /\ p.refd \subseteq URI /\ p.bounds \subseteq URI
      /\ d \in Ref /\ d.path \in URI /\ d.path.base # "target"
      /\ \A v \in p.bounds \cup p.refd : v.base # "target"
  BY OriginalEntries, RefFields
<1>1. p1.path = Apply(p.path) /\ d1.path = Apply(d.path) /\ p1.refd = ApplyAll(p.refd)
  BY <1>t, EntryFields
<1>r. (\E row \in RefsOf(s, p1.path) : row.path = d1.path)
        <=> \E row \in RefsOf(Origin(t), p.path) : row.path = d.path
  BY <1>t, <1>1, RowsMoved
<1>d. (p1.refd # {} => d1.path \in p1.refd) <=> (p.refd # {} => d.path \in p.refd)
  <2>1. p1.refd # {} <=> p.refd # {}
    BY <1>1 DEF ApplyAll
  <2>2. d1.path \in p1.refd <=> d.path \in p.refd
    BY <1>t, <1>1, ApplyInjective DEF ApplyAll
  <2> QED
    BY <2>1, <2>2
<1>2. CASE Matches(p.path)
  <2>1. p1.bounds = ApplyAll(p.bounds)
    BY <1>t, <1>2, EntryFields
  <2>2. (\A b \in p1.bounds : b.base = d1.path.base) <=> \A b \in p.bounds : b.base = d.path.base
    BY <1>t, <1>1, <2>1, ApplyInjective DEF ApplyAll
  <2> QED
    BY <1>r, <1>d, <2>2 DEF AppliesTo
<1>3. CASE ~Matches(p.path)
  <2>1. p1.bounds = p.bounds
    BY <1>t, <1>3, EntryFields
  <2>2. CASE Matches(d.path)
    <3>1. ~\E row \in RefsOf(Origin(t), p.path) : row.path = d.path
      <4>1. p \in DeleteRefs(t)
        BY OriginalEntries DEF DeleteRefs
      <4> QED
        BY <1>3, <2>2, <4>1 DEF Orderly, SelfContained
    <3> QED
      BY <1>r, <3>1 DEF AppliesTo
  <2>3. CASE ~Matches(d.path)
    <3>1. d1.path = d.path
      BY <1>t, <1>1, <2>3, ApplyBase
    <3> QED
      BY <1>r, <1>d, <2>1, <3>1 DEF AppliesTo
  <2> QED
    BY <2>2, <2>3
<1> QED
  BY <1>2, <1>3

\* Readers of a wanted snapshot see in the images what they saw in the originals.
THEOREM ImagesLookTheSame ==
  ASSUME NEW t, IsTable(t), Orderly(t), NEW s, Rebased(t, s), NEW n \in Wanted(t)
  PROVE  Scan(s, Apply(t.metadata), n) = Scan(Origin(t), t.metadata, n)
<1> DEFINE O == Origin(t)
           md == t.metadata
           es == EntriesOf(O, md, n)
           fs == EntriesOf(s, Apply(md), n)
           Deletes(st, all, d) ==
             {p.path.key : p \in {q \in {x \in all : x.role = "pos"} : AppliesTo(st, q, d)}}
           File(st, all, d) ==
             [key |-> d.path.key, role |-> d.role, deletes |-> Deletes(st, all, d)]
           Plain(all) == {e \in all : e.role \in {"data", "eq"}}
<1>1. fs = {EntryImage(t, e) : e \in es}
  BY EntriesMoved
<1>2. \A e \in es : /\ EntryImage(t, e).role = e.role
                    /\ EntryImage(t, e).path = Apply(e.path)
                    /\ EntryImage(t, e).path.key = e.path.key
  BY OriginalEntries, EntryFields, ApplyBase
<1>3. ASSUME NEW d \in es
      PROVE  File(s, fs, EntryImage(t, d)) = File(O, es, d)
  <2>1. \A p \in es : p.role = "pos" =>
          (AppliesTo(s, EntryImage(t, p), EntryImage(t, d)) <=> AppliesTo(O, p, d))
    BY <1>3, AppliesToImages
  <2>2. Deletes(s, fs, EntryImage(t, d)) = Deletes(O, es, d)
    BY <1>1, <1>2, <2>1
  <2> QED
    BY <1>2, <1>3, <2>2
<1>4. {File(s, fs, d) : d \in Plain(fs)} = {File(O, es, d) : d \in Plain(es)}
  <2> HIDE DEF File
  <2>1. Plain(fs) = {EntryImage(t, e) : e \in Plain(es)}
    BY <1>1, <1>2
  <2> HIDE DEF fs, es
  <2> QED
    BY <1>3, <2>1
<1>5. s[Apply(md)].size # Cut
  BY MetadataContents DEF Cut, Reencoded
<1>6. ASSUME NEW r \in Followed(s, Apply(md), n) PROVE Resolves(s, r)
  <2>1. CASE r \in ManifestsOf(s, Apply(md), n)
    BY <2>1, ManifestImages
  <2>2. CASE r \in fs
    BY <1>1, <2>2, EntryResolves
  <2>3. CASE r \in RefsOf(s, Apply(md)) /\ r.snap = n /\ r.role = "list"
    <3>1. PICK l \in RefsOf(O, md) : r = Moved(l)
      BY <2>3, MetadataContents
    <3>2. l \in Ref /\ l.snap = n /\ l.role = "list" /\ r.path = Apply(l.path) /\ r.len = l.len
      BY <2>3, <3>1, OrderlyTypes, RefsType, MovedFields
    <3>3. /\ l \in ListRefs(t) /\ Known(t, l.path) /\ l.len = 0
          /\ ListDone(t, s, l.path) /\ Resolves(O, l) /\ l.path \in URI
      BY <3>2, OriginalManifests, RefFields
    <3>4. s[Apply(l.path)].size # Cut
      <4>1. CASE Matches(l.path)
        BY <3>3, <4>1, ListContents DEF Rebased, Cut, Reencoded
      <4>2. CASE ~Matches(l.path)
        BY <3>3, <4>2, ApplyBase DEF Rebased, Agrees, Resolves
      <4> QED
        BY <4>1, <4>2
    <3> QED
      BY <3>2, <3>3, <3>4 DEF Resolves
  <2> QED
    BY <2>1, <2>2, <2>3 DEF Followed
<1>7. Scan(O, md, n).intact = TRUE
  <2>1. Scan(O, md, n).intact
    BY DEF Orderly, Intact, Wanted
  <2> QED
    BY <2>1 DEF Scan
<1>8. Scan(s, Apply(md), n) = [intact |-> TRUE, files |-> {File(s, fs, d) : d \in Plain(fs)}]
  <2>1. (s[Apply(md)].size # Cut /\ \A r \in Followed(s, Apply(md), n) : Resolves(s, r)) = TRUE
    BY <1>5, <1>6
  <2> QED
    BY <2>1, Zenon DEF Scan
<1>9. Scan(O, md, n) = [intact |-> TRUE, files |-> {File(O, es, d) : d \in Plain(es)}]
  <2>1. (O[md].size # Cut /\ \A r \in Followed(O, md, n) : Resolves(O, r)) = TRUE
    BY <1>7 DEF Scan
  <2> QED
    BY <2>1, Zenon DEF Scan
<1> QED
  BY <1>4, <1>8, <1>9

LEMMA SnapshotsKept ==
  ASSUME NEW t, IsTable(t), Orderly(t), NEW s, Rebased(t, s)
  PROVE  Selected(t.currentOnly, s[Apply(t.metadata)]) = Wanted(t)
<1> DEFINE b == s[Apply(t.metadata)]
           o == Origin(t)[t.metadata]
<1>1. o \in Body
  BY OrderlyTypes
<1>2. b = MetadataImage(t)
  BY ImageOfMetadata DEF Rebased, Installed
<1>3. b.refs = MovedAll(o.refs) /\ b.current = o.current
  BY <1>2, ExactImage
<1>4. \A m \in DOMAIN o.refs : o.refs[m] \in Ref
  BY <1>1, ElementType DEF Body
<1>5. /\ DOMAIN b.refs = DOMAIN o.refs
      /\ \A m \in DOMAIN o.refs : b.refs[m].snap = o.refs[m].snap
                                  /\ (InSnapshot(b.refs[m]) <=> InSnapshot(o.refs[m]))
  BY <1>3, <1>4, MovedFields DEF MovedAll, InSnapshot
<1>6. Snapshots(b) = Snapshots(o)
  BY <1>5 DEF Snapshots
<1> QED
  BY <1>3, <1>6 DEF Selected, Wanted

\* Nothing a reader of the images follows is under the source prefix, or of a
\* commit to come, and no entry is one the program does not support.
LEMMA NothingFollowedBack ==
  ASSUME NEW t, IsTable(t), Orderly(t), NEW s, Rebased(t, s), NEW n \in Wanted(t)
  PROVE  /\ \A r \in Followed(s, Apply(t.metadata), n) :
              ~Matches(r.path) /\ r.path.key \notin Future(t)
         /\ \A e \in EntriesOf(s, Apply(t.metadata), n) : ~Unsupported(e)
<1> DEFINE O == Origin(t)
           md == t.metadata
<1>0. ASSUME NEW u \in URI, Known(t, u)
      PROVE  ~Matches(Apply(u)) /\ Apply(u).key \notin Future(t)
  BY <1>0, ApplyBase DEF Known
<1>1. ASSUME NEW r \in ManifestsOf(s, Apply(md), n)
      PROVE  ~Matches(r.path) /\ r.path.key \notin Future(t)
  <2>1. PICK q \in ManifestsOf(O, md, n) : r.path = Apply(q.path)
    BY ManifestImages
  <2>2. q.path \in URI /\ Known(t, q.path)
    BY OriginalManifests, OrderlyTypes, RefFields
  <2> QED
    BY <1>0, <2>1, <2>2
<1>2. ASSUME NEW e \in EntriesOf(s, Apply(md), n)
      PROVE  ~Matches(e.path) /\ e.path.key \notin Future(t) /\ ~Unsupported(e)
  <2>1. PICK o \in EntriesOf(O, md, n) : e = EntryImage(t, o)
    BY EntriesMoved
  <2>2. o \in Ref /\ o.path \in URI /\ o.role \in {"data", "eq", "pos"} /\ Known(t, o.path)
    BY OriginalEntries
  <2>3. e.path = Apply(o.path) /\ e.role = o.role
    BY <2>1, <2>2, EntryFields
  <2> QED
    BY <1>0, <2>2, <2>3 DEF Unsupported
<1>3. ASSUME NEW r \in RefsOf(s, Apply(md))
      PROVE  ~Matches(r.path) /\ r.path.key \notin Future(t)
  <2>1. PICK l \in RefsOf(O, md) : r = Moved(l)
    BY MetadataContents
  <2>2. l \in Ref /\ l.path \in URI /\ Known(t, l.path) /\ r.path = Apply(l.path)
    BY <2>1, OrderlyTypes, RefsType, RefFields, NoTarget, MovedFields
  <2> QED
    BY <1>0, <2>2
<1> QED
  BY <1>1, <1>2, <1>3 DEF Followed

\* Readers see two tables alike whose metadata hold the same references of
\* snapshot n, whole or not alike, and who agree on what these follow.
LEMMA ScanSame ==
  ASSUME NEW s, NEW s2, NEW m, NEW m2, NEW n,
         {r \in RefsOf(s2, m2) : r.snap = n /\ InSnapshot(r)}
           = {r \in RefsOf(s, m) : r.snap = n /\ InSnapshot(r)},
         s2[m2].size # Cut <=> s[m].size # Cut,
         \A r \in Followed(s, m, n) : s2[r.path] = s[r.path]
  PROVE  /\ Followed(s2, m2, n) = Followed(s, m, n)
         /\ EntriesOf(s2, m2, n) = EntriesOf(s, m, n)
         /\ Scan(s2, m2, n) = Scan(s, m, n)
<1> DEFINE Mine(st, u) == {r \in RefsOf(st, u) : r.snap = n /\ InSnapshot(r)}
           Lists(st, u) == {r \in RefsOf(st, u) : r.snap = n /\ r.role = "list"}
<1>1. \A r \in Followed(s, m, n) : RefsOf(s2, r.path) = RefsOf(s, r.path)
  BY DEF RefsOf
<1>2. Lists(s2, m2) = Lists(s, m)
  <2>1. \A st, u : Lists(st, u) = {r \in Mine(st, u) : r.role = "list"}
    BY DEF InSnapshot
  <2> QED
    BY <2>1
<1>3. ManifestsOf(s2, m2, n) = ManifestsOf(s, m, n)
  <2>1. \A st, u : ManifestsOf(st, u, n) = {r \in Mine(st, u) : r.role = "manifest"}
                                         \cup UNION {RefsOf(st, r.path) : r \in Lists(st, u)}
    BY DEF ManifestsOf, InSnapshot
  <2>2. \A r \in Lists(s, m) : RefsOf(s2, r.path) = RefsOf(s, r.path)
    BY <1>1 DEF Followed
  <2>3. UNION {RefsOf(s2, r.path) : r \in Lists(s, m)} = UNION {RefsOf(s, r.path) : r \in Lists(s, m)}
    BY <2>2
  <2> QED
    BY <1>2, <2>1, <2>3
<1>4. EntriesOf(s2, m2, n) = EntriesOf(s, m, n)
  <2>1. \A r \in ManifestsOf(s, m, n) : RefsOf(s2, r.path) = RefsOf(s, r.path)
    BY <1>1 DEF Followed
  <2> QED
    BY <1>3, <2>1 DEF EntriesOf
<1>5. Followed(s2, m2, n) = Followed(s, m, n)
  BY <1>2, <1>3, <1>4 DEF Followed
<1>6. \A r \in Followed(s, m, n) : Resolves(s2, r) <=> Resolves(s, r)
  BY DEF Resolves
<1>7. \A p, d \in EntriesOf(s, m, n) : AppliesTo(s2, p, d) <=> AppliesTo(s, p, d)
  BY <1>1 DEF AppliesTo, Followed
<1>8. (s2[m2].size # Cut /\ \A r \in Followed(s2, m2, n) : Resolves(s2, r))
        = (s[m].size # Cut /\ \A r \in Followed(s, m, n) : Resolves(s, r))
  BY <1>5, <1>6
<1>9. Scan(s2, m2, n).files = Scan(s, m, n).files
  <2> DEFINE es == EntriesOf(s, m, n)
             File(st, d) ==
               [key |-> d.path.key, role |-> d.role,
                deletes |-> {p.path.key : p \in {q \in {x \in es : x.role = "pos"} :
                                                   AppliesTo(st, q, d)}}]
  <2>1. \A d \in es : File(s2, d) = File(s, d)
    BY <1>7
  <2>2. /\ Scan(s2, m2, n).files = {File(s2, d) : d \in {e \in es : e.role \in {"data", "eq"}}}
        /\ Scan(s, m, n).files = {File(s, d) : d \in {e \in es : e.role \in {"data", "eq"}}}
    BY <1>4 DEF Scan
  <2> HIDE DEF File
  <2> QED
    BY <2>1, <2>2
<1>10. /\ Scan(s2, m2, n) = [intact |-> Scan(s2, m2, n).intact, files |-> Scan(s2, m2, n).files]
       /\ Scan(s, m, n) = [intact |-> Scan(s, m, n).intact, files |-> Scan(s, m, n).files]
  BY DEF Scan
<1>11. Scan(s2, m2, n).intact = Scan(s, m, n).intact
  BY <1>8 DEF Scan
<1> QED
  BY <1>4, <1>5, <1>9, <1>10, <1>11

\* What a scan of an orderly table follows is known.
LEMMA FollowedKnown ==
  ASSUME NEW t, IsTable(t), Orderly(t), NEW n
  PROVE  /\ Followed(Origin(t), t.metadata, n) \subseteq Ref
         /\ \A r \in Followed(Origin(t), t.metadata, n) : r.path \in URI /\ Known(t, r.path)
<1> DEFINE O == Origin(t)
           md == t.metadata
<1>t. md \in URI /\ \A u \in URI : RefsOf(O, u) \subseteq Ref
  BY OrderlyTypes, RefsType
<1>1. \A u \in URI : \A r \in RefsOf(O, u) : r \in Ref /\ r.path \in URI /\ Known(t, r.path)
  BY <1>t, NoTarget, RefFields
<1>2. \A r \in ManifestsOf(O, md, n) : r \in Ref /\ r.path \in URI /\ Known(t, r.path)
  BY <1>t, <1>1 DEF ManifestsOf
<1>3. \A e \in EntriesOf(O, md, n) : e \in Ref /\ e.path \in URI /\ Known(t, e.path)
  BY <1>1, <1>2 DEF EntriesOf
<1> QED
  BY <1>t, <1>1, <1>2, <1>3 DEF Followed

\* While storage agrees with the originals, readers of the source table see it as
\* it was.
LEMMA SourceLooksTheSame ==
  ASSUME NEW t, IsTable(t), Orderly(t), NEW s, Agrees(t, s), NEW n
  PROVE  /\ s[t.metadata] = Origin(t)[t.metadata]
         /\ Followed(s, t.metadata, n) = Followed(Origin(t), t.metadata, n)
         /\ EntriesOf(s, t.metadata, n) = EntriesOf(Origin(t), t.metadata, n)
         /\ Scan(s, t.metadata, n) = Scan(Origin(t), t.metadata, n)
<1>1. s[t.metadata] = Origin(t)[t.metadata]
  BY MetadataKnown DEF Agrees
<1>2. \A r \in Followed(Origin(t), t.metadata, n) : s[r.path] = Origin(t)[r.path]
  BY FollowedKnown DEF Agrees
<1>3. RefsOf(s, t.metadata) = RefsOf(Origin(t), t.metadata)
  BY <1>1 DEF RefsOf
<1> QED
  BY <1>1, <1>2, <1>3, ScanSame

-----------------------------------------------------------------------------
(* A commit of the table's writers *)

NewData(s, u, key) == Named("data", 0, Placed(s, u, key.data), Original)
NewManifest(s, u, key) == Named("manifest", 0, Placed(s, u, key.man), Original)
NewSnapshot(s, u, key) == Named("list", 1 + Len(s[u].refs), Placed(s, u, key.list), 0)
Elements(q) == {q[n] : n \in DOMAIN q}

LEMMA AppendElements ==
  ASSUME NEW S, NEW q \in Seq(S), NEW x
  PROVE  Elements(Append(q, x)) = Elements(q) \cup {x}
<1>1. /\ DOMAIN Append(q, x) = 1..(Len(q) + 1) /\ DOMAIN q = 1..Len(q) /\ Len(q) \in Nat
      /\ \A n \in 1..Len(q) : Append(q, x)[n] = q[n]
      /\ Append(q, x)[Len(q) + 1] = x
  OBVIOUS
<1>2. 1..(Len(q) + 1) = 1..Len(q) \cup {Len(q) + 1}
  BY <1>1
<1> QED
  BY <1>1, <1>2 DEF Elements

LEMMA ConsElements ==
  ASSUME NEW S, NEW q \in Seq(S), NEW x
  PROVE  Elements(<<x>> \o q) = {x} \cup Elements(q)
<1> DEFINE c == <<x>> \o q
<1>1. /\ DOMAIN c = 1..(Len(q) + 1) /\ DOMAIN q = 1..Len(q) /\ Len(q) \in Nat
      /\ c[1] = x /\ \A n \in 1..Len(q) : c[n + 1] = q[n]
  OBVIOUS
<1>2. \A n \in 1..(Len(q) + 1) : n = 1 \/ (n - 1 \in 1..Len(q) /\ c[n] = q[n - 1])
  BY <1>1
<1>3. \A n \in 1..Len(q) : n + 1 \in 1..(Len(q) + 1)
  BY <1>1
<1> HIDE DEF c
<1>4. ASSUME NEW n \in DOMAIN c PROVE c[n] \in {x} \cup {q[m] : m \in DOMAIN q}
  <2>1. n = 1 \/ (n - 1 \in DOMAIN q /\ c[n] = q[n - 1])
    BY <1>1, <1>2, <1>4
  <2> QED
    BY <1>1, <2>1
<1>5. ASSUME NEW y \in {x} \cup {q[n] : n \in DOMAIN q} PROVE y \in {c[n] : n \in DOMAIN c}
  BY <1>1, <1>3, <1>5
<1>6. {c[n] : n \in DOMAIN c} = {x} \cup {q[n] : n \in DOMAIN q}
  BY <1>4, <1>5
<1> QED
  BY <1>6 DEF c, Elements

\* What a commit of key writes to storage s.
WritesCommit(s, u, key) ==
  LET s2 == Appended(s, u, key)
      at(x) == Placed(s, u, x)
  IN /\ RefsOf(s2, at(key.meta)) = RefsOf(s, u) \cup {NewSnapshot(s, u, key)}
     /\ RefsOf(s2, at(key.list)) = {NewManifest(s, u, key)} \cup Elements(Older(s, u))
     /\ RefsOf(s2, at(key.man)) = {NewData(s, u, key)}
     /\ RefsOf(s2, at(key.data)) = {}
     /\ \A x \in KeysOf(key) : s2[at(x)].size = Original
     /\ s2[at(key.meta)].current = 1 + Len(s[u].refs)
     /\ Len(s2[at(key.meta)].refs) = 1 + Len(s[u].refs)

LEMMA AppendedObjects ==
  ASSUME NEW s \in [URI -> Body], NEW u \in URI, NEW key \in CommitKeys, Apart(key)
  PROVE  WritesCommit(s, u, key)
<1> DEFINE refs == s[u].refs
           at(x) == Placed(s, u, x)
           data == NewData(s, u, key)
           manifest == NewManifest(s, u, key)
           snapshot == NewSnapshot(s, u, key)
           d == Written(<<>>, 0)
           m == Written(<<data>>, 0)
           l == Written(<<manifest>> \o Older(s, u), 0)
           md == Written(Append(refs, snapshot), 1 + Len(refs))
           s2 == Appended(s, u, key)
<1>1. key.data \in Key /\ key.man \in Key /\ key.list \in Key /\ key.meta \in Key
  BY DEF CommitKeys
<1>2. /\ at(key.data) \in URI /\ at(key.man) \in URI /\ at(key.list) \in URI /\ at(key.meta) \in URI
      /\ at(key.data).key = key.data /\ at(key.man).key = key.man
      /\ at(key.list).key = key.list /\ at(key.meta).key = key.meta
  BY <1>1, PlacedType
<1>3. s2 = [s EXCEPT ![at(key.data)] = d, ![at(key.man)] = m,
                     ![at(key.list)] = l, ![at(key.meta)] = md]
  BY DEF Appended, NewData, NewManifest, NewSnapshot
<1>4. refs \in Seq(Ref) /\ Older(s, u) \in Seq(Ref)
  BY OlderType DEF Body
<1> HIDE DEF at
<1>5. /\ at(key.data) \notin {at(key.man), at(key.list), at(key.meta)}
      /\ at(key.man) \notin {at(key.list), at(key.meta)} /\ at(key.list) # at(key.meta)
  BY <1>2 DEF Apart
<1> HIDE DEF d, m, l, md
<1>6. s2[at(key.data)] = d /\ s2[at(key.man)] = m /\ s2[at(key.list)] = l /\ s2[at(key.meta)] = md
  <2> HIDE DEF s2
  <2> QED
    BY <1>2, <1>3, <1>5
<1> HIDE DEF s2
<1>7. /\ d.size = Original /\ m.size = Original /\ l.size = Original /\ md.size = Original
      /\ d.refs = <<>> /\ m.refs = <<data>> /\ l.refs = <<manifest>> \o Older(s, u)
      /\ md.refs = Append(refs, snapshot) /\ md.current = 1 + Len(refs)
  BY DEF Written, d, m, l, md
<1> HIDE DEF data, manifest, snapshot, refs
<1>8. RefsOf(s2, at(key.meta)) = RefsOf(s, u) \cup {snapshot}
  <2>1. RefsOf(s2, at(key.meta)) = Elements(Append(refs, snapshot)) /\ RefsOf(s, u) = Elements(refs)
    BY <1>6, <1>7 DEF RefsOf, Elements, refs
  <2> QED
    BY <1>4, <2>1, AppendElements
<1>9. RefsOf(s2, at(key.list)) = {manifest} \cup Elements(Older(s, u))
  <2>1. RefsOf(s2, at(key.list)) = Elements(s2[at(key.list)].refs)
    BY DEF RefsOf, Elements
  <2>2. s2[at(key.list)].refs = <<manifest>> \o Older(s, u)
    BY <1>6, <1>7, Zenon
  <2> QED
    BY <1>4, <2>1, <2>2, ConsElements, Zenon
<1>10. RefsOf(s2, at(key.man)) = {data}
  <2>1. s2[at(key.man)].refs = <<data>>
    BY <1>6, <1>7, Zenon
  <2>2. RefsOf(s2, at(key.man)) = Elements(<<data>>)
    BY <2>1, Zenon DEF RefsOf, Elements
  <2>3. Elements(<<data>>) = {data}
    BY DEF Elements
  <2> QED
    BY <2>2, <2>3
<1>11. RefsOf(s2, at(key.data)) = {}
  BY <1>6, <1>7 DEF RefsOf
<1>12. Len(Append(refs, snapshot)) = 1 + Len(refs)
  BY <1>4
<1> QED
  BY <1>6, <1>7, <1>8, <1>9, <1>10, <1>11, <1>12
  DEF WritesCommit, KeysOf, at, s2, data, manifest, snapshot, refs

LEMMA AppendedElsewhere ==
  ASSUME NEW s \in [URI -> Body], NEW u \in URI, NEW key \in CommitKeys, NEW v \in URI,
         v \notin {Placed(s, u, key.data), Placed(s, u, key.man),
                   Placed(s, u, key.list), Placed(s, u, key.meta)}
  PROVE  Appended(s, u, key)[v] = s[v]
<1> DEFINE a == Placed(s, u, key.data)
           b == Placed(s, u, key.man)
           c == Placed(s, u, key.list)
           d == Placed(s, u, key.meta)
<1>1. PICK x, y, z, w : Appended(s, u, key) = [s EXCEPT ![a] = x, ![b] = y, ![c] = z, ![d] = w]
  BY Zenon DEF Appended
<1> HIDE DEF a, b, c, d
<1>2. v \notin {a, b, c, d}
  BY DEF a, b, c, d
<1> QED
  BY <1>1, <1>2

\* It depends on the metadata and on what that refers to.
LEMMA AppendedAlike ==
  ASSUME NEW s \in [URI -> Body], NEW s2 \in [URI -> Body], NEW u \in URI,
         NEW key \in CommitKeys, s2[u] = s[u],
         \A r \in RefsOf(s, u) : s2[r.path] = s[r.path]
  PROVE  /\ \A x : Placed(s2, u, x) = Placed(s, u, x)
         /\ \A v \in URI : s2[v] = s[v] => Appended(s2, u, key)[v] = Appended(s, u, key)[v]
<1>1. \A x : Placed(s2, u, x) = Placed(s, u, x)
  BY DEF Placed
<1>2. Older(s2, u) = Older(s, u)
  <2> DEFINE current(b) == {n \in DOMAIN b.refs : b.refs[n].snap = b.current /\ b.refs[n].role = "list"}
             path(b) == b.refs[CHOOSE n \in current(b) : TRUE].path
  <2>1. current(s[u]) # {} => s2[path(s[u])] = s[path(s[u])]
    BY DEF RefsOf
  <2>2. /\ Older(s2, u) = IF current(s2[u]) = {} THEN <<>> ELSE s2[path(s2[u])].refs
        /\ Older(s, u) = IF current(s[u]) = {} THEN <<>> ELSE s[path(s[u])].refs
    BY DEF Older
  <2> HIDE DEF current, path
  <2> QED
    BY <2>1, <2>2
<1>3. ASSUME NEW v \in URI, s2[v] = s[v]
      PROVE  Appended(s2, u, key)[v] = Appended(s, u, key)[v]
  <2> DEFINE a == Placed(s, u, key.data)
             b == Placed(s, u, key.man)
             c == Placed(s, u, key.list)
             d == Placed(s, u, key.meta)
  <2>1. /\ NewData(s2, u, key) = NewData(s, u, key)
        /\ NewManifest(s2, u, key) = NewManifest(s, u, key)
        /\ NewSnapshot(s2, u, key) = NewSnapshot(s, u, key)
    BY <1>1 DEF NewData, NewManifest, NewSnapshot
  <2> DEFINE With(st, x, n, f, o, q) ==
               [st EXCEPT ![a] = Written(<<>>, 0), ![b] = Written(<<x>>, 0),
                          ![c] = Written(<<f>> \o o, 0),
                          ![d] = Written(Append(q, n), 1 + Len(q))]
  <2>2. Appended(s, u, key) = With(s, NewData(s, u, key), NewSnapshot(s, u, key),
                                   NewManifest(s, u, key), Older(s, u), s[u].refs)
    BY DEF Appended, NewData, NewManifest, NewSnapshot
  <2>3. Appended(s2, u, key) = With(s2, NewData(s2, u, key), NewSnapshot(s2, u, key),
                                    NewManifest(s2, u, key), Older(s2, u), s2[u].refs)
    <3>1. /\ a = Placed(s2, u, key.data) /\ b = Placed(s2, u, key.man)
          /\ c = Placed(s2, u, key.list) /\ d = Placed(s2, u, key.meta)
      BY <1>1
    <3> HIDE DEF a, b, c, d
    <3> QED
      BY <3>1 DEF Appended, NewData, NewManifest, NewSnapshot
  <2>4. \A x, n, f, o, q : With(s2, x, n, f, o, q)[v] = With(s, x, n, f, o, q)[v]
    BY <1>3
  <2> HIDE DEF With
  <2> QED
    BY <1>2, <2>1, <2>2, <2>3, <2>4
<1> QED
  BY <1>1, <1>3

\* A snapshot's number is below that of the next one, and lists are of snapshots.
Numbered(s, u) ==
  \A r \in RefsOf(s, u) : r.role # "manifest" /\ r.snap < 1 + Len(s[u].refs)

\* The new snapshot follows what it adds and what the last one followed.
LEMMA CommitNew ==
  ASSUME NEW s \in [URI -> Body], NEW u \in URI, NEW key \in CommitKeys, Apart(key),
         Numbered(s, u),
         \A r \in Followed(s, u, s[u].current) : r.path.key \notin KeysOf(key)
  PROVE  LET s2 == Appended(s, u, key)
             md == Placed(s, u, key.meta)
             n == 1 + Len(s[u].refs)
         IN /\ Followed(s2, md, n)
                 \subseteq {NewSnapshot(s, u, key), NewManifest(s, u, key), NewData(s, u, key)}
                           \cup Followed(s, u, s[u].current)
            /\ EntriesOf(s2, md, n) \subseteq {NewData(s, u, key)} \cup EntriesOf(s, u, s[u].current)
<1> DEFINE s2 == Appended(s, u, key)
           md == Placed(s, u, key.meta)
           n == 1 + Len(s[u].refs)
           c == s[u].current
           data == NewData(s, u, key)
           manifest == NewManifest(s, u, key)
           snapshot == NewSnapshot(s, u, key)
           older == Elements(Older(s, u))
<1>1. /\ snapshot.path = Placed(s, u, key.list) /\ manifest.path = Placed(s, u, key.man)
      /\ snapshot.role = "list" /\ snapshot.snap = n
  BY DEF NewSnapshot, NewManifest, Named
<1>2. /\ RefsOf(s2, md) = RefsOf(s, u) \cup {snapshot}
      /\ RefsOf(s2, snapshot.path) = {manifest} \cup older
      /\ RefsOf(s2, manifest.path) = {data}
  <2>1. WritesCommit(s, u, key)
    BY AppendedObjects
  <2> QED
    BY <1>1, <2>1 DEF WritesCommit
<1>3. \A r \in RefsOf(s, u) : r \in Ref /\ r.snap # n
  <2>1. n \in Nat
    BY DEF Body
  <2>2. \A r \in RefsOf(s, u) : r \in Ref /\ r.snap \in Nat
    BY RefsType DEF Ref
  <2> QED
    BY <2>1, <2>2 DEF Numbered
<1>4. older \subseteq ManifestsOf(s, u, c) /\ older \subseteq Ref
  <2>1. CASE Older(s, u) = <<>>
    BY <2>1 DEF Elements
  <2>2. CASE Older(s, u) # <<>>
    <3>1. PICK l \in RefsOf(s, u) : l.snap = c /\ l.role = "list" /\ Older(s, u) = s[l.path].refs
      BY <2>2, OlderType
    <3>2. older = RefsOf(s, l.path) /\ l.path \in URI
      BY <1>3, <3>1, RefFields DEF Elements, RefsOf
    <3>3. older \subseteq Ref
      BY <3>2, RefsType
    <3> QED
      BY <3>1, <3>2, <3>3 DEF ManifestsOf, InSnapshot
  <2> QED
    BY <2>1, <2>2
<1> HIDE DEF s2, md, n, data, manifest, snapshot, older, c
<1>5. ManifestsOf(s2, md, n) = {manifest} \cup older
  BY <1>1, <1>2, <1>3 DEF ManifestsOf, InSnapshot
<1>6. \A r \in older : RefsOf(s2, r.path) = RefsOf(s, r.path)
  <2>1. \A r \in older : r.path \in URI /\ r.path.key \notin KeysOf(key)
    BY <1>4, RefFields DEF Followed, c
  <2>2. \A r \in older : s2[r.path] = s[r.path]
    BY <2>1, AppendedType DEF s2
  <2> QED
    BY <2>2 DEF RefsOf
<1>7. EntriesOf(s2, md, n) \subseteq {data} \cup EntriesOf(s, u, c)
  <2>1. ASSUME NEW e \in EntriesOf(s2, md, n) PROVE e \in {data} \cup EntriesOf(s, u, c)
    <3>1. PICK r \in ManifestsOf(s2, md, n) : e \in RefsOf(s2, r.path) /\ e.live
      BY <2>1 DEF EntriesOf
    <3>2. CASE r = manifest
      BY <1>2, <3>1, <3>2
    <3>3. CASE r \in older
      BY <1>4, <1>6, <3>1, <3>3 DEF EntriesOf
    <3> QED
      BY <1>5, <3>2, <3>3
  <2> QED
    BY <2>1
<1>8. {r \in RefsOf(s2, md) : r.snap = n /\ r.role = "list"} \subseteq {snapshot}
  BY <1>2, <1>3
<1>9. Followed(s2, md, n) \subseteq {snapshot, manifest, data} \cup Followed(s, u, c)
  BY <1>4, <1>5, <1>7, <1>8 DEF Followed
<1> QED
  BY <1>7, <1>9 DEF s2, md, n, data, manifest, snapshot, c

\* Readers see an older snapshot as before.
LEMMA CommitOld ==
  ASSUME NEW s \in [URI -> Body], NEW u \in URI, NEW key \in CommitKeys, Apart(key),
         s[u].size # Cut,
         NEW m, m # 1 + Len(s[u].refs),
         \A r \in Followed(s, u, m) : r.path \in URI /\ r.path.key \notin KeysOf(key)
  PROVE  LET s2 == Appended(s, u, key)
             md == Placed(s, u, key.meta)
         IN /\ Followed(s2, md, m) = Followed(s, u, m)
            /\ EntriesOf(s2, md, m) = EntriesOf(s, u, m)
            /\ Scan(s2, md, m) = Scan(s, u, m)
<1> DEFINE s2 == Appended(s, u, key)
           md == Placed(s, u, key.meta)
<1>1. RefsOf(s2, md) = RefsOf(s, u) \cup {NewSnapshot(s, u, key)} /\ s2[md].size = Original
  <2>1. WritesCommit(s, u, key)
    BY AppendedObjects
  <2> QED
    BY <2>1 DEF WritesCommit, KeysOf
<1>2. NewSnapshot(s, u, key).snap # m
  BY DEF NewSnapshot, Named
<1>3. \A r \in Followed(s, u, m) : s2[r.path] = s[r.path]
  BY AppendedType
<1>4. s2[md].size # Cut
  BY <1>1 DEF Original, Cut
<1> HIDE DEF s2, md
<1>5. {r \in RefsOf(s2, md) : r.snap = m /\ InSnapshot(r)}
        = {r \in RefsOf(s, u) : r.snap = m /\ InSnapshot(r)}
  BY <1>1, <1>2
<1>6. /\ Followed(s2, md, m) = Followed(s, u, m)
      /\ EntriesOf(s2, md, m) = EntriesOf(s, u, m)
      /\ Scan(s2, md, m) = Scan(s, u, m)
  BY <1>3, <1>4, <1>5, ScanSame
<1> QED
  BY <1>6 DEF s2, md

LEMMA SnapshotsOfRefs ==
  ASSUME NEW s, NEW u
  PROVE  Snapshots(s[u]) = {r.snap : r \in {q \in RefsOf(s, u) : InSnapshot(q)}}
BY DEF Snapshots, RefsOf

\* What is followed is of a snapshot there is.
LEMMA SnapshotsFollowed ==
  ASSUME NEW s, NEW u, NEW n, NEW r \in Followed(s, u, n)
  PROVE  n \in Snapshots(s[u])
<1>1. \E q \in RefsOf(s, u) : q.snap = n /\ InSnapshot(q)
  BY DEF Followed, ManifestsOf, EntriesOf, InSnapshot
<1>2. Snapshots(s[u]) = {q.snap : q \in {x \in RefsOf(s, u) : InSnapshot(x)}}
  BY SnapshotsOfRefs
<1> QED
  BY <1>1, <1>2

\* The snapshots asked for gain the new one, and lose all others with
\* --current-snapshot-only.
LEMMA CommitSelected ==
  ASSUME NEW s \in [URI -> Body], NEW u \in URI, NEW key \in CommitKeys, Apart(key),
         Numbered(s, u), NEW only \in BOOLEAN
  PROVE  LET b == Appended(s, u, key)[Placed(s, u, key.meta)]
             n == 1 + Len(s[u].refs)
         IN /\ n \in Selected(only, b) /\ n \notin Selected(only, s[u])
            /\ \A m \in Selected(only, b) : m # n => m \in Selected(only, s[u])
            /\ s[u].current \in Snapshots(s[u]) => s[u].current \in Selected(only, s[u])
<1> DEFINE s2 == Appended(s, u, key)
           md == Placed(s, u, key.meta)
           n == 1 + Len(s[u].refs)
           snapshot == NewSnapshot(s, u, key)
<1>1. RefsOf(s2, md) = RefsOf(s, u) \cup {snapshot} /\ s2[md].current = n
  <2>1. WritesCommit(s, u, key)
    BY AppendedObjects
  <2> QED
    BY <2>1 DEF WritesCommit, KeysOf
<1>2. snapshot.snap = n /\ InSnapshot(snapshot)
  BY DEF NewSnapshot, Named, InSnapshot
<1>3. \A r \in RefsOf(s, u) : r.snap # n
  <2>1. n \in Nat
    BY DEF Body
  <2>2. \A r \in RefsOf(s, u) : r.snap \in Nat
    BY RefsType DEF Ref
  <2> QED
    BY <2>1, <2>2 DEF Numbered
<1>4. Snapshots(s[u]) = {r.snap : r \in {q \in RefsOf(s, u) : InSnapshot(q)}}
  BY SnapshotsOfRefs
<1>5. Snapshots(s2[md]) = {r.snap : r \in {q \in RefsOf(s2, md) : InSnapshot(q)}}
  BY SnapshotsOfRefs
<1> HIDE DEF s2, md, n, snapshot
<1>6. n \notin Snapshots(s[u])
  BY <1>3, <1>4
<1>7. Snapshots(s2[md]) = Snapshots(s[u]) \cup {n}
  BY <1>1, <1>2, <1>4, <1>5
<1>8. Selected(only, s2[md]) = IF only THEN {n} ELSE Snapshots(s[u]) \cup {n}
  BY <1>1, <1>7 DEF Selected
<1> QED
  BY <1>6, <1>8 DEF Selected, s2, md, n

\* t2 is table t after the first of the commits its writers are about to make.
Grown(t, t2) ==
  /\ t.commits # <<>>
  /\ Origin(t)[t.metadata].size # Cut
  /\ Numbered(Origin(t), t.metadata)
  /\ Origin(t2) = Appended(Origin(t), t.metadata, t.commits[1])
  /\ t2.metadata = Placed(Origin(t), t.metadata, t.commits[1].meta)
  /\ t2.commits \in Seq(CommitKeys) /\ DOMAIN t2.commits = 1..(Len(t.commits) - 1)
  /\ \A c \in DOMAIN t2.commits : t2.commits[c] = t.commits[c + 1]
  /\ \A u \in DOMAIN t2.objects :
       /\ u \in URI /\ u.base # "target" /\ t2.objects[u] \in Body
       /\ u \in DOMAIN t.objects \/ u.key \in KeysOf(t.commits[1])
  /\ t2.currentOnly = t.currentOnly /\ t2.noValidate = t.noValidate /\ t2.split = t.split
  /\ t2.maxObjectSize = t.maxObjectSize

LEMMA FirstCommit ==
  ASSUME NEW t, IsTable(t), t.commits # <<>>
  PROVE  /\ t.commits[1] \in CommitKeys /\ Apart(t.commits[1])
         /\ 1 \in DOMAIN t.commits /\ KeysOf(t.commits[1]) \subseteq Future(t)
<1>1. t.commits \in Seq(CommitKeys)
  BY DEF IsTable, CommitKeys
<1>2. 1 \in DOMAIN t.commits /\ t.commits[1] \in CommitKeys
  BY <1>1
<1> QED
  BY <1>2 DEF IsTable, Future

\* The commits to come are still of fresh objects.
LEMMA GrownTable ==
  ASSUME NEW t, IsTable(t), NEW t2, Grown(t, t2)
  PROVE  /\ IsTable(t2)
         /\ Future(t2) \subseteq Future(t)
         /\ \A x \in KeysOf(t.commits[1]) : x \notin Future(t2)
<1> DEFINE key == t.commits[1]
<1>1. key \in CommitKeys /\ Apart(key) /\ 1 \in DOMAIN t.commits
  BY FirstCommit DEF Grown
<1>2. t.commits \in Seq(CommitKeys) /\ DOMAIN t.commits = 1..Len(t.commits) /\ Len(t.commits) \in Nat
  BY DEF IsTable, CommitKeys
<1>3. \A c \in DOMAIN t2.commits :
        c + 1 \in DOMAIN t.commits /\ c \in Nat /\ c >= 1 /\ t2.commits[c] = t.commits[c + 1]
  BY <1>2 DEF Grown
<1>4. Origin(t) \in [URI -> Body] /\ t.metadata \in URI
  BY OrderlyTypes
<1>5. t2.metadata \in URI /\ t2.metadata.key = key.meta /\ key.meta \in KeysOf(key)
  <2>1. key.meta \in Key /\ key.meta \in KeysOf(key)
    BY <1>1 DEF CommitKeys, KeysOf
  <2>2. t2.metadata = Placed(Origin(t), t.metadata, key.meta)
    BY DEF Grown
  <2> HIDE DEF key
  <2>3. /\ Placed(Origin(t), t.metadata, key.meta) \in URI
        /\ Placed(Origin(t), t.metadata, key.meta).key = key.meta
    BY <1>4, <2>1, PlacedType
  <2> QED
    BY <2>1, <2>2, <2>3
<1>6. \A u \in DOMAIN t2.objects \cup {t2.metadata} : u \in DOMAIN t.objects \/ u.key \in KeysOf(key)
  BY <1>5 DEF Grown
<1>7. ASSUME NEW c \in DOMAIN t2.commits
      PROVE  /\ Apart(t2.commits[c])
             /\ \A x \in KeysOf(t2.commits[c]) :
                  /\ x \notin KeysOf(key)
                  /\ \A u \in DOMAIN t2.objects \cup {t2.metadata} : x # u.key
                  /\ \A d \in 1..(c - 1) : x \notin KeysOf(t2.commits[d])
  <2>1. c + 1 \in DOMAIN t.commits /\ t2.commits[c] = t.commits[c + 1] /\ 1 \in 1..((c + 1) - 1)
    BY <1>3
  <2>2. Apart(t2.commits[c])
    BY <2>1 DEF IsTable
  <2>3. ASSUME NEW x \in KeysOf(t2.commits[c])
        PROVE  /\ x \notin KeysOf(key)
               /\ \A u \in DOMAIN t.objects : x # u.key
               /\ \A d \in 1..c : x \notin KeysOf(t.commits[d])
    <3>1. \A d \in 1..((c + 1) - 1) : x \notin KeysOf(t.commits[d])
      BY <2>1, <2>3 DEF IsTable
    <3>2. \A u \in DOMAIN t.objects : x # u.key
      BY <2>1, <2>3 DEF IsTable
    <3>3. (c + 1) - 1 = c
      BY <1>3
    <3> QED
      BY <2>1, <3>1, <3>2, <3>3
  <2>4. \A d \in 1..(c - 1) : d + 1 \in 1..c /\ t2.commits[d] = t.commits[d + 1]
    <3>1. \A d \in 1..(c - 1) : d \in DOMAIN t2.commits /\ d + 1 \in 1..c
      <4>1. Len(t.commits) - 1 \in Int /\ c \in 1..(Len(t.commits) - 1)
        BY <1>2 DEF Grown
      <4> QED
        BY <4>1 DEF Grown
    <3> QED
      BY <1>3, <3>1
  <2>5. \A x \in KeysOf(t2.commits[c]) : \A d \in 1..(c - 1) : x \notin KeysOf(t2.commits[d])
    BY <2>3, <2>4
  <2>6. \A x \in KeysOf(t2.commits[c]) : \A u \in DOMAIN t2.objects \cup {t2.metadata} : x # u.key
    BY <1>6, <2>3
  <2> QED
    BY <2>2, <2>3, <2>5, <2>6
<1>8. IsTable(t2)
  <2>1. /\ DOMAIN t2.objects \subseteq URI
        /\ \A u \in DOMAIN t2.objects : t2.objects[u] \in Body
    BY DEF Grown
  <2>2. t2.commits \in Seq([meta : Key, list : Key, man : Key, data : Key])
    BY DEF Grown, CommitKeys
  <2>3. /\ t2.currentOnly \in BOOLEAN /\ t2.noValidate \in BOOLEAN /\ t2.split \in BOOLEAN
        /\ t2.maxObjectSize \in Nat
    BY DEF Grown, IsTable
  <2> QED
    BY <1>5, <1>7, <2>1, <2>2, <2>3 DEF IsTable
<1>9. Future(t2) \subseteq Future(t)
  BY <1>3 DEF Future
<1>10. \A x \in KeysOf(key) : x \notin Future(t2)
  BY <1>7 DEF Future
<1> QED
  BY <1>8, <1>9, <1>10

\* Where writers put new files.
LEMMA GrownPlaces ==
  ASSUME NEW t, IsTable(t), Orderly(t), NEW x \in Key
  PROVE  /\ Placed(Origin(t), t.metadata, x) \in URI
         /\ Placed(Origin(t), t.metadata, x).key = x
         /\ Placed(Origin(t), t.metadata, x).base # "target"
<1> DEFINE O == Origin(t)
           bases == {r.path.base : r \in {q \in RefsOf(O, t.metadata) : q.role = "location"}}
<1>1. O \in [URI -> Body] /\ t.metadata \in URI /\ t.metadata.base # "target"
  BY OrderlyTypes, MetadataKnown
<1>2. \A r \in RefsOf(O, t.metadata) : r.path.base # "target"
  BY <1>1, NoTarget
<1>3. "target" \notin (IF bases = {} THEN {t.metadata.base} ELSE bases)
  BY <1>1, <1>2
<1>4. /\ Placed(O, t.metadata, x) \in URI /\ Placed(O, t.metadata, x).key = x
      /\ Placed(O, t.metadata, x).base \in (IF bases = {} THEN {t.metadata.base} ELSE bases)
  BY <1>1, PlacedType
<1> HIDE DEF bases, O
<1>5. Placed(O, t.metadata, x).base # "target"
  BY <1>3, <1>4
<1> QED
  BY <1>4, <1>5 DEF O

AddedSnapshot(t) == NewSnapshot(Origin(t), t.metadata, t.commits[1])
AddedManifest(t) == NewManifest(Origin(t), t.metadata, t.commits[1])
AddedData(t) == NewData(Origin(t), t.metadata, t.commits[1])

\* What the table knew is as it was; the snapshot, its list, manifest and data
\* file are new.
LEMMA GrownRefs ==
  ASSUME NEW t, IsTable(t), Orderly(t), NEW t2, Grown(t, t2)
  PROVE  /\ \A u \in URI : Known(t, u) => Origin(t2)[u] = Origin(t)[u]
         /\ RefsOf(Origin(t2), t2.metadata) = RefsOf(Origin(t), t.metadata) \cup {AddedSnapshot(t)}
         /\ ListRefs(t2) = ListRefs(t) \cup {AddedSnapshot(t)}
         /\ ManifestRefs(t2) = ManifestRefs(t) \cup {AddedManifest(t)}
         /\ Entries(t2) = Entries(t) \cup {AddedData(t)}
         /\ RefsOf(Origin(t2), AddedSnapshot(t).path)
              = {AddedManifest(t)} \cup Elements(Older(Origin(t), t.metadata))
         /\ Elements(Older(Origin(t), t.metadata)) \subseteq ManifestRefs(t)
         /\ RefsOf(Origin(t2), AddedManifest(t).path) = {AddedData(t)}
         /\ RefsOf(Origin(t2), AddedData(t).path) = {}
         /\ \A r \in {AddedSnapshot(t), AddedManifest(t), AddedData(t)} :
              Origin(t2)[r.path].size = Original
         /\ Origin(t2)[t2.metadata].size = Original
<1> DEFINE O == Origin(t)
           P == Origin(t2)
           md == t.metadata
           key == t.commits[1]
           snapshot == NewSnapshot(O, md, key)
           manifest == NewManifest(O, md, key)
           data == NewData(O, md, key)
<1>1. O \in [URI -> Body] /\ md \in URI /\ key \in CommitKeys /\ Apart(key)
  BY OrderlyTypes, FirstCommit DEF Grown
<1>2. P = Appended(O, md, key) /\ t2.metadata = Placed(O, md, key.meta)
  BY DEF Grown
<1>3. WritesCommit(O, md, key)
  BY <1>1, AppendedObjects
<1>4. /\ snapshot.path = Placed(O, md, key.list) /\ snapshot.role = "list"
      /\ manifest.path = Placed(O, md, key.man) /\ manifest.role = "manifest"
      /\ data.path = Placed(O, md, key.data)
  BY DEF NewSnapshot, NewManifest, NewData, Named
<1>5. /\ RefsOf(P, t2.metadata) = RefsOf(O, md) \cup {snapshot}
      /\ RefsOf(P, snapshot.path) = {manifest} \cup Elements(Older(O, md))
      /\ RefsOf(P, manifest.path) = {data}
      /\ RefsOf(P, data.path) = {}
      /\ P[snapshot.path].size = Original /\ P[manifest.path].size = Original
      /\ P[data.path].size = Original /\ P[t2.metadata].size = Original
  BY <1>2, <1>3, <1>4 DEF WritesCommit, KeysOf
<1>6. ASSUME NEW u \in URI, Known(t, u) PROVE P[u] = O[u]
  <2>1. u.key \notin KeysOf(key)
    BY <1>6, FirstCommit DEF Known, Grown
  <2> HIDE DEF key
  <2> QED
    BY <1>1, <1>2, <2>1, AppendedType
<1>7. \A u \in URI : RefsOf(O, u) \subseteq Ref
  BY <1>1, RefsType
<1>8. \A u \in URI : \A r \in RefsOf(O, u) : r.path \in URI /\ RefsOf(P, r.path) = RefsOf(O, r.path)
  <2>1. \A u \in URI : \A r \in RefsOf(O, u) : r.path \in URI /\ Known(t, r.path)
    BY <1>7, NoTarget, RefFields
  <2>2. \A u \in URI : \A r \in RefsOf(O, u) : P[r.path] = O[r.path]
    BY <1>6, <2>1
  <2> QED
    BY <2>1, <2>2 DEF RefsOf
<1>9. ListRefs(t2) = ListRefs(t) \cup {snapshot}
  BY <1>4, <1>5 DEF ListRefs
<1>10. Elements(Older(O, md)) \subseteq ManifestRefs(t)
  <2>1. CASE Older(O, md) = <<>>
    BY <2>1 DEF Elements
  <2>2. CASE Older(O, md) # <<>>
    <3>1. PICK l \in RefsOf(O, md) : l.role = "list" /\ Older(O, md) = O[l.path].refs
      BY <1>1, <2>2, OlderType
    <3> QED
      BY <3>1 DEF Elements, ManifestRefs, ListRefs, RefsOf
  <2> QED
    BY <2>1, <2>2
<1>11. \A r \in ListRefs(t) : RefsOf(P, r.path) = RefsOf(O, r.path)
  BY <1>1, <1>8 DEF ListRefs
<1>12. \A r \in ManifestRefs(t) : RefsOf(P, r.path) = RefsOf(O, r.path)
  <2>1. \A r \in ListRefs(t) : r.path \in URI
    BY <1>1, <1>8 DEF ListRefs
  <2> QED
    BY <1>1, <1>8, <2>1 DEF ManifestRefs
<1> DEFINE Mine(st, m) == {r \in RefsOf(st, m) : r.role = "manifest"}
<1>13. Mine(P, t2.metadata) = Mine(O, md)
  BY <1>4, <1>5
<1>14. ManifestRefs(t2) = Mine(P, t2.metadata) \cup (UNION {RefsOf(P, r.path) : r \in ListRefs(t2)})
  BY DEF ManifestRefs
<1>15. ManifestRefs(t) = Mine(O, md) \cup (UNION {RefsOf(O, r.path) : r \in ListRefs(t)})
  BY DEF ManifestRefs
<1> HIDE DEF O, P, md, key, snapshot, manifest, data, Mine
<1>16. ManifestRefs(t2) = ManifestRefs(t) \cup {manifest}
  <2>1. UNION {RefsOf(P, r.path) : r \in ListRefs(t2)}
          = (UNION {RefsOf(P, r.path) : r \in ListRefs(t)}) \cup RefsOf(P, snapshot.path)
    BY <1>9
  <2>2. UNION {RefsOf(P, r.path) : r \in ListRefs(t)} = UNION {RefsOf(O, r.path) : r \in ListRefs(t)}
    BY <1>11
  <2> HIDE DEF O
  <2> QED
    BY <1>5, <1>10, <1>13, <1>14, <1>15, <2>1, <2>2
<1>17. Entries(t2) = Entries(t) \cup {data}
  <2>1. UNION {RefsOf(P, r.path) : r \in ManifestRefs(t2)}
          = (UNION {RefsOf(P, r.path) : r \in ManifestRefs(t)}) \cup RefsOf(P, manifest.path)
    BY <1>16
  <2>2. UNION {RefsOf(P, r.path) : r \in ManifestRefs(t)}
          = UNION {RefsOf(O, r.path) : r \in ManifestRefs(t)}
    BY <1>12
  <2>3. /\ Entries(t2) = UNION {RefsOf(P, r.path) : r \in ManifestRefs(t2)}
        /\ Entries(t) = UNION {RefsOf(O, r.path) : r \in ManifestRefs(t)}
    BY DEF Entries, O, P
  <2> QED
    BY <1>5, <2>1, <2>2, <2>3
<1> QED
  BY <1>5, <1>6, <1>9, <1>10, <1>16, <1>17
  DEF O, P, md, key, snapshot, manifest, data, AddedSnapshot, AddedManifest, AddedData

LEMMA GrownNew ==
  ASSUME NEW t, IsTable(t), Orderly(t), NEW t2, Grown(t, t2)
  PROVE  /\ \A r \in {AddedSnapshot(t), AddedManifest(t), AddedData(t)} :
              /\ r.path \in URI /\ r.path.base # "target"
              /\ r.path.key \in KeysOf(t.commits[1]) /\ r.path.key \notin Future(t2)
              /\ r.bounds = {} /\ r.refd = {}
         /\ AddedSnapshot(t).role = "list" /\ AddedManifest(t).role = "manifest"
         /\ AddedData(t).role = "data"
         /\ AddedSnapshot(t).len = 0 /\ AddedManifest(t).len = Original
         /\ AddedData(t).len = Original
         /\ AddedManifest(t).path.base = AddedData(t).path.base
         /\ t2.metadata \in URI /\ t2.metadata.base # "target"
         /\ t2.metadata.key \in KeysOf(t.commits[1])
         /\ AddedSnapshot(t).path \notin {t2.metadata, AddedManifest(t).path, AddedData(t).path}
         /\ AddedManifest(t).path \notin {t2.metadata, AddedData(t).path}
         /\ AddedData(t).path # t2.metadata
<1> DEFINE O == Origin(t)
           md == t.metadata
           key == t.commits[1]
           at(x) == Placed(O, md, x)
<1>1. /\ key.data \in Key /\ key.man \in Key /\ key.list \in Key /\ key.meta \in Key
      /\ KeysOf(key) = {key.meta, key.list, key.man, key.data} /\ Apart(key)
  BY FirstCommit DEF Grown, CommitKeys, KeysOf
<1>2. \A x \in KeysOf(key) : x \notin Future(t2)
  BY GrownTable
<1>3. /\ AddedSnapshot(t).path = at(key.list) /\ AddedManifest(t).path = at(key.man)
      /\ AddedData(t).path = at(key.data) /\ t2.metadata = at(key.meta)
  BY DEF AddedSnapshot, AddedManifest, AddedData, NewSnapshot, NewManifest, NewData, Named, Grown
<1>4. /\ AddedSnapshot(t).role = "list" /\ AddedManifest(t).role = "manifest"
      /\ AddedData(t).role = "data"
      /\ AddedSnapshot(t).len = 0 /\ AddedManifest(t).len = Original
      /\ AddedData(t).len = Original
      /\ \A r \in {AddedSnapshot(t), AddedManifest(t), AddedData(t)} : r.bounds = {} /\ r.refd = {}
  BY DEF AddedSnapshot, AddedManifest, AddedData, NewSnapshot, NewManifest, NewData, Named
<1>5. at(key.man).base = at(key.data).base
  BY DEF Placed
<1> HIDE DEF at
<1>6. \A x \in Key : at(x) \in URI /\ at(x).key = x /\ at(x).base # "target"
  BY GrownPlaces DEF at
<1> HIDE DEF key
<1>7. /\ at(key.list) \notin {at(key.meta), at(key.man), at(key.data)}
      /\ at(key.man) \notin {at(key.meta), at(key.data)} /\ at(key.data) # at(key.meta)
  BY <1>1, <1>6 DEF Apart
<1>8. \A r \in {AddedSnapshot(t), AddedManifest(t), AddedData(t)} :
        /\ r.path \in URI /\ r.path.base # "target"
        /\ r.path.key \in KeysOf(key) /\ r.path.key \notin Future(t2)
  BY <1>1, <1>2, <1>3, <1>6
<1>9. t2.metadata \in URI /\ t2.metadata.base # "target" /\ t2.metadata.key \in KeysOf(key)
  BY <1>1, <1>3, <1>6
<1> QED
  BY <1>3, <1>4, <1>5, <1>7, <1>8, <1>9 DEF key

\* Every URI is as the table knew it, new, or of a commit yet to come.
LEMMA GrownElsewhere ==
  ASSUME NEW t, IsTable(t), Orderly(t), NEW t2, Grown(t, t2), NEW u \in URI
  PROVE  \/ Origin(t2)[u] = Origin(t)[u]
         \/ u \in {t2.metadata, AddedSnapshot(t).path, AddedManifest(t).path, AddedData(t).path}
<1> DEFINE O == Origin(t)
           key == t.commits[1]
<1>1. O \in [URI -> Body] /\ t.metadata \in URI /\ key \in CommitKeys
  BY OrderlyTypes, FirstCommit DEF Grown
<1>2. /\ AddedSnapshot(t).path = Placed(O, t.metadata, key.list)
      /\ AddedManifest(t).path = Placed(O, t.metadata, key.man)
      /\ AddedData(t).path = Placed(O, t.metadata, key.data)
      /\ t2.metadata = Placed(O, t.metadata, key.meta)
      /\ Origin(t2) = Appended(O, t.metadata, key)
  BY DEF AddedSnapshot, AddedManifest, AddedData, NewSnapshot, NewManifest, NewData, Named, Grown
<1> HIDE DEF O, key
<1>3. Origin(t2)[u] = O[u]
      \/ u \in {t2.metadata, AddedSnapshot(t).path, AddedManifest(t).path, AddedData(t).path}
  BY <1>1, <1>2, AppendedElsewhere
<1> QED
  BY <1>3 DEF O

LEMMA GrownOutside ==
  ASSUME NEW t, IsTable(t), Orderly(t), NEW t2, Grown(t, t2)
  PROVE  Outside(t2) /\ Writable(t2)
<1> DEFINE O == Origin(t)
           P == Origin(t2)
<1>1. ASSUME NEW u \in URI, NEW r \in RefsOf(P, u)
      PROVE  /\ \A v \in {r.path} \cup r.bounds \cup r.refd : v.base # "target"
             /\ r.path.key \notin Future(t2)
             /\ \/ \E w \in URI : r \in RefsOf(O, w)
                \/ r \in {AddedSnapshot(t), AddedManifest(t), AddedData(t)}
  <2>1. ASSUME NEW w \in URI, r \in RefsOf(O, w)
        PROVE  /\ \A v \in {r.path} \cup r.bounds \cup r.refd : v.base # "target"
               /\ r.path.key \notin Future(t2)
    BY <2>1, NoTarget, GrownTable DEF Known
  <2>2. ASSUME r \in {AddedSnapshot(t), AddedManifest(t), AddedData(t)}
        PROVE  /\ \A v \in {r.path} \cup r.bounds \cup r.refd : v.base # "target"
               /\ r.path.key \notin Future(t2)
    BY <2>2, GrownNew
  <2>3. \/ \E w \in URI : r \in RefsOf(O, w)
        \/ r \in {AddedSnapshot(t), AddedManifest(t), AddedData(t)}
    <3>1. CASE P[u] = O[u]
      BY <3>1 DEF RefsOf
    <3>2. CASE u = t2.metadata
      BY <3>2, GrownRefs, MetadataKnown
    <3>3. CASE u = AddedSnapshot(t).path
      <4>1. r = AddedManifest(t) \/ r \in ManifestRefs(t)
        BY <3>3, GrownRefs
      <4>2. \A q \in ManifestRefs(t) : \E w \in URI : q \in RefsOf(O, w)
        BY MetadataKnown, OrderlyTypes, RefFields DEF ManifestRefs
      <4> QED
        BY <4>1, <4>2
    <3>4. CASE u = AddedManifest(t).path
      BY <3>4, GrownRefs
    <3>5. CASE u = AddedData(t).path
      BY <3>5, GrownRefs
    <3> QED
      BY <3>1, <3>2, <3>3, <3>4, <3>5, GrownElsewhere
  <2> QED
    BY <2>1, <2>2, <2>3
<1>2. Outside(t2)
  BY <1>1, GrownNew DEF Outside, Grown
<1>3. Writable(t2)
  <2>1. CopyFresh /\ WritersPaused
    BY DEF Orderly, Writable, Grown
  <2>2. \A r \in RefsOf(O, t.metadata) : r.role = "location" => Matches(r.path)
    BY DEF Orderly, Writable, Grown
  <2>3. \A r \in RefsOf(P, t2.metadata) : r.role = "location" => Matches(r.path)
    BY <2>2, GrownRefs, GrownNew
  <2>4. \A u \in DOMAIN t2.objects : u \in URI
    BY DEF Grown
  <2>5. \A u \in DOMAIN t2.objects : \A r \in RefsOf(P, u) : r.path.key \notin Future(t2)
    BY <1>1, <2>4
  <2> QED
    BY <2>1, <2>3, <2>5 DEF Writable, Grown
<1> QED
  BY <1>2, <1>3

\* What an orderly table refers to is known to it.
LEMMA RefsKnown ==
  ASSUME NEW t, IsTable(t), Orderly(t)
  PROVE  \A r \in ListRefs(t) \cup ManifestRefs(t) \cup Entries(t) :
           r \in Ref /\ r.path \in URI /\ Known(t, r.path)
<1>1. \A u \in URI : \A r \in RefsOf(Origin(t), u) : r \in Ref /\ r.path \in URI /\ Known(t, r.path)
  BY OrderlyTypes, RefsType, NoTarget, RefFields
<1>2. \A r \in ListRefs(t) : r \in Ref /\ r.path \in URI /\ Known(t, r.path)
  BY <1>1, MetadataKnown DEF ListRefs
<1>3. \A r \in ManifestRefs(t) : r \in Ref /\ r.path \in URI /\ Known(t, r.path)
  BY <1>1, <1>2, MetadataKnown DEF ManifestRefs
<1>4. \A r \in Entries(t) : r \in Ref /\ r.path \in URI /\ Known(t, r.path)
  BY <1>1, <1>3 DEF Entries
<1> QED
  BY <1>2, <1>3, <1>4

LEMMA GrownWellFormed ==
  ASSUME NEW t, IsTable(t), Orderly(t), NEW t2, Grown(t, t2)
  PROVE  WellFormed(t2)
<1> DEFINE O == Origin(t)
           P == Origin(t2)
           snapshot == AddedSnapshot(t)
           manifest == AddedManifest(t)
           data == AddedData(t)
           Paths(refs) == {r.path : r \in refs}
<1>1. /\ RefsOf(P, t2.metadata) = RefsOf(O, t.metadata) \cup {snapshot}
      /\ ListRefs(t2) = ListRefs(t) \cup {snapshot}
      /\ ManifestRefs(t2) = ManifestRefs(t) \cup {manifest}
      /\ Entries(t2) = Entries(t) \cup {data}
      /\ RefsOf(P, snapshot.path) = {manifest} \cup Elements(Older(O, t.metadata))
      /\ Elements(Older(O, t.metadata)) \subseteq ManifestRefs(t)
      /\ RefsOf(P, manifest.path) = {data} /\ RefsOf(P, data.path) = {}
  BY GrownRefs, Zenon
<1>2. DeleteRefs(t2) = DeleteRefs(t) /\ FileRefs(t2) = FileRefs(t) \cup {data}
  BY <1>1, GrownNew DEF DeleteRefs, FileRefs
<1>3. \A r \in ListRefs(t) \cup ManifestRefs(t) \cup Entries(t) :
        r.path \in URI /\ P[r.path] = O[r.path] /\ r.path.key \notin KeysOf(t.commits[1])
  <2>1. \A r \in ListRefs(t) \cup ManifestRefs(t) \cup Entries(t) : r.path \in URI /\ Known(t, r.path)
    BY RefsKnown
  <2>2. \A u \in URI : Known(t, u) => P[u] = O[u]
    BY GrownRefs
  <2>3. KeysOf(t.commits[1]) \subseteq Future(t)
    BY FirstCommit DEF Grown
  <2> QED
    BY <2>1, <2>2, <2>3 DEF Known
<1>4. \A r \in ListRefs(t) \cup ManifestRefs(t) \cup Entries(t) :
        r.path \notin {t2.metadata, snapshot.path, manifest.path, data.path}
  BY <1>3, GrownNew
<1>5. \A r \in ListRefs(t) \cup ManifestRefs(t) \cup Entries(t) : RefsOf(P, r.path) = RefsOf(O, r.path)
  BY <1>3 DEF RefsOf
<1>6. DeleteRefs(t) \subseteq Entries(t) /\ FileRefs(t) \subseteq Entries(t)
  BY DEF DeleteRefs, FileRefs
<1>7. LET kinds == <<{t2.metadata}, Paths(ListRefs(t2)), Paths(ManifestRefs(t2)),
                     Paths(DeleteRefs(t2)), Paths(FileRefs(t2))>>
      IN \A m, n \in 1..5 : m # n => kinds[m] \cap kinds[n] = {}
  <2> DEFINE kinds == <<{t2.metadata}, Paths(ListRefs(t2)), Paths(ManifestRefs(t2)),
                        Paths(DeleteRefs(t2)), Paths(FileRefs(t2))>>
  <2>1. /\ kinds[1] = {t2.metadata} /\ kinds[2] = Paths(ListRefs(t2))
        /\ kinds[3] = Paths(ManifestRefs(t2)) /\ kinds[4] = Paths(DeleteRefs(t2))
        /\ kinds[5] = Paths(FileRefs(t2))
    OBVIOUS
  <2>2. /\ Paths(ListRefs(t2)) = Paths(ListRefs(t)) \cup {snapshot.path}
        /\ Paths(ManifestRefs(t2)) = Paths(ManifestRefs(t)) \cup {manifest.path}
        /\ Paths(DeleteRefs(t2)) = Paths(DeleteRefs(t))
        /\ Paths(FileRefs(t2)) = Paths(FileRefs(t)) \cup {data.path}
    BY <1>1, <1>2
  <2>3. /\ Paths(ListRefs(t)) \cap Paths(ManifestRefs(t)) = {}
        /\ Paths(ListRefs(t)) \cap Paths(DeleteRefs(t)) = {}
        /\ Paths(ListRefs(t)) \cap Paths(FileRefs(t)) = {}
        /\ Paths(ManifestRefs(t)) \cap Paths(DeleteRefs(t)) = {}
        /\ Paths(ManifestRefs(t)) \cap Paths(FileRefs(t)) = {}
        /\ Paths(DeleteRefs(t)) \cap Paths(FileRefs(t)) = {}
    BY <1>6, Kinds
  <2>4. /\ Paths(ListRefs(t)) \cap {t2.metadata, snapshot.path, manifest.path, data.path} = {}
        /\ Paths(ManifestRefs(t)) \cap {t2.metadata, snapshot.path, manifest.path, data.path} = {}
        /\ Paths(DeleteRefs(t)) \cap {t2.metadata, snapshot.path, manifest.path, data.path} = {}
        /\ Paths(FileRefs(t)) \cap {t2.metadata, snapshot.path, manifest.path, data.path} = {}
    BY <1>4, <1>6
  <2>5. /\ snapshot.path \notin {t2.metadata, manifest.path, data.path}
        /\ manifest.path \notin {t2.metadata, data.path} /\ data.path # t2.metadata
    BY GrownNew
  <2> HIDE DEF kinds, Paths, snapshot, manifest, data
  <2>6. /\ kinds[1] \cap kinds[2] = {} /\ kinds[1] \cap kinds[3] = {}
        /\ kinds[1] \cap kinds[4] = {} /\ kinds[1] \cap kinds[5] = {}
    BY <2>1, <2>2, <2>4, <2>5
  <2>7. /\ kinds[2] \cap kinds[3] = {} /\ kinds[2] \cap kinds[4] = {}
        /\ kinds[2] \cap kinds[5] = {}
    BY <2>1, <2>2, <2>3, <2>4, <2>5
  <2>8. kinds[3] \cap kinds[4] = {} /\ kinds[3] \cap kinds[5] = {} /\ kinds[4] \cap kinds[5] = {}
    BY <2>1, <2>2, <2>3, <2>4, <2>5
  <2>9. \A m, n \in 1..5 : m # n => kinds[m] \cap kinds[n] = {}
    <3>1. \A m \in 1..5 : m = 1 \/ m = 2 \/ m = 3 \/ m = 4 \/ m = 5
      OBVIOUS
    <3>2. \A a, b : kinds[a] \cap kinds[b] = kinds[b] \cap kinds[a]
      OBVIOUS
    <3> QED
      BY <2>6, <2>7, <2>8, <3>1, <3>2
  <2> QED
    BY <2>9 DEF kinds
<1>8. \A r \in RefsOf(P, t2.metadata) : InSnapshot(r) => r.len = 0
  BY <1>1, GrownNew DEF Orderly, WellFormed
<1>9. \A r \in ManifestRefs(t2) : r.refd = {}
  BY <1>1, GrownNew DEF Orderly, WellFormed
<1>10. \A r \in ManifestRefs(t) : r.role = "manifest"
  BY DEF Orderly, WellFormed, ManifestRefs
<1>11. \A l \in ListRefs(t2) : \A r \in RefsOf(P, l.path) : r.role = "manifest"
  <2>1. \A l \in ListRefs(t) : \A r \in RefsOf(P, l.path) : r.role = "manifest"
    BY <1>5 DEF Orderly, WellFormed
  <2>2. \A r \in RefsOf(P, snapshot.path) : r.role = "manifest"
    BY <1>1, <1>10, GrownNew
  <2> QED
    BY <1>1, <2>1, <2>2
<1>12. \A e \in Entries(t2) : e.role \in {"data", "eq", "pos", "dv"}
  BY <1>1, GrownNew DEF Orderly, WellFormed
<1>13. \A e \in DeleteRefs(t2) : \A r \in RefsOf(P, e.path) : r.role = "row"
  BY <1>2, <1>5, <1>6 DEF Orderly, WellFormed
<1>14. \A e \in FileRefs(t2) : RefsOf(P, e.path) = {}
  BY <1>1, <1>2, <1>5, <1>6 DEF Orderly, WellFormed
<1> QED
  BY <1>7, <1>8, <1>9, <1>11, <1>12, <1>13, <1>14 DEF WellFormed

LEMMA GrownSelfContained ==
  ASSUME NEW t, IsTable(t), Orderly(t), NEW t2, Grown(t, t2)
  PROVE  SelfContained(t2)
<1> DEFINE P == Origin(t2)
<1>1. /\ ManifestRefs(t2) = ManifestRefs(t) \cup {AddedManifest(t)}
      /\ Entries(t2) = Entries(t) \cup {AddedData(t)}
      /\ RefsOf(P, AddedManifest(t).path) = {AddedData(t)}
  BY GrownRefs
<1>2. \A r \in ManifestRefs(t) \cup Entries(t) : RefsOf(P, r.path) = RefsOf(Origin(t), r.path)
  BY RefsKnown, GrownRefs DEF RefsOf
<1>3. \A r \in ManifestRefs(t2) : Matches(r.path) => \E e \in RefsOf(P, r.path) : Matches(e.path)
  <2>1. Matches(AddedManifest(t).path) => Matches(AddedData(t).path)
    BY GrownNew DEF Matches
  <2>2. \A r \in ManifestRefs(t) : Matches(r.path) => \E e \in RefsOf(P, r.path) : Matches(e.path)
    BY <1>2 DEF Orderly, SelfContained
  <2> QED
    BY <1>1, <2>1, <2>2
<1>4. DeleteRefs(t2) = DeleteRefs(t)
  BY <1>1, GrownNew DEF DeleteRefs
<1>5. \A e \in DeleteRefs(t2) : ~Matches(e.path) => \A r \in RefsOf(P, e.path) : ~Matches(r.path)
  BY <1>2, <1>4 DEF Orderly, SelfContained, DeleteRefs
<1> QED
  BY <1>3, <1>5 DEF SelfContained

\* What readers see of the grown table: the snapshot added, and those there were.
LEMMA GrownScan ==
  ASSUME NEW t, IsTable(t), Orderly(t), NEW t2, Grown(t, t2)
  PROVE  /\ 1 + Len(Origin(t)[t.metadata].refs) \in Wanted(t2) \ Wanted(t)
         /\ Scan(Origin(t2), t2.metadata, 1 + Len(Origin(t)[t.metadata].refs)).intact
         /\ \A m \in Wanted(t2) : m # 1 + Len(Origin(t)[t.metadata].refs) =>
              m \in Wanted(t) /\ Scan(Origin(t2), t2.metadata, m) = Scan(Origin(t), t.metadata, m)
<1> DEFINE O == Origin(t)
           P == Origin(t2)
           md == t.metadata
           key == t.commits[1]
           n == 1 + Len(O[md].refs)
           c == O[md].current
<1>1. /\ O \in [URI -> Body] /\ md \in URI /\ key \in CommitKeys /\ Apart(key)
      /\ Numbered(O, md) /\ O[md].size # Cut /\ KeysOf(key) \subseteq Future(t)
  BY OrderlyTypes, FirstCommit DEF Grown
<1>2. P = Appended(O, md, key) /\ t2.metadata = Placed(O, md, key.meta)
  BY DEF Grown
<1>3. \A m : \A r \in Followed(O, md, m) : r.path \in URI /\ r.path.key \notin KeysOf(key)
  BY <1>1, FollowedKnown DEF Known
<1>4. t.currentOnly \in BOOLEAN /\ t2.currentOnly = t.currentOnly
  BY DEF IsTable, Grown
<1> HIDE DEF key
<1>5. /\ n \in Selected(t.currentOnly, P[t2.metadata]) /\ n \notin Selected(t.currentOnly, O[md])
      /\ \A m \in Selected(t.currentOnly, P[t2.metadata]) : m # n => m \in Selected(t.currentOnly, O[md])
      /\ c \in Snapshots(O[md]) => c \in Selected(t.currentOnly, O[md])
  BY <1>1, <1>2, <1>4, CommitSelected
<1>6. /\ n \in Wanted(t2) /\ n \notin Wanted(t)
      /\ \A m \in Wanted(t2) : m # n => m \in Wanted(t)
      /\ c \in Snapshots(O[md]) => c \in Wanted(t)
  BY <1>4, <1>5 DEF Wanted
<1>7. \A m \in Wanted(t2) : m # n => Scan(P, t2.metadata, m) = Scan(O, md, m)
  BY <1>1, <1>2, <1>3, CommitOld
<1>8. Scan(P, t2.metadata, n).intact
  <2>1. Followed(P, t2.metadata, n)
          \subseteq {AddedSnapshot(t), AddedManifest(t), AddedData(t)} \cup Followed(O, md, c)
    <3>1. \A r \in Followed(O, md, c) : r.path.key \notin KeysOf(key)
      BY <1>3
    <3>2. Followed(P, t2.metadata, n)
            \subseteq {NewSnapshot(O, md, key), NewManifest(O, md, key), NewData(O, md, key)}
                      \cup Followed(O, md, c)
      BY <1>1, <1>2, <3>1, CommitNew
    <3> QED
      BY <3>2 DEF AddedSnapshot, AddedManifest, AddedData, key
  <2>2. \A r \in {AddedSnapshot(t), AddedManifest(t), AddedData(t)} : Resolves(P, r)
    BY GrownRefs, GrownNew DEF Resolves, Original, Cut
  <2>3. ASSUME NEW r \in Followed(O, md, c) PROVE Resolves(P, r)
    <3>1. c \in Snapshots(O[md])
      BY <2>3, SnapshotsFollowed
    <3>2. Resolves(O, r)
      BY <1>6, <3>1 DEF Orderly, Intact, Wanted, Scan
    <3>3. P[r.path] = O[r.path]
      BY FollowedKnown, GrownRefs
    <3> QED
      BY <3>2, <3>3 DEF Resolves
  <2>4. P[t2.metadata].size # Cut
    BY GrownRefs DEF Original, Cut
  <2>5. \A r \in Followed(P, t2.metadata, n) : Resolves(P, r)
    BY <2>1, <2>2, <2>3
  <2> QED
    BY <2>4, <2>5 DEF Scan
<1> QED
  BY <1>6, <1>7, <1>8

\* The number of the snapshot added is one a float64 holds.
LEMMA GrownExactIds ==
  ASSUME NEW t, IsTable(t), Orderly(t), NEW t2, Grown(t, t2)
  PROVE  ExactIds(t2)
<1> DEFINE O == Origin(t)
           P == Origin(t2)
           md == t.metadata
           key == t.commits[1]
           n == 1 + Len(O[md].refs)
<1>1. O \in [URI -> Body] /\ md \in URI /\ key \in CommitKeys /\ Apart(key)
  BY OrderlyTypes, FirstCommit DEF Grown
<1>2. P = Appended(O, md, key) /\ t2.metadata = Placed(O, md, key.meta)
  BY DEF Grown
<1>3. P[t2.metadata].current = n /\ Len(P[t2.metadata].refs) = n
  <2> HIDE DEF key, O
  <2>1. WritesCommit(O, md, key)
    BY <1>1, AppendedObjects
  <2> QED
    BY <1>2, <2>1 DEF WritesCommit
<1>4. /\ RefsOf(P, t2.metadata) = RefsOf(O, md) \cup {AddedSnapshot(t)}
      /\ AddedSnapshot(t).snap = n
  BY GrownRefs DEF AddedSnapshot, NewSnapshot, Named
<1>5. \A r \in RefsOf(O, md) : Rounded(r.snap) = r.snap
  BY DEF Orderly, ExactIds
<1>6. /\ Len(O[md].refs) + Len(t.commits) <= Exact /\ Len(t.commits) \in Nat \ {0}
      /\ Len(O[md].refs) \in Nat /\ Len(t2.commits) = Len(t.commits) - 1
  <2>1. t.commits \in Seq(CommitKeys) /\ t2.commits \in Seq(CommitKeys) /\ t.commits # <<>>
    BY DEF IsTable, CommitKeys, Grown
  <2>2. Len(t2.commits) = Len(t.commits) - 1
    <3>1. DOMAIN t2.commits = 1..(Len(t.commits) - 1)
      BY DEF Grown
    <3>2. Len(t.commits) - 1 \in Nat
      BY <2>1
    <3> QED
      BY <2>1, <3>1, <3>2
  <2>3. Len(O[md].refs) \in Nat
    BY <1>1, RefsType
  <2> QED
    <3>1. Len(O[md].refs) + Len(t.commits) <= Exact
      BY DEF Orderly, ExactIds, Grown
    <3>2. Len(t.commits) \in Nat \ {0}
      BY <2>1
    <3> QED
      BY <2>2, <2>3, <3>1, <3>2
<1>7. n <= Exact /\ n + Len(t2.commits) <= Exact
  <2> DEFINE x == Len(O[md].refs)
             y == Len(t.commits)
             z == Len(t2.commits)
  <2>1. x + y <= Exact /\ y \in Nat \ {0} /\ x \in Nat /\ z = y - 1 /\ n = 1 + x
    BY <1>6
  <2> HIDE DEF x, y, z, n
  <2> QED
    BY <2>1, ExactAssumption DEF z
<1> HIDE DEF O, P, md
<1>8. Rounded(n) = n
  BY <1>7 DEF Rounded
<1> QED
  BY <1>3, <1>4, <1>5, <1>7, <1>8 DEF ExactIds, P, O, md

\* A table stays orderly as its writers commit: the objects of an append are of
\* the kind their references say, under the source prefix, can be read, and name
\* nothing that was not there (Commit, what LoadTable of a re-run finds).
THEOREM CommitsKeepOrder ==
  ASSUME NEW t, IsTable(t), Orderly(t), NEW t2, Grown(t, t2)
  PROVE  IsTable(t2) /\ Orderly(t2)
<1>1. Intact(t2)
  <2>1. ASSUME NEW m \in Wanted(t2) PROVE Scan(Origin(t2), t2.metadata, m).intact
    <3>1. m # 1 + Len(Origin(t)[t.metadata].refs) => Scan(Origin(t), t.metadata, m).intact
      BY GrownScan DEF Orderly, Intact, Wanted
    <3> QED
      BY <3>1, GrownScan
  <2> QED
    BY <2>1 DEF Intact, Wanted
<1> QED
  BY <1>1, GrownTable, GrownOutside, GrownWellFormed, GrownSelfContained, GrownExactIds DEF Orderly

=============================================================================
