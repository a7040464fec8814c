-------------------------- MODULE MCTableMigration --------------------------
(***************************************************************************)
(* Small tables for TableMigration, each with one feature of the format or   *)
(* of a table's history that the rewriter treats differently.               *)
(***************************************************************************)
EXTENDS TableMigration, TLC

MCKey == {"meta", "list1", "list2", "manA", "manB", "data1", "data2", "del", "root",
          "meta+", "list+", "man+", "data+"}

OneCommit == <<[meta |-> "meta+", list |-> "list+", man |-> "man+", data |-> "data+"]>>

Src(key) == [base |-> "source", key |-> key]
Tgt(key) == [base |-> "target", key |-> key]
Ext(key) == [base |-> "elsewhere", key |-> key]

To(role, u) ==
  [role |-> role, snap |-> 0, path |-> u, len |-> 0, live |-> TRUE,
   bounds |-> {}, refd |-> {}]
Of(n, r) == [r EXCEPT !.snap = n]
\* A reference with a recorded length, a position-delete entry, and one of
\* status DELETED.
To1(role, u) == [To(role, u) EXCEPT !.len = Original]
Deletes(u, b, d) == [To1("pos", u) EXCEPT !.bounds = b, !.refd = d]
Dead(e) == [e EXCEPT !.live = FALSE]

Object(refs) == [refs |-> refs, size |-> Original, current |-> 0]
Metadata1(current, refs) == [Object(refs) EXCEPT !.current = current]

Table(objects) ==
  [objects |-> objects, metadata |-> Src("meta"), commits |-> <<>>, currentOnly |-> FALSE,
   noValidate |-> FALSE, maxObjectSize |-> Reencoded, split |-> TRUE]

\* Both prefixes behind one endpoint.
OneEndpoint(t) == [t EXCEPT !.split = FALSE]

\* Two data files, and one delete file for the first.
Files ==
  Src("data1") :> Object(<<>>) @@ Src("data2") :> Object(<<>>)
  @@ Ext("data1") :> Object(<<>>)
  @@ Src("del") :> Object(<<To("row", Src("data1"))>>)
ManA == Src("manA") :> Object(<<To1("data", Src("data1"))>>)
ManB == Src("manB") :> Object(<<Deletes(Src("del"), {Src("data1")}, {Src("data1")})>>)
ListA == Src("list1") :> Object(<<To1("manifest", Src("manA"))>>)
ListAB == Src("list1") :> Object(<<To1("manifest", Src("manA")), To1("manifest", Src("manB"))>>)
OneSnapshot(u) ==
  Src("meta") :> Metadata1(1, <<To("location", Src("root")), Of(1, To("list", u))>>)
OneList == OneSnapshot(Src("list1"))

\* V2: two snapshots that share a manifest, the second with a delete file.
Shared == Table(
  Files @@ ManA @@ ManB @@ ListA
  @@ Src("list2") :> Object(<<To1("manifest", Src("manA")), To1("manifest", Src("manB"))>>)
  @@ Src("meta") :> Metadata1(2, <<To("location", Src("root")),
                                   Of(1, To("list", Src("list1"))),
                                   Of(2, To("list", Src("list2"))),
                                   Of(2, To("summary", Src("root")))>>))

CurrentOnly == OneEndpoint([Shared EXCEPT !.currentOnly = TRUE])

\* A cap that the source's objects just keep and rewritten ones exceed.
AtCap == [Shared EXCEPT !.maxObjectSize = Original]

\* A table whose writers are not paused.
Busy(t) == [t EXCEPT !.commits = OneCommit]

\* V1: manifests listed in metadata.json, one with an equality-delete entry, and
\* --current-snapshot-only with a current-snapshot-id no snapshot has.
FlatV1 == [Table(
  Files @@ ManA
  @@ Src("manB") :> Object(<<To1("eq", Src("data2")), To1("data", Src("data2"))>>)
  @@ Src("meta") :> Metadata1(3, <<Of(1, To("manifest", Src("manA"))),
                                   Of(2, To("manifest", Src("manB")))>>))
  EXCEPT !.currentOnly = TRUE]

\* A manifest with one entry added from outside, --current-snapshot-only and
\* current-snapshot-id null.
MixedEntries == [Table(
  Files @@ ListA
  @@ Src("manA") :> Object(<<To1("data", Ext("data1")), To1("data", Src("data2"))>>)
  @@ Src("meta") :> Metadata1(0, <<Of(1, To("list", Src("list1")))>>))
  EXCEPT !.noValidate = TRUE, !.currentOnly = TRUE]

\* A list and manifest elsewhere, about files elsewhere: left alone.
Detached == Table(
  Files @@ OneSnapshot(Ext("list1"))
  @@ Ext("manA") :> Object(<<To1("data", Ext("data1"))>>)
  @@ Ext("list1") :> Object(<<To1("manifest", Ext("manA"))>>))

\* A delete file whose rows an earlier partial migration already moved.
MovedDelete == Table(
  [Files EXCEPT ![Src("del")] = Object(<<To("row", Tgt("data1"))>>)]
  @@ OneList @@ ManB
  @@ Src("list1") :> Object(<<To1("manifest", Src("manB"))>>))

\* Entries removed by the current snapshot, their files expired since: one that
\* validation comes across first, or not first.
Removed(first) == OneEndpoint(Table(
  [u \in DOMAIN Files \ {Src("data2")} |-> Files[u]] @@ OneList @@ ListA
  @@ Src("manA") :> Object(
       IF first THEN <<Dead(To1("data", Src("data2"))), To1("data", Src("data1"))>>
       ELSE <<To1("data", Src("data1")), Dead(To1("data", Src("data2")))>>)))

\* A table without snapshots.
Empty == Table(Src("meta") :> Metadata1(0, <<To("location", Src("root"))>>))

GoodTables == {Shared, Busy(CurrentOnly), Busy(AtCap), FlatV1, MixedEntries, Detached,
               MovedDelete, Removed(TRUE), Busy(Removed(FALSE)), Busy(Empty)}

\* Nothing in metadata.json is under the source prefix.
Nameless == Table(
  Files
  @@ Ext("manA") :> Object(<<To1("data", Ext("data1"))>>)
  @@ Ext("list1") :> Object(<<To1("manifest", Ext("manA"))>>)
  @@ Src("meta") :> Metadata1(1, <<To("location", Ext("root")), Of(1, To("list", Ext("list1")))>>))

\* A manifest elsewhere that names files of the source, in a list that is not.
ManifestOutside == Table(
  Files @@ OneList @@ ManB
  @@ Ext("manA") :> Object(<<To1("data", Src("data1"))>>)
  @@ Src("list1") :> Object(<<To1("manifest", Src("manB")), To1("manifest", Ext("manA"))>>))

\* A list elsewhere that names a manifest of the source.
ListOutside == Table(
  Files @@ ManA @@ OneSnapshot(Ext("list1"))
  @@ Ext("list1") :> Object(<<To1("manifest", Src("manA"))>>))

\* V3: the second manifest holds a deletion vector.
DeletionVector == Table(
  [Files EXCEPT ![Src("del")] = Object(<<>>)] @@ OneList @@ ManA @@ ListAB
  @@ Src("manB") :> Object(<<[To1("dv", Src("del")) EXCEPT !.refd = {Src("data1")}]>>))

\* A delete file with a row of neither prefix.
ForeignRow == Table(
  [Files EXCEPT ![Src("del")] = Object(<<To("row", Src("data1")), To("row", Ext("data1"))>>)]
  @@ OneList @@ ManA @@ ListAB
  @@ Src("manB") :> Object(<<Deletes(Src("del"), {Src("data1"), Ext("data1")}, {})>>))

\* An entry removed long ago, for a delete file that has expired since.
ExpiredDelete == Table(
  [u \in DOMAIN Files \ {Src("del")} |-> Files[u]] @@ OneList @@ ManA @@ ListAB
  @@ Src("manB") :> Object(<<Dead(Deletes(Src("del"), {}, {}))>>))

\* A manifest above --max-object-size.
TooLarge == [Table(
  Files @@ OneList @@ ManB
  @@ Src("manA") :> [Object(<<To1("data", Src("data1"))>>) EXCEPT !.size = Reencoded]
  @@ Src("list1") :> Object(<<To1("manifest", Src("manB")),
                              [To("manifest", Src("manA")) EXCEPT !.len = Reencoded]>>))
  EXCEPT !.maxObjectSize = Original]

\* The pointer is under neither prefix.
Elsewhere == [Table(Ext("meta") :> Object(<<>>)) EXCEPT !.metadata = Ext("meta")]

RefusedTables == {Busy(Nameless), ManifestOutside, ListOutside, DeletionVector, ForeignRow,
                  ExpiredDelete, TooLarge, Elsewhere}
AllTables == GoodTables \cup RefusedTables

\* Converges, of the tables that are not refused.
GoodTablesConverge == table \in GoodTables => Converges

BusyOnly == {Busy(Shared)}

\* What the proofs assume holds of these tables, and not of those of the claims.
PausedTables == {Shared, CurrentOnly, AtCap, FlatV1, MixedEntries, Detached, Removed(TRUE),
                 Removed(FALSE), Empty, Nameless, ManifestOutside, ListOutside,
                 DeletionVector, ForeignRow, ExpiredDelete, TooLarge, Elsewhere}
BusyTables == {Busy(t) : t \in PausedTables \ {Nameless}}
OrderlyTables == PausedTables \cup IF CopyFresh THEN BusyTables ELSE {}

\* A manifest of the source whose every entry is elsewhere.
ForeignEntriesOnly == {Table(
  Files @@ OneList @@ ManB
  @@ Src("manA") :> Object(<<To1("data", Ext("data1"))>>)
  @@ Src("list1") :> Object(<<To1("manifest", Src("manA")), To1("manifest", Src("manB"))>>))}

\* A delete file elsewhere, for a data file of the source.
DeleteOutsideOnly == {Table(
  Files @@ OneList @@ ManA @@ ListAB
  @@ Ext("del") :> Object(<<To("row", Src("data1"))>>)
  @@ Src("manB") :> Object(<<Deletes(Ext("del"), {Src("data1")}, {})>>))}

\* Snapshots whose ids no float64 holds.
LargeIds == {Table(
  Files @@ ManA @@ ListA
  @@ Src("list2") :> Object(<<To1("manifest", Src("manA"))>>)
  @@ Src("meta") :> Metadata1(Exact + 3, <<Of(Exact + 1, To("list", Src("list1"))),
                                           Of(Exact + 3, To("list", Src("list2")))>>))}

ASSUME OrderlyAssumption ==
  /\ \A t \in OrderlyTables : Orderly(t)
  /\ \A t \in ForeignEntriesOnly \cup DeleteOutsideOnly \cup LargeIds : ~Orderly(t)
  /\ ~CopyFresh => \A t \in BusyOnly : ~Orderly(t)
=============================================================================
