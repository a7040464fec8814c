--------------------------- MODULE TableMigration ---------------------------
(***************************************************************************)
(* Engine.RewriteTable of internal/rewrite, driven by migrateOne of          *)
(* cmd/bergrb, for one table: the walk over snapshots, manifest lists,       *)
(* manifests and position-delete files, the PUTs under the target prefix,    *)
(* each followed by the HEAD of putAndVerify, the swap and the validation,    *)
(* over several processes, dry runs among them, of which any may fail or be   *)
(* killed at any step, while the table's writers may commit.                 *)
(*                                                                         *)
(* A step of the process is at most one object read, written or checked.     *)
(***************************************************************************)
EXTENDS TableFormat

CONSTANTS
  Tables,      \* the tables a behaviour may be about
  CopyFresh,   \* whether what writers added is copied before each process, and
               \* writers then wait for its LoadTable
  WritersPaused, \* whether they wait from the drift check to the write, too
  MaxFaults,   \* bound: failures of storage or catalog calls, and kills
  MaxRuns,     \* bound: live processes started one after the other
  MaxDryRuns   \* bound: dry runs

ASSUME BoundsAssumption ==
  /\ {MaxFaults, MaxRuns, MaxDryRuns} \subseteq Nat
  /\ {CopyFresh, WritersPaused} \subseteq BOOLEAN

KeysOf(commit) == {commit.meta, commit.list, commit.man, commit.data}
Apart(commit) ==
  /\ commit.data \notin {commit.man, commit.list, commit.meta}
  /\ commit.man \notin {commit.list, commit.meta}
  /\ commit.list # commit.meta

\* A table: its objects (a function on some URIs), its metadata location, the
\* commits its writers are about to make, each of fresh objects, and what the
\* operator gives: --current-snapshot-only, --no-validate, --max-object-size and
\* whether each prefix has an endpoint of its own (--source-, --target-endpoint).
IsTable(t) ==
  /\ DOMAIN t.objects \subseteq URI
  /\ \A u \in DOMAIN t.objects : t.objects[u] \in Body
  /\ t.metadata \in URI
  /\ t.commits \in Seq([meta : Key, list : Key, man : Key, data : Key])
  /\ \A c \in DOMAIN t.commits :
       /\ Apart(t.commits[c])
       /\ \A x \in KeysOf(t.commits[c]) :
            /\ \A u \in DOMAIN t.objects \cup {t.metadata} : x # u.key
            /\ \A d \in 1..(c - 1) : x \notin KeysOf(t.commits[d])
  /\ t.currentOnly \in BOOLEAN /\ t.noValidate \in BOOLEAN /\ t.split \in BOOLEAN
  /\ t.maxObjectSize \in Nat

ASSUME TablesAssumption == \A t \in Tables : IsTable(t)

-----------------------------------------------------------------------------
VARIABLES
  table,    \* the table this behaviour is about
  store,    \* the object storage of both sides
  pointer,  \* the catalog's metadata-location for the table
  \* the process
  pc,
  dry,      \* --dry-run
  old,      \* tbl.MetadataLocation, as loaded
  new,      \* res.NewMetadataLocation
  i,        \* the reference of metadata.json in hand
  list,     \* the manifests of that snapshot, rewritten up to j
  j,
  man,      \* the entries of manifest j, rewritten up to k
  k,
  dirty,    \* RewriteManifest: mutated
  changed,  \* RewriteTable: subtreeChanged
  put,      \* the object last PUT: its level, URI and length
  hits,     \* dry run: the fields reported as rewritten
  report,   \* how the last process ended
  \* history and bounds
  foretold, \* what dry runs that ended cleanly reported, of which metadata
  commits, faults, runs, dryRuns

walkVars == <<new, i, list, j, man, k, dirty, changed, put, hits>>
procVars == <<dry, old, walkVars>>
bounds == <<commits, faults, runs, dryRuns>>
vars == <<table, store, pointer, pc, procVars, report, foretold, bounds>>

Refusals == {"scope", "unsupported", "foreign", "outside"}
Outcomes ==
  {"none", "ok", "noop", "skipped", "rehearsed", "failed", "drift", "invalid", "killed"}
  \cup Refusals

Hit == URI \X Nat \X {"path", "refd"}

TypeOK ==
  /\ table \in Tables
  /\ store \in [URI -> Body]
  /\ pointer \in URI
  /\ pc \in {"down", "load", "walk", "list", "manifest", "verify", "swap", "write",
             "validate"}
  /\ dry \in BOOLEAN
  /\ old \in URI /\ new \in URI
  /\ i \in Nat \ {0} /\ j \in Nat \ {0} /\ k \in Nat \ {0}
  /\ list \in Seq(Ref) /\ man \in Seq(Ref)
  /\ dirty \in BOOLEAN /\ changed \in BOOLEAN
  /\ put \in [level : {"none", "delete", "manifest", "list", "metadata"},
              uri : URI, size : {Cut, Original, Reencoded}]
  /\ hits \subseteq Hit
  /\ report \in Outcomes
  /\ foretold \subseteq [of : URI, hits : SUBSET Hit]
  /\ commits \in Nat /\ faults \in Nat /\ runs \in Nat /\ dryRuns \in Nat

\* The object storage before the migration.
Origin(t) == [u \in URI |-> IF u \in DOMAIN t.objects THEN t.objects[u] ELSE Nothing]

\* The bulk byte copy (external) has put every object of the source prefix
\* under the target prefix, or every object but the metadata.
Copied(t, all) ==
  LET s == Origin(t)
      from(u) == [base |-> "source", key |-> u.key]
  IN [u \in URI |->
        IF /\ u.base = "target" /\ s[u] = Nothing
           /\ all \/ \A r \in RefsOf(s, from(u)) : r.role = "row"
        THEN s[from(u)]
        ELSE s[u]]

NoObject == [level |-> "none", uri |-> table.metadata, size |-> Cut]

Idle ==
  /\ dry = FALSE
  /\ old = table.metadata /\ new = table.metadata
  /\ i = 1 /\ list = <<>> /\ j = 1 /\ man = <<>> /\ k = 1
  /\ dirty = FALSE /\ changed = FALSE
  /\ put = NoObject
  /\ hits = {}

Init ==
  /\ table \in Tables
  /\ \E all \in BOOLEAN : store = Copied(table, all)
  /\ pointer = table.metadata
  /\ pc = "down"
  /\ Idle
  /\ report = "none"
  /\ foretold = {}
  /\ commits = 0 /\ faults = 0 /\ runs = 0 /\ dryRuns = 0

-----------------------------------------------------------------------------
(* Steps of a process *)

Finish(o) ==
  /\ pc' = "down"
  /\ report' = o
  /\ dry' = FALSE
  /\ old' = table.metadata /\ new' = table.metadata
  /\ i' = 1 /\ list' = <<>> /\ j' = 1 /\ man' = <<>> /\ k' = 1
  /\ dirty' = FALSE /\ changed' = FALSE
  /\ put' = NoObject
  /\ hits' = {}

\* HEAD finds an object; GET reads one that is not above --max-object-size.
Exists(u) == store[u].size # Cut
Fits(u) == store[u].size <= table.maxObjectSize

\* What Engine.Source sees, and what Engine.Target does.
BySource(u) == table.split => u.base # "target"
ByTarget(u) == table.split => u.base = "target"

Present(u) == BySource(u) /\ Exists(u)
Readable(u) == Present(u) /\ Fits(u)
TargetPresent(u) == ByTarget(u) /\ Exists(u)
TargetReadable(u) == TargetPresent(u) /\ Fits(u)

\* The metadata file cannot be rewritten at another URI than its own.
NeverOutside(u) == FALSE
OutsidePrefix(u) == ~Matches(u)

\* migrateOne's early return.
NeverMigrated(u) == FALSE
Migrated(u) == u.base = "target"

\* What writers added to the source since the first bulk copy, copied as well.
Recopied ==
  LET added == UNION {KeysOf(table.commits[c]) : c \in 1..commits}
  IN [u \in URI |->
        IF u.base = "target" /\ u.key \in added /\ store[u] = Nothing
        THEN store[[u EXCEPT !.base = "source"]]
        ELSE store[u]]

Boot(dryRun) ==
  /\ pc = "down"
  /\ pc' = "load"
  /\ dry' = dryRun
  /\ store' = IF CopyFresh /\ ~Migrated(pointer) THEN Recopied ELSE store
  /\ UNCHANGED <<table, pointer, old, walkVars, report, foretold, commits, faults>>

Start ==
  /\ runs < MaxRuns
  /\ runs' = runs + 1
  /\ Boot(FALSE)
  /\ UNCHANGED dryRuns

StartDry ==
  /\ dryRuns < MaxDryRuns
  /\ dryRuns' = dryRuns + 1
  /\ Boot(TRUE)
  /\ UNCHANGED runs

\* LoadTable, then the top of RewriteTable: metadata.json is read and walked.
Load ==
  /\ pc = "load"
  /\ \/ Migrated(pointer) /\ Finish("skipped")
     \/ ~Migrated(pointer) /\ ~Matches(pointer) /\ Finish("scope")
     \/ Matches(pointer) /\ ~Readable(pointer) /\ Finish("failed")
     \/ /\ Matches(pointer)
        /\ Readable(pointer)
        /\ old' = pointer
        /\ hits' = LET refs == store[pointer].refs
                   IN IF dry THEN {h \in Changes(pointer, refs, MovedAll(refs)) :
                                     refs[h[2]].role # "summary"}
                      ELSE {}
        /\ pc' = "walk"
        /\ UNCHANGED <<dry, new, i, list, j, man, k, dirty, changed, put, report>>
  /\ UNCHANGED <<table, store, pointer, foretold, bounds>>

\* PutObject: the body lands whole, or storage silently cuts it short.
Put(level, uri, body) ==
  /\ pc' = "verify"
  /\ put' = [level |-> level, uri |-> uri, size |-> Reencoded]
  /\ \/ /\ store' = [store EXCEPT ![uri] = [body EXCEPT !.size = Reencoded]]
        /\ UNCHANGED faults
     \/ /\ faults < MaxFaults
        /\ faults' = faults + 1
        /\ store' = [store EXCEPT ![uri] = [body EXCEPT !.size = Cut]]
  /\ UNCHANGED <<dry, old, i, list, j, man, k, dirty, changed, hits, report>>

Avro(refs) == [refs |-> refs, size |-> Cut, current |-> 0]

NoPut == UNCHANGED <<store, faults>>

-----------------------------------------------------------------------------
(* Position-delete files and manifests: RewriteManifest and WalkManifest *)

\* Entry k becomes e.
Mutate(e) ==
  /\ man' = [man EXCEPT ![k] = e]
  /\ dirty' = (dirty \/ e # man[k])
  /\ k' = k + 1
  /\ pc' = "manifest"
  /\ UNCHANGED <<dry, old, new, i, list, j, changed, put, hits, report>>

\* The GET of manifest j.
ReadManifest ==
  /\ pc = "list"
  /\ j <= Len(list)
  /\ \/ ~Readable(list[j].path) /\ Finish("failed")
     \/ /\ Readable(list[j].path)
        /\ man' = store[list[j].path].refs
        /\ k' = 1
        /\ dirty' = FALSE
        /\ pc' = "manifest"
        /\ UNCHANGED <<dry, old, new, i, list, j, changed, put, hits, report>>
  /\ UNCHANGED <<table, store, pointer, foretold, bounds>>

\* A data file, an equality-delete file, or a delete file out of scope.
AllButDeletes(e) == ~(e.role = "pos" /\ Matches(e.path))
PathOnly(e) == e.role \in {"data", "eq"} \/ (e.role = "pos" /\ ~Matches(e.path))

\* The fields of entry k that a dry run reports as rewritten, and a report that
\* leaves referenced_data_file out.
PathHits == {<<list[j].path, k, "path">> : e \in {f \in {man[k]} : Matches(f.path)}}
EntryHits == {h \in Changes(list[j].path, man, MovedAll(man)) : h[2] = k}

Reported ==
  /\ hits' = hits \cup EntryHits
  /\ k' = k + 1
  /\ UNCHANGED <<pc, dry, old, new, i, list, j, man, dirty, changed, put, report>>

PlainEntry ==
  /\ pc = "manifest"
  /\ k <= Len(man)
  /\ PathOnly(man[k])
  /\ \/ dry /\ Reported
     \/ ~dry /\ Mutate(Moved(man[k]))
  /\ NoPut
  /\ UNCHANGED <<table, pointer, foretold, commits, runs, dryRuns>>

RefuseEntry ==
  /\ pc = "manifest"
  /\ k <= Len(man)
  /\ Unsupported(man[k])
  /\ Finish("unsupported")
  /\ UNCHANGED <<table, store, pointer, foretold, bounds>>

\* rewriteFilePathColumn, of RewritePositionDeleteFile and of its dry-run
\* counterpart.
AnyRows(rows) == FALSE
WalkRefuses(rows) == ForeignRows(rows)

\* RewritePositionDeleteFile: the body is read, its rows moved, and PUT unless
\* no row changed.
DeleteFile ==
  /\ pc = "manifest"
  /\ k <= Len(man)
  /\ man[k].role = "pos"
  /\ Matches(man[k].path)
  /\ LET body == store[man[k].path]
         rows == MovedRows(body.refs)
     IN
     \/ ~Readable(man[k].path) /\ Finish("failed") /\ NoPut
     \/ /\ Readable(man[k].path)
        /\ IF dry THEN WalkRefuses(body.refs) ELSE ForeignRows(body.refs)
        /\ Finish("foreign")
        /\ NoPut
     \/ /\ Readable(man[k].path)
        /\ dry /\ ~WalkRefuses(body.refs)
        /\ Reported
        /\ NoPut
     \/ /\ Readable(man[k].path)
        /\ ~dry /\ ~ForeignRows(body.refs)
        /\ rows = body.refs
        /\ Mutate(Moved(FixedUp(man[k], body.size)))
        /\ NoPut
     \/ /\ Readable(man[k].path)
        /\ ~dry /\ ~ForeignRows(body.refs)
        /\ rows # body.refs
        /\ Put("delete", Apply(man[k].path), Avro(rows))
        /\ UNCHANGED new
  /\ UNCHANGED <<table, pointer, foretold, commits, runs, dryRuns>>

\* ManifestWriter.Add (external) keeps the status an entry was read with.
Added(e) == e

\* manifest_path and manifest_length of a rewritten manifest.
LengthOnly(r, uri, size) == [r EXCEPT !.len = size]
Relisted(r, uri, size) == [r EXCEPT !.path = uri, !.len = size]

\* Manifest j is dealt with; its reference in the list becomes r.
Relist(r) ==
  /\ list' = [list EXCEPT ![j] = r]
  /\ changed' = (changed \/ r # list[j])
  /\ j' = j + 1
  /\ pc' = "list"
  /\ UNCHANGED <<dry, old, new, i, man, k, dirty, put, hits, report>>

\* Every entry is dealt with: the manifest is left alone, refused, or PUT.
CloseManifest ==
  /\ pc = "manifest"
  /\ k > Len(man)
  /\ LET uri == list[j].path IN
     \/ ~dirty /\ Relist(list[j]) /\ NoPut
     \/ dirty /\ OutsidePrefix(uri) /\ Finish("outside") /\ NoPut
     \/ /\ dirty /\ ~OutsidePrefix(uri)
        /\ Put("manifest", Apply(uri), Avro([n \in DOMAIN man |-> Added(man[n])]))
        /\ UNCHANGED new
  /\ UNCHANGED <<table, pointer, foretold, commits, runs, dryRuns>>

-----------------------------------------------------------------------------
(* Manifest lists and metadata.json: RewriteTable *)

Metadata == store[old]

\* Whether reference n of metadata.json is among the snapshots to walk.
Walked(n) ==
  /\ InSnapshot(Metadata.refs[n])
  /\ Metadata.refs[n].snap \in Selected(table.currentOnly, Metadata)

NextSnapshot ==
  /\ i' = i + 1
  /\ pc' = "walk"
  /\ UNCHANGED <<dry, old, new, list, j, man, k, dirty, changed, put, hits, report>>

\* A snapshot is opened: its manifest list is read or, for a V1 manifest of
\* its flat list, the manifest's HEAD makes a descriptor.
OpenSnapshot ==
  /\ pc = "walk"
  /\ i <= Len(Metadata.refs)
  /\ LET r == Metadata.refs[i] IN
     \/ ~Walked(i) /\ NextSnapshot
     \/ /\ Walked(i)
        /\ ~(IF r.role = "list" THEN Readable(r.path) ELSE Present(r.path))
        /\ Finish("failed")
     \/ /\ Walked(i)
        /\ r.role = "list"
        /\ Readable(r.path)
        /\ list' = store[r.path].refs
        /\ hits' = IF dry THEN hits \cup Changes(r.path, list', MovedAll(list')) ELSE {}
        /\ j' = 1 /\ changed' = FALSE
        /\ pc' = "list"
        /\ UNCHANGED <<dry, old, new, i, man, k, dirty, put, report>>
     \/ /\ Walked(i)
        /\ r.role = "manifest"
        /\ Present(r.path)
        /\ list' = <<[r EXCEPT !.len = store[r.path].size]>>
        /\ j' = 1 /\ changed' = FALSE
        /\ pc' = "list"
        /\ UNCHANGED <<dry, old, new, i, man, k, dirty, put, hits, report>>
  /\ UNCHANGED <<table, store, pointer, foretold, bounds>>

\* Every manifest is dealt with.  A list is PUT when something under it or its
\* own URI changed; a V1 flat list is part of metadata.json.
CloseList ==
  /\ pc = "list"
  /\ j > Len(list)
  /\ LET r == Metadata.refs[i] IN
     \/ /\ r.role = "manifest" \/ dry
        /\ NextSnapshot
        /\ NoPut
     \/ /\ r.role = "list" /\ ~dry
        /\ ~changed /\ Apply(r.path) = r.path
        /\ NextSnapshot
        /\ NoPut
     \/ /\ r.role = "list" /\ ~dry
        /\ changed /\ OutsidePrefix(r.path)
        /\ Finish("outside")
        /\ NoPut
     \/ /\ r.role = "list" /\ ~dry
        /\ Apply(r.path) # r.path \/ (changed /\ ~OutsidePrefix(r.path))
        /\ Put("list", Apply(r.path), Avro(list))
        /\ UNCHANGED new
  /\ UNCHANGED <<table, pointer, foretold, commits, runs, dryRuns>>

\* A dry run has walked everything.
EndDryRun ==
  /\ pc = "walk"
  /\ i > Len(Metadata.refs)
  /\ dry
  /\ foretold' = foretold \cup {[of |-> old, hits |-> hits]}
  /\ Finish("rehearsed")
  /\ UNCHANGED <<table, store, pointer, bounds>>

\* ApplyMetadataJSONMapping.
Mapped(refs) == MovedAll(refs)

\* The document marshalled: its paths mapped, its numbers those of a float64.
Marshalled(b) == [b EXCEPT !.refs = AsFloats(Mapped(@)), !.current = Rounded(@)]

\* RewriteMetadataJSON: metadata.json is read again, every path in it mapped;
\* when none changes the old location is returned and the swap is a no-op.
RewriteMetadataJSON ==
  /\ pc = "walk"
  /\ i > Len(Metadata.refs)
  /\ ~dry
  /\ LET mapped == Mapped(Metadata.refs) IN
     \/ ~Readable(old) /\ Finish("failed") /\ NoPut
     \/ /\ Readable(old)
        /\ mapped = Metadata.refs
        /\ new' = old
        /\ pc' = "swap"
        /\ NoPut
        /\ UNCHANGED <<dry, old, i, list, j, man, k, dirty, changed, put, hits, report>>
     \/ /\ Readable(old)
        /\ mapped # Metadata.refs
        /\ new' = Apply(old)
        /\ Put("metadata", Apply(old), Marshalled(Metadata))
  /\ UNCHANGED <<table, pointer, foretold, commits, runs, dryRuns>>

\* putAndVerify's HEAD: the object is as long as the body was.
Landed == store[put.uri].size = put.size

\* The HEAD after a PUT, and what the caller does with the new object.
Verify ==
  /\ pc = "verify"
  /\ \/ ~Landed /\ Finish("failed")
     \/ /\ Landed
        /\ \/ put.level = "delete" /\ Mutate(Moved(FixedUp(man[k], put.size)))
           \/ put.level = "manifest" /\ Relist(Relisted(list[j], put.uri, put.size))
           \/ put.level = "list" /\ NextSnapshot
           \/ /\ put.level = "metadata"
              /\ pc' = "swap"
              /\ UNCHANGED <<procVars, report>>
  /\ UNCHANGED <<table, store, pointer, foretold, bounds>>

-----------------------------------------------------------------------------
(* The swap, the validation, and the ways a process ends *)

\* SwapMetadataLocation's reload.
Drifted == pointer # old

\* SwapMetadataLocation returns nil, the end of a run with --no-validate.
Swapped(o) ==
  IF table.noValidate THEN Finish(o) ELSE pc' = "validate" /\ UNCHANGED <<procVars, report>>

\* SwapMetadataLocation up to its first write: nothing to do, or the reload.
Swap ==
  /\ pc = "swap"
  /\ \/ new = old /\ Swapped("noop")
     \/ new # old /\ Drifted /\ Finish("drift")
     \/ /\ new # old /\ ~Drifted
        /\ pc' = "write"
        /\ UNCHANGED <<procVars, report>>
  /\ UNCHANGED <<table, store, pointer, foretold, bounds>>

\* The rest of it, whose exchanges are those of CatalogSwap: the table is
\* registered at the new location, whatever it was at; a write that fails leaves
\* the pointer alone, has moved it, or is rolled back to the old location.
Write ==
  /\ pc = "write"
  /\ \/ pointer' = new /\ Swapped("ok") /\ UNCHANGED faults
     \/ /\ faults < MaxFaults
        /\ faults' = faults + 1
        /\ pointer' \in {pointer, new, old}
        /\ Finish("failed")
  /\ UNCHANGED <<table, store, foretold, commits, runs, dryRuns>>

\* pickValidationSnapshot: the current snapshot or else the last.
Sampled(b) ==
  LET refs == b.refs
      lists == {n \in DOMAIN refs : InSnapshot(refs[n])}
      wanted == {n \in lists : refs[n].snap = b.current}
  IN IF wanted # {} THEN CHOOSE n \in wanted : TRUE
     ELSE CHOOSE n \in lists : \A m \in lists : m <= n

\* The entry whose file is looked for.
LastEntry(entries) == entries[Len(entries)]
FirstEntry(entries) == entries[1]

\* metadata.json, the sampled snapshot's list and that one's first manifest can
\* be read, and the first file of that manifest is there, all at the target.
ValidateAfterSwap ==
  LET snap == store[new].refs[Sampled(store[new])]
      manifests == store[snap.path].refs
      entries == store[manifests[1].path].refs
  IN /\ TargetReadable(new)
     /\ Snapshots(store[new]) # {} /\ snap.role = "list" =>
          /\ TargetReadable(snap.path)
          /\ manifests # <<>> =>
               /\ TargetReadable(manifests[1].path)
               /\ entries # <<>> => TargetPresent(FirstEntry(entries).path)

\* tbl.CurrentSnapshotID, of the metadata loaded, and that of the metadata at
\* the pointer now.
SameSnapshot == store[pointer].current = Metadata.current

\* validateAfterSwap: the catalog's half, then the storage's.
Validate ==
  /\ pc = "validate"
  /\ Finish(CASE pointer # new \/ ~SameSnapshot \/ ~ValidateAfterSwap -> "invalid"
              [] new = old -> "noop"
              [] OTHER -> "ok")
  /\ UNCHANGED <<table, store, pointer, foretold, bounds>>

\* A GET, HEAD or PUT fails, or a call of the catalog but for the writes; the
\* process exits with the error.
Fail ==
  /\ pc \notin {"down", "write"}
  /\ pc = "swap" => new # old
  /\ faults < MaxFaults
  /\ faults' = faults + 1
  /\ Finish(IF pc = "validate" THEN "invalid" ELSE "failed")
  /\ UNCHANGED <<table, store, pointer, foretold, commits, runs, dryRuns>>

\* SIGKILL, OOM or eviction.
Kill ==
  /\ pc # "down"
  /\ faults < MaxFaults
  /\ faults' = faults + 1
  /\ Finish("killed")
  /\ UNCHANGED <<table, store, pointer, foretold, commits, runs, dryRuns>>

-----------------------------------------------------------------------------
(* The table's writers (external) *)

\* Where writers put a new file of the table whose metadata is u: under the
\* table's location or, when it has none, where u is.
Placed(s, u, x) ==
  LET refs == s[u].refs
      hints == {refs[n].path.base : n \in {m \in DOMAIN refs : refs[m].role = "location"}}
  IN [base |-> IF hints = {} THEN u.base ELSE CHOOSE h \in hints : TRUE, key |-> x]

Named(role, n, u, len) ==
  [role |-> role, snap |-> n, path |-> u, len |-> len, live |-> TRUE, bounds |-> {}, refd |-> {}]
Written(refs, n) == [refs |-> refs, size |-> Original, current |-> n]

\* The manifests of the current snapshot, which the next one keeps.
Older(s, u) ==
  LET refs == s[u].refs
      current == {n \in DOMAIN refs : refs[n].snap = s[u].current /\ refs[n].role = "list"}
  IN IF current = {} THEN <<>> ELSE s[refs[CHOOSE n \in current : TRUE].path].refs

\* Storage s with a data file appended, under fresh keys, to the table whose
\* metadata is u; its snapshot gets a number no snapshot has.
Appended(s, u, key) ==
  LET refs == s[u].refs
      n == 1 + Len(refs)
      at(x) == Placed(s, u, x)
      data == Named("data", 0, at(key.data), Original)
      manifest == Named("manifest", 0, at(key.man), Original)
      snapshot == Named("list", n, at(key.list), 0)
  IN [s EXCEPT ![at(key.data)] = Written(<<>>, 0),
               ![at(key.man)] = Written(<<data>>, 0),
               ![at(key.list)] = Written(<<manifest>> \o Older(s, u), 0),
               ![at(key.meta)] = Written(Append(refs, snapshot), n)]

\* A writer appends a data file: fresh objects, and the pointer moved to the new
\* metadata, as one step of the catalog.
Commit ==
  /\ commits < Len(table.commits)
  /\ CopyFresh => pc # "load"
  /\ WritersPaused => pc # "write"
  /\ Exists(pointer)
  /\ LET refs == store[pointer].refs
         key == table.commits[commits + 1]
     IN /\ \A n \in DOMAIN refs : refs[n].role # "manifest" /\ refs[n].snap < 1 + Len(refs)
        /\ store' = Appended(store, pointer, key)
        /\ pointer' = Placed(store, pointer, key.meta)
  /\ commits' = commits + 1
  /\ UNCHANGED <<table, pc, procVars, report, foretold, faults, runs, dryRuns>>

Process ==
  \/ Load \/ OpenSnapshot \/ ReadManifest \/ PlainEntry \/ RefuseEntry \/ DeleteFile
  \/ CloseManifest \/ CloseList \/ EndDryRun \/ RewriteMetadataJSON \/ Verify
  \/ Swap \/ Write \/ Validate

Next == Process \/ Start \/ StartDry \/ Fail \/ Kill \/ Commit

\* The process never stays put while it has a step, and a Job whose pod failed
\* or died is started again (restartPolicy: OnFailure).
Restart == Start /\ report \notin {"ok", "skipped", "noop"}

Spec == Init /\ [][Next]_vars /\ WF_vars(Process) /\ WF_vars(Restart)

-----------------------------------------------------------------------------
(* Correctness *)

\* The snapshots the run was asked to carry over, and what readers see of them.
Kept == Selected(table.currentOnly, store[pointer])
Seen == [n \in Kept |-> Scan(store, pointer, n)]

View == INSTANCE TableView WITH side <- pointer.base, seen <- Seen

\* Readers never see a table change but by a commit of its writers: whatever a
\* process reads, PUTs, leaves half-done or swaps, every snapshot keeps its
\* files, their deletes, and whether all of them resolve (put.go:8,
\* manifest_write.go:299, walker.go:51).
ReadersSeeTheTable == View!Spec

\* No step of the program writes outside the target prefix: whatever happens
\* before the swap, the live source table is as it was (ErrOutsidePrefix,
\* walker.go:63).
SourceUntouched ==
  [][Commit \/ \A u \in URI : u.base # "target" => store'[u] = store[u]]_vars

\* Once the pointer is at the target, nothing a scan follows is under the
\* source prefix, and no writer puts a file there: the source can be retired
\* (design.md, D1).
NothingLeftBehind ==
  pointer.base = "target" =>
    \A n \in Kept : \A r \in Followed(store, pointer, n) : ~Matches(r.path)

\* A table with a deletion vector is never swapped, however often and from
\* whatever intermediate state it is retried (walker.go:57).
NeverHalfRebased ==
  pointer.base = "target" =>
    \A n \in Kept : \A e \in EntriesOf(store, pointer, n) : ~Unsupported(e)

\* What a dry run of this metadata reported as rewritten is what has changed
\* when everything is PUT and the swap is next, field by field, but for
\* snapshot summaries (walker.go:48, manifest.go:95).
DryRunForetells ==
  LET image(u) == IF new = old THEN u ELSE Apply(u)
      Rewritten(u) == {h \in Changes(u, store[u].refs, store[image(u)].refs) :
                         store[u].refs[h[2]].role # "summary"}
      below == {r \in UNION {Followed(store, old, n) :
                              n \in Selected(table.currentOnly, Metadata)} :
                  r.role \in {"list", "manifest"}}
  IN pc = "swap" =>
       \A f \in foretold : f.of = old =>
         f.hits = Rewritten(old) \cup UNION {Rewritten(r.path) : r \in below}

\* After a dry run of this metadata that ended cleanly, a live run may still be
\* refused for a file outside the prefix, drift, or meet a fault, but not be
\* refused a body or an entry (positiondelete.go:148).
DryRunPredicts ==
  [][(\E f \in foretold : f.of = old) /\ ~dry /\ pc \notin {"down", "load"} /\ pc' = "down" =>
       \/ report' \in {"ok", "noop", "outside", "drift", "invalid", "killed"}
       \/ report' = "failed" /\ (faults' > faults \/ pc = "verify")]_vars

\* A validation that fails with nothing else amiss is about a table readers
\* cannot read, but for four false alarms: a current snapshot whose id a float64
\* does not hold (main.go:476), an object sampled that the target's client cannot
\* see (validate.go:51), a first entry of status DELETED (validate.go:76), and a
\* cap that the rewritten objects exceed (s3.go:97).
AlarmsAreReal ==
  [][pc = "validate" /\ pc' = "down" /\ report' = "invalid" /\ faults' = faults =>
       \/ pointer # new
       \/ table.maxObjectSize < Reencoded
       \/ new # old /\ Rounded(Metadata.current) # Metadata.current
       \/ ~ByTarget(new)
       \/ \E n \in Kept :
            \/ ~Seen[n].intact
            \/ \E r \in Followed(store, pointer, n) : ~ByTarget(r.path)
            \/ \E r \in ManifestsOf(store, pointer, n) :
                 LET entries == store[r.path].refs IN entries # <<>> /\ ~entries[1].live]_vars

\* Processes that fail or die, with whatever they leave under the target, and
\* are restarted end in a migrated table and a clean exit (testing.md:19).
Converges ==
  <>(pointer.base = "target" /\ pc = "down" /\ report \in {"ok", "skipped"})

-----------------------------------------------------------------------------
(* What the proofs assume of a table, and what the rewriter does not check:  *)
(* where it fails the claims below fail                                      *)

ListRefs(t) == {r \in RefsOf(Origin(t), t.metadata) : r.role = "list"}
ManifestRefs(t) ==
  {r \in RefsOf(Origin(t), t.metadata) : r.role = "manifest"}
  \cup UNION {RefsOf(Origin(t), r.path) : r \in ListRefs(t)}
Entries(t) == UNION {RefsOf(Origin(t), r.path) : r \in ManifestRefs(t)}
DeleteRefs(t) == {e \in Entries(t) : e.role = "pos"}
FileRefs(t) == {e \in Entries(t) : e.role # "pos"}

\* The target prefix is used by nobody but the bulk copy.
Outside(t) ==
  /\ t.metadata.base # "target"
  /\ \A u \in DOMAIN t.objects :
       /\ u.base # "target"
       /\ \A r \in RefsOf(Origin(t), u) :
            \A v \in {r.path} \cup r.bounds \cup r.refd : v.base # "target"

\* Writers who commit put new files under the source prefix, none of them named
\* before; what they add is copied before the next process, and they are paused
\* for the write of the swap (catalog.go:66).
Future(t) == UNION {KeysOf(t.commits[c]) : c \in DOMAIN t.commits}
Writable(t) ==
  t.commits # <<>> =>
    /\ CopyFresh /\ WritersPaused
    /\ \A r \in RefsOf(Origin(t), t.metadata) : r.role = "location" => Matches(r.path)
    /\ \A u \in DOMAIN t.objects : \A r \in RefsOf(Origin(t), u) : r.path.key \notin Future(t)

\* Objects are what their references say.
WellFormed(t) ==
  LET Paths(refs) == {r.path : r \in refs}
      kinds == <<{t.metadata}, Paths(ListRefs(t)), Paths(ManifestRefs(t)),
                 Paths(DeleteRefs(t)), Paths(FileRefs(t))>>
  IN /\ \A m, n \in 1..5 : m # n => kinds[m] \cap kinds[n] = {}
     /\ \A r \in RefsOf(Origin(t), t.metadata) : InSnapshot(r) => r.len = 0
     /\ \A r \in ManifestRefs(t) : r.refd = {}
     /\ \A l \in ListRefs(t) : \A r \in RefsOf(Origin(t), l.path) : r.role = "manifest"
     /\ \A e \in Entries(t) : e.role \in {"data", "eq", "pos", "dv"}
     /\ \A e \in DeleteRefs(t) : \A r \in RefsOf(Origin(t), e.path) : r.role = "row"
     /\ \A e \in FileRefs(t) : RefsOf(Origin(t), e.path) = {}

\* Whatever is under the prefix is about the prefix (a manifest names a file of
\* it), and whatever is about the prefix is under it (a delete file's rows).
SelfContained(t) ==
  /\ \A r \in ManifestRefs(t) :
       Matches(r.path) => \E e \in RefsOf(Origin(t), r.path) : Matches(e.path)
  /\ \A e \in DeleteRefs(t) :
       ~Matches(e.path) => \A r \in RefsOf(Origin(t), e.path) : ~Matches(r.path)

\* Readers can read every snapshot to be carried over.
Intact(t) ==
  \A n \in Selected(t.currentOnly, Origin(t)[t.metadata]) :
    Scan(Origin(t), t.metadata, n).intact

\* A float64 holds the ids of its snapshots, and of those writers will add.
ExactIds(t) ==
  LET b == Origin(t)[t.metadata]
  IN /\ Rounded(b.current) = b.current
     /\ \A r \in RefsOf(Origin(t), t.metadata) : Rounded(r.snap) = r.snap
     /\ t.commits # <<>> => Len(b.refs) + Len(t.commits) <= Exact

Orderly(t) ==
  /\ Outside(t) /\ Writable(t) /\ WellFormed(t) /\ SelfContained(t) /\ Intact(t)
  /\ ExactIds(t)

(* Claims of comments and documents that some executions refute *)

\* rest.go:329: after ErrCatalogDrift "a fresh LoadTable will pick up the new
\* metadata, walk it, and try the swap again".
RerunRecovers ==
  [][report = "drift" /\ pc = "write" /\ pointer' = new =>
       \A n \in DOMAIN Seen' : Seen'[n].intact]_vars

\* design.md:6: "The table identity, history, schema, and snapshot IDs are
\* preserved."
SnapshotIdsPreserved ==
  [][pc = "write" /\ pointer' # pointer =>
       Snapshots(store[pointer']) = Snapshots(store[pointer])]_vars
=============================================================================
