----------------------------- MODULE TableFormat -----------------------------
(***************************************************************************)
(* Iceberg tables in object storage as this program and its readers see     *)
(* them: URIs, the references of one object to others, the mapping of        *)
(* references from the source to the target prefix, and a reader's scan.     *)
(***************************************************************************)
EXTENDS Naturals, Sequences

CONSTANTS
  Key,    \* object keys; a migration keeps the key and moves the prefix
  Exact   \* 2^53: a float64 holds every integer up to it

ASSUME ExactAssumption == Exact \in Nat

\* Prefixes are told apart as validate() in cmd/bergrb/main.go guarantees.
URI == [base : {"source", "target", "elsewhere"}, key : Key]

\* PrefixMapping.
Matches(u) == u.base = "source"
RestOnly(u) == IF Matches(u) THEN [base |-> "", key |-> u.key] ELSE u
Apply(u) == IF Matches(u) THEN [base |-> "target", key |-> u.key] ELSE u
ApplyAll(S) == {Apply(u) : u \in S}

-----------------------------------------------------------------------------
(* Objects *)

Roles ==
  {"list", "manifest",           \* in metadata.json and in manifest lists
   "location",                   \* location, write.*: where writers put new files
   "summary",                    \* a path in a snapshot's summary
   "stats",                      \* any other path of metadata.json
   "data", "eq", "pos", "dv",    \* in manifests
   "row"}                        \* in position-delete files

\* A reference from one object to another.
Ref == [role : Roles,
        snap : Nat,             \* metadata.json: of which snapshot
        path : URI,
        len : Nat,              \* recorded length, 0 where none is
        live : BOOLEAN,         \* manifests: FALSE of an entry of status DELETED
        bounds : SUBSET URI,    \* "pos": bounds of the file_path column
        refd : SUBSET URI]      \* "pos": referenced_data_file

\* An object: its references, its length and, in metadata.json, its
\* current-snapshot-id (0: null).  The length is Cut (missing or truncated),
\* the one it was written with, or the one this program re-encodes it to.
Cut == 0
Original == 1
Reencoded == 2
Body == [refs : Seq(Ref), size : {Cut, Original, Reencoded}, current : Nat]
Nothing == [refs |-> <<>>, size |-> Cut, current |-> 0]

InSnapshot(r) == r.role \in {"list", "manifest"}
Snapshots(b) == {b.refs[n].snap : n \in {m \in DOMAIN b.refs : InSnapshot(b.refs[m])}}

\* selectSnapshots.
Selected(currentOnly, b) ==
  IF currentOnly /\ b.current \in Snapshots(b) THEN {b.current} ELSE Snapshots(b)

-----------------------------------------------------------------------------
(* The mapping of references *)

\* path and referenced_data_file.
Moved(e) == [e EXCEPT !.path = Apply(@), !.refd = ApplyAll(@)]
MovedAll(refs) == [n \in DOMAIN refs |-> Moved(refs[n])]

\* The rows of a position-delete file; a row of neither prefix is an error.
MovedRows(rows) == [n \in DOMAIN rows |-> [rows[n] EXCEPT !.path = Apply(@)]]
ForeignRows(rows) == \E n \in DOMAIN rows : rows[n].path.base = "elsewhere"

\* fixupPositionDeleteEntryStats: the bounds of the file_path column and the
\* length of the delete file.
SizeOnly(e, size) == [e EXCEPT !.len = size]
FixedUp(e, size) == [e EXCEPT !.bounds = ApplyAll(@), !.len = size]

\* A V3 deletion vector: ErrUnsupportedFeature.
Unsupported(e) == e.role = "dv"

\* A number of metadata.json as encoding/json reads it into an any, a float64,
\* and writes it: past Exact odd ones give way to an even neighbour, as they do up
\* to 2 * Exact; farther up more of them share one float64.
Rounded(n) ==
  IF n <= Exact \/ n % 2 = 0 THEN n ELSE IF n % 4 = 1 THEN n - 1 ELSE n + 1
AsFloats(refs) == [n \in DOMAIN refs |-> [refs[n] EXCEPT !.snap = Rounded(@)]]

\* The fields in which object u's references differ before and after.
Changes(u, before, after) ==
  {<<u, n, "path">> : n \in {m \in DOMAIN before : after[m].path # before[m].path}}
  \cup {<<u, n, "refd">> : n \in {m \in DOMAIN before : after[m].refd # before[m].refd}}

-----------------------------------------------------------------------------
(* What a reader makes of a table in store s *)

RefsOf(s, u) == {s[u].refs[n] : n \in DOMAIN s[u].refs}

\* A reference resolves: the object is whole and as long as recorded.
Resolves(s, r) == s[r.path].size # Cut /\ r.len \in {0, s[r.path].size}

ManifestsOf(s, m, n) ==
  LET mine == {r \in RefsOf(s, m) : r.snap = n /\ InSnapshot(r)}
  IN {r \in mine : r.role = "manifest"}
     \cup UNION {RefsOf(s, r.path) : r \in {q \in mine : q.role = "list"}}

EntriesOf(s, m, n) ==
  {e \in UNION {RefsOf(s, r.path) : r \in ManifestsOf(s, m, n)} : e.live}

\* Every reference a scan of snapshot n follows.
Followed(s, m, n) ==
  {r \in RefsOf(s, m) : r.snap = n /\ r.role = "list"}
  \cup ManifestsOf(s, m, n) \cup EntriesOf(s, m, n)

\* Position-delete file p applies to data file d: engines first match the
\* entry's bounds and referenced_data_file, then the rows.
AppliesTo(s, p, d) ==
  /\ \A b \in p.bounds : b.base = d.path.base
  /\ p.refd # {} => d.path \in p.refd
  /\ \E row \in RefsOf(s, p.path) : row.path = d.path

\* Snapshot n of the table whose metadata is m, as readers see it: can every
\* file be read, and which files does it hold with which deletes.
Scan(s, m, n) ==
  LET es == EntriesOf(s, m, n)
      pos == {e \in es : e.role = "pos"}
  IN [intact |-> s[m].size # Cut /\ \A r \in Followed(s, m, n) : Resolves(s, r),
      files |-> {[key |-> d.path.key, role |-> d.role,
                  deletes |-> {p.path.key : p \in {q \in pos : AppliesTo(s, q, d)}}]
                 : d \in {e \in es : e.role \in {"data", "eq"}}}]
=============================================================================
