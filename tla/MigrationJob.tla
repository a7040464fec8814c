----------------------------- MODULE MigrationJob -----------------------------
(***************************************************************************)
(* The loop of run in cmd/bergrb over the tables of one invocation, its exit *)
(* code, and the Kubernetes Job of k8s/ that starts the binary again until   *)
(* it exits 0 or the Job's backoffLimit is spent.  The rewrite of a table is *)
(* one step; the swap goes through the calls of CatalogSwap, with what the   *)
(* client learns of the server and with calls served after their pod is gone. *)
(* Writers are paused.                                                       *)
(***************************************************************************)
EXTENDS Naturals

CONSTANTS
  Table,
  NoTable,
  BackoffLimit,  \* of the Job
  MaxFaults      \* bound: failed calls, signals and kills

ASSUME TableAssumption == NoTable \notin Table
ASSUME BoundsAssumption == {BackoffLimit, MaxFaults} \subseteq Nat

VARIABLES
  \* given: RewriteTable refuses some tables, validation fails for others, and
  \* the metadata of others names nothing under the source prefix
  refused, broken, unmapped,
  keepGoing,   \* --keep-going
  named,       \* the table of --table, or {} for --all-tables
  server,      \* how the catalog treats register?overwrite=true
  \* the catalog
  registered,  \* tables it knows
  side,        \* where the metadata of each is, or last was
  late,        \* calls nobody waits for any more, that it may still serve
  \* the process
  pc,
  selected,    \* the tables of this run
  remaining,   \* those still to come
  table,       \* the one in hand
  mode,        \* Client.swapMode
  failed,      \* firstErr # nil
  cancelled,   \* ctx, by SIGINT or SIGTERM
  exit,        \* of the last process
  \* the Job
  job,
  failures,    \* of its pod; also the number of the present pod
  \* history and bound
  stranded,    \* tables whose drop some pod did not see through to a register
  unsound,     \* tables found invalid by some process
  faults

given == <<refused, broken, unmapped, keepGoing, named, server>>
catalogVars == <<registered, side, late>>
processVars == <<pc, selected, remaining, table, mode, failed, cancelled>>
jobVars == <<exit, job, failures>>
history == <<stranded, unsound>>
vars == <<given, catalogVars, processVars, jobVars, history, faults>>

Calls == [op : {"overwrite", "drop", "register", "restore"}, table : Table, pod : Nat]

TypeOK ==
  /\ refused \subseteq Table /\ broken \subseteq Table /\ unmapped \subseteq Table
  /\ keepGoing \in BOOLEAN
  /\ named \subseteq Table
  /\ server \in {"overwrites", "ignores", "rejects"}
  /\ registered \subseteq Table
  /\ side \in [Table -> {"source", "target"}]
  /\ late \subseteq Calls
  /\ pc \in {"down", "select", "next", "rewrite", "swap", "overwrite", "drop",
             "register", "restore", "validate"}
  /\ selected \subseteq Table /\ remaining \subseteq selected
  /\ table \in Table \cup {NoTable}
  /\ mode \in {"unknown", "atomic", "dropRegister"}
  /\ failed \in BOOLEAN /\ cancelled \in BOOLEAN
  /\ exit \in {"none", "zero", "nonzero"}
  /\ job \in {"active", "succeeded", "failed"}
  /\ failures \in 0..(BackoffLimit + 1)
  /\ stranded \subseteq Table /\ unsound \subseteq Table
  /\ faults \in Nat

Init ==
  /\ refused \in SUBSET Table
  /\ broken \in SUBSET (Table \ refused)
  /\ unmapped \in SUBSET (Table \ refused)
  /\ keepGoing \in BOOLEAN
  /\ named \in {{}} \cup {{t} : t \in Table}
  /\ server \in {"overwrites", "ignores", "rejects"}
  /\ registered = Table
  /\ side = [t \in Table |-> "source"]
  /\ late = {}
  /\ pc = "down"
  /\ selected = {} /\ remaining = {}
  /\ table = NoTable
  /\ mode = "unknown"
  /\ failed = FALSE /\ cancelled = FALSE
  /\ exit = "none"
  /\ job = "active"
  /\ failures = 0
  /\ stranded = {} /\ unsound = {}
  /\ faults = 0

-----------------------------------------------------------------------------
(* The catalog server (external): CatalogSwap's, less its locations *)

Fault == faults < MaxFaults /\ faults' = faults + 1

Call(op) == [op |-> op, table |-> table, pod |-> failures]

Accepts(c) ==
  \/ c.op = "drop" /\ c.table \in registered
  \/ c.op \in {"register", "restore"} /\ c.table \notin registered
  \/ c.op = "overwrite" /\ server = "overwrites"
  \/ c.op = "overwrite" /\ server = "ignores" /\ c.table \notin registered

Refusal(c) ==
  IF c.op = "drop" THEN "404"
  ELSE IF c.op = "overwrite" /\ server = "rejects" THEN "400" ELSE "409"

\* "restore" is the register of the old location, the rollback.
Perform(c) ==
  IF c.op = "drop"
  THEN registered' = registered \ {c.table} /\ UNCHANGED side
  ELSE /\ registered' = registered \cup {c.table}
       /\ side' = [side EXCEPT ![c.table] = IF c.op = "restore" THEN "source" ELSE "target"]

Statuses == {"ok", "lost", "400", "404", "409", "500"}

\* A call of the swap, on a context that ignores ctx's cancellation.
Answer(c, s) ==
  \/ s = "ok" /\ Accepts(c) /\ Perform(c) /\ UNCHANGED <<late, faults>>
  \/ s = Refusal(c) /\ ~Accepts(c) /\ UNCHANGED <<catalogVars, faults>>
  \/ s \in {"400", "409", "500"} /\ Fault /\ UNCHANGED catalogVars
  \/ s = "lost" /\ Fault /\ late' = late \cup {c} /\ UNCHANGED <<registered, side>>

\* The same under ctx: once it is cancelled the call errors, sent or not.
AnswerUnlessCancelled(c, s) ==
  \/ ~cancelled /\ Answer(c, s)
  \/ /\ cancelled /\ s = "lost"
     /\ late' \in {late, late \cup {c}}
     /\ UNCHANGED <<registered, side, faults>>

ServeLate ==
  /\ \E c \in late :
       /\ late' = late \ {c}
       /\ IF Accepts(c) THEN Perform(c) ELSE UNCHANGED <<registered, side>>
  /\ UNCHANGED <<given, processVars, jobVars, history, faults>>

-----------------------------------------------------------------------------
\* A GET, or a step of the engine, that may fail does, or must: ctx is cancelled.
Trouble == IF cancelled THEN UNCHANGED faults ELSE Fault

Calm == ~cancelled /\ UNCHANGED faults

Goto(label) ==
  pc' = label /\ UNCHANGED <<selected, remaining, table, failed, cancelled, jobVars>>

\* The process ends; the Job's controller counts the failures of the pod.
Exit(code) ==
  /\ exit' = code
  /\ pc' = "down"
  /\ selected' = selected
  /\ remaining' = {}
  /\ table' = NoTable
  /\ failed' = FALSE /\ cancelled' = FALSE
  /\ failures' = IF code = "zero" THEN failures ELSE failures + 1
  /\ job' = IF code = "zero" THEN "succeeded"
            ELSE IF failures' > BackoffLimit THEN "failed" ELSE "active"

\* run's return value once the loop is over.
ErrIfNotKeepGoing == failed /\ ~keepGoing
FirstErr == failed

\* What becomes of the loop when table t fails.
AlwaysReturn == TRUE
ReturnEarly == ~keepGoing

TableFails(t) ==
  IF ReturnEarly
  THEN Exit("nonzero")
  ELSE /\ pc' = "next"
       /\ failed' = TRUE
       /\ remaining' = remaining \ {t}
       /\ table' = NoTable
       /\ UNCHANGED <<selected, cancelled, jobVars>>

TableDone(t) ==
  /\ pc' = "next"
  /\ remaining' = remaining \ {t}
  /\ table' = NoTable
  /\ UNCHANGED <<selected, failed, cancelled, jobVars>>

\* LoadTable answers 404.
NotFound(t) == TableFails(t)

-----------------------------------------------------------------------------
\* The Job starts its pod, again after a failure, with a fresh client.
StartPod ==
  /\ pc = "down"
  /\ job = "active"
  /\ Goto("select")
  /\ mode' = "unknown"
  /\ UNCHANGED <<given, catalogVars, history, faults>>

\* selectBatches: the --table, or what the catalog lists now.
OnlyFirst(S) == IF S = {} THEN {} ELSE {CHOOSE t \in S : TRUE}
Listed(S) == S

SelectTables ==
  /\ pc = "select"
  /\ \/ Trouble /\ Exit("nonzero")
     \/ /\ Calm
        /\ selected' = IF named # {} THEN named ELSE Listed(registered)
        /\ remaining' = selected'
        /\ pc' = "next"
        /\ UNCHANGED <<table, failed, cancelled, jobVars>>
  /\ UNCHANGED <<given, catalogVars, mode, history>>

\* migrateOne of the next table, up to its LoadTable.
LoadTable ==
  /\ pc = "next"
  /\ \E t \in remaining :
       \/ Trouble /\ TableFails(t)
       \/ Calm /\ t \notin registered /\ NotFound(t)
       \/ Calm /\ t \in registered /\ side[t] = "target" /\ TableDone(t)
       \/ /\ Calm
          /\ t \in registered
          /\ side[t] = "source"
          /\ table' = t
          /\ pc' = "rewrite"
          /\ UNCHANGED <<selected, remaining, failed, cancelled, jobVars>>
  /\ UNCHANGED <<given, catalogVars, mode, history>>

LoopOver ==
  /\ pc = "next"
  /\ remaining = {}
  /\ Exit(IF FirstErr THEN "nonzero" ELSE "zero")
  /\ UNCHANGED <<given, catalogVars, mode, history, faults>>

RewriteTable ==
  /\ pc = "rewrite"
  /\ \/ Trouble /\ TableFails(table)
     \/ Calm /\ table \in refused /\ TableFails(table)
     \/ Calm /\ table \notin refused /\ Goto("swap")
  /\ UNCHANGED <<given, catalogVars, mode, history>>

\* SwapMetadataLocation up to its first write: nothing to do when the rewrite
\* found nothing to map, and otherwise the pre-swap reload.
Swap ==
  /\ pc = "swap"
  /\ \/ table \in unmapped /\ Goto("validate") /\ UNCHANGED faults
     \/ table \notin unmapped /\ Trouble /\ TableFails(table)
     \/ /\ table \notin unmapped /\ Calm
        /\ IF table \in registered /\ side[table] = "source"
           THEN Goto(IF mode = "dropRegister" THEN "drop" ELSE "overwrite")
           ELSE TableFails(table)
  /\ UNCHANGED <<given, catalogVars, mode, history>>

\* register?overwrite=true.  Its first refusal with 400 or 409 is taken for a
\* server that cannot overwrite; the 409 is remembered, for every table to come.
Overwrite ==
  /\ pc = "overwrite"
  /\ \E s \in Statuses :
       /\ AnswerUnlessCancelled(Call("overwrite"), s)
       /\ \/ s = "ok" /\ mode' = "atomic" /\ Goto("validate")
          \/ /\ s \in {"400", "409"} /\ mode = "unknown"
             /\ mode' = IF s = "409" THEN "dropRegister" ELSE mode
             /\ Goto("drop")
          \/ /\ s # "ok" /\ ~(s \in {"400", "409"} /\ mode = "unknown")
             /\ TableFails(table)
             /\ UNCHANGED mode
  /\ UNCHANGED <<given, history>>

\* swapByDropRegister.  A drop that errors, applied or not, ends it.
Drop ==
  /\ pc = "drop"
  /\ \E s \in Statuses :
       /\ Answer(Call("drop"), s)
       /\ IF s = "ok" THEN Goto("register") ELSE TableFails(table)
       /\ stranded' = IF s = "lost" THEN stranded \cup {table} ELSE stranded
  /\ UNCHANGED <<given, mode, unsound>>

Register ==
  /\ pc = "register"
  /\ \E s \in Statuses :
       /\ Answer(Call("register"), s)
       /\ Goto(IF s = "ok" THEN "validate" ELSE "restore")
  /\ UNCHANGED <<given, mode, history>>

Restore ==
  /\ pc = "restore"
  /\ \E s \in Statuses :
       /\ Answer(Call("restore"), s)
       /\ stranded' = IF s = "ok" THEN stranded ELSE stranded \cup {table}
  /\ TableFails(table)
  /\ UNCHANGED <<given, mode, unsound>>

Migrated(t) == t \in registered /\ side[t] = "target"

\* Registered where SwapMetadataLocation leaves it when it returns no error.
Settled(t) == IF t \in unmapped THEN t \in registered /\ side[t] = "source" ELSE Migrated(t)

\* validateAfterSwap: the pointer is the one expected, and leads to a data file.
Validate ==
  /\ pc = "validate"
  /\ \/ Trouble /\ TableFails(table) /\ UNCHANGED unsound
     \/ Calm /\ ~Settled(table) /\ TableFails(table) /\ UNCHANGED unsound
     \/ /\ Calm /\ Settled(table) /\ table \in broken
        /\ TableFails(table)
        /\ unsound' = unsound \cup {table}
     \/ /\ Calm /\ Settled(table) /\ table \notin broken
        /\ TableDone(table)
        /\ UNCHANGED unsound
  /\ UNCHANGED <<given, catalogVars, mode, stranded>>

\* SIGINT or SIGTERM, from an operator or an eviction.
Interrupt ==
  /\ pc # "down"
  /\ ~cancelled
  /\ Fault
  /\ cancelled' = TRUE
  /\ UNCHANGED <<given, catalogVars, pc, selected, remaining, table, mode, failed,
                 jobVars, history>>

\* SIGKILL or OOM; the call the process is about may or may not have left it.
Kill ==
  /\ pc # "down"
  /\ Fault
  /\ Exit("nonzero")
  /\ late' \in {late} \cup
               {late \cup {Call(op)} :
                  op \in {pc} \cap {"overwrite", "drop", "register", "restore"}}
  /\ stranded' = IF pc \in {"drop", "register", "restore"}
                 THEN stranded \cup {table} ELSE stranded
  /\ UNCHANGED <<given, registered, side, mode, unsound>>

Progress ==
  \/ StartPod \/ SelectTables \/ LoadTable \/ LoopOver \/ RewriteTable
  \/ Swap \/ Overwrite \/ Drop \/ Register \/ Restore \/ Validate

Next == Progress \/ ServeLate \/ Interrupt \/ Kill

\* The process takes its next step, and the Job's controller its.
Spec == Init /\ [][Next]_vars /\ WF_vars(Progress)

-----------------------------------------------------------------------------
\* What a run, or its Job, may take for dealt with: a table that is where its
\* swap was to leave it, or one that a pod failed, or was killed, with the drop
\* sent and no register answered (main.go:359, rest.go:421-432).  The logs of
\* that pod name it; nothing a later pod does need come across it, and a drop
\* left behind may be served after a later pod has swapped the table.
DealtWith(t) == Settled(t) \/ t \in stranded

\* Exit code 0 is about the tables the run selected, all of them, whatever
\* failed before, under --keep-going too: each is at the target, or at the
\* source with metadata that names nothing to rebase (metadata_write.go:40).
ExitHonest == exit = "zero" => \A t \in selected : DealtWith(t)

\* An --all-tables Job that succeeded has dealt with every table, those an
\* earlier pod failed or was killed at too, on every kind of catalog: a later pod
\* misses no table but one whose drop an earlier pod did not see through.
JobRebasesAll == named = {} /\ job = "succeeded" => \A t \in Table : DealtWith(t)

\* Under --keep-going one table that is refused or invalid keeps no other from
\* its migration, before the Job gives up.
OthersGetThere ==
  keepGoing /\ named = {} => <>(\A t \in Table \ refused : DealtWith(t))

(* A claim of a document that some executions refute *)

\* k8s/README.md:31: "Job `Succeeded > 0`" means "rewrite complete", with the
\* validation that completes a table's rewrite.
JobSucceededMeansValidated == job = "succeeded" => unsound = {}
=============================================================================
