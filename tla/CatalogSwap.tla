----------------------------- MODULE CatalogSwap -----------------------------
(***************************************************************************)
(* The REST catalog client of internal/catalog/rest, driven by migrateOne   *)
(* of cmd/bergrb, against an Iceberg REST catalog, the table's writers, a  *)
(* network that loses and delays calls, SIGINT and SIGKILL.                *)
(*                                                                         *)
(* One process handles the tables of its run one after the other.  For    *)
(* each it loads the pointer, lets the engine rewrite the metadata, and     *)
(* calls SwapMetadataLocation: drift check, then either one                 *)
(* register?overwrite=true or drop + register (+ rollback register).        *)
(* A step of the client is one HTTP exchange.                               *)
(***************************************************************************)
EXTENDS Naturals

CONSTANTS
  Table,          \* identifiers of the tables the run covers
  Servers,        \* how the catalog may treat ?overwrite=true
  Rejections,     \* statuses with which it may refuse a request at any time
  Lossy,          \* may a call fail in transport, its effect still to come?
  Interruptible,  \* may SIGINT/SIGTERM arrive?
  Killable,       \* may SIGKILL, OOM or a pod eviction end the process?
  WritersPaused,  \* do writers respect the pause while a swap is under way?
  MaxFaults,      \* bound: injected rejections and transport failures
  MaxCommits,     \* bound: commits by writers, per table
  MaxRuns         \* bound: processes started one after the other

ASSUME ServersAssumption == Servers \subseteq {"overwrites", "ignores", "rejects"}
ASSUME RejectionsAssumption == Rejections \subseteq {"400", "409", "500"}
ASSUME FlagsAssumption ==
  {Lossy, Interruptible, Killable, WritersPaused} \subseteq BOOLEAN
ASSUME BoundsAssumption == {MaxFaults, MaxCommits, MaxRuns} \subseteq Nat

VARIABLES
  \* the catalog and the writers
  registered,   \* tables the catalog has an entry for
  loc,          \* loc[t]: t's metadata-location; after a drop, its last one
  latest,       \* latest[t]: version of the last commit to t
  server,       \* how this catalog treats register?overwrite=true
  inflight,     \* calls nobody waits for any more, that the server may still do
  \* the process
  pc, tab, old, new,
  mode,         \* Client.swapMode
  done,         \* tables this run has dealt with
  report,       \* report[t]: outcome the logs last showed for t
  interrupted,  \* the signal context is cancelled
  keepGoing,    \* --keep-going
  runs,         \* the process's number; calls carry that of their sender
  overtaken,    \* history: tables an earlier process's call changed after Load
  faults        \* calls that failed; bounded

catalogVars == <<registered, loc, latest, server, inflight>>
processVars == <<pc, tab, old, new, mode, done, report, interrupted, keepGoing>>
vars == <<catalogVars, processVars, runs, overtaken, faults>>

-----------------------------------------------------------------------------
(* Locations and requests *)

Location == [base : {"source", "target"}, ver : Nat]

\* PrefixMapping.Apply on a metadata location.
Apply(l) == [l EXCEPT !.base = "target"]

Statuses == {"ok", "lost", "400", "404", "409", "500"}

Request ==
  [op : {"drop", "register", "overwrite"}, table : Table, loc : Location, run : Nat]

DropTable(t)        == [op |-> "drop", table |-> t, loc |-> old, run |-> runs]
RegisterTable(t, l) == [op |-> "register", table |-> t, loc |-> l, run |-> runs]
Overwrite(t, l)     == [op |-> "overwrite", table |-> t, loc |-> l, run |-> runs]

Outcomes == {"none", "ok", "noop", "skipped", "loadFailed", "failed", "drift",
             "dropFailed", "rolledBack", "rollbackFailed", "killed"}

\* Outcomes for which migrateOne returns no error.
Good == {"ok", "noop", "skipped"}

TypeOK ==
  /\ registered \subseteq Table
  /\ loc \in [Table -> Location]
  /\ latest \in [Table -> Nat]
  /\ server \in Servers
  /\ inflight \subseteq Request
  /\ pc \in {"down", "idle", "rewrite", "swap", "atomic", "probe",
             "drop", "register", "rollback"}
  /\ tab \in Table
  /\ old \in Location
  /\ new \in Location
  /\ mode \in {"unknown", "atomic", "dropRegister"}
  /\ done \subseteq Table
  /\ report \in [Table -> Outcomes]
  /\ interrupted \in BOOLEAN
  /\ keepGoing \in BOOLEAN
  /\ runs \in Nat
  /\ overtaken \subseteq Table
  /\ faults \in Nat

Init ==
  /\ registered = Table
  /\ loc = [t \in Table |-> [base |-> "source", ver |-> 0]]
  /\ latest = [t \in Table |-> 0]
  /\ server \in Servers
  /\ inflight = {}
  /\ pc = "down"
  /\ tab \in Table
  /\ old = loc[tab]
  /\ new = loc[tab]
  /\ mode = "unknown"
  /\ done = {}
  /\ report = [t \in Table |-> "none"]
  /\ interrupted = FALSE
  /\ keepGoing = FALSE
  /\ runs = 0
  /\ overtaken = {}
  /\ faults = 0

-----------------------------------------------------------------------------
(* The catalog server (external): what the client can observe of it *)

Accepts(r) ==
  \/ r.op = "drop" /\ r.table \in registered
  \/ r.op = "register" /\ r.table \notin registered
  \/ r.op = "overwrite" /\ server = "overwrites"
  \/ r.op = "overwrite" /\ server = "ignores" /\ r.table \notin registered

Refusal(r) ==
  IF r.op = "drop" THEN "404"
  ELSE IF r.op = "overwrite" /\ server = "rejects" THEN "400" ELSE "409"

\* purgeRequested=false: a drop frees the identifier and leaves the files.
Perform(r) ==
  IF r.op = "drop"
  THEN registered' = registered \ {r.table} /\ UNCHANGED loc
  ELSE registered' = registered \cup {r.table} /\ loc' = [loc EXCEPT ![r.table] = r.loc]

Fault == faults < MaxFaults /\ faults' = faults + 1

\* One exchange of Client.do: the server serves r and the client sees s, or
\* the exchange fails in transport and the server may still get to r.
Respond(r, s) ==
  \/ /\ s = "ok" /\ Accepts(r) /\ Perform(r)
     /\ UNCHANGED <<inflight, faults>>
  \/ /\ s = Refusal(r) /\ ~Accepts(r)
     /\ UNCHANGED <<registered, loc, inflight, faults>>
  \/ /\ s \in Rejections /\ Fault
     /\ UNCHANGED <<registered, loc, inflight>>
  \/ /\ s = "lost" /\ Lossy /\ Fault
     /\ inflight' = inflight \cup {r}
     /\ UNCHANGED <<registered, loc>>

\* The same exchange under the caller's context: once the signal context is
\* cancelled the call errors, whether or not it had left the process.
RespondUnlessInterrupted(r, s) ==
  \/ ~interrupted /\ Respond(r, s)
  \/ /\ interrupted /\ s = "lost"
     /\ inflight' \in {inflight, inflight \cup {r}}
     /\ UNCHANGED <<registered, loc, faults>>

\* The GET behind LoadTable fails: the context is cancelled, or a fault.
LoadFails == IF interrupted THEN UNCHANGED faults ELSE Fault

\* A call nobody waits for reaches the server after all: one the client timed
\* out on, or one of a process that is gone.
ServeLate ==
  /\ \E r \in inflight :
       /\ inflight' = inflight \ {r}
       /\ IF Accepts(r) THEN Perform(r) ELSE UNCHANGED <<registered, loc>>
       /\ overtaken' = IF Accepts(r) /\ r.run < runs
                       THEN overtaken \cup {r.table} ELSE overtaken
  /\ UNCHANGED <<latest, server, processVars, runs, faults>>

-----------------------------------------------------------------------------
(* Writers (external) *)

Swapping(t) == tab = t /\ pc \in {"atomic", "probe", "drop", "register", "rollback"}

Commit(t) ==
  /\ t \in registered
  /\ latest[t] < MaxCommits
  /\ WritersPaused => ~Swapping(t) /\ \A r \in inflight : r.table # t
  /\ latest' = [latest EXCEPT ![t] = @ + 1]
  /\ loc' = [loc EXCEPT ![t].ver = latest[t] + 1]
  /\ UNCHANGED <<registered, server, inflight, processVars, runs, overtaken, faults>>

-----------------------------------------------------------------------------
(* migrateOne: load, rewrite, swap *)

\* migrateOne returns; without --keep-going the first error ends the run.
Finish(t, outcome) ==
  /\ report' = [report EXCEPT ![t] = outcome]
  /\ done' = done \cup {t}
  /\ pc' = IF outcome \in Good \/ keepGoing THEN "idle" ELSE "down"

Goto(p) == pc' = p /\ UNCHANGED <<done, report>>

Load(t) ==
  /\ pc = "idle"
  /\ t \notin done
  /\ tab' = t
  /\ overtaken' = overtaken \ {t}
  /\ \/ /\ LoadFails
        /\ Finish(t, "loadFailed")
        /\ UNCHANGED old
     \/ /\ ~interrupted
        /\ t \notin registered
        /\ Finish(t, "loadFailed")
        /\ UNCHANGED <<old, faults>>
     \/ /\ ~interrupted
        /\ t \in registered
        /\ loc[t].base = "target"
        /\ Finish(t, "skipped")
        /\ UNCHANGED <<old, faults>>
     \/ /\ ~interrupted
        /\ t \in registered
        /\ loc[t].base = "source"
        /\ old' = loc[t]
        /\ Goto("rewrite")
        /\ UNCHANGED faults
  /\ UNCHANGED <<catalogVars, new, mode, interrupted, keepGoing, runs>>

\* Engine.RewriteTable, as migrateOne sees it: it fails, or returns the
\* mapped location, or the same one when the metadata names nothing to map.
Rewrite ==
  /\ pc = "rewrite"
  /\ \/ Finish(tab, "failed") /\ UNCHANGED new
     \/ ~interrupted /\ new' \in {Apply(old), old} /\ Goto("swap")
  /\ UNCHANGED <<catalogVars, tab, old, mode, interrupted, keepGoing, runs,
                 overtaken, faults>>

NeverDrifted == FALSE
Drifted == loc[tab] # old

\* The first exchange of SwapMetadataLocation: the pre-swap reload.
Reload ==
  /\ pc = "swap"
  /\ \/ /\ new = old
        /\ Finish(tab, "noop")
        /\ UNCHANGED faults
     \/ /\ new # old
        /\ LoadFails
        /\ Finish(tab, "failed")
     \/ /\ new # old
        /\ ~interrupted
        /\ tab \notin registered
        /\ Finish(tab, "failed")
        /\ UNCHANGED faults
     \/ /\ new # old
        /\ ~interrupted
        /\ tab \in registered
        /\ IF Drifted
           THEN Finish(tab, "drift")
           ELSE Goto([unknown |-> "probe", atomic |-> "atomic",
                      dropRegister |-> "drop"][mode])
        /\ UNCHANGED faults
  /\ UNCHANGED <<catalogVars, tab, old, new, mode, interrupted, keepGoing, runs,
                 overtaken>>

\* swapModeAtomic.
Atomic ==
  /\ pc = "atomic"
  /\ \E s \in Statuses :
       /\ RespondUnlessInterrupted(Overwrite(tab, new), s)
       /\ Finish(tab, IF s = "ok" THEN "ok" ELSE "failed")
  /\ UNCHANGED <<latest, server, tab, old, new, mode, interrupted, keepGoing, runs,
                 overtaken>>

\* Statuses of the probe taken for "this server cannot overwrite".
AnyFailure(s) == s # "ok"
Unsupported(s) == s \in {"400", "409"}

\* What the first register?overwrite=true of a process teaches the client.
LearnStatus(s) == s
Learn(s) ==
  CASE s = "ok" -> "atomic" [] s = "409" -> "dropRegister" [] OTHER -> "unknown"

\* swapModeUnknown.
Probe ==
  /\ pc = "probe"
  /\ \E s \in Statuses :
       /\ RespondUnlessInterrupted(Overwrite(tab, new), s)
       /\ mode' = Learn(s)
       /\ \/ s = "ok" /\ Finish(tab, "ok")
          \/ Unsupported(s) /\ Goto("drop")
          \/ s # "ok" /\ ~Unsupported(s) /\ Finish(tab, "failed")
  /\ UNCHANGED <<latest, server, tab, old, new, interrupted, keepGoing, runs, overtaken>>

\* context.WithoutCancel: the exchange outlives the caller's cancellation.
RespondDetached(r, s) == Respond(r, s)

\* swapByDropRegister: from here on the calls are detached from the signal
\* context.  A drop that errors is returned as such, with no rollback.
Drop ==
  /\ pc = "drop"
  /\ \E s \in Statuses :
       /\ RespondDetached(DropTable(tab), s)
       /\ IF s = "ok" THEN Goto("register") ELSE Finish(tab, "dropFailed")
  /\ UNCHANGED <<latest, server, tab, old, new, mode, interrupted, keepGoing, runs,
                 overtaken>>

Register ==
  /\ pc = "register"
  /\ \E s \in Statuses :
       /\ RespondDetached(RegisterTable(tab, new), s)
       /\ IF s = "ok" THEN Finish(tab, "ok") ELSE Goto("rollback")
  /\ UNCHANGED <<latest, server, tab, old, new, mode, interrupted, keepGoing, runs,
                 overtaken>>

RollbackErrorDropped(s) == "rolledBack"
RollbackOutcome(s) == IF s = "ok" THEN "rolledBack" ELSE "rollbackFailed"

Rollback ==
  /\ pc = "rollback"
  /\ \E s \in Statuses :
       /\ RespondDetached(RegisterTable(tab, old), s)
       /\ Finish(tab, RollbackOutcome(s))
  /\ UNCHANGED <<latest, server, tab, old, new, mode, interrupted, keepGoing, runs,
                 overtaken>>

-----------------------------------------------------------------------------
(* The life of a process *)

\* A process starts with a fresh client, and waits for nothing that the one
\* before it may have left under way.
Start ==
  /\ pc = "down"
  /\ runs < MaxRuns
  /\ runs' = runs + 1
  /\ pc' = "idle"
  /\ mode' = "unknown"
  /\ done' = {}
  /\ interrupted' = FALSE
  /\ keepGoing' \in BOOLEAN
  /\ UNCHANGED <<catalogVars, tab, old, new, report, overtaken, faults>>

Exit ==
  /\ pc = "idle"
  /\ done = Table
  /\ pc' = "down"
  /\ UNCHANGED <<catalogVars, tab, old, new, mode, done, report, interrupted,
                 keepGoing, runs, overtaken, faults>>

Interrupt ==
  /\ Interruptible
  /\ pc # "down"
  /\ ~interrupted
  /\ interrupted' = TRUE
  /\ UNCHANGED <<catalogVars, pc, tab, old, new, mode, done, report, keepGoing,
                 runs, overtaken, faults>>

\* The call whose answer the process waits for, by pc.
Awaited ==
  [atomic |-> Overwrite(tab, new), probe |-> Overwrite(tab, new),
   drop |-> DropTable(tab), register |-> RegisterTable(tab, new),
   rollback |-> RegisterTable(tab, old)]

\* SIGKILL: the process's death is all there is to report of what it was
\* doing, and the call it was about may or may not have left it.
Kill ==
  /\ Killable
  /\ pc # "down"
  /\ pc' = "down"
  /\ inflight' \in {inflight} \cup
                   {inflight \cup {Awaited[p]} : p \in {pc} \cap DOMAIN Awaited}
  /\ report' = IF pc = "idle" THEN report ELSE [report EXCEPT ![tab] = "killed"]
  /\ UNCHANGED <<registered, loc, latest, server, tab, old, new, mode, done,
                 interrupted, keepGoing, runs, overtaken, faults>>

Process ==
  \/ \E t \in Table : Load(t)
  \/ Rewrite \/ Reload \/ Atomic \/ Probe \/ Drop \/ Register \/ Rollback \/ Exit

Next ==
  \/ Process
  \/ Start \/ Interrupt \/ Kill \/ ServeLate
  \/ \E t \in Table : Commit(t)

\* The process is one goroutine: it never stays put while it has a step.
Spec == Init /\ [][Next]_vars /\ WF_vars(Process)

-----------------------------------------------------------------------------
(* Correctness *)

\* What the run logged about a table it is done with is so: "table migrated"
\* and "already migrated" mean readers resolve the target, "rolled back" and
\* ErrCatalogDrift mean they still resolve the source (rest.go:361, :432).  No
\* log can speak for a table that a call of an earlier process changed since.
ReportTruthful ==
  \A t \in done \ overtaken :
    /\ report[t] \in {"ok", "skipped"} => t \in registered /\ loc[t].base = "target"
    /\ report[t] \in {"noop", "drift", "rolledBack"}
         => t \in registered /\ loc[t].base = "source"

\* A table absent from the catalog is in the critical section this minute, or
\* the last thing the logs said of it is an outcome that tells the operator
\* to repair it (rest.go:425: "so the operator knows"), or the drop of an
\* earlier process, of which the logs had said so, came in after all.
MissingIsReported ==
  \A t \in Table \ registered :
    \/ tab = t /\ pc \in {"register", "rollback"}
    \/ report[t] \in {"dropFailed", "rollbackFailed", "killed", "loadFailed"}
    \/ t \in overtaken

\* Every commit a writer was told succeeded is in the metadata the catalog
\* points at (or last pointed at): the drift check (rest.go:357-364).
NoLostCommit == \A t \in Table : loc[t].ver = latest[t]

\* Once readers resolve the target no retry, rollback, re-run or late call of
\* the process itself takes the table away from it (the skip of main.go:427).
\* The one way back is through a call that an earlier process left behind,
\* served after this one loaded the table: nothing at main.go:180 waits for it.
NoRegress ==
  [][\A t \in registered :
       loc[t].base = "target" =>
         \/ t \in registered' /\ loc'[t].base = "target"
         \/ t \in overtaken']_vars

\* SIGINT or one refused call never strands a table: the section between drop
\* and register runs detached to a terminal state (rest.go:409-414).
DropWindowCloses == \A t \in Table : t \notin registered ~> t \in registered

\* The catalog pointer only moves by commits and by whole, fresh rebases.
Pointer == INSTANCE CatalogPointer WITH pointer <- loc
ImplementsCatalogPointer == Pointer!Spec

(* Claims of comments and documents that some executions refute *)

\* catalog.go:68: "On error the implementation must roll the catalog pointer
\* back to oldLocation".
ErrorRestoresPointer ==
  \A t \in done :
    report[t] \in {"failed", "drift", "dropFailed", "rolledBack", "rollbackFailed"}
      => t \in registered /\ loc[t].base = "source"
=============================================================================
