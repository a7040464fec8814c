-------------------------- MODULE CatalogSwapProofs --------------------------
(***************************************************************************)
(* Proofs about CatalogSwap, for any set of tables, any catalog server and  *)
(* any number of faults, commits and processes.                             *)
(***************************************************************************)
EXTENDS CatalogSwap, TLAPS

\* Where the process is between the load of a table and its outcome.
BeforeDrop == {"rewrite", "swap", "atomic", "probe", "drop"}
AfterReload == {"atomic", "probe", "drop", "register", "rollback"}

\* What the process knows of the table it is busy with.
ProcessInv ==
  /\ pc \in BeforeDrop \cup AfterReload => tab \notin done /\ old.base = "source"
  /\ pc \in BeforeDrop =>
       tab \in overtaken \/ (tab \in registered /\ loc[tab].base = "source")
  /\ pc = "swap" => new \in {Apply(old), old}
  /\ pc \in AfterReload => new = Apply(old)

\* What a call of the present process that may still be served was for, and
\* what the logs say since.
OwnCall(r) ==
  /\ r.op = "drop" => /\ report[r.table] \in {"dropFailed", "killed"}
                      /\ r.table \in overtaken \/ loc[r.table].base = "source"
  /\ r.op = "overwrite" => /\ report[r.table] \in {"failed", "killed"}
                           /\ r.loc.base = "target"
                           /\ r.table \in registered \/ r.table \in overtaken
  /\ r.op = "register" =>
       \/ report[r.table] \in {"rolledBack", "rollbackFailed", "killed"}
       \/ r.table = tab /\ pc = "rollback"
  /\ pc \in BeforeDrop \cup AfterReload /\ r.table = tab
       => pc = "rollback" /\ r.op = "register"
  /\ pc # "down" /\ ~(r.table = tab /\ pc = "rollback") => r.table \in done

InflightInv ==
  /\ \A r \in inflight : r.run <= runs /\ (r.run = runs => OwnCall(r))
  /\ \A q, r \in inflight :
       q.run = runs /\ r.run = runs /\ q.table = r.table => q.op = r.op

IInv ==
  /\ TypeOK
  /\ ProcessInv
  /\ InflightInv
  /\ ReportTruthful
  /\ MissingIsReported

\* With the writers paused: every location the client may still install is
\* that of the latest commit.
FreshInv ==
  /\ NoLostCommit
  /\ pc \in AfterReload => old.ver = latest[tab]
  /\ \A r \in inflight : r.op # "drop" => r.loc.ver = latest[r.table]

-----------------------------------------------------------------------------
(* The helpers *)

\* Serving a request leaves the catalog's entry for other tables alone.
LEMMA RespondType ==
  ASSUME NEW r \in Request, NEW s, TypeOK, Respond(r, s)
  PROVE  /\ registered' \subseteq Table
         /\ loc' \in [Table -> Location]
         /\ inflight' \subseteq Request
         /\ faults' \in Nat
BY BoundsAssumption DEF TypeOK, Respond, Perform, Fault, Request

LEMMA RespondUnlessInterruptedType ==
  ASSUME NEW r \in Request, NEW s, TypeOK, RespondUnlessInterrupted(r, s)
  PROVE  /\ registered' \subseteq Table
         /\ loc' \in [Table -> Location]
         /\ inflight' \subseteq Request
         /\ faults' \in Nat
BY RespondType DEF TypeOK, RespondUnlessInterrupted, Request

LEMMA RequestsType ==
  ASSUME TypeOK
  PROVE  /\ Overwrite(tab, new) \in Request
         /\ DropTable(tab) \in Request
         /\ RegisterTable(tab, new) \in Request
         /\ RegisterTable(tab, old) \in Request
BY DEF TypeOK, Overwrite, DropTable, RegisterTable, Request, Location

LEMMA FinishType ==
  ASSUME TypeOK, NEW t \in Table, NEW o \in Outcomes, Finish(t, o)
  PROVE  /\ report' \in [Table -> Outcomes]
         /\ done' \subseteq Table
         /\ pc' \in {"idle", "down"}
BY DEF TypeOK, Finish, Outcomes

-----------------------------------------------------------------------------
(* Type correctness *)

LEMMA InitType == Init => TypeOK
<1> SUFFICES ASSUME Init PROVE TypeOK
  OBVIOUS
<1>1. loc \in [Table -> Location] /\ old \in Location /\ new \in Location
  BY DEF Init, Location
<1>2. report \in [Table -> Outcomes]
  BY DEF Init, Outcomes
<1> QED
  BY <1>1, <1>2 DEF Init, TypeOK

LEMMA NextType == TypeOK /\ [Next]_vars => TypeOK'
<1> SUFFICES ASSUME TypeOK, [Next]_vars PROVE TypeOK'
  OBVIOUS
<1> USE DEF TypeOK
<1>1. ASSUME NEW t \in Table, Load(t) PROVE TypeOK'
  <2>1. faults' \in Nat
    BY <1>1 DEF Load, LoadFails, Fault
  <2>2. report' \in [Table -> Outcomes] /\ done' \subseteq Table
        /\ pc' \in {"idle", "down", "rewrite"}
    BY <1>1, FinishType DEF Load, Goto, Outcomes
  <2> QED
    BY <1>1, <2>1, <2>2 DEF Load, catalogVars
<1>2. CASE Rewrite
  <2>1. report' \in [Table -> Outcomes] /\ done' \subseteq Table
        /\ pc' \in {"idle", "down", "swap"}
    BY <1>2, FinishType DEF Rewrite, Goto, Outcomes
  <2>2. Apply(old) \in Location
    BY DEF Apply, Location
  <2>3. new' \in Location
    BY <1>2, <2>2 DEF Rewrite
  <2> QED
    BY <1>2, <2>1, <2>3 DEF Rewrite, catalogVars
<1>3. CASE Reload
  <2>1. faults' \in Nat
    BY <1>3 DEF Reload, LoadFails, Fault
  <2>2. report' \in [Table -> Outcomes] /\ done' \subseteq Table
        /\ pc' \in {"idle", "down", "probe", "atomic", "drop"}
    BY <1>3, FinishType DEF Reload, Goto, Outcomes
  <2> QED
    BY <1>3, <2>1, <2>2 DEF Reload, catalogVars
<1>4. CASE Atomic
  BY <1>4, RequestsType, RespondUnlessInterruptedType, FinishType DEF Atomic, Outcomes
<1>5. CASE Probe
  <2> PICK s \in Statuses :
        /\ RespondUnlessInterrupted(Overwrite(tab, new), s)
        /\ mode' = Learn(s)
        /\ \/ s = "ok" /\ Finish(tab, "ok")
           \/ Unsupported(s) /\ Goto("drop")
           \/ s # "ok" /\ ~Unsupported(s) /\ Finish(tab, "failed")
    BY <1>5 DEF Probe
  <2>1. report' \in [Table -> Outcomes] /\ done' \subseteq Table
        /\ pc' \in {"idle", "down", "drop"}
    BY FinishType DEF Goto, Outcomes
  <2> QED
    BY <1>5, <2>1, RequestsType, RespondUnlessInterruptedType DEF Probe, Learn
<1>6. CASE Drop
  BY <1>6, RequestsType, RespondType, FinishType DEF Drop, RespondDetached, Goto, Outcomes
<1>7. CASE Register
  BY <1>7, RequestsType, RespondType, FinishType DEF Register, RespondDetached, Goto, Outcomes
<1>8. CASE Rollback
  BY <1>8, RequestsType, RespondType, FinishType
     DEF Rollback, RespondDetached, RollbackOutcome, Outcomes
<1>9. CASE Exit
  BY <1>9 DEF Exit, catalogVars
<1>10. CASE Start
  <2>1. done' \subseteq Table /\ runs' \in Nat
    BY <1>10 DEF Start
  <2>2. UNCHANGED <<registered, loc, latest, server, inflight, tab, old, new, report, faults>>
    BY <1>10 DEF Start, catalogVars
  <2>3. inflight' \subseteq Request
    BY <2>2
  <2> QED
    BY <1>10, <2>1, <2>2, <2>3 DEF Start
<1>11. CASE Interrupt
  BY <1>11 DEF Interrupt, catalogVars
<1>12. CASE Kill
  <2>1. inflight' \subseteq Request
    <3>1. DOMAIN Awaited = {"atomic", "probe", "drop", "register", "rollback"}
          /\ \A p \in DOMAIN Awaited : Awaited[p] \in Request
      BY RequestsType DEF Awaited
    <3> QED
      BY <1>12, <3>1 DEF Kill
  <2> QED
    BY <1>12, <2>1 DEF Kill, Outcomes
<1>13. CASE ServeLate
  BY <1>13 DEF ServeLate, Perform, Request, processVars
<1>14. ASSUME NEW t \in Table, Commit(t) PROVE TypeOK'
  <2>1. loc' \in [Table -> Location]
    BY <1>14 DEF Commit, Location
  <2> QED
    BY <1>14, <2>1 DEF Commit, processVars
<1>15. CASE UNCHANGED vars
  BY <1>15 DEF vars, catalogVars, processVars
<1> QED
  BY <1>1, <1>2, <1>3, <1>4, <1>5, <1>6, <1>7, <1>8, <1>9, <1>10, <1>11, <1>12,
     <1>13, <1>14, <1>15 DEF Next, Process

\* Type correctness of the client, the catalog and the run.
THEOREM TypeCorrect == Spec => []TypeOK
BY InitType, NextType, PTL DEF Spec

-----------------------------------------------------------------------------
(* The inductive invariant *)

\* Loading, rewriting and reloading: the catalog does not change.
LEMMA QuietStep ==
  ASSUME IInv, TypeOK', UNCHANGED catalogVars,
         \/ \E t \in Table : Load(t)
         \/ Rewrite \/ Reload \/ Exit \/ Interrupt \/ Start
  PROVE  IInv'
<1> USE DEF IInv, TypeOK, ProcessInv, InflightInv, OwnCall, ReportTruthful,
            MissingIsReported, BeforeDrop, AfterReload, catalogVars, Goto, Finish, Good
<1>1. ASSUME NEW t \in Table, Load(t) PROVE IInv'
  <2>1. ProcessInv'
    BY <1>1 DEF Load
  <2>2. InflightInv'
    BY <1>1 DEF Load
  <2>3. ReportTruthful'
    BY <1>1 DEF Load
  <2>4. MissingIsReported'
    BY <1>1 DEF Load
  <2> QED
    BY <2>1, <2>2, <2>3, <2>4
<1>2. CASE Rewrite
  BY <1>2 DEF Rewrite
<1>3. CASE Reload
  BY <1>3 DEF Reload, Drifted
<1>4. CASE Exit
  BY <1>4 DEF Exit
<1>5. CASE Interrupt
  BY <1>5 DEF Interrupt
<1>6. CASE Start
  <2>1. \A r \in inflight : r.run <= runs' /\ r.run # runs'
    BY <1>6 DEF Start, Request
  <2> QED
    BY <1>6, <2>1 DEF Start
<1> QED
  BY <1>1, <1>2, <1>3, <1>4, <1>5, <1>6

\* The call a killed process leaves behind is one of the present process still.
LEMMA KillStep ==
  ASSUME IInv, TypeOK', Kill
  PROVE  IInv'
<1> USE DEF IInv, TypeOK, ProcessInv, InflightInv, OwnCall, ReportTruthful, MissingIsReported, BeforeDrop, AfterReload
<1>1. \A r \in inflight' \ inflight :
        /\ r.run = runs /\ r.table = tab /\ pc \in AfterReload
        /\ r.op = "drop" => pc = "drop"
        /\ r.op = "overwrite" => pc \in {"atomic", "probe"} /\ r.loc = new
  <2>1. DOMAIN Awaited = {"atomic", "probe", "drop", "register", "rollback"}
    BY DEF Awaited
  <2>2. \A r \in inflight' \ inflight : r = Awaited[pc] /\ pc \in DOMAIN Awaited
    BY DEF Kill
  <2> QED
    BY <2>1, <2>2 DEF Awaited, DropTable, Overwrite, RegisterTable
<1>2. InflightInv'
  <2>1. \A r \in inflight : r.run = runs => OwnCall(r)'
    BY DEF Kill
  <2>2. \A r \in inflight' \ inflight : OwnCall(r)'
    BY <1>1 DEF Kill, Apply, Location
  <2>3. \A q, r \in inflight' :
          q.run = runs /\ r.run = runs /\ q.table = r.table => q.op = r.op
    BY <1>1 DEF Kill, Awaited, DropTable, Overwrite, RegisterTable
  <2> QED
    BY <1>1, <2>1, <2>2, <2>3 DEF Kill
<1>3. ReportTruthful' /\ MissingIsReported' /\ ProcessInv'
  BY DEF Kill
<1> QED
  BY <1>2, <1>3

\* The calls of the swap: what they do to the table in hand, and what is left
\* of them when the client gives up.
LEMMA CallStep ==
  ASSUME IInv, TypeOK', Atomic \/ Probe \/ Drop \/ Register \/ Rollback
  PROVE  IInv'
<1> USE DEF IInv, TypeOK, ProcessInv, InflightInv, OwnCall, ReportTruthful,
            MissingIsReported, BeforeDrop, AfterReload, Goto, Finish, Good, Apply,
            Respond, RespondUnlessInterrupted, RespondDetached, Accepts, Refusal,
            Perform, Overwrite, DropTable, RegisterTable, Location
<1>1. CASE Atomic
  <2>1. ProcessInv'
    BY <1>1, RejectionsAssumption DEF Atomic
  <2>2. InflightInv'
    BY <1>1, RejectionsAssumption DEF Atomic
  <2>3. ReportTruthful'
    BY <1>1, RejectionsAssumption DEF Atomic
  <2>4. MissingIsReported'
    BY <1>1, RejectionsAssumption DEF Atomic
  <2> QED
    BY <2>1, <2>2, <2>3, <2>4
<1>2. CASE Probe
  <2>1. ProcessInv'
    BY <1>2, RejectionsAssumption DEF Probe, Unsupported
  <2>2. InflightInv'
    BY <1>2, RejectionsAssumption DEF Probe, Unsupported
  <2>3. ReportTruthful'
    BY <1>2, RejectionsAssumption DEF Probe, Unsupported
  <2>4. MissingIsReported'
    BY <1>2, RejectionsAssumption DEF Probe, Unsupported
  <2> QED
    BY <2>1, <2>2, <2>3, <2>4
<1>3. CASE Drop
  BY <1>3, RejectionsAssumption DEF Drop
<1>4. CASE Register
  BY <1>4, RejectionsAssumption DEF Register
<1>5. CASE Rollback
  BY <1>5, RejectionsAssumption DEF Rollback, RollbackOutcome
<1> QED
  BY <1>1, <1>2, <1>3, <1>4, <1>5

LEMMA EnvironmentStep ==
  ASSUME IInv, TypeOK', ServeLate \/ \E t \in Table : Commit(t)
  PROVE  IInv'
<1> USE DEF IInv, TypeOK, ProcessInv, InflightInv, OwnCall, ReportTruthful,
            MissingIsReported, BeforeDrop, AfterReload, Good, processVars
<1>1. CASE ServeLate
  <2>1. PICK r \in inflight :
          /\ inflight' = inflight \ {r}
          /\ IF Accepts(r) THEN Perform(r) ELSE UNCHANGED <<registered, loc>>
          /\ overtaken' = IF Accepts(r) /\ r.run < runs
                          THEN overtaken \cup {r.table} ELSE overtaken
    BY <1>1 DEF ServeLate
  <2> USE <2>1 DEF ServeLate, Request
  <2>6. /\ r.run <= runs /\ r.run \in Nat /\ r.table \in Table
        /\ r.run = runs => OwnCall(r)
    OBVIOUS
  <2>2. ProcessInv'
    <3>1. UNCHANGED processVars /\ overtaken \subseteq overtaken'
      BY <1>1
    <3>2. CASE pc \in BeforeDrop /\ r.table = tab /\ Accepts(r)
      <4>1. r.run < runs
        BY <2>6, <3>2
      <4> QED
        BY <1>1, <3>1, <3>2, <4>1
    <3>3. CASE ~(pc \in BeforeDrop /\ r.table = tab /\ Accepts(r))
      <4>1. pc \in BeforeDrop => (tab \in registered' <=> tab \in registered)
                                /\ loc'[tab] = loc[tab]
        BY <1>1, <2>6, <3>3 DEF Perform
      <4> QED
        BY <1>1, <3>1, <4>1
    <3> QED
      BY <3>2, <3>3
  <2>3. InflightInv'
    <3>1. UNCHANGED <<processVars, runs>> /\ overtaken \subseteq overtaken'
      BY <1>1
    <3>2. ASSUME NEW q \in inflight', q.run = runs PROVE OwnCall(q)'
      <4>1. OwnCall(q) /\ q.table \in Table
        BY <3>2
      <4>2. CASE Accepts(r) /\ r.table = q.table
        <5>1. CASE r.run < runs
          BY <3>1, <4>1, <4>2, <5>1
        <5>2. CASE r.run = runs
          BY <2>6, <3>1, <3>2, <4>1, <4>2, <5>2 DEF Accepts, Perform
        <5> QED
          BY <2>6, <5>1, <5>2
      <4>3. CASE ~(Accepts(r) /\ r.table = q.table)
        <5>1. (q.table \in registered' <=> q.table \in registered)
              /\ loc'[q.table] = loc[q.table]
          BY <2>6, <4>1, <4>3 DEF Perform
        <5> QED
          BY <3>1, <4>1, <5>1
      <4> QED
        BY <4>2, <4>3
    <3> QED
      BY <3>1, <3>2
  <2>4. ReportTruthful'
    BY <1>1 DEF Accepts, Perform
  <2>5. MissingIsReported'
    BY <1>1 DEF Accepts, Perform
  <2> QED
    BY <2>2, <2>3, <2>4, <2>5
<1>2. ASSUME NEW t \in Table, Commit(t) PROVE IInv'
  BY <1>2 DEF Commit, Location
<1> QED
  BY <1>1, <1>2

LEMMA InitInv == Init => IInv
BY InitType DEF Init, IInv, ProcessInv, InflightInv, OwnCall, ReportTruthful,
                MissingIsReported, BeforeDrop, AfterReload

LEMMA NextInv == IInv /\ [Next]_vars => IInv'
<1> SUFFICES ASSUME IInv, [Next]_vars PROVE IInv'
  OBVIOUS
<1>1. TypeOK'
  BY NextType DEF IInv
<1>2. CASE \/ \E t \in Table : Load(t)
           \/ Rewrite \/ Reload \/ Exit \/ Interrupt \/ Start
  <2>1. UNCHANGED catalogVars
    BY <1>2 DEF Load, Rewrite, Reload, Exit, Interrupt, Start, catalogVars
  <2> QED
    BY <1>1, <1>2, <2>1, QuietStep
<1>6. CASE Kill
  BY <1>1, <1>6, KillStep
<1>3. CASE Atomic \/ Probe \/ Drop \/ Register \/ Rollback
  BY <1>1, <1>3, CallStep
<1>4. CASE ServeLate
  BY <1>1, <1>4, EnvironmentStep
<1>7. CASE \E t \in Table : Commit(t)
  BY <1>1, <1>7, EnvironmentStep
<1>5. CASE UNCHANGED vars
  BY <1>5 DEF vars, catalogVars, processVars, IInv, TypeOK, ProcessInv, InflightInv,
              OwnCall, ReportTruthful, MissingIsReported
<1> QED
  BY <1>2, <1>3, <1>4, <1>5, <1>6, <1>7 DEF Next, Process

LEMMA InvCorrect == Spec => []IInv
BY InitInv, NextInv, PTL DEF Spec

\* The outcome the logs show for a table agrees with the catalog, whatever
\* was refused, lost, served late or interrupted, unless a call of an earlier
\* process has changed the table since this one loaded it.
THEOREM ReportCorrect == Spec => []ReportTruthful
<1>1. IInv => ReportTruthful
  BY DEF IInv
<1> QED
  BY <1>1, InvCorrect, PTL

\* No table goes missing from the catalog without the logs having said so, those
\* of an earlier process where its drop comes in late.
THEOREM MissingCorrect == Spec => []MissingIsReported
<1>1. IInv => MissingIsReported
  BY DEF IInv
<1> QED
  BY <1>1, InvCorrect, PTL

-----------------------------------------------------------------------------
(* Readers never go back *)

LEMMA LateCallStays ==
  ASSUME TypeOK, InflightInv, ServeLate,
         NEW t \in registered, loc[t].base = "target"
  PROVE  (t \in registered' /\ loc'[t].base = "target") \/ t \in overtaken'
<1>1. PICK r \in inflight :
        /\ IF Accepts(r) THEN Perform(r) ELSE UNCHANGED <<registered, loc>>
        /\ overtaken' = IF Accepts(r) /\ r.run < runs
                        THEN overtaken \cup {r.table} ELSE overtaken
  BY DEF ServeLate
<1>2. /\ r.run < runs \/ r.run = runs
      /\ r.run = runs => OwnCall(r)
  BY DEF TypeOK, InflightInv, Request
<1>3. loc \in [Table -> Location] /\ r \in Request /\ t \in Table
  BY DEF TypeOK
<1>4. CASE Accepts(r) /\ r.table = t
  <2>1. CASE r.run < runs
    BY <1>1, <1>4, <2>1
  <2>2. CASE r.run = runs
    BY <1>1, <1>2, <1>3, <1>4, <2>2 DEF OwnCall, Accepts, Perform, Request
  <2> QED
    BY <1>2, <2>1, <2>2
<1>5. CASE ~(Accepts(r) /\ r.table = t)
  BY <1>1, <1>3, <1>5 DEF Perform, Request
<1> QED
  BY <1>4, <1>5

\* Whatever is refused, lost, retried or interrupted, a table that readers
\* resolve at the target stays there, unless a call which an earlier process
\* left behind is served after the present process has loaded the table.
THEOREM NoRegressCorrect == Spec => NoRegress
<1> DEFINE Stays == \A t \in registered :
             loc[t].base = "target" =>
               \/ t \in registered' /\ loc'[t].base = "target"
               \/ t \in overtaken'
<1>1. IInv /\ [Next]_vars => [Stays]_vars
  <2> SUFFICES ASSUME IInv, Next PROVE Stays
    BY DEF vars
  <2> USE DEF IInv, TypeOK, ProcessInv, InflightInv, OwnCall, BeforeDrop, AfterReload, Apply,
              Location, Perform, Accepts, Request
  <2>1. CASE UNCHANGED <<registered, loc>>
    BY <2>1
  <2>2. CASE Atomic \/ Probe
    BY <2>2 DEF Atomic, Probe, RespondUnlessInterrupted, Respond, Overwrite
  <2>3. CASE Drop
    BY <2>3 DEF Drop, RespondDetached, Respond, DropTable
  <2>7. CASE Register \/ Rollback
    <3>1. \/ UNCHANGED <<registered, loc>>
          \/ \E l \in Location : /\ tab \notin registered
                                /\ registered' = registered \cup {tab}
                                /\ loc' = [loc EXCEPT ![tab] = l]
      BY <2>7 DEF Register, Rollback, RespondDetached, Respond, RegisterTable
    <3> QED
      BY <3>1
  <2>4. CASE ServeLate
    BY <2>4, LateCallStays
  <2>5. ASSUME NEW t \in Table, Commit(t) PROVE Stays
    BY <2>5 DEF Commit
  <2>6. CASE \/ \E t \in Table : Load(t)
             \/ Rewrite \/ Reload \/ Exit \/ Interrupt \/ Kill \/ Start
    <3>1. UNCHANGED <<registered, loc>>
      BY <2>6 DEF Load, Rewrite, Reload, Exit, Interrupt, Kill, Start, catalogVars
    <3> QED
      BY <3>1, <2>1
  <2> QED
    BY <2>2, <2>3, <2>4, <2>5, <2>6, <2>7 DEF Next, Process
<1> QED
  BY <1>1, InvCorrect, PTL DEF Spec, NoRegress

-----------------------------------------------------------------------------
(* Commits survive the rebase, when the writers respect the pause *)

LEMMA InitFresh == Init => FreshInv
BY DEF Init, FreshInv, NoLostCommit, AfterReload

LEMMA NextFresh ==
  ASSUME WritersPaused, IInv, IInv', FreshInv, [Next]_vars
  PROVE  FreshInv'
<1> USE DEF IInv, TypeOK, ProcessInv, FreshInv, NoLostCommit, BeforeDrop, AfterReload,
            Goto, Finish, Good, Apply, Location, Request
<1>1. CASE UNCHANGED <<loc, latest, inflight>> /\ pc' \notin AfterReload
  BY <1>1
<1>2. ASSUME NEW t \in Table, Load(t) PROVE FreshInv'
  BY <1>2 DEF Load, catalogVars
<1>3. CASE Rewrite
  BY <1>3 DEF Rewrite, catalogVars
<1>4. CASE Reload
  <2>1. UNCHANGED <<loc, latest, inflight, tab, old, new>>
    BY <1>4 DEF Reload, catalogVars
  <2>2. pc' \in AfterReload => old = loc[tab]
    BY <1>4 DEF Reload, Drifted
  <2> QED
    BY <2>1, <2>2
<1>5. CASE Atomic
  <2>1. /\ loc' = loc \/ loc' = [loc EXCEPT ![tab] = new]
        /\ inflight' \subseteq inflight \cup {Overwrite(tab, new)}
    BY <1>5 DEF Atomic, RespondUnlessInterrupted, Respond, Perform, Overwrite
  <2> QED
    BY <1>5, <2>1 DEF Atomic, Overwrite
<1>6. CASE Probe
  <2>1. /\ loc' = loc \/ loc' = [loc EXCEPT ![tab] = new]
        /\ inflight' \subseteq inflight \cup {Overwrite(tab, new)}
    BY <1>6 DEF Probe, RespondUnlessInterrupted, Respond, Perform, Overwrite
  <2> QED
    BY <1>6, <2>1 DEF Probe, Overwrite
<1>7. CASE Drop
  BY <1>7 DEF Drop, RespondDetached, Respond, Perform, DropTable
<1>8. CASE Register
  <2>1. /\ loc' = loc \/ loc' = [loc EXCEPT ![tab] = new]
        /\ inflight' \subseteq inflight \cup {RegisterTable(tab, new)}
    BY <1>8 DEF Register, RespondDetached, Respond, Perform, RegisterTable
  <2> QED
    BY <1>8, <2>1 DEF Register, RegisterTable
<1>9. CASE Rollback
  BY <1>9 DEF Rollback, RespondDetached, Respond, Perform, RegisterTable
<1>10. CASE ServeLate
  BY <1>10 DEF ServeLate, Perform, processVars
<1>11. ASSUME NEW t \in Table, Commit(t) PROVE FreshInv'
  BY <1>11 DEF Commit, Swapping, processVars
<1>12. CASE Exit \/ Kill \/ Start
  <2>1. \A r \in inflight' \ inflight :
          r.op # "drop" => pc \in AfterReload /\ r.table = tab /\ r.loc \in {old, new}
    BY <1>12 DEF Exit, Kill, Start, catalogVars, Awaited, DropTable, Overwrite, RegisterTable
  <2> QED
    BY <1>12, <2>1 DEF Exit, Kill, Start, catalogVars
<1>13. CASE Interrupt \/ UNCHANGED vars
  BY <1>13 DEF Interrupt, vars, catalogVars, processVars
<1> QED
  BY <1>2, <1>3, <1>4, <1>5, <1>6, <1>7, <1>8, <1>9, <1>10, <1>11, <1>12, <1>13
     DEF Next, Process

LEMMA FreshCorrect ==
  ASSUME WritersPaused PROVE Spec => []FreshInv
<1>1. IInv /\ IInv' /\ FreshInv /\ [Next]_vars => FreshInv'
  BY NextFresh
<1> QED
  BY <1>1, InitFresh, InvCorrect, PTL DEF Spec

\* With the writers paused during the swap, no commit is lost: not by a call
\* served late, not by a rollback, not by a retry.
THEOREM NoLostCommitCorrect ==
  ASSUME WritersPaused PROVE Spec => []NoLostCommit
<1>1. FreshInv => NoLostCommit
  BY DEF FreshInv
<1> QED
  BY <1>1, FreshCorrect, PTL

-----------------------------------------------------------------------------
(* The client keeps the promise of the Catalog interface *)

LEMMA InitRefines == Init => Pointer!Init
BY DEF Init, Pointer!Init

LEMMA NextRefines ==
  ASSUME WritersPaused, IInv, FreshInv, FreshInv', [Next]_vars
  PROVE  [Pointer!Next]_<<loc, latest>>
<1> USE DEF IInv, TypeOK, ProcessInv, InflightInv, OwnCall, FreshInv, NoLostCommit,
            BeforeDrop, AfterReload, Apply, Location, Request
<1> DEFINE Moves(t, l) ==
      loc' = [loc EXCEPT ![t] = l] /\ UNCHANGED latest
<1>1. ASSUME NEW t \in Table, NEW l \in Location, Moves(t, l), l.ver = latest[t]
      PROVE  [Pointer!Next]_<<loc, latest>>
  <2>1. CASE loc[t].base = l.base
    <3>1. l = loc[t]
      BY <1>1, <2>1
    <3> QED
      BY <1>1, <3>1
  <2>2. CASE loc[t].base # l.base
    <3>1. \/ /\ l = [base |-> "target", ver |-> latest[t]]
             /\ loc[t] = [base |-> "source", ver |-> latest[t]]
          \/ /\ l = [base |-> "source", ver |-> latest[t]]
             /\ loc[t] = [base |-> "target", ver |-> latest[t]]
      BY <1>1, <2>2
    <3>2. Pointer!SwapMetadataLocation(t) \/ Pointer!Rollback(t)
      BY <1>1, <3>1 DEF Pointer!SwapMetadataLocation, Pointer!Rollback
    <3> QED
      BY <3>2 DEF Pointer!Next
  <2> QED
    BY <2>1, <2>2
<1>2. CASE UNCHANGED <<loc, latest>>
  BY <1>2
<1>3. CASE Atomic \/ Probe
  <2>1. UNCHANGED loc \/ Moves(tab, new)
    BY <1>3 DEF Atomic, Probe, RespondUnlessInterrupted, Respond, Perform, Overwrite
  <2>2. UNCHANGED latest
    BY <1>3 DEF Atomic, Probe
  <2> QED
    BY <1>1, <1>2, <1>3, <2>1, <2>2 DEF Atomic, Probe
<1>4. CASE Drop
  BY <1>2, <1>4 DEF Drop, RespondDetached, Respond, Perform, DropTable
<1>5. CASE Register
  <2>1. UNCHANGED loc \/ Moves(tab, new)
    BY <1>5 DEF Register, RespondDetached, Respond, Perform, RegisterTable
  <2>2. UNCHANGED latest
    BY <1>5 DEF Register
  <2> QED
    BY <1>1, <1>2, <1>5, <2>1, <2>2 DEF Register
<1>6. CASE Rollback
  <2>1. UNCHANGED loc \/ Moves(tab, old)
    BY <1>6 DEF Rollback, RespondDetached, Respond, Perform, RegisterTable
  <2>2. UNCHANGED latest
    BY <1>6 DEF Rollback
  <2> QED
    BY <1>1, <1>2, <1>6, <2>1, <2>2 DEF Rollback
<1>7. CASE ServeLate
  <2>1. PICK r \in inflight :
          IF Accepts(r) THEN Perform(r) ELSE UNCHANGED <<registered, loc>>
    BY <1>7 DEF ServeLate
  <2>2. UNCHANGED latest
    BY <1>7 DEF ServeLate
  <2>3. CASE UNCHANGED loc
    BY <1>2, <2>2, <2>3
  <2>4. CASE Accepts(r) /\ r.op # "drop" /\ loc' = [loc EXCEPT ![r.table] = r.loc]
    <3>1. r \in Request /\ r.loc.ver = latest[r.table]
      BY <2>4
    <3> QED
      BY <1>1, <2>2, <2>4, <3>1
  <2> QED
    BY <2>1, <2>3, <2>4 DEF Perform
<1>8. ASSUME NEW t \in Table, Commit(t) PROVE [Pointer!Next]_<<loc, latest>>
  <2>1. Pointer!Commit(t)
    BY <1>8 DEF Commit, Pointer!Commit
  <2> QED
    BY <2>1 DEF Pointer!Next
<1>9. CASE \/ \E t \in Table : Load(t)
           \/ Rewrite \/ Reload \/ Exit \/ Interrupt \/ Kill \/ Start \/ UNCHANGED vars
  <2>1. UNCHANGED <<loc, latest>>
    BY <1>9 DEF Load, Rewrite, Reload, Exit, Interrupt, Kill, Start, vars, catalogVars
  <2> QED
    BY <1>2, <2>1
<1> QED
  BY <1>3, <1>4, <1>5, <1>6, <1>7, <1>8, <1>9 DEF Next, Process

\* With the writers paused, what readers resolve changes only by commits and
\* by whole rebases of the latest commit, or back from one, through drops, faults,
\* late calls and crashes.
THEOREM RefinesCatalogPointer ==
  ASSUME WritersPaused PROVE Spec => ImplementsCatalogPointer
<1>1. IInv /\ FreshInv /\ FreshInv' /\ [Next]_vars => [Pointer!Next]_<<loc, latest>>
  BY NextRefines
<1> QED
  BY <1>1, InitRefines, InvCorrect, FreshCorrect, PTL
     DEF Spec, ImplementsCatalogPointer, Pointer!Spec
=============================================================================
