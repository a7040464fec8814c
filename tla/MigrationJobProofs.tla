-------------------------- MODULE MigrationJobProofs --------------------------
(***************************************************************************)
(* Proofs about the exit code of a run and the success of its Job, for any   *)
(* tables, flags, catalog server, bounds and order of failures.             *)
(***************************************************************************)
EXTENDS MigrationJob, TLAPS

Calling == {"overwrite", "drop", "register", "restore"}
InHand == pc \in {"rewrite", "swap", "validate"} \cup Calling

\* What the catalog holds and may still serve: a call that could take a table
\* away from where it is to be belongs to a table that was stranded by it.
CatalogInv ==
  /\ registered \subseteq Table /\ side \in [Table -> {"source", "target"}]
  /\ late \subseteq Calls /\ stranded \subseteq Table
  /\ \A t \in unmapped : t \in registered /\ side[t] = "source"
  /\ \A c \in late : /\ c.table \notin unmapped
                     /\ c.op \in {"drop", "restore"} => c.table \in stranded

\* What a process knows of the tables it has seen to: unless it remembers an
\* error each is dealt with, and so is the one in hand once it is validated.
LoopInv ==
  /\ InHand => table \in remaining
  /\ pc \in Calling => table \notin unmapped
  /\ pc = "validate" => DealtWith(table)
  /\ pc = "select" => ~failed
  /\ pc # "down" /\ pc # "select" /\ ~failed =>
       \A t \in selected \ remaining : DealtWith(t)

\* Only an active Job has a process, and it has one until it succeeds or fails.
JobInv ==
  /\ pc # "down" => job = "active"
  /\ job = "active" => failures <= BackoffLimit /\ exit # "zero"
  /\ pc = "down" => ~failed
  /\ exit = "zero" => job = "succeeded"
  /\ job = "succeeded" => exit = "zero"

IInv == TypeOK /\ CatalogInv /\ LoopInv /\ JobInv /\ ExitHonest

\* What a step leaves behind of the catalog, the client and the bound.
StepType ==
  /\ CatalogInv'
  /\ mode' \in {"unknown", "atomic", "dropRegister"}
  /\ unsound' \subseteq Table
  /\ faults' \in Nat
  /\ UNCHANGED given

-----------------------------------------------------------------------------
LEMMA InitInv == Init => IInv
<1> SUFFICES ASSUME Init PROVE IInv
  OBVIOUS
<1>1. BackoffLimit \in Nat /\ 0 \in 0..(BackoffLimit + 1)
  BY BoundsAssumption
<1>3. TypeOK
  BY <1>1 DEF Init, TypeOK
<1>2. CatalogInv /\ LoopInv /\ JobInv /\ ExitHonest
  BY BoundsAssumption DEF Init, CatalogInv, LoopInv, InHand, Calling, JobInv, ExitHonest
<1> QED
  BY <1>3, <1>2 DEF IInv

\* A failing call costs a fault or needs a cancelled context.
LEMMA CallType ==
  ASSUME TypeOK, Trouble \/ Calm \/ Fault
  PROVE  faults' \in Nat
  BY BoundsAssumption DEF TypeOK, Trouble, Calm, Fault

\* An exit with an error leaves all that IInv says in place.
LEMMA ExitNonzero ==
  ASSUME IInv, pc # "down", Exit("nonzero"), StepType
  PROVE  IInv'
<1>1. failures' = failures + 1 /\ failures <= BackoffLimit /\ failures \in Nat
  BY DEF IInv, TypeOK, JobInv, Exit
<1>2. failures' \in 0..(BackoffLimit + 1)
  BY <1>1, BoundsAssumption
<1>3. TypeOK'
  BY <1>2 DEF IInv, TypeOK, given, Exit, StepType, CatalogInv
<1>4. JobInv'
  BY <1>1, BoundsAssumption DEF IInv, JobInv, TypeOK, Exit
<1> QED
  BY <1>3, <1>4 DEF IInv, LoopInv, InHand, Calling, ExitHonest, Exit, StepType

\* A table that fails leaves IInv in place, whatever happens to that table.
LEMMA FailureInv ==
  ASSUME IInv, pc = "next" \/ InHand, NEW t \in remaining, TableFails(t), StepType
  PROVE  IInv'
<1>1. CASE ReturnEarly
  BY <1>1, ExitNonzero DEF TableFails, InHand, Calling
<1>2. CASE ~ReturnEarly
  <2>1. TypeOK'
    BY <1>2 DEF TableFails, IInv, TypeOK, given, jobVars, StepType, CatalogInv
  <2>2. JobInv'
    BY <1>2 DEF TableFails, IInv, JobInv, InHand, Calling, jobVars
  <2>3. exit' # "zero"
    BY <1>2 DEF TableFails, IInv, JobInv, InHand, Calling, jobVars
  <2> QED
    BY <1>2, <2>1, <2>2, <2>3
       DEF TableFails, IInv, LoopInv, InHand, Calling, ExitHonest, StepType
<1> QED
  BY <1>1, <1>2

\* A table that is dealt with leaves IInv in place.
LEMMA DoneInv ==
  ASSUME IInv, pc = "next" \/ InHand, NEW t \in remaining, TableDone(t), DealtWith(t),
         UNCHANGED <<catalogVars, stranded>>, StepType
  PROVE  IInv'
<1>1. TypeOK'
  BY DEF TableDone, IInv, TypeOK, given, jobVars, catalogVars, StepType
<1>2. JobInv'
  BY DEF TableDone, IInv, JobInv, InHand, Calling, jobVars
<1>5. \A u : DealtWith(u) => DealtWith(u)'
  BY DEF DealtWith, Settled, Migrated, catalogVars, StepType, given
<1>3. LoopInv'
  <2>1. /\ pc' = "next" /\ remaining' = remaining \ {t}
        /\ UNCHANGED <<selected, failed>>
    BY DEF TableDone
  <2> QED
    BY <1>5, <2>1 DEF IInv, LoopInv, InHand, Calling
<1>4. exit' # "zero"
  BY DEF TableDone, IInv, JobInv, InHand, Calling, jobVars
<1> QED
  BY <1>1, <1>2, <1>3, <1>4 DEF IInv, ExitHonest, StepType

\* A step that takes the table in hand on leaves IInv in place, provided the
\* other tables stay dealt with.
LEMMA AdvanceInv ==
  ASSUME IInv, pc \in {"rewrite", "swap"} \cup Calling,
         NEW label \in {"swap", "validate"} \cup Calling, Goto(label),
         \A t \in Table \ {table} : DealtWith(t) => DealtWith(t)',
         label \in Calling => table \notin unmapped,
         label = "validate" => DealtWith(table)',
         StepType
  PROVE  IInv'
<1> USE DEF Calling
<1>1. TypeOK'
  BY DEF Goto, IInv, TypeOK, given, jobVars, StepType, CatalogInv
<1>2. JobInv'
  BY DEF Goto, IInv, JobInv, jobVars
<1>3. exit' # "zero"
  BY DEF Goto, IInv, JobInv, jobVars
<1>4. LoopInv'
  <2>1. table' = table /\ selected' = selected /\ remaining' = remaining /\ failed' = failed
        /\ pc' = label /\ unmapped' = unmapped
    BY DEF Goto, StepType, given
  <2>2. table \in remaining /\ selected \subseteq Table
    BY DEF IInv, LoopInv, InHand, TypeOK
  <2>3. ~failed => \A t \in selected \ remaining : DealtWith(t)'
    BY <2>2 DEF IInv, LoopInv
  <2>4. pc' = "validate" => DealtWith(table)'
    BY <2>1
  <2> QED
    BY <2>1, <2>2, <2>3, <2>4 DEF LoopInv, InHand
<1> QED
  BY <1>1, <1>2, <1>3, <1>4 DEF IInv, ExitHonest, StepType

-----------------------------------------------------------------------------
(* The calls of the swap *)

\* A call about the table in hand, answered or not, is no matter to the others.
LEMMA AnswerStep ==
  ASSUME IInv, pc \in Calling, NEW s, Answer(Call(pc), s) \/ AnswerUnlessCancelled(Call(pc), s),
         UNCHANGED given, stranded \subseteq stranded', stranded' \subseteq Table,
         s = "lost" /\ pc \in {"drop", "restore"} => table \in stranded'
  PROVE  /\ CatalogInv'
         /\ faults' \in Nat
         /\ \A t \in Table \ {table} : DealtWith(t) => DealtWith(t)'
         /\ s = "ok" /\ pc \in {"overwrite", "register"} /\ table' = table => DealtWith(table)'
<1> DEFINE c == Call(pc)
<1>1. /\ c \in Calls /\ c.table = table /\ c.op = pc /\ table \in Table \ unmapped
  BY BoundsAssumption DEF Call, Calls, IInv, TypeOK, LoopInv, InHand, Calling
<1>2. CASE s = "ok" /\ Accepts(c) /\ Perform(c) /\ UNCHANGED <<late, faults>>
  <2>1. /\ registered' \in {registered \ {table}, registered \cup {table}}
        /\ side' = side \/ \E x \in {"source", "target"} : side' = [side EXCEPT ![table] = x]
        /\ pc \in {"overwrite", "register"} => /\ registered' = registered \cup {table}
                                            /\ side' = [side EXCEPT ![table] = "target"]
    BY <1>1, <1>2 DEF Perform
  <2>2. /\ registered \subseteq Table /\ side \in [Table -> {"source", "target"}]
        /\ unmapped \subseteq Table
    BY DEF IInv, CatalogInv, TypeOK
  <2>3. CatalogInv'
    BY <1>1, <1>2, <2>1, <2>2 DEF IInv, CatalogInv, given
  <2>4. \A t \in Table \ {table} : DealtWith(t) => DealtWith(t)'
    BY <2>1, <2>2 DEF DealtWith, Settled, Migrated, given
  <2>5. pc \in {"overwrite", "register"} /\ table' = table => DealtWith(table)'
    <3> SUFFICES ASSUME pc \in {"overwrite", "register"}, table' = table
                 PROVE  DealtWith(table)'
      OBVIOUS
    <3>1. table \in registered' /\ side'[table] = "target"
      BY <1>1, <2>1, <2>2
    <3> QED
      BY <1>1, <3>1 DEF DealtWith, Settled, Migrated, given
  <2> QED
    BY <1>2, <2>3, <2>4, <2>5 DEF IInv, TypeOK
<1>3. CASE /\ s # "ok" /\ UNCHANGED <<registered, side>> /\ faults' \in Nat
           /\ late' \subseteq late \cup {c} /\ (late' \subseteq late \/ s = "lost")
  <2>1. CatalogInv'
    BY <1>1, <1>3 DEF IInv, CatalogInv, given
  <2>2. \A t \in Table : DealtWith(t) => DealtWith(t)'
    BY <1>3 DEF DealtWith, Settled, Migrated, given
  <2> QED
    BY <1>3, <2>1, <2>2
<1>4. faults \in Nat /\ (Fault => faults' \in Nat)
  BY DEF IInv, TypeOK, Fault
<1> QED
  BY <1>2, <1>3, <1>4 DEF Answer, AnswerUnlessCancelled, Refusal, catalogVars

\* A call served late leaves alone what is dealt with.
LEMMA LateStep ==
  ASSUME IInv, ServeLate
  PROVE  CatalogInv' /\ \A t \in Table : DealtWith(t) => DealtWith(t)'
<1>1. PICK c \in late :
        /\ late' = late \ {c}
        /\ IF Accepts(c) THEN Perform(c) ELSE UNCHANGED <<registered, side>>
  BY DEF ServeLate
<1>2. /\ UNCHANGED <<unmapped, stranded>>
      /\ c.table \in Table \ unmapped /\ c.op \in Calling
      /\ c.op \in {"drop", "restore"} => c.table \in stranded
      /\ registered \subseteq Table /\ side \in [Table -> {"source", "target"}]
      /\ unmapped \subseteq Table
  BY DEF ServeLate, given, history, IInv, CatalogInv, Calls, Calling, TypeOK
<1>3. CASE Accepts(c) /\ Perform(c)
  <2>1. /\ registered' \in {registered \ {c.table}, registered \cup {c.table}}
        /\ side' = side \/ \E x \in {"source", "target"} : side' = [side EXCEPT ![c.table] = x]
        /\ c.op \in {"overwrite", "register"} => /\ registered' = registered \cup {c.table}
                                             /\ side' = [side EXCEPT ![c.table] = "target"]
    BY <1>2, <1>3 DEF Perform, Calling
  <2>2. CatalogInv'
    BY <1>1, <1>2, <2>1 DEF IInv, CatalogInv
  <2>3. \A t \in Table \ {c.table} : DealtWith(t) => DealtWith(t)'
    BY <1>2, <2>1 DEF DealtWith, Settled, Migrated
  <2>4. DealtWith(c.table) => DealtWith(c.table)'
    <3>1. CASE c.op \in {"drop", "restore"}
      BY <1>2, <3>1 DEF DealtWith
    <3>2. CASE c.op \in {"overwrite", "register"}
      BY <1>2, <2>1, <3>2 DEF DealtWith, Settled, Migrated
    <3> QED
      BY <1>2, <3>1, <3>2 DEF Calling
  <2> QED
    BY <2>2, <2>3, <2>4
<1>4. CASE UNCHANGED <<registered, side>>
  BY <1>1, <1>2, <1>4 DEF IInv, CatalogInv, DealtWith, Settled, Migrated
<1> QED
  BY <1>1, <1>3, <1>4

\* The process that selects its tables does not exit.
LEMMA ExitLeavesNext == ~(pc' = "next" /\ Exit("nonzero"))
  BY DEF Exit

LEMMA NextInv == IInv /\ [Next]_vars => IInv'
<1> SUFFICES ASSUME IInv, [Next]_vars PROVE IInv'
  OBVIOUS
<1>0. InHand => table \in remaining /\ table \in Table
  BY DEF IInv, LoopInv, TypeOK
<1>t. /\ TypeOK /\ CatalogInv /\ unsound \subseteq Table /\ named \subseteq Table
      /\ unmapped \subseteq Table
      /\ mode \in {"unknown", "atomic", "dropRegister"}
  BY DEF IInv, TypeOK
<1>q. UNCHANGED <<given, catalogVars, history, mode>> /\ faults' \in Nat
        => StepType /\ \A t : DealtWith(t) => DealtWith(t)'
  BY <1>t DEF StepType, CatalogInv, given, catalogVars, history, DealtWith, Settled, Migrated
<1>1. CASE StartPod
  <2>1. TypeOK'
    BY <1>1 DEF StartPod, Goto, IInv, TypeOK, given, catalogVars, jobVars, history
  <2>2. JobInv' /\ exit' # "zero"
    BY <1>1 DEF StartPod, Goto, IInv, JobInv, jobVars
  <2>3. CatalogInv'
    BY <1>1 DEF StartPod, IInv, CatalogInv, given, catalogVars, history
  <2> QED
    BY <1>1, <2>1, <2>2, <2>3
       DEF StartPod, Goto, IInv, LoopInv, JobInv, InHand, Calling, ExitHonest
<1>2. CASE SelectTables
  <2>1. CASE Trouble /\ Exit("nonzero")
    <3>1. StepType
      BY <1>2, <2>1, <1>t, <1>q, CallType DEF SelectTables
    <3> QED
      BY <1>2, <2>1, <3>1, ExitNonzero DEF SelectTables
  <2>2. CASE Calm /\ ~Exit("nonzero")
    <3>1. /\ selected' = IF named # {} THEN named ELSE registered
          /\ remaining' = selected'
          /\ pc' = "next"
          /\ UNCHANGED <<table, failed, cancelled, jobVars, given, catalogVars, mode, history>>
      BY <1>2, <2>2 DEF SelectTables, Trouble, Calm, Listed
    <3>2. selected' \subseteq Table
      BY <3>1, <1>t DEF CatalogInv
    <3>3. TypeOK'
      BY <3>1, <3>2, <2>2, CallType DEF IInv, TypeOK, given, catalogVars, jobVars, history
    <3>4. JobInv' /\ exit' # "zero"
      BY <1>2, <3>1 DEF SelectTables, IInv, JobInv, jobVars
    <3>5. CatalogInv'
      BY <3>1 DEF IInv, CatalogInv, given, catalogVars, history
    <3> QED
      BY <3>1, <3>3, <3>4, <3>5 DEF IInv, LoopInv, InHand, Calling, ExitHonest
  <2> QED
    BY <1>2, <2>1, <2>2, ExitLeavesNext DEF SelectTables
<1>3. CASE LoadTable
  <2>1. PICK t \in remaining :
          \/ Trouble /\ TableFails(t)
          \/ Calm /\ t \notin registered /\ NotFound(t)
          \/ Calm /\ t \in registered /\ side[t] = "target" /\ TableDone(t)
          \/ /\ Calm
             /\ t \in registered
             /\ side[t] = "source"
             /\ table' = t
             /\ pc' = "rewrite"
             /\ UNCHANGED <<selected, remaining, failed, cancelled, jobVars>>
    BY <1>3 DEF LoadTable
  <2>2. pc = "next" /\ UNCHANGED <<given, catalogVars, mode, history>>
    BY <1>3 DEF LoadTable
  <2>3. faults' \in Nat
    BY <2>1, <1>t, CallType
  <2>7. StepType /\ \A u : DealtWith(u) => DealtWith(u)'
    BY <1>q, <2>2, <2>3
  <2>4. CASE TableFails(t)
    BY <2>2, <2>4, <2>7, FailureInv
  <2>5. CASE t \in registered /\ side[t] = "target" /\ TableDone(t)
    <3>1. DealtWith(t)
      BY <2>5, <1>t DEF DealtWith, Settled, Migrated, CatalogInv
    <3> QED
      BY <2>2, <2>5, <2>7, <3>1, DoneInv DEF history
  <2>6. CASE /\ table' = t
             /\ pc' = "rewrite"
             /\ UNCHANGED <<selected, remaining, failed, cancelled, jobVars>>
    <3>1. TypeOK'
      BY <2>2, <2>3, <2>6 DEF IInv, TypeOK, given, jobVars, catalogVars, history
    <3>2. JobInv' /\ exit' # "zero"
      BY <2>2, <2>6 DEF IInv, JobInv, jobVars
    <3>3. LoopInv'
      BY <2>2, <2>6, <2>7 DEF IInv, LoopInv, InHand, Calling
    <3> QED
      BY <2>7, <3>1, <3>2, <3>3 DEF IInv, ExitHonest, StepType
  <2> QED
    BY <2>1, <2>4, <2>5, <2>6 DEF NotFound
<1>4. CASE LoopOver
  <2>1. /\ pc = "next" /\ remaining = {}
        /\ UNCHANGED <<given, catalogVars, mode, history, faults>>
    BY <1>4 DEF LoopOver
  <2>4. StepType /\ \A u : DealtWith(u) => DealtWith(u)'
    BY <1>q, <1>t, <2>1 DEF TypeOK
  <2>2. CASE failed
    BY <1>4, <2>1, <2>2, <2>4, ExitNonzero DEF LoopOver, FirstErr
  <2>3. CASE ~failed
    <3>1. Exit("zero")
      BY <1>4, <2>3 DEF LoopOver, FirstErr
    <3>2. \A t \in selected : DealtWith(t)
      BY <2>1, <2>3 DEF IInv, LoopInv
    <3>3. TypeOK'
      BY <2>1, <3>1 DEF Exit, IInv, TypeOK, given, catalogVars, history
    <3>4. JobInv' /\ LoopInv'
      BY <3>1 DEF Exit, JobInv, LoopInv, InHand, Calling
    <3> QED
      BY <2>4, <3>1, <3>2, <3>3, <3>4 DEF Exit, IInv, ExitHonest, StepType
  <2> QED
    BY <2>2, <2>3
<1>5. CASE RewriteTable
  <2>1. /\ InHand /\ pc = "rewrite"
        /\ UNCHANGED <<given, catalogVars, mode, history>>
        /\ faults' \in Nat
    BY <1>5, <1>t, CallType DEF RewriteTable, InHand
  <2>4. StepType /\ \A u : DealtWith(u) => DealtWith(u)'
    BY <1>q, <2>1
  <2>2. CASE TableFails(table)
    BY <2>1, <2>2, <2>4, <1>0, FailureInv
  <2>3. CASE Goto("swap")
    BY <2>1, <2>3, <2>4, AdvanceInv DEF Calling
  <2> QED
    BY <1>5, <2>2, <2>3 DEF RewriteTable
<1>6. CASE Swap
  <2>1. /\ InHand /\ pc = "swap"
        /\ UNCHANGED <<given, catalogVars, mode, history>>
        /\ faults' \in Nat
    BY <1>6, <1>t, CallType DEF Swap, InHand, TypeOK
  <2>4. StepType /\ \A u : DealtWith(u) => DealtWith(u)'
    BY <1>q, <2>1
  <2>2. CASE TableFails(table)
    BY <2>1, <2>2, <2>4, <1>0, FailureInv
  <2>3. CASE table \in unmapped /\ Goto("validate")
    <3>1. DealtWith(table)
      BY <2>3, <1>t DEF CatalogInv, DealtWith, Settled
    <3>2. DealtWith(table)'
      BY <2>3, <2>4, <3>1 DEF Goto, DealtWith, Settled, Migrated
    <3> QED
      BY <2>1, <2>3, <2>4, <3>2, AdvanceInv DEF Calling
  <2>5. CASE table \notin unmapped /\ (Goto("drop") \/ Goto("overwrite"))
    BY <2>1, <2>4, <2>5, AdvanceInv DEF Calling
  <2> QED
    BY <1>6, <2>2, <2>3, <2>5 DEF Swap
<1>7. CASE Overwrite
  <2>1. PICK s \in Statuses :
          /\ AnswerUnlessCancelled(Call("overwrite"), s)
          /\ \/ s = "ok" /\ mode' = "atomic" /\ Goto("validate")
             \/ /\ s \in {"400", "409"} /\ mode = "unknown"
                /\ mode' = IF s = "409" THEN "dropRegister" ELSE mode
                /\ Goto("drop")
             \/ /\ s # "ok" /\ ~(s \in {"400", "409"} /\ mode = "unknown")
                /\ TableFails(table)
                /\ UNCHANGED mode
    BY <1>7 DEF Overwrite
  <2>2. pc = "overwrite" /\ InHand /\ UNCHANGED <<given, history>> /\ table \notin unmapped
    BY <1>7 DEF Overwrite, InHand, Calling, IInv, LoopInv
  <2>3. /\ CatalogInv' /\ faults' \in Nat
        /\ \A t \in Table \ {table} : DealtWith(t) => DealtWith(t)'
        /\ s = "ok" => DealtWith(table)'
    <3>1. s = "ok" => table' = table
      BY <2>1 DEF Goto, TableFails
    <3> QED
      BY <2>1, <2>2, <3>1, <1>t, AnswerStep DEF Calling, history, CatalogInv
  <2>4. StepType
    BY <2>1, <2>2, <2>3, <1>t DEF StepType, history
  <2>5. CASE TableFails(table)
    BY <2>2, <2>4, <2>5, <1>0, FailureInv
  <2>6. CASE s = "ok" /\ Goto("validate")
    BY <2>2, <2>3, <2>4, <2>6, AdvanceInv DEF Calling
  <2>7. CASE Goto("drop")
    BY <2>2, <2>3, <2>4, <2>7, AdvanceInv DEF Calling
  <2> QED
    BY <2>1, <2>5, <2>6, <2>7
<1>8. CASE Drop
  <2>1. PICK s \in Statuses :
          /\ Answer(Call("drop"), s)
          /\ IF s = "ok" THEN Goto("register") ELSE TableFails(table)
          /\ stranded' = IF s = "lost" THEN stranded \cup {table} ELSE stranded
    BY <1>8 DEF Drop
  <2>2. pc = "drop" /\ InHand /\ UNCHANGED <<given, mode, unsound>> /\ table \notin unmapped
    BY <1>8 DEF Drop, InHand, Calling, IInv, LoopInv
  <2>3. /\ CatalogInv' /\ faults' \in Nat
        /\ \A t \in Table \ {table} : DealtWith(t) => DealtWith(t)'
    BY <2>1, <2>2, <1>0, <1>t, AnswerStep DEF Calling, CatalogInv
  <2>4. StepType
    BY <2>2, <2>3, <1>t DEF StepType
  <2>5. CASE TableFails(table)
    BY <2>2, <2>4, <2>5, <1>0, FailureInv
  <2>6. CASE Goto("register")
    BY <2>2, <2>3, <2>4, <2>6, AdvanceInv DEF Calling
  <2> QED
    BY <2>1, <2>5, <2>6
<1>9. CASE Register
  <2>1. PICK s \in Statuses :
          /\ Answer(Call("register"), s)
          /\ Goto(IF s = "ok" THEN "validate" ELSE "restore")
    BY <1>9 DEF Register
  <2>2. pc = "register" /\ InHand /\ UNCHANGED <<given, mode, history>> /\ table \notin unmapped
    BY <1>9 DEF Register, InHand, Calling, IInv, LoopInv
  <2>3. /\ CatalogInv' /\ faults' \in Nat
        /\ \A t \in Table \ {table} : DealtWith(t) => DealtWith(t)'
        /\ s = "ok" => DealtWith(table)'
    <3>1. s = "ok" => table' = table
      BY <2>1 DEF Goto, TableFails
    <3> QED
      BY <2>1, <2>2, <3>1, <1>t, AnswerStep DEF Calling, history, CatalogInv
  <2>4. StepType
    BY <2>2, <2>3, <1>t DEF StepType, history
  <2>5. CASE s = "ok"
    BY <2>1, <2>2, <2>3, <2>4, <2>5, AdvanceInv DEF Calling
  <2>6. CASE s # "ok"
    BY <2>1, <2>2, <2>3, <2>4, <2>6, AdvanceInv DEF Calling
  <2> QED
    BY <2>5, <2>6
<1>10. CASE Restore
  <2>1. PICK s \in Statuses :
          /\ Answer(Call("restore"), s)
          /\ stranded' = IF s = "ok" THEN stranded ELSE stranded \cup {table}
    BY <1>10 DEF Restore
  <2>2. /\ pc = "restore" /\ InHand /\ UNCHANGED <<given, mode, unsound>>
        /\ TableFails(table)
    BY <1>10 DEF Restore, InHand, Calling
  <2>3. CatalogInv' /\ faults' \in Nat
    BY <2>1, <2>2, <1>0, <1>t, AnswerStep DEF Calling, CatalogInv
  <2>4. StepType
    BY <2>2, <2>3, <1>t DEF StepType
  <2> QED
    BY <2>2, <2>4, <1>0, FailureInv
<1>11. CASE Validate
  <2>1. /\ InHand /\ pc = "validate"
        /\ UNCHANGED <<given, catalogVars, mode, stranded>>
        /\ faults' \in Nat
        /\ DealtWith(table) /\ unsound' \subseteq Table
    BY <1>11, <1>t, <1>0, CallType DEF Validate, InHand, IInv, LoopInv
  <2>4. StepType
    BY <1>t, <2>1 DEF StepType, CatalogInv, given, catalogVars
  <2>2. CASE TableFails(table)
    BY <2>1, <2>2, <2>4, <1>0, FailureInv
  <2>3. CASE TableDone(table)
    BY <2>1, <2>3, <2>4, <1>0, DoneInv
  <2> QED
    BY <1>11, <2>2, <2>3 DEF Validate
<1>12. CASE Interrupt
  <2>1. /\ faults' \in Nat
        /\ UNCHANGED <<given, catalogVars, mode, history>>
    BY <1>12, <1>t, CallType DEF Interrupt
  <2>2. TypeOK'
    BY <1>12, <2>1 DEF Interrupt, IInv, TypeOK, given, catalogVars, jobVars, history
  <2>3. StepType /\ \A u : DealtWith(u) => DealtWith(u)'
    BY <1>q, <2>1
  <2>4. LoopInv'
    BY <1>12, <2>1, <2>3
       DEF Interrupt, IInv, LoopInv, InHand, Calling, given, DealtWith, Settled, Migrated
  <2> QED
    BY <1>12, <2>2, <2>3, <2>4 DEF Interrupt, IInv, JobInv, ExitHonest, jobVars, StepType
<1>13. CASE Kill
  <2>1. /\ faults' \in Nat /\ pc # "down" /\ Exit("nonzero")
        /\ UNCHANGED <<given, registered, side, mode, unsound>>
        /\ stranded' = IF pc \in {"drop", "register", "restore"}
                       THEN stranded \cup {table} ELSE stranded
        /\ late' \subseteq late \cup {Call(op) : op \in {pc} \cap Calling}
    BY <1>13, <1>t, CallType DEF Kill, Calling
  <2>2. \A op \in {pc} \cap Calling :
          /\ Call(op) \in Calls /\ Call(op).table = table /\ Call(op).op = pc
          /\ table \in Table /\ table \notin unmapped
    BY <1>0, BoundsAssumption DEF Call, Calls, Calling, InHand, IInv, LoopInv, TypeOK
  <2>4. stranded \subseteq stranded' /\ stranded' \subseteq Table
    BY <1>0, <1>t, <2>1 DEF InHand, Calling, CatalogInv
  <2>5. \A c \in late' : c \in late \/ (c = Call(pc) /\ pc \in Calling)
    BY <2>1
  <2>3. CatalogInv'
    BY <2>1, <2>2, <2>4, <2>5, <1>t DEF CatalogInv, given, Calling
  <2> QED
    BY <2>1, <2>3, <1>t, ExitNonzero DEF StepType
<1>14. CASE ServeLate
  <2>1. CatalogInv' /\ \A t \in Table : DealtWith(t) => DealtWith(t)'
    BY <1>14, LateStep
  <2>2. UNCHANGED <<given, processVars, jobVars, history, faults>>
    BY <1>14 DEF ServeLate
  <2>3. TypeOK'
    BY <2>1, <2>2 DEF IInv, TypeOK, CatalogInv, given, processVars, jobVars, history
  <2>4. LoopInv'
    <3>1. pc' = "validate" => DealtWith(table)'
      BY <1>0, <2>1, <2>2 DEF IInv, LoopInv, InHand, processVars
    <3>2. \A t \in selected : t \in Table
      BY DEF IInv, TypeOK
    <3>3. table' = table /\ unmapped' = unmapped
      BY <2>2 DEF processVars, given
    <3> QED
      BY <2>1, <2>2, <3>1, <3>2, <3>3 DEF IInv, LoopInv, InHand, Calling, processVars
  <2>5. ExitHonest'
    BY <2>1, <2>2 DEF IInv, TypeOK, ExitHonest, processVars, jobVars
  <2>6. JobInv'
    BY <2>2 DEF IInv, JobInv, processVars, jobVars
  <2> QED
    BY <2>1, <2>3, <2>4, <2>5, <2>6 DEF IInv
<1>15. CASE UNCHANGED vars
  <2>1. \A t : DealtWith(t) => DealtWith(t)'
    BY <1>15 DEF vars, given, catalogVars, history, DealtWith, Settled, Migrated
  <2> QED
    BY <1>15, <2>1 DEF vars, given, catalogVars, processVars, jobVars, history, IInv, TypeOK,
                   CatalogInv, LoopInv, JobInv, InHand, ExitHonest, DealtWith, Settled, Migrated
<1> QED
  BY <1>1, <1>2, <1>3, <1>4, <1>5, <1>6, <1>7, <1>8, <1>9, <1>10, <1>11, <1>12, <1>13,
     <1>14, <1>15 DEF Next, Progress

LEMMA Invariance == Spec => []IInv
  BY InitInv, NextInv, PTL DEF Spec

-----------------------------------------------------------------------------
\* The variables stay in their types.
THEOREM TypeCorrect == Spec => []TypeOK
  BY Invariance, PTL DEF IInv

\* Whatever fails, is lost, served late, interrupted or killed, with or without
\* --keep-going: exit code 0 means that every selected table was dealt with, one
\* whose metadata names nothing to rebase by being left where it is.
THEOREM ExitHonestCorrect == Spec => []ExitHonest
  BY Invariance, PTL DEF IInv

-----------------------------------------------------------------------------
\* A table is off the catalog in the drop window of the present pod, or since a
\* pod left it there; so a run over all tables selects all but those.
AllInv ==
  /\ \A t \in Table \ registered :
       t \in stranded \/ (t = table /\ pc \in {"register", "restore"})
  /\ pc \notin {"down", "select"} \/ exit = "zero" =>
       \A t \in Table \ selected : t \in stranded

LEMMA AllNext ==
  ASSUME named = {}, IInv, AllInv, [Next]_vars
  PROVE  AllInv'
<1>t. registered \subseteq Table /\ selected \subseteq Table /\ late \subseteq Calls
  BY DEF IInv, TypeOK
<1>s. InHand => table \in Table
  BY DEF IInv, LoopInv, TypeOK
<1>f. pc # "down" => exit # "zero"
  BY DEF IInv, JobInv
<1>e. \A t \in Table : TableFails(t) \/ TableDone(t) =>
        /\ selected' = selected /\ pc' \in {"next", "down"}
        /\ exit' = exit \/ exit' = "nonzero"
  BY DEF TableFails, TableDone, Exit, jobVars
<1> USE DEF AllInv
<1>1. CASE StartPod
  BY <1>1 DEF StartPod, Goto, catalogVars, jobVars, history, IInv, JobInv
<1>2. CASE SelectTables
  BY <1>2, <1>t, <1>f DEF SelectTables, Listed, Exit, catalogVars, jobVars, history
<1>3. CASE LoadTable
  <2>1. UNCHANGED <<registered, stranded>> /\ pc = "next"
    BY <1>3 DEF LoadTable, catalogVars, history
  <2>2. /\ pc' \in {"next", "rewrite", "down"} /\ selected' = selected
        /\ exit' = exit \/ exit' = "nonzero"
    BY <1>3, <1>e, <1>t DEF LoadTable, NotFound, jobVars, IInv, TypeOK
  <2> QED
    BY <2>1, <2>2
<1>4. CASE LoopOver
  BY <1>4 DEF LoopOver, Exit, catalogVars, history
<1>5. CASE RewriteTable \/ Swap \/ Validate
  <2>1. /\ UNCHANGED <<registered, stranded>>
        /\ pc \in {"rewrite", "swap", "validate"}
    BY <1>5 DEF RewriteTable, Swap, Validate, catalogVars, history
  <2>2. /\ selected' = selected
        /\ exit' = exit \/ exit' = "nonzero"
    BY <1>5, <1>e, <1>s, <2>1 DEF RewriteTable, Swap, Validate, Goto, InHand, jobVars
  <2> QED
    BY <2>1, <2>2
<1>6. CASE Overwrite
  <2>1. registered \subseteq registered' /\ UNCHANGED stranded /\ pc = "overwrite"
    BY <1>6 DEF Overwrite, AnswerUnlessCancelled, Answer, Perform, Call, catalogVars, history
  <2>2. /\ selected' = selected
        /\ exit' = exit \/ exit' = "nonzero"
    BY <1>6, <1>e, <1>s, <2>1 DEF Overwrite, Goto, InHand, Calling, jobVars
  <2> QED
    BY <2>1, <2>2
<1>7. CASE Drop
  <2>1. PICK s \in Statuses :
          /\ Answer(Call("drop"), s)
          /\ IF s = "ok" THEN Goto("register") ELSE TableFails(table)
    BY <1>7 DEF Drop
  <2>2. pc = "drop" /\ table \in Table /\ stranded \subseteq stranded'
    BY <1>7, <1>s DEF Drop, InHand, Calling
  <2>3. CASE s = "ok"
    <3>1. registered' = registered \ {table}
      BY <2>1, <2>3 DEF Answer, Perform, Call, Refusal
    <3> QED
      BY <2>1, <2>2, <2>3, <3>1 DEF Goto, jobVars
  <2>4. CASE s # "ok"
    <3>1. registered' = registered
      BY <2>1, <2>4 DEF Answer, catalogVars
    <3> QED
      BY <1>e, <2>1, <2>2, <2>4, <3>1
  <2> QED
    BY <2>3, <2>4
<1>8. CASE Register
  <2>1. PICK s \in Statuses :
          /\ Answer(Call("register"), s)
          /\ Goto(IF s = "ok" THEN "validate" ELSE "restore")
    BY <1>8 DEF Register
  <2>2. pc = "register" /\ table \in Table /\ stranded = stranded'
    BY <1>8, <1>s DEF Register, InHand, Calling, history
  <2>3. /\ registered \subseteq registered'
        /\ s = "ok" => table \in registered'
    BY <2>1 DEF Answer, Perform, Call, Refusal, catalogVars
  <2> QED
    BY <2>1, <2>2, <2>3 DEF Goto, jobVars
<1>9. CASE Restore
  <2>1. PICK s \in Statuses :
          /\ Answer(Call("restore"), s)
          /\ stranded' = IF s = "ok" THEN stranded ELSE stranded \cup {table}
    BY <1>9 DEF Restore
  <2>2. pc = "restore" /\ table \in Table /\ TableFails(table)
    BY <1>9, <1>s DEF Restore, InHand, Calling
  <2>3. /\ registered \subseteq registered'
        /\ s = "ok" => table \in registered'
    BY <2>1 DEF Answer, Perform, Call, Refusal, catalogVars
  <2> QED
    BY <1>e, <2>1, <2>2, <2>3
<1>10. CASE Interrupt
  BY <1>10 DEF Interrupt, catalogVars, jobVars, history
<1>11. CASE Kill
  BY <1>11 DEF Kill, Exit
<1>12. CASE ServeLate
  <2>1. PICK c \in late :
          IF Accepts(c) THEN Perform(c) ELSE UNCHANGED <<registered, side>>
    BY <1>12 DEF ServeLate
  <2>2. UNCHANGED <<pc, table, selected, exit, stranded>>
    BY <1>12 DEF ServeLate, processVars, jobVars, history
  <2>3. c.op = "drop" => c.table \in stranded
    BY DEF IInv, CatalogInv
  <2>4. \A t \in registered \ registered' : t \in stranded
    BY <2>1, <2>3 DEF Perform
  <2> QED
    BY <2>2, <2>4
<1>13. CASE UNCHANGED vars
  BY <1>13 DEF vars, catalogVars, processVars, jobVars, history
<1> QED
  BY <1>1, <1>2, <1>3, <1>4, <1>5, <1>6, <1>7, <1>8, <1>9, <1>10, <1>11, <1>12, <1>13
     DEF Next, Progress

\* No step changes what the run was given: flags, tables and catalog.
LEMMA GivenConstant == [Next]_vars => UNCHANGED named
  BY DEF Next, Progress, StartPod, SelectTables, LoadTable, LoopOver, RewriteTable, Swap,
         Overwrite, Drop, Register, Restore, Validate, Interrupt, Kill, ServeLate, given, vars

AllIfAllTables == named = {} => AllInv

\* On every kind of catalog, an --all-tables Job that succeeded has dealt with
\* every table, as k8s/README.md:31 says but for the tables left in a drop window.
THEOREM JobCorrect == Spec => []JobRebasesAll
<1>1. Init => AllIfAllTables
  BY DEF Init, AllInv, AllIfAllTables
<1>2. IInv /\ AllIfAllTables /\ [Next]_vars => AllIfAllTables'
  BY AllNext, GivenConstant DEF AllIfAllTables
<1>3. IInv /\ AllIfAllTables => JobRebasesAll
  BY DEF IInv, JobInv, ExitHonest, AllInv, AllIfAllTables, JobRebasesAll, DealtWith
<1> QED
  BY <1>1, <1>2, <1>3, Invariance, PTL DEF Spec
=============================================================================
