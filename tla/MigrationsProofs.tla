-------------------------- MODULE MigrationsProofs ---------------------------
(***************************************************************************)
(* Proofs of the safety properties of Migrations for any number of         *)
(* servers, files and crashes.                                             *)
(***************************************************************************)
EXTENDS Migrations, TLAPS

\* Before the loops the file is the first; in the second loop the files
\* before it are recorded, and a server that is through has seen them all.
LoopInv ==
    \A s \in Servers :
        /\ pc[s] \in {"tracker", "createTracker", "exists", "count"} => file[s] = 1
        /\ pc[s] \in {"check", "exec", "blocked", "commit", "record"} =>
              \A g \in Files : g < file[s] => g \in recorded
        /\ pc[s] = "serve" => recorded = Files
        /\ pc[s] = "record" => file[s] \in applied

\* A schema without records is none or, made by hand, the whole one; so a
\* baseline is begun over the whole one only.
SchemaInv ==
    /\ recorded \subseteq applied
    /\ \A f \in applied : 1 .. f \subseteq applied
    /\ recorded = {} => applied \in {{}, Files}
    /\ \A s \in Servers : saw[s] => 1 \in applied
    /\ \A s \in Servers : pc[s] = "baseline" => applied = Files

IInv == TypeOK /\ LoopInv /\ (SoundStart => SchemaInv)

-----------------------------------------------------------------------------
\* Where a loop over the files goes on, and with which file.
LEMMA AdvanceTypes ==
    ASSUME TypeOK, NEW s \in Servers, NEW on \in Labels, NEW over \in Labels,
           Advance(s, on, over)
    PROVE  /\ file' \in [Servers -> Files] /\ pc' \in [Servers -> Labels]
           /\ \A t \in Servers \ {s} : pc'[t] = pc[t] /\ file'[t] = file[t]
           /\ \/ file[s] < N /\ pc'[s] = on /\ file'[s] = file[s] + 1
              \/ file[s] = N /\ pc'[s] = over /\ file'[s] = 1
  BY FilesAssumption DEF Advance, Goto, TypeOK, Files

\* Every start satisfies the invariant.
LEMMA InitIInv == Init => IInv
<1> SUFFICES ASSUME Init PROVE IInv
  OBVIOUS
<1> USE FilesAssumption DEF Files
<1> PICK n \in 0 .. N :
        /\ applied = 1 .. n
        /\ \/ tracker = FALSE /\ recorded = {} /\ manual = 1 .. n
           \/ tracker = TRUE /\ recorded = 1 .. n /\ manual = {}
  BY DEF Init
<1>1. TypeOK
  <2>1. applied \subseteq Files /\ recorded \subseteq Files /\ manual \subseteq Files
    OBVIOUS
  <2>2. pc \in [Servers -> Labels] /\ file \in [Servers -> Files] /\ crashes \in 0 .. MaxCrashes
    BY CrashAssumption DEF Init, Labels
  <2>3. tracker \in BOOLEAN /\ saw \in [Servers -> BOOLEAN]
    BY DEF Init
  <2> QED  BY <2>1, <2>2, <2>3 DEF TypeOK
<1>2. LoopInv
  BY DEF LoopInv, Init
<1>3. SoundStart => SchemaInv
  <2>1. recorded \subseteq applied /\ \A f \in applied : 1 .. f \subseteq applied
    OBVIOUS
  <2>2. SoundStart /\ recorded = {} => applied \in {{}, Files}
    BY DEF SoundStart
  <2>3. \A s \in Servers : ~saw[s] /\ pc[s] # "baseline"
    BY DEF Init
  <2> QED  BY <2>1, <2>2, <2>3 DEF SchemaInv
<1> QED  BY <1>1, <1>2, <1>3 DEF IInv

\* Types: a loop stays within the files.
LEMMA TypeStep == ASSUME TypeOK, Next PROVE TypeOK'
<1> PICK s \in Servers : RunMigrations(s) \/ Crash(s) \/ Start(s)
  BY DEF Next
<1> USE FilesAssumption, CrashAssumption DEF TypeOK, schemaVars, Goto, Die
<1>1. CASE LookForTracker(s)
  BY <1>1 DEF LookForTracker, Labels
<1>2. CASE CreateTracker(s)
  BY <1>2 DEF CreateTracker, Labels
<1>3. CASE LookForBusinesses(s)
  BY <1>3 DEF LookForBusinesses, Labels
<1>4. CASE CountRecorded(s)
  BY <1>4 DEF CountRecorded, Labels
<1>5. CASE Baseline(s)
  BY <1>5, AdvanceTypes DEF Baseline, Labels
<1>6. CASE CheckFile(s)
  BY <1>6, AdvanceTypes DEF CheckFile, Labels
<1>7. CASE ExecFile(s)
  BY <1>7 DEF ExecFile, Labels
<1>8. CASE ExecUnblocked(s)
  BY <1>8 DEF ExecUnblocked, Labels
<1>9. CASE CommitFile(s)
  BY <1>9, AdvanceTypes DEF CommitFile, Labels
<1>10. CASE RecordFile(s)
  BY <1>10, AdvanceTypes DEF RecordFile, Labels
<1>11. CASE Crash(s)
  BY <1>11 DEF Crash, Labels
<1>12. CASE Start(s)
  BY <1>12 DEF Start, Labels, Files
<1> QED  BY <1>1, <1>2, <1>3, <1>4, <1>5, <1>6, <1>7, <1>8, <1>9, <1>10, <1>11, <1>12
         DEF RunMigrations

\* Once a file is recorded the second loop may go on to the next.
LEMMA LoopAdvance ==
    ASSUME TypeOK, LoopInv, NEW s \in Servers,
           pc[s] \in {"check", "commit", "record"},
           Advance(s, "check", "serve"),
           recorded' = recorded \cup {file[s]},
           applied \subseteq applied', applied' \subseteq Files
    PROVE  LoopInv'
<1> USE FilesAssumption DEF TypeOK, Files
<1>1. /\ \A t \in Servers \ {s} : pc'[t] = pc[t] /\ file'[t] = file[t]
      /\ \/ file[s] < N /\ pc'[s] = "check" /\ file'[s] = file[s] + 1
         \/ file[s] = N /\ pc'[s] = "serve" /\ file'[s] = 1
  BY AdvanceTypes DEF Labels
<1>2. \A g \in Files : g <= file[s] => g \in recorded'
  BY DEF LoopInv
<1>3. recorded' \subseteq Files
  OBVIOUS
<1> SUFFICES ASSUME NEW t \in Servers
             PROVE  /\ pc'[t] \in {"tracker", "createTracker", "exists", "count"} => file'[t] = 1
                    /\ pc'[t] \in {"check", "exec", "blocked", "commit", "record"} =>
                          \A g \in Files : g < file'[t] => g \in recorded'
                    /\ pc'[t] = "serve" => recorded' = Files
                    /\ pc'[t] = "record" => file'[t] \in applied'
  BY DEF LoopInv
<1>4. CASE t = s
  BY <1>1, <1>2, <1>3, <1>4
<1>5. CASE t # s
  BY <1>1, <1>3, <1>5 DEF LoopInv
<1> QED  BY <1>4, <1>5

\* Records are never removed, so what a loop has passed stays recorded.
LEMMA LoopStep == ASSUME TypeOK, LoopInv, Next PROVE LoopInv'
<1> PICK s \in Servers : RunMigrations(s) \/ Crash(s) \/ Start(s)
  BY DEF Next
<1> USE FilesAssumption DEF TypeOK, LoopInv, schemaVars, Goto, Die, Files
<1>1. CASE LookForTracker(s)
  BY <1>1 DEF LookForTracker
<1>2. CASE CreateTracker(s)
  BY <1>2 DEF CreateTracker
<1>3. CASE LookForBusinesses(s)
  BY <1>3 DEF LookForBusinesses
<1>4. CASE CountRecorded(s)
  BY <1>4 DEF CountRecorded
<1>5. CASE Baseline(s)
  BY <1>5, AdvanceTypes DEF Baseline, Labels
<1>6. CASE CheckFile(s)
  <2>1. CASE file[s] \in recorded
    BY <1>6, <2>1, LoopAdvance DEF CheckFile
  <2>2. CASE file[s] \notin recorded
    BY <1>6, <2>2 DEF CheckFile
  <2> QED  BY <2>1, <2>2
<1>7. CASE ExecFile(s)
  BY <1>7 DEF ExecFile
<1>8. CASE ExecUnblocked(s)
  BY <1>8 DEF ExecUnblocked
<1>9. CASE CommitFile(s)
  <2>1. CASE file[s] \notin recorded
    BY <1>9, <2>1, LoopAdvance DEF CommitFile
  <2>2. CASE file[s] \in recorded
    BY <1>9, <2>2 DEF CommitFile
  <2> QED  BY <2>1, <2>2
<1>10. CASE RecordFile(s)
  BY <1>10, LoopAdvance DEF RecordFile
<1>11. CASE Crash(s)
  BY <1>11 DEF Crash
<1>12. CASE Start(s)
  BY <1>12 DEF Start
<1> QED  BY <1>1, <1>2, <1>3, <1>4, <1>5, <1>6, <1>7, <1>8, <1>9, <1>10, <1>11, <1>12
         DEF RunMigrations

\* The schema grows file by file, or was complete from the start.
LEMMA SchemaStep == ASSUME TypeOK, LoopInv, SchemaInv, Next PROVE SchemaInv'
<1> PICK s \in Servers : RunMigrations(s) \/ Crash(s) \/ Start(s)
  BY DEF Next
<1> USE FilesAssumption DEF TypeOK, LoopInv, SchemaInv, schemaVars, Goto, Die, Files
<1>1. CASE LookForTracker(s)
  BY <1>1 DEF LookForTracker
<1>2. CASE CreateTracker(s)
  BY <1>2 DEF CreateTracker
<1>3. CASE LookForBusinesses(s)
  BY <1>3 DEF LookForBusinesses
<1>4. CASE CountRecorded(s)
  BY <1>4 DEF CountRecorded
<1>5. CASE Baseline(s)
  BY <1>5, AdvanceTypes DEF Baseline, Labels
<1>6. CASE CheckFile(s)
  BY <1>6, AdvanceTypes DEF CheckFile, Labels
<1>7. CASE ExecFile(s)
  BY <1>7 DEF ExecFile
<1>8. CASE ExecUnblocked(s)
  BY <1>8 DEF ExecUnblocked
<1>9. CASE CommitFile(s)
  <2>1. CASE file[s] \notin recorded
    <3>1. applied' = applied \cup {file[s]} /\ recorded' = recorded \cup {file[s]}
      BY <1>9, <2>1 DEF CommitFile
    <3>2. 1 .. file[s] \subseteq applied'
      BY <1>9, <3>1 DEF CommitFile
    <3>3. \A f \in applied' : 1 .. f \subseteq applied'
      BY <3>1, <3>2
    <3>4. \A t \in Servers : pc'[t] = "baseline" => pc[t] = "baseline"
      BY <1>9, <2>1, AdvanceTypes DEF CommitFile, Labels
    <3>5. saw' = saw /\ applied' \subseteq Files
      BY <1>9, <3>1 DEF CommitFile
    <3> QED  BY <3>1, <3>3, <3>4, <3>5
  <2>2. CASE file[s] \in recorded
    BY <1>9, <2>2 DEF CommitFile
  <2> QED  BY <2>1, <2>2
<1>10. CASE RecordFile(s)
  BY <1>10, AdvanceTypes DEF RecordFile, Labels
<1>11. CASE Crash(s)
  BY <1>11 DEF Crash
<1>12. CASE Start(s)
  BY <1>12 DEF Start
<1> QED  BY <1>1, <1>2, <1>3, <1>4, <1>5, <1>6, <1>7, <1>8, <1>9, <1>10, <1>11, <1>12
         DEF RunMigrations

\* How the schema began is never forgotten.
LEMMA ManualStep == ASSUME [Next]_vars PROVE manual' = manual
  BY DEF Next, vars, RunMigrations, LookForTracker, CreateTracker, LookForBusinesses,
     CountRecorded, Baseline, CheckFile, ExecFile, ExecUnblocked, CommitFile, RecordFile,
     Crash, Start

\* Every step preserves the invariant.
LEMMA NextIInv == IInv /\ [Next]_vars => IInv'
<1> SUFFICES ASSUME IInv, [Next]_vars PROVE IInv'
  OBVIOUS
<1>1. SoundStart' = SoundStart
  BY ManualStep DEF SoundStart
<1>2. CASE Next
  BY <1>1, <1>2, TypeStep, LoopStep, SchemaStep DEF IInv
<1>3. CASE UNCHANGED vars
  BY <1>1, <1>3 DEF vars, IInv, TypeOK, LoopInv, SchemaInv
<1> QED  BY <1>2, <1>3

\* However many servers start, crash and get in each other's way, the
\* invariant holds.
THEOREM Invariance == Spec => []IInv
  BY InitIInv, NextIInv, PTL DEF Spec

\* The schema and the servers keep their types.
THEOREM TypeCorrect == Spec => []TypeOK
<1>1. IInv => TypeOK
  BY DEF IInv
<1> QED  BY Invariance, <1>1, PTL

\* No file is recorded in schema_migrations whose objects do not exist.
THEOREM RecordedIsAppliedHolds == Spec => []RecordedIsApplied
<1>1. IInv => RecordedIsApplied
  BY DEF IInv, SchemaInv, RecordedIsApplied
<1> QED  BY Invariance, <1>1, PTL

\* No server listens before every file is applied.
THEOREM ServesFullSchemaHolds == Spec => []ServesFullSchema
<1>1. IInv => ServesFullSchema
  BY DEF IInv, TypeOK, LoopInv, SchemaInv, ServesFullSchema
<1> QED  BY Invariance, <1>1, PTL

\* Files take effect in the order of their names.
THEOREM AppliedInOrderHolds == Spec => []AppliedInOrder
<1>1. IInv => AppliedInOrder
  BY DEF IInv, SchemaInv, AppliedInOrder
<1> QED  BY Invariance, <1>1, PTL
=============================================================================
