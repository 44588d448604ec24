----------------------------- MODULE Migrations -----------------------------
(***************************************************************************)
(* RunMigrations, as the servers that start over one database run it.      *)
(* Migration files are numbered in the order of their names.  A file's     *)
(* schema objects become visible when its transaction commits; until then  *)
(* another server that executes the same file waits.                       *)
(***************************************************************************)
EXTENDS Naturals

CONSTANTS
    Servers,
    N,           \* the number of migration files; 11 in the repository
    Creates,     \* the files that begin with CREATE TABLE; the others add columns
    Needs,       \* the files whose tables a file refers to
    MaxCrashes   \* bound on the crashes of servers

Files == 1 .. N

ASSUME FilesAssumption == N \in Nat \ {0} /\ Creates \subseteq Files
ASSUME NeedsAssumption == /\ Needs \in [Files -> SUBSET Files]
                          /\ \A f \in Files, g \in Files : g \in Needs[f] => g < f
ASSUME CrashAssumption == MaxCrashes \in Nat

VARIABLES
    tracker,   \* schema_migrations exists
    applied,   \* the files whose objects exist
    recorded,  \* the rows of schema_migrations
    pc,        \* where the server is
    file,      \* the file its loop is at
    saw,       \* businessesExists, as it read it
    crashes,
    manual     \* history: the files applied by hand, before there was a tracker

vars == <<tracker, applied, recorded, pc, file, saw, crashes, manual>>
schemaVars == <<tracker, applied, recorded>>

Labels == {"tracker", "createTracker", "exists", "count", "baseline", "check", "exec",
           "blocked", "commit", "record", "serve", "dead"}

\* A new database, one whose first tables were made by hand, or one that an
\* earlier release with fewer files has migrated.
Init ==
    /\ \E n \in 0 .. N :
          /\ applied = 1 .. n
          /\ \/ tracker = FALSE /\ recorded = {} /\ manual = 1 .. n
             \/ tracker = TRUE /\ recorded = 1 .. n /\ manual = {}
    /\ pc = [s \in Servers |-> "tracker"]
    /\ file = [s \in Servers |-> 1]
    /\ saw = [s \in Servers |-> FALSE]
    /\ crashes = 0

Goto(s, l) == pc' = [pc EXCEPT ![s] = l]

\* log.Fatal ends the process; its transaction is rolled back.
Die(s) == Goto(s, "dead") /\ UNCHANGED file

\* Mutants of Advance: the loop's bound off by one.
AdvancePast(s, on, over) ==
    /\ file' = [file EXCEPT ![s] = IF @ <= N THEN @ + 1 ELSE 1]
    /\ Goto(s, IF file[s] <= N THEN on ELSE over)

AdvanceEarly(s, on, over) ==
    /\ file' = [file EXCEPT ![s] = IF @ + 1 < N THEN @ + 1 ELSE 1]
    /\ Goto(s, IF file[s] + 1 < N THEN on ELSE over)

\* A loop over the files goes on with the next one, or is over.
Advance(s, on, over) ==
    /\ file' = [file EXCEPT ![s] = IF @ < N THEN @ + 1 ELSE 1]
    /\ Goto(s, IF file[s] < N THEN on ELSE over)

-----------------------------------------------------------------------------
\* Mutant of LookForTracker: CREATE TABLE without IF NOT EXISTS.
CreateTrackerAlways(s) ==
    /\ pc[s] = "tracker"
    /\ Goto(s, "createTracker")
    /\ UNCHANGED <<schemaVars, file, saw, crashes, manual>>

\* CREATE TABLE IF NOT EXISTS looks for the table ...
LookForTracker(s) ==
    /\ pc[s] = "tracker"
    /\ Goto(s, IF tracker THEN "exists" ELSE "createTracker")
    /\ UNCHANGED <<schemaVars, file, saw, crashes, manual>>

\* ... and creates it; if another session has done so meanwhile, Postgres
\* reports a unique violation in its catalogue.
CreateTracker(s) ==
    /\ pc[s] = "createTracker"
    /\ \/ ~tracker /\ Goto(s, "exists") /\ UNCHANGED file
       \/ tracker /\ Die(s)
    /\ tracker' = TRUE
    /\ UNCHANGED <<applied, recorded, saw, crashes, manual>>

-----------------------------------------------------------------------------
(* recordExistingSchema: two reads and then the baseline, statement by     *)
(* statement                                                               *)

\* Does the table businesses exist?  The first file makes it.
LookForBusinesses(s) ==
    /\ pc[s] = "exists"
    /\ saw' = [saw EXCEPT ![s] = 1 \in applied]
    /\ Goto(s, "count")
    /\ UNCHANGED <<schemaVars, file, crashes, manual>>

\* Mutant of CountRecorded: the records are not counted.
CountIgnored(s) ==
    /\ pc[s] = "count"
    /\ Goto(s, IF saw[s] THEN "baseline" ELSE "check")
    /\ UNCHANGED <<schemaVars, file, saw, crashes, manual>>

\* A schema without a single record is taken for an existing one.
CountRecorded(s) ==
    /\ pc[s] = "count"
    /\ Goto(s, IF saw[s] /\ recorded = {} THEN "baseline" ELSE "check")
    /\ UNCHANGED <<schemaVars, file, saw, crashes, manual>>

\* Every file is recorded; ON CONFLICT DO NOTHING.
Baseline(s) ==
    /\ pc[s] = "baseline"
    /\ recorded' = recorded \cup {file[s]}
    /\ Advance(s, "baseline", "check")
    /\ UNCHANGED <<tracker, applied, saw, crashes, manual>>

-----------------------------------------------------------------------------
(* The loop over the files                                                 *)

\* A recorded file is skipped.
CheckFile(s) ==
    /\ pc[s] = "check"
    /\ \/ file[s] \in recorded /\ Advance(s, "check", "serve")
       \/ file[s] \notin recorded /\ Goto(s, "exec") /\ UNCHANGED file
    /\ UNCHANGED <<schemaVars, saw, crashes, manual>>

\* Another server's transaction has made the objects of f and not committed.
InProgress(f, s) == \E t \in Servers \ {s} : pc[t] = "commit" /\ file[t] = f

\* Mutant of ExecFile: isAlreadyExists knows no code.
ExecExistingDies(s) ==
    LET f == file[s]
    IN  /\ pc[s] = "exec"
        /\ \/ f \notin applied /\ InProgress(f, s) /\ Goto(s, "blocked")
           \/ (f \in applied \/ ~(Needs[f] \subseteq applied)) /\ Goto(s, "dead")
           \/ /\ f \notin applied /\ ~InProgress(f, s) /\ Needs[f] \subseteq applied
              /\ Goto(s, "commit")
        /\ UNCHANGED <<schemaVars, file, saw, crashes, manual>>

\* tx.Exec of the file.  Objects that exist make it fail with one of the codes
\* isAlreadyExists knows, tables that are missing with another one.
ExecFile(s) ==
    LET f == file[s]
    IN  /\ pc[s] = "exec"
        /\ \/ f \in applied /\ Goto(s, "record")
           \/ f \notin applied /\ InProgress(f, s) /\ Goto(s, "blocked")
           \/ f \notin applied /\ ~(Needs[f] \subseteq applied) /\ Goto(s, "dead")
           \/ /\ f \notin applied /\ ~InProgress(f, s) /\ Needs[f] \subseteq applied
              /\ Goto(s, "commit")
        /\ UNCHANGED <<schemaVars, file, saw, crashes, manual>>

\* The transaction waited for is over.  If it has committed, a CREATE TABLE
\* ends in a unique violation, which isAlreadyExists does not know, an ADD
\* COLUMN in a duplicate column, which it does.
ExecUnblocked(s) ==
    LET f == file[s]
    IN  /\ pc[s] = "blocked"
        /\ ~InProgress(f, s)
        /\ Goto(s, IF f \notin applied THEN "commit"
                   ELSE IF f \in Creates THEN "dead" ELSE "record")
        /\ UNCHANGED <<schemaVars, file, saw, crashes, manual>>

\* The record is inserted in the file's transaction, and both are committed; a
\* record that is there already is an error.
CommitFile(s) ==
    /\ pc[s] = "commit"
    /\ \/ /\ file[s] \notin recorded
          /\ applied' = applied \cup {file[s]}
          /\ recorded' = recorded \cup {file[s]}
          /\ Advance(s, "check", "serve")
       \/ /\ file[s] \in recorded
          /\ Die(s)
          /\ UNCHANGED <<applied, recorded>>
    /\ UNCHANGED <<tracker, saw, crashes, manual>>

\* A file whose objects exist is recorded; ON CONFLICT DO NOTHING.
RecordFile(s) ==
    /\ pc[s] = "record"
    /\ recorded' = recorded \cup {file[s]}
    /\ Advance(s, "check", "serve")
    /\ UNCHANGED <<tracker, applied, saw, crashes, manual>>

-----------------------------------------------------------------------------
\* The process is killed, or a statement fails for a reason of its own (a lost
\* connection, a full disk) and log.Fatal ends it.  It stays down.
Crash(s) ==
    /\ pc[s] # "dead"
    /\ crashes < MaxCrashes
    /\ crashes' = crashes + 1
    /\ Die(s)
    /\ UNCHANGED <<schemaVars, saw, manual>>

\* Somebody starts a dead server again: main runs from the beginning.
Start(s) ==
    /\ pc[s] = "dead"
    /\ Goto(s, "tracker")
    /\ file' = [file EXCEPT ![s] = 1]
    /\ saw' = [saw EXCEPT ![s] = FALSE]
    /\ UNCHANGED <<schemaVars, crashes, manual>>

RunMigrations(s) ==
    \/ LookForTracker(s) \/ CreateTracker(s)
    \/ LookForBusinesses(s) \/ CountRecorded(s) \/ Baseline(s)
    \/ CheckFile(s) \/ ExecFile(s) \/ ExecUnblocked(s) \/ CommitFile(s) \/ RecordFile(s)

Next == \E s \in Servers : RunMigrations(s) \/ Crash(s) \/ Start(s)

Spec == Init /\ [][Next]_vars

\* A server that runs goes on; nobody is obliged to start a dead one again.
FairSpec == Spec /\ \A s \in Servers : WF_vars(RunMigrations(s))

-----------------------------------------------------------------------------
(* Properties                                                              *)

\* Every variable keeps its type.
TypeOK ==
    /\ tracker \in BOOLEAN
    /\ applied \in SUBSET Files
    /\ recorded \in SUBSET Files
    /\ pc \in [Servers -> Labels]
    /\ file \in [Servers -> Files]
    /\ saw \in [Servers -> BOOLEAN]
    /\ crashes \in 0 .. MaxCrashes
    /\ manual \in SUBSET Files

\* The baseline is right about the schema it finds: one made by hand is
\* complete.
SoundStart == manual \in {{}, Files}

\* A file is recorded only if its objects exist: no server takes another
\* one's half-migrated database, or its own after a crash, for an existing
\* one.
RecordedIsApplied == SoundStart => recorded \subseteq applied

\* A server listens only when the whole schema is there, even if others
\* did the work or died over it.
ServesFullSchema ==
    SoundStart => \A s \in Servers : pc[s] = "serve" => applied = Files

\* Files take effect in the order of their names, even when several servers
\* work through them.
AppliedInOrder == SoundStart => \A f \in applied : 1 .. f \subseteq applied

\* However the servers get in each other's way, one of them comes up unless a
\* server crashes: whoever dies of a conflict does so because another one got
\* further.  A crash of that other one can leave nobody.
SomeServerComesUp ==
    SoundStart => <>(crashes > 0 \/ \E s \in Servers : pc[s] = "serve")

\* All servers but s are down.
Alone(s) == \A t \in Servers \ {s} : pc[t] = "dead"

\* What a crash leaves behind stops nobody for good: a server that starts while
\* all others are down, and is neither joined by one nor crashes itself, comes
\* up, a half-made schema and an interrupted baseline included.
FreshStartComesUp ==
    \A s \in Servers :
        (SoundStart /\ crashes = MaxCrashes /\ pc[s] = "tracker" /\ Alone(s))
            ~> (pc[s] = "serve" \/ ~Alone(s))
=============================================================================
