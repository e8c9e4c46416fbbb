----------------------------- MODULE Migrations -----------------------------
(***************************************************************************)
(* The migration engine (scripts/migrate.py), run before every start of the *)
(* service and by hand: the files not recorded in schema_versions are       *)
(* executed in order, each recorded after its last statement.               *)
(*                                                                         *)
(* DDL commits by itself, and some of it cannot be repeated: a run killed   *)
(* within such a file leaves every later run to fail at its repetition.     *)
(***************************************************************************)
EXTENDS Naturals, FiniteSets

CONSTANTS
  Newest,       \* number of the newest migration file
  Length,       \* [1 .. Newest -> the statements of each migration file]
  Repeatable,   \* files whose statements may be executed again (IF NOT EXISTS)
  Runners,      \* runs of the engine at the same time
  MaxKills      \* bound: runs killed

ASSUME MigrationAssumption ==
  /\ Newest \in Nat
  /\ Length \in [1 .. Newest -> Nat \ {0}]
  /\ MaxKills \in Nat

VARIABLES
  applied,    \* [Migs -> statements of the file that the database has executed]
  recorded,   \* rows of schema_versions
  runner,     \* [Runners -> the run: what it found recorded, the file, the next statement]
  kills

migrationVars == <<applied, recorded, runner, kills>>

Migs    == 1 .. Newest
Resting == [at |-> "resting", found |-> {}, file |-> {}, next |-> 1]

MigrationInit ==
  /\ applied  = [m \in Migs |-> 0]
  /\ recorded = {} /\ kills = 0
  /\ runner   = [r \in Runners |-> Resting]

\* get_applied_migrations
BeginMigrate(r) ==
  /\ runner[r].at = "resting" /\ recorded # Migs
  /\ runner' = [runner EXCEPT ![r] = [Resting EXCEPT !.at = "scanning", !.found = recorded]]
  /\ UNCHANGED <<applied, recorded, kills>>

\* Mutant: the files are not in order, as with names sorted as text.
OpenUnsorted(r, m) ==
  /\ runner[r].at = "scanning" /\ m \notin runner[r].found
  /\ runner' = [runner EXCEPT ![r] = [at |-> "executing", found |-> @.found, file |-> {m}, next |-> 1]]
  /\ UNCHANGED <<applied, recorded, kills>>

\* The first file that was not recorded, and that this run has not applied.
OpenMigration(r, m) ==
  /\ runner[r].at = "scanning" /\ m \notin runner[r].found
  /\ \A k \in Migs : k < m => k \in runner[r].found
  /\ runner' = [runner EXCEPT ![r] = [at |-> "executing", found |-> @.found, file |-> {m}, next |-> 1]]
  /\ UNCHANGED <<applied, recorded, kills>>

\* Mutant: the file is recorded before it is executed.
RecordFirst(r, m) ==
  /\ runner[r].at = "executing" /\ runner[r].next = 1
  /\ recorded' = recorded \cup {m}
  /\ runner' = [runner EXCEPT ![r] = [at |-> "scanning", found |-> @.found \cup {m}, file |-> {},
                                   next |-> @.next]]
  /\ UNCHANGED <<applied, kills>>

\* A statement is executed, and commits; one that the database has executed before is repeated
\* where it can be.
Execute(r, m) ==
  /\ runner[r].at = "executing" /\ m \in runner[r].file /\ runner[r].next <= Length[m]
  /\ runner[r].next > applied[m] \/ m \in Repeatable
  /\ applied' = [applied EXCEPT ![m] = IF runner[r].next > @ THEN runner[r].next ELSE @]
  /\ runner'  = [runner EXCEPT ![r].next = @ + 1]
  /\ UNCHANGED <<recorded, kills>>

\* The last result was read, so all statements succeeded; the version is unique.
Record(r, m) ==
  /\ runner[r].at = "executing" /\ m \in runner[r].file /\ runner[r].next > Length[m]
  /\ m \notin recorded
  /\ recorded' = recorded \cup {m}
  /\ runner' = [runner EXCEPT ![r] = [at |-> "scanning", found |-> @.found \cup {m}, file |-> {},
                                   next |-> @.next]]
  /\ UNCHANGED <<applied, kills>>

\* A statement that cannot be repeated, or a version that is there: the run ends, and the service
\* starts all the same.
GiveUp(r) ==
  /\ runner[r].at = "executing"
  /\ \E m \in runner[r].file :
       \/ runner[r].next <= Length[m] /\ runner[r].next <= applied[m] /\ m \notin Repeatable
       \/ runner[r].next > Length[m] /\ m \in recorded
  /\ runner' = [runner EXCEPT ![r] = Resting]
  /\ UNCHANGED <<applied, recorded, kills>>

EndMigrate(r) ==
  /\ runner[r].at = "scanning" /\ runner[r].found = Migs
  /\ runner' = [runner EXCEPT ![r] = Resting]
  /\ UNCHANGED <<applied, recorded, kills>>

\* The start times out, or the machine dies; the database may go on with what it was sent, which
\* is the whole file.
KillMigrate(r) ==
  /\ runner[r].at # "resting" /\ kills < MaxKills
  /\ kills' = kills + 1
  /\ runner' = [runner EXCEPT ![r] = Resting]
  /\ \/ UNCHANGED applied
     \/ \E m \in runner[r].file :
          /\ runner[r].next > applied[m] \/ m \in Repeatable
          /\ \E n \in runner[r].next .. Length[m] :
               applied' = [applied EXCEPT ![m] = IF n > @ THEN n ELSE @]
  /\ UNCHANGED recorded

MigrationStep ==
  \E r \in Runners :
    \/ BeginMigrate(r) \/ GiveUp(r) \/ EndMigrate(r) \/ KillMigrate(r)
    \/ \E m \in Migs : OpenMigration(r, m) \/ Execute(r, m) \/ Record(r, m)

\* Statements, versions and runs keep to their types.
MigrationTypeOK ==
  /\ applied \in [Migs -> Nat]
  /\ recorded \subseteq Migs
  /\ runner \in [Runners -> [at : {"resting", "scanning", "executing"}, found : SUBSET Migs,
                             file : SUBSET Migs, next : Nat]]
  /\ kills \in Nat

\* Whatever is killed, and however many runs overlap: a migration is recorded only when all its
\* statements are in the database, and nothing of a later one is there before it is recorded.
SchemaIsInOrder ==
  /\ \A m \in recorded : applied[m] = Length[m]
  /\ \A m \in Migs : applied[m] > 0 => \A k \in Migs : k < m => k \in recorded

\* Runs that overlap, are killed, give up and begin again implement one upgrade in order: no file
\* is begun before its turn, changed once it is recorded, or taken back.
Upgrade == INSTANCE SchemaUpgrade

KeepsSchema == Upgrade!Spec
=============================================================================
