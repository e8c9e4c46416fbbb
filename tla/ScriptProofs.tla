---------------------------- MODULE ScriptProofs ----------------------------
(***************************************************************************)
(* Theorems about the scripts that run beside the portal's workers: the     *)
(* migration engine, for any files, statements and runs, the ingestion of   *)
(* the gatekeeper's logs, for any files, sightings and failures, and the    *)
(* two scripts that carry bans of machines over, for any bans and runs.     *)
(***************************************************************************)
EXTENDS Portal, TLAPS

-----------------------------------------------------------------------------
(* Migrations *)

\* No other part of the portal touches the migrations.
LEMMA MigrationsAlone ==
  ASSUME [Next]_vars
  PROVE  [MigrationStep]_migrationVars
BY DEF Next, vars, Beside, Serve, Continue, Fail, Only, OfAccounts

\* A run works on one file at a time, has found recorded only what is, and everything
\* before its next statement is in the database.
RunInOrder(r) ==
  /\ runner[r].found \subseteq recorded
  /\ runner[r].at # "executing" => runner[r].file = {}
  /\ \A m, k \in runner[r].file : m = k
  /\ \A m \in runner[r].file : /\ \A k \in Migs : k < m => k \in runner[r].found
                               /\ 1 <= runner[r].next /\ runner[r].next <= applied[m] + 1

MigrationInv ==
  /\ MigrationTypeOK
  /\ SchemaIsInOrder
  /\ \A m \in Migs : applied[m] <= Length[m]
  /\ \A r \in Runners : RunInOrder(r)

\* What a step of one run must show for the invariant to survive: rows are never removed, the
\* database never undoes a statement, and the step keeps the order for its own run.
LEMMA OneRunSteps ==
  ASSUME MigrationInv, NEW r \in Runners, MigrationTypeOK',
         \A q \in Runners \ {r} : runner'[q] = runner[q],
         recorded \subseteq recorded', \A m \in Migs : applied[m] <= applied'[m],
         RunInOrder(r)', SchemaIsInOrder', \A m \in Migs : applied'[m] <= Length[m]
  PROVE  MigrationInv'
<1>1. ASSUME NEW q \in Runners PROVE RunInOrder(q)'
  <2>1. CASE q = r
    BY <2>1
  <2>2. CASE q # r
    <3>1. runner'[q] = runner[q] /\ RunInOrder(q)
      BY <2>2 DEF MigrationInv
    <3>2. \A m \in runner[q].file : m \in Migs /\ applied[m] \in Nat /\ applied'[m] \in Nat
      BY DEF MigrationInv, MigrationTypeOK
    <3>3. runner[q].next \in Nat
      BY DEF MigrationInv, MigrationTypeOK
    <3>4. \A m \in runner[q].file : runner[q].next <= applied'[m] + 1
      BY <3>1, <3>2, <3>3 DEF RunInOrder
    <3> QED
      BY <3>1, <3>4 DEF RunInOrder
  <2> QED
    BY <2>1, <2>2
<1> QED
  BY <1>1 DEF MigrationInv

LEMMA MigrationInitial == MigrationInit => MigrationInv
BY MigrationAssumption DEF MigrationInit, MigrationInv, MigrationTypeOK, SchemaIsInOrder, RunInOrder,
   Resting, Migs

\* A statement executed by the run of r, or by the database after the run was killed.
LEMMA StatementsRun ==
  ASSUME MigrationInv, NEW r \in Runners, NEW m \in Migs, m \in runner[r].file,
         NEW n \in Nat, runner[r].next <= n, n <= Length[m],
         applied' = [applied EXCEPT ![m] = IF n > @ THEN n ELSE @], recorded' = recorded
  PROVE  /\ applied' \in [Migs -> Nat] /\ SchemaIsInOrder'
         /\ \A k \in Migs : applied[k] <= applied'[k] /\ applied'[k] <= Length[k]
         /\ n <= applied'[m]
<1>1. applied \in [Migs -> Nat] /\ recorded \subseteq Migs /\ Length \in [Migs -> Nat \ {0}]
  BY MigrationAssumption DEF MigrationInv, MigrationTypeOK, Migs
<1>2. applied' \in [Migs -> Nat] /\ \A k \in Migs \ {m} : applied'[k] = applied[k]
  BY <1>1
<1>3. applied'[m] = IF n > applied[m] THEN n ELSE applied[m]
  BY <1>1
<1>4. applied[m] \in Nat /\ Length[m] \in Nat /\ applied[m] <= Length[m]
  BY <1>1 DEF MigrationInv
<1>5. applied[m] <= applied'[m] /\ applied'[m] <= Length[m] /\ n <= applied'[m]
  BY <1>3, <1>4
<1>6. \A k \in Migs : applied[k] <= applied'[k] /\ applied'[k] <= Length[k]
  BY <1>1, <1>2, <1>5 DEF MigrationInv
<1>7. \A k \in Migs : k < m => k \in recorded
  BY DEF MigrationInv, RunInOrder
<1>8. \A k \in recorded : applied'[k] = Length[k]
  <2> SUFFICES ASSUME NEW k \in recorded PROVE applied'[k] = Length[k]
    OBVIOUS
  <2>1. k \in Migs /\ applied[k] = Length[k] /\ applied[k] \in Nat /\ applied'[k] \in Nat
    BY <1>1, <1>2 DEF MigrationInv, SchemaIsInOrder
  <2> QED
    BY <2>1, <1>6
<1>9. ASSUME NEW k \in Migs, applied'[k] > 0, NEW j \in Migs, j < k PROVE j \in recorded
  <2>1. CASE k = m
    BY <2>1, <1>7, <1>9
  <2>2. CASE k # m
    BY <2>2, <1>2, <1>9 DEF MigrationInv, SchemaIsInOrder
  <2> QED
    BY <2>1, <2>2
<1> QED
  BY <1>2, <1>5, <1>6, <1>8, <1>9 DEF SchemaIsInOrder

LEMMA MigrationSteps ==
  ASSUME MigrationInv, [MigrationStep]_migrationVars
  PROVE  MigrationInv'
<1>0. MigrationTypeOK /\ recorded \subseteq Migs /\ Length \in [Migs -> Nat \ {0}]
  BY MigrationAssumption DEF MigrationInv, MigrationTypeOK, Migs
<1>1. ASSUME NEW r \in Runners, BeginMigrate(r) \/ GiveUp(r) \/ EndMigrate(r) PROVE MigrationInv'
  <2>1. UNCHANGED <<applied, recorded, kills>>
    BY <1>1 DEF BeginMigrate, GiveUp, EndMigrate
  <2>2. PICK f \in {{}, recorded}, at \in {"resting", "scanning"} :
          runner' = [runner EXCEPT ![r] = [at |-> at, found |-> f, file |-> {}, next |-> 1]]
    BY <1>1 DEF BeginMigrate, GiveUp, EndMigrate, Resting
  <2>3. MigrationTypeOK'
    BY <2>1, <2>2, <1>0 DEF MigrationTypeOK
  <2>4. RunInOrder(r)' /\ \A q \in Runners \ {r} : runner'[q] = runner[q]
    BY <2>1, <2>2 DEF RunInOrder, MigrationInv, MigrationTypeOK
  <2> QED
    <3>1. SchemaIsInOrder'
      BY <2>1 DEF MigrationInv, SchemaIsInOrder
    <3>2. \A m \in Migs : applied[m] <= applied'[m] /\ applied'[m] <= Length[m]
      BY <2>1 DEF MigrationInv, MigrationTypeOK
    <3> QED
      BY <2>1, <2>3, <2>4, <3>1, <3>2, OneRunSteps
<1>2. ASSUME NEW r \in Runners, NEW m \in Migs, OpenMigration(r, m) PROVE MigrationInv'
  <2>1. UNCHANGED <<applied, recorded, kills>>
    BY <1>2 DEF OpenMigration
  <2>2. runner' = [runner EXCEPT ![r] = [at |-> "executing", found |-> runner[r].found,
                                         file |-> {m}, next |-> 1]]
    BY <1>2, <1>0 DEF OpenMigration, MigrationTypeOK
  <2>3. MigrationTypeOK'
    BY <2>1, <2>2, <1>0 DEF MigrationTypeOK
  <2>4. RunInOrder(r)' /\ \A q \in Runners \ {r} : runner'[q] = runner[q]
    BY <2>1, <2>2, <1>2 DEF RunInOrder, MigrationInv, MigrationTypeOK, OpenMigration
  <2>5. SchemaIsInOrder' /\ \A k \in Migs : applied[k] <= applied'[k] /\ applied'[k] <= Length[k]
    BY <2>1 DEF MigrationInv, SchemaIsInOrder, MigrationTypeOK
  <2> QED
    BY <2>1, <2>3, <2>4, <2>5, OneRunSteps
<1>3. ASSUME NEW r \in Runners, NEW m \in Migs, Execute(r, m) PROVE MigrationInv'
  <2>1. /\ runner[r].next \in Nat /\ m \in runner[r].file /\ runner[r].next <= Length[m]
        /\ runner[r].at = "executing" /\ UNCHANGED <<recorded, kills>>
        /\ applied' = [applied EXCEPT ![m] = IF runner[r].next > @ THEN runner[r].next ELSE @]
    BY <1>3, <1>0 DEF Execute, MigrationTypeOK
  <2>2. /\ applied' \in [Migs -> Nat] /\ SchemaIsInOrder' /\ runner[r].next <= applied'[m]
        /\ \A k \in Migs : applied[k] <= applied'[k] /\ applied'[k] <= Length[k]
    <3>1. PICK n \in Nat : n = runner[r].next
      BY <2>1
    <3>2. applied' = [applied EXCEPT ![m] = IF n > @ THEN n ELSE @] /\ n <= Length[m] /\ runner[r].next <= n
      BY <2>1, <3>1
    <3> QED
      BY <2>1, <3>1, <3>2, StatementsRun
  <2>3. runner' = [runner EXCEPT ![r] = [at |-> "executing", found |-> runner[r].found,
                                         file |-> runner[r].file, next |-> runner[r].next + 1]]
    <3>1. runner[r] \in [at : {"resting", "scanning", "executing"}, found : SUBSET Migs,
                         file : SUBSET Migs, next : Nat]
      BY <1>0 DEF MigrationTypeOK
    <3>2. [runner[r] EXCEPT !.next = @ + 1] = [at |-> runner[r].at, found |-> runner[r].found,
                                               file |-> runner[r].file, next |-> runner[r].next + 1]
      BY <3>1
    <3>3. runner' = [runner EXCEPT ![r] = [runner[r] EXCEPT !.next = @ + 1]]
      BY <1>3 DEF Execute
    <3> QED
      BY <2>1, <3>2, <3>3
  <2>4. MigrationTypeOK'
    BY <2>1, <2>2, <2>3, <1>0 DEF MigrationTypeOK
  <2>5. \A q \in Runners \ {r} : runner'[q] = runner[q]
    BY <2>3, <1>0 DEF MigrationTypeOK
  <2>6. /\ runner'[r].found = runner[r].found /\ runner'[r].file = runner[r].file
        /\ runner'[r].at = "executing" /\ runner'[r].next = runner[r].next + 1
    BY <2>3, <1>0 DEF MigrationTypeOK
  <2>7. \A k \in runner[r].file : k = m
    BY <2>1 DEF MigrationInv, RunInOrder
  <2>8. runner'[r].next <= applied'[m] + 1 /\ 1 <= runner'[r].next
    BY <2>1, <2>2, <2>6
  <2>9. RunInOrder(r)'
    BY <2>1, <2>6, <2>7, <2>8 DEF MigrationInv, RunInOrder
  <2> QED
    BY <2>1, <2>2, <2>4, <2>5, <2>9, OneRunSteps
<1>4. ASSUME NEW r \in Runners, NEW m \in Migs, Record(r, m) PROVE MigrationInv'
  <2>1. /\ m \in runner[r].file /\ runner[r].next > Length[m]
        /\ recorded' = recorded \cup {m} /\ UNCHANGED <<applied, kills>>
    BY <1>4 DEF Record
  <2>2. runner' = [runner EXCEPT ![r] = [at |-> "scanning", found |-> runner[r].found \cup {m},
                                         file |-> {}, next |-> runner[r].next]]
    BY <1>4, <1>0 DEF Record, MigrationTypeOK
  <2>3. applied[m] = Length[m]
    <3>1. /\ runner[r].next \in Nat /\ applied[m] \in Nat /\ Length[m] \in Nat
          /\ runner[r].next <= applied[m] + 1 /\ applied[m] <= Length[m]
      BY <2>1, <1>0 DEF MigrationInv, MigrationTypeOK, RunInOrder
    <3> QED
      BY <3>1, <2>1
  <2>4. MigrationTypeOK'
    BY <2>1, <2>2, <1>0 DEF MigrationTypeOK
  <2>5. RunInOrder(r)' /\ \A q \in Runners \ {r} : runner'[q] = runner[q]
    BY <2>1, <2>2 DEF RunInOrder, MigrationInv, MigrationTypeOK
  <2>6. SchemaIsInOrder' /\ \A k \in Migs : applied[k] <= applied'[k] /\ applied'[k] <= Length[k]
    BY <2>1, <2>3 DEF MigrationInv, SchemaIsInOrder, MigrationTypeOK
  <2> QED
    BY <2>1, <2>4, <2>5, <2>6, OneRunSteps
<1>5. ASSUME NEW r \in Runners, KillMigrate(r) PROVE MigrationInv'
  <2>1. /\ runner' = [runner EXCEPT ![r] = [at |-> "resting", found |-> {}, file |-> {}, next |-> 1]]
        /\ kills' = kills + 1 /\ recorded' = recorded
    BY <1>5 DEF KillMigrate, Resting
  <2>2. /\ applied' \in [Migs -> Nat] /\ SchemaIsInOrder'
        /\ \A k \in Migs : applied[k] <= applied'[k] /\ applied'[k] <= Length[k]
    <3>1. CASE UNCHANGED applied
      BY <3>1, <2>1 DEF MigrationInv, MigrationTypeOK, SchemaIsInOrder
    <3>2. CASE ~UNCHANGED applied
      <4>1. PICK m \in runner[r].file : \E n \in runner[r].next .. Length[m] :
                   applied' = [applied EXCEPT ![m] = IF n > @ THEN n ELSE @]
        BY <3>2, <1>5 DEF KillMigrate
      <4>2. PICK n \in runner[r].next .. Length[m] :
                   applied' = [applied EXCEPT ![m] = IF n > @ THEN n ELSE @]
        BY <4>1
      <4>3. m \in Migs /\ runner[r].next \in Nat /\ Length[m] \in Nat
        BY <1>0 DEF MigrationTypeOK
      <4>4. n \in Nat /\ runner[r].next <= n /\ n <= Length[m]
        BY <4>3
      <4> QED
        BY <4>2, <4>3, <4>4, <2>1, StatementsRun
    <3> QED
      BY <3>1, <3>2
  <2>3. MigrationTypeOK'
    BY <2>1, <2>2, <1>0 DEF MigrationTypeOK
  <2>4. RunInOrder(r)' /\ \A q \in Runners \ {r} : runner'[q] = runner[q]
    BY <2>1 DEF RunInOrder, MigrationInv, MigrationTypeOK
  <2> QED
    BY <2>1, <2>2, <2>3, <2>4, OneRunSteps
<1>6. ASSUME UNCHANGED migrationVars PROVE MigrationInv'
  BY <1>6 DEF migrationVars, MigrationInv, MigrationTypeOK, SchemaIsInOrder, RunInOrder
<1> QED
  BY <1>1, <1>2, <1>3, <1>4, <1>5, <1>6 DEF MigrationStep

LEMMA MigrationInvariant == Spec => []MigrationInv
<1>1. Init => MigrationInv
  BY MigrationInitial DEF Init
<1>2. MigrationInv /\ [Next]_vars => MigrationInv'
  BY MigrationsAlone, MigrationSteps
<1> QED
  BY <1>1, <1>2, PTL DEF Spec

\* However many runs of the engine overlap and wherever they are killed, the schema is that of
\* the recorded migrations and of at most one more, for any files and statements.
THEOREM SchemaInOrder == Spec => []SchemaIsInOrder
<1>1. MigrationInv => SchemaIsInOrder
  BY DEF MigrationInv
<1> QED
  BY <1>1, MigrationInvariant, PTL

\* A step of the engine executes statements of the file whose turn it is, or records it.
LEMMA UpgradeStep ==
  ASSUME MigrationInv, [Next]_vars
  PROVE  [Upgrade!Next]_<<applied, recorded>>
<1> USE DEF Upgrade!Upgrades, Migs
<1>1. /\ applied \in [Migs -> Nat] /\ Length \in [Migs -> Nat \ {0}]
      /\ \A q \in Runners : runner[q].next \in Nat /\ runner[q].file \subseteq Migs
  BY MigrationAssumption DEF MigrationInv, MigrationTypeOK
\* The file a run has open is the one whose turn it is, unless another run has recorded it.
<1>2. ASSUME NEW q \in Runners, NEW m \in runner[q].file, m \notin recorded PROVE Upgrade!Turn(m)
  BY <1>1, <1>2 DEF MigrationInv, RunInOrder, Upgrade!Turn
\* What is executed of it, by a run or by the database after the run was killed, adds to it or
\* repeats what is there.
<1>3. ASSUME NEW q \in Runners, NEW m \in runner[q].file, NEW n \in Nat, n <= Length[m],
             applied' = [applied EXCEPT ![m] = IF n > @ THEN n ELSE @], UNCHANGED recorded
      PROVE  [Upgrade!Next]_<<applied, recorded>>
  <2>1. m \in Migs /\ applied[m] \in Nat /\ Length[m] \in Nat
    BY <1>1
  <2>2. CASE n <= applied[m]
    <3>1. ~(n > applied[m])
      BY <2>1, <2>2
    <3>2. applied' = [applied EXCEPT ![m] = applied[m]]
      BY <1>3, <3>1
    <3> QED
      BY <1>1, <1>3, <3>2
  <2>3. CASE n > applied[m]
    <3>1. n \in applied[m] + 1 .. Length[m] /\ applied' = [applied EXCEPT ![m] = n]
      <4>1. n \in applied[m] + 1 .. Length[m]
        BY <1>3, <2>1, <2>3
      <4> QED
        BY <1>3, <2>3, <4>1
    <3>2. m \notin recorded
      BY <1>3, <2>1, <2>3 DEF MigrationInv, SchemaIsInOrder
    <3>3. Upgrade!Advance(m)
      BY <1>2, <1>3, <3>1, <3>2 DEF Upgrade!Advance
    <3> QED
      BY <2>1, <3>3 DEF Upgrade!Next
  <2> QED
    BY <2>1, <2>2, <2>3
<1>4. ASSUME NEW r \in Runners, NEW m \in Migs, Execute(r, m)
      PROVE  [Upgrade!Next]_<<applied, recorded>>
  <2>1. PICK n \in Nat : n = runner[r].next
    BY <1>1
  <2>2. /\ m \in runner[r].file /\ n <= Length[m] /\ UNCHANGED recorded
        /\ applied' = [applied EXCEPT ![m] = IF n > @ THEN n ELSE @]
    BY <1>4, <2>1 DEF Execute
  <2> QED
    BY <1>3, <2>2
<1>5. ASSUME NEW r \in Runners, KillMigrate(r) PROVE [Upgrade!Next]_<<applied, recorded>>
  <2>1. UNCHANGED recorded
    BY <1>5 DEF KillMigrate
  <2>2. CASE UNCHANGED applied
    BY <2>1, <2>2
  <2>3. CASE ~UNCHANGED applied
    <3>1. PICK m \in runner[r].file : \E n \in runner[r].next .. Length[m] :
                 applied' = [applied EXCEPT ![m] = IF n > @ THEN n ELSE @]
      BY <2>3, <1>5 DEF KillMigrate
    <3>2. PICK n \in runner[r].next .. Length[m] :
                 applied' = [applied EXCEPT ![m] = IF n > @ THEN n ELSE @]
      BY <3>1
    <3>3. m \in Migs /\ runner[r].next \in Nat /\ Length[m] \in Nat
      BY <1>1
    <3>4. n \in Nat /\ n <= Length[m]
      BY <3>3
    <3> QED
      BY <1>3, <2>1, <3>2, <3>4
  <2> QED
    BY <2>2, <2>3
<1>6. ASSUME NEW r \in Runners, NEW m \in Migs, Record(r, m) PROVE Upgrade!Next
  <2>1. /\ m \in runner[r].file /\ runner[r].next > Length[m] /\ m \notin recorded
        /\ recorded' = recorded \cup {m} /\ UNCHANGED applied
    BY <1>6 DEF Record
  <2>2. applied[m] <= Length[m] /\ runner[r].next <= applied[m] + 1
    BY <2>1 DEF MigrationInv, RunInOrder
  <2>3. applied[m] = Length[m]
    BY <1>1, <2>1, <2>2
  <2>4. Upgrade!Enter(m)
    BY <1>2, <2>1, <2>3 DEF Upgrade!Enter
  <2> QED
    BY <2>4 DEF Upgrade!Next
<1>7. ASSUME NEW r \in Runners,
             BeginMigrate(r) \/ GiveUp(r) \/ EndMigrate(r) \/ \E m \in Migs : OpenMigration(r, m)
      PROVE  UNCHANGED <<applied, recorded>>
  BY <1>7 DEF BeginMigrate, GiveUp, EndMigrate, OpenMigration
<1>8. [MigrationStep]_migrationVars
  BY MigrationsAlone
<1> QED
  BY <1>4, <1>5, <1>6, <1>7, <1>8 DEF MigrationStep, migrationVars

\* The runs of the engine implement one upgrade in order, for any files, statements and runs, and
\* wherever they are killed.
THEOREM RunsKeepSchema == Spec => KeepsSchema
<1>1. Init => Upgrade!Init
  BY DEF Init, MigrationInit, Upgrade!Init, Upgrade!Upgrades, Migs
<1> QED
  BY <1>1, MigrationInvariant, UpgradeStep, PTL DEF Spec, KeepsSchema, Upgrade!Spec

-----------------------------------------------------------------------------
(* The ingestion of the gatekeeper's logs *)

\* No other part of the portal touches the log files and their rows.
LEMMA IngestAlone ==
  ASSUME [Next]_vars
  PROVE  [IngestStep]_ingestVars
BY DEF Next, vars, Beside, Serve, Continue, Fail, Only, OfAccounts

\* The run works on one file at a time: what it has read of it is written, or failed.
ReadingInOrder ==
  /\ ingest.at \in {"idle", "next"} => ingest.file = {}
  /\ \A f, g \in ingest.file : f = g
  /\ \A f \in ingest.file :
       /\ ingest.wrote \cup ingest.lines \subseteq Seen[f]
       /\ ingest.at = "reading" => Seen[f] \subseteq ingest.lines \cup ingest.wrote \cup missed
       /\ ingest.at = "renaming" => f \in committed

\* Files are taken in their order: older ones have been processed, have failed, or are at hand.
TakenInOrder ==
  /\ \A g \in rotated : \A f \in Files : f < g => f \in rotated
  /\ ingest.todo \cup ingest.file \subseteq rotated \ processed
  /\ ingest.todo \cap ingest.file = {}
  /\ \A g \in ingest.todo : \A f \in Files : f < g => f \in processed \cup failed \cup ingest.todo \cup ingest.file
  /\ \A g \in ingest.file : \A f \in Files : f < g => f \in processed \cup failed
  /\ \A g \in committed : \A f \in Files : f < g => f \in processed \cup failed

CommittedIsShown ==
  \A f \in committed : \A s \in Seen[f] \ missed : shown[s] >= f \/ shown[s] \in failed

IngestInv ==
  /\ IngestTypeOK
  /\ processed \subseteq committed
  /\ ReadingInOrder
  /\ TakenInOrder
  /\ CommittedIsShown

LEMMA IngestTypes == \A f \in Files : f \in Nat /\ Seen[f] \subseteq Sightings
BY IngestAssumption

LEMMA IngestInitial == IngestInit => IngestInv
BY DEF IngestInit, IngestInv, IngestTypeOK, IngestIdle, ReadingInOrder, TakenInOrder, CommittedIsShown

\* The run begins with all files that are not processed, or goes on without the one at hand.
LEMMA RunSteps ==
  ASSUME IngestInv, BeginIngest \/ EndIngest \/ KillIngest \/ FileFails
  PROVE  IngestInv'
<1>0. IngestTypeOK
  BY DEF IngestInv
<1>1. /\ UNCHANGED <<rotated, processed, shown, committed, missed>> /\ ingestfails' \in Nat
      /\ failed \subseteq failed' /\ failed' \subseteq Files
  BY <1>0 DEF BeginIngest, EndIngest, KillIngest, FileFails, IngestTypeOK
<1>2. PICK at \in {"idle", "next"}, todo \in SUBSET Files :
         /\ ingest' = [at |-> at, todo |-> todo, file |-> {}, lines |-> {}, wrote |-> {}]
         /\ \/ todo = {}
            \/ todo = rotated \ processed
            \/ todo = ingest.todo /\ failed' = failed \cup ingest.file
  BY <1>0 DEF BeginIngest, EndIngest, KillIngest, FileFails, IngestTypeOK, IngestIdle
<1>3. IngestTypeOK'
  BY <1>0, <1>1, <1>2 DEF IngestTypeOK
<1>4. ReadingInOrder' /\ CommittedIsShown'
  BY <1>1, <1>2 DEF IngestInv, ReadingInOrder, CommittedIsShown
<1>5. TakenInOrder'
  <2>1. /\ ingest'.todo = todo /\ ingest'.file = {}
        /\ todo \subseteq rotated \ processed
    BY <1>2 DEF IngestInv, TakenInOrder
  <2>2. \A g \in todo : \A f \in Files : f < g => f \in processed \cup failed' \cup todo
    BY <1>1, <1>2 DEF IngestInv, TakenInOrder
  <2> QED
    BY <1>1, <2>1, <2>2 DEF IngestInv, TakenInOrder
<1> QED
  BY <1>1, <1>3, <1>4, <1>5 DEF IngestInv

\* A line is written, or its statement fails, perhaps with all that was written before.
LEMMA LineSteps ==
  ASSUME IngestInv, NEW s \in Sightings, IngestLine(s) \/ StatementFails(s)
  PROVE  IngestInv'
<1>0. IngestTypeOK
  BY DEF IngestInv
<1>1. PICK undone \in SUBSET ingest.wrote, done \in SUBSET {s} :
        /\ ingest' = [ingest EXCEPT !.lines = @ \ {s}, !.wrote = (@ \ undone) \cup done]
        /\ missed' = missed \cup undone \cup ({s} \ done)
  <2>1. CASE IngestLine(s)
    <3>1. ingest' = [ingest EXCEPT !.lines = @ \ {s}, !.wrote = (@ \ {}) \cup {s}]
      BY <2>1 DEF IngestLine
    <3>2. missed' = missed \cup {} \cup ({s} \ {s})
      BY <2>1 DEF IngestLine
    <3> QED
      BY <3>1, <3>2
  <2>2. CASE StatementFails(s)
    <3>1. PICK undone \in {{}, ingest.wrote} :
            /\ ingest' = [ingest EXCEPT !.lines = @ \ {s}, !.wrote = @ \ undone]
            /\ missed' = missed \cup undone \cup {s}
      BY <2>2 DEF StatementFails
    <3>2. ingest' = [ingest EXCEPT !.lines = @ \ {s}, !.wrote = (@ \ undone) \cup {}]
      BY <3>1
    <3>3. missed' = missed \cup undone \cup ({s} \ {})
      BY <3>1
    <3> QED
      BY <3>2, <3>3
  <2> QED
    BY <2>1, <2>2
<1>2. /\ UNCHANGED <<rotated, processed, shown, committed, failed>> /\ ingestfails' \in Nat
      /\ ingest.at = "reading" /\ s \in ingest.lines
  BY <1>0 DEF IngestLine, StatementFails, IngestTypeOK
<1>3. /\ ingest'.at = "reading" /\ ingest'.todo = ingest.todo /\ ingest'.file = ingest.file
      /\ ingest'.lines = ingest.lines \ {s} /\ ingest'.wrote = (ingest.wrote \ undone) \cup done
      /\ ingest' \in [at : {"idle", "next", "reading", "renaming"}, todo : SUBSET Files,
                      file : SUBSET Files, lines : SUBSET Sightings, wrote : SUBSET Sightings]
  BY <1>0, <1>1, <1>2 DEF IngestTypeOK
<1>4. IngestTypeOK'
  BY <1>0, <1>1, <1>2, <1>3 DEF IngestTypeOK
<1>5. ReadingInOrder'
  BY <1>1, <1>2, <1>3 DEF IngestInv, ReadingInOrder
<1>6. TakenInOrder' /\ CommittedIsShown'
  BY <1>1, <1>2, <1>3 DEF IngestInv, TakenInOrder, CommittedIsShown
<1> QED
  BY <1>2, <1>4, <1>5, <1>6 DEF IngestInv

\* A newer file was committed before only when this one has failed.
LEMMA CommitSteps ==
  ASSUME IngestInv, NEW f \in Files, CommitFile(f)
  PROVE  IngestInv'
<1>0. IngestTypeOK
  BY DEF IngestInv
<1>1. /\ ingest.at = "reading" /\ ingest.lines = {} /\ f \in ingest.file
      /\ shown' = [s \in Sightings |-> IF s \in ingest.wrote THEN f ELSE shown[s]]
      /\ committed' = committed \cup {f}
      /\ ingest' = [ingest EXCEPT !.at = "renaming"]
      /\ UNCHANGED <<rotated, processed, ingestfails, missed, failed>>
  BY DEF CommitFile
<1>2. /\ ingest'.at = "renaming" /\ ingest'.file = ingest.file /\ ingest'.todo = ingest.todo
      /\ ingest'.lines = {} /\ ingest'.wrote = ingest.wrote
  BY <1>0, <1>1 DEF IngestTypeOK
<1>3. IngestTypeOK'
  BY <1>0, <1>1, IngestTypes DEF IngestTypeOK
<1>4. ReadingInOrder'
  BY <1>1, <1>2 DEF IngestInv, ReadingInOrder
<1>5. TakenInOrder'
  BY <1>1, <1>2 DEF IngestInv, TakenInOrder
<1>6. ASSUME NEW g \in committed', NEW s \in Seen[g] \ missed'
      PROVE  shown'[s] >= g \/ shown'[s] \in failed'
  <2>1. g \in Files /\ g \in Nat /\ f \in Nat /\ s \in Sightings
    BY <1>0, <1>1, IngestTypes DEF IngestTypeOK
  <2>2. ingest.wrote \subseteq Seen[f] /\ Seen[f] \subseteq ingest.wrote \cup missed
    BY <1>1 DEF IngestInv, ReadingInOrder
  <2>3. CASE s \in ingest.wrote
    <3>1. shown'[s] = f
      BY <1>1, <2>1, <2>3
    <3>2. f < g => f \in failed
      <4>1. f < g => g \in committed
        BY <1>1, <2>1
      <4>2. f \notin processed
        BY <1>1 DEF IngestInv, TakenInOrder
      <4> QED
        BY <4>1, <4>2 DEF IngestInv, TakenInOrder
    <3> QED
      BY <3>1, <3>2, <2>1, <1>1
  <2>4. CASE s \notin ingest.wrote
    <3>1. g # f /\ shown'[s] = shown[s]
      BY <1>1, <2>1, <2>2, <2>4
    <3> QED
      BY <3>1, <1>1 DEF IngestInv, CommittedIsShown
  <2> QED
    BY <2>3, <2>4
<1> QED
  BY <1>1, <1>3, <1>4, <1>5, <1>6 DEF IngestInv, CommittedIsShown

LEMMA IngestSteps ==
  ASSUME IngestInv, [IngestStep]_ingestVars
  PROVE  IngestInv'
<1>0. IngestTypeOK /\ Files \subseteq Nat
  BY IngestAssumption DEF IngestInv
<1>1. ASSUME NEW f \in Files, Rotate(f) PROVE IngestInv'
  <2>1. /\ rotated' = rotated \cup {f} /\ \A g \in Files : g < f => g \in rotated
        /\ UNCHANGED <<processed, shown, ingest, ingestfails, committed, missed, failed>>
    BY <1>1 DEF Rotate
  <2>2. IngestTypeOK'
    BY <1>0, <2>1 DEF IngestTypeOK
  <2> QED
    BY <2>1, <2>2 DEF IngestInv, ReadingInOrder, TakenInOrder, CommittedIsShown
<1>2. ASSUME NEW f \in Files, OpenFile(f) PROVE IngestInv'
  <2>1. /\ f \in ingest.todo /\ \A g \in ingest.todo : f <= g
        /\ UNCHANGED <<rotated, processed, shown, ingestfails, committed, missed, failed>>
        /\ ingest' = [at |-> "reading", todo |-> ingest.todo \ {f}, file |-> {f}, lines |-> Seen[f], wrote |-> {}]
        /\ ingest.at = "next"
    BY <1>2 DEF OpenFile
  <2>2. IngestTypeOK'
    BY <1>0, <2>1, IngestTypes DEF IngestTypeOK
  <2>3. ReadingInOrder' /\ CommittedIsShown'
    BY <2>1 DEF IngestInv, ReadingInOrder, CommittedIsShown
  <2>4. TakenInOrder'
    <3>1. \A g \in ingest.todo : g \in Nat
      BY <1>0 DEF IngestTypeOK
    <3>2. \A h \in Files : h < f => h \in processed \cup failed \cup ingest.file /\ h \notin ingest.todo
      BY <1>0, <2>1, <3>1 DEF IngestInv, TakenInOrder
    <3>3. ingest.file = {}
      BY <2>1 DEF IngestInv, ReadingInOrder
    <3> QED
      BY <2>1, <3>2, <3>3 DEF IngestInv, TakenInOrder
  <2> QED
    BY <2>1, <2>2, <2>3, <2>4 DEF IngestInv
<1>3. ASSUME NEW f \in Files, RenameFile(f) PROVE IngestInv'
  <2>1. /\ ingest.at = "renaming" /\ f \in ingest.file /\ processed' = processed \cup {f}
        /\ ingest' = [at |-> "next", todo |-> ingest.todo, file |-> {}, lines |-> {}, wrote |-> {}]
        /\ UNCHANGED <<rotated, shown, ingestfails, committed, missed, failed>>
    BY <1>3 DEF RenameFile, IngestIdle
  <2>2. f \in committed /\ ingest.file = {f}
    BY <2>1 DEF IngestInv, ReadingInOrder
  <2>3. IngestTypeOK'
    BY <1>0, <2>1 DEF IngestTypeOK
  <2>4. TakenInOrder'
    BY <2>1, <2>2 DEF IngestInv, TakenInOrder
  <2> QED
    BY <2>1, <2>2, <2>3, <2>4 DEF IngestInv, ReadingInOrder, CommittedIsShown
<1>4. ASSUME UNCHANGED ingestVars PROVE IngestInv'
  BY <1>4 DEF ingestVars, IngestInv, IngestTypeOK, ReadingInOrder, TakenInOrder, CommittedIsShown
<1> QED
  BY <1>1, <1>2, <1>3, <1>4, RunSteps, LineSteps, CommitSteps DEF IngestStep

LEMMA IngestInvariant == Spec => []IngestInv
<1>1. Init => IngestInv
  BY IngestInitial DEF Init
<1>2. IngestInv /\ [Next]_vars => IngestInv'
  BY IngestAlone, IngestSteps
<1> QED
  BY <1>1, <1>2, PTL DEF Spec

\* What staff are shown is at least as new as every processed file, for any files and sightings,
\* wherever a run is killed and whatever fails, with the exceptions the property names.
THEOREM NewestIsShown == Spec => []ShownIsNewest
<1>1. IngestInv => ShownIsNewest
  BY DEF IngestInv, CommittedIsShown, ShownIsNewest
<1> QED
  BY <1>1, IngestInvariant, PTL

-----------------------------------------------------------------------------
(* The scripts that enforce bans *)

\* Requests about bans and the scripts; no other part of the portal touches what they keep.
BanPartStep ==
  \/ \E w \in Workers : BanStart(w) \/ BanContinue(w) \/ BanFail(w)
  \/ \E n \in 1 .. SyncRuns : SyncStep(n)

LEMMA BansAlone ==
  ASSUME [Next]_vars
  PROVE  [BanPartStep]_banVars
BY DEF Next, vars, Beside, Serve, Continue, Fail, Only, OfAccounts, BanPartStep

\* A ban under way is nobody else's, and what of it is visible is what the request says.
RequestsOwnBans ==
  /\ \A w \in Workers : banreq[w].at \in {"banning", "lifting"} => banreq[w].ban \in BanIds
  /\ \A w \in Workers : banreq[w].at = "banning" =>
       /\ banreq[w].kind = "account" => banreq[w].machine = {}
       /\ ban[banreq[w].ban].state = "live" =>
            ban[banreq[w].ban].kind = banreq[w].kind /\ ban[banreq[w].ban].machine = banreq[w].machine
  /\ \A v, w \in Workers : v # w /\ banreq[v].at = "banning" /\ banreq[w].at = "banning" =>
       banreq[v].ban # banreq[w].ban

\* The request has changed the machines that are banned, and will start the scripts.
Owes(w) ==
  \/ banreq[w].at \in {"triggering", "restoring"}
  \/ banreq[w].at = "banning" /\ banreq[w].kind # "account" /\ ban[banreq[w].ban].state = "live"
Clean == ~unsynced /\ \A w \in Workers : ~Owes(w)

\* When nothing is owed and no run is still to read, the latest has read the live bans.
LastReadIsLive ==
  Clean /\ (\A n \in 1 .. SyncRuns : macrun[n].at # "started") =>
    /\ reads = 0 => LiveMacs = {}
    /\ reads # 0 => \A n \in 1 .. SyncRuns : macrun[n].n = reads => macrun[n].read = LiveMacs

HostsReadAreLive ==
  Clean /\ (\A n \in 1 .. SyncRuns : hostrun[n].at # "started") =>
    \A m \in LiveHosts : m \in dropped \/ \E n \in 1 .. SyncRuns : hostrun[n].at = "read" /\ m \in hostrun[n].read

\* A file that is not torn is what the run that wrote it last had read; it is torn in the hands of
\* a run, or by one that has failed or had read it torn; Robust has loaded it, or will.
FileIsFromRun ==
  /\ \A n \in 1 .. SyncRuns : /\ macrun[n].n <= reads
                              /\ macrun[n].at \in {"read", "parsed", "open", "written"} => macrun[n].n # 0
                              /\ macrun[n].at \in {"idle", "started"} => macrun[n].n = 0
                              /\ macrun[n].at \in {"idle", "started", "read"} => macrun[n].whole
  /\ ~torn /\ lastread = 0 => ini = {}
  /\ ~torn /\ lastread # 0 => \E n \in 1 .. SyncRuns : macrun[n].n = lastread /\ macrun[n].read = ini
                                                       /\ macrun[n].at \in {"written", "done"}
  /\ \A i, j \in 1 .. SyncRuns : macrun[i].n = macrun[j].n /\ macrun[i].n # 0 => i = j
  /\ ~unsynced /\ (\A n \in 1 .. SyncRuns : macrun[n].at \notin {"open", "written"}) => denied = ini
  /\ ~unsynced /\ (\A n \in 1 .. SyncRuns : macrun[n].at # "open" /\ macrun[n].whole) => ~torn

EnforceInv ==
  /\ BanTypeOK
  /\ RequestsOwnBans
  /\ LastReadIsLive
  /\ HostsReadAreLive
  /\ FileIsFromRun

LEMMA EnforceShows == EnforceInv => HardwareBansEnforced
<1> SUFFICES ASSUME EnforceInv, Settled PROVE /\ lastread = reads /\ ~Collided => denied = LiveMacs
                                              /\ LiveHosts \subseteq dropped
  BY DEF HardwareBansEnforced
<1>1. Clean
  BY DEF Settled, Clean, Owes
<1>2. /\ ~unsynced
      /\ \A n \in 1 .. SyncRuns : /\ macrun[n].at \notin {"started", "open", "written"}
                                  /\ hostrun[n].at \notin {"started", "read"}
  BY DEF Settled
<1>3. LiveHosts \subseteq dropped
  BY <1>1, <1>2 DEF EnforceInv, HostsReadAreLive
<1>4. denied = ini
  BY <1>2 DEF EnforceInv, FileIsFromRun
<1>5. ~Collided => ~torn
  BY <1>2 DEF EnforceInv, FileIsFromRun, Collided
<1>6. lastread = reads /\ ~torn => ini = LiveMacs
  BY <1>1, <1>2 DEF EnforceInv, FileIsFromRun, LastReadIsLive
<1> QED
  BY <1>3, <1>4, <1>5, <1>6

LEMMA EnforceRecords == /\ BanFree \in BanRequests /\ BanFree.at = "free"
                        /\ NoBan \in BanRows /\ NoBan.state = "none"
                        /\ NoRun \in Runs /\ NoRun.at = "idle" /\ NoRun.n = 0 /\ NoRun.whole
BY DEF BanFree, BanRequests, NoBan, BanRows, Kinds, NoRun, Runs

LEMMA LiveMachines ==
  /\ \A m : m \in LiveMacs <=> \E b \in BanIds : ban[b].state = "live" /\ m \in ban[b].machine
  /\ \A m : m \in LiveHosts <=> \E b \in BanIds : ban[b].state = "live" /\ ban[b].kind = "hostid" /\ m \in ban[b].machine
BY DEF LiveMacs, LiveHosts

LEMMA EnforceInitial == BanInit => EnforceInv
<1> SUFFICES ASSUME BanInit PROVE EnforceInv
  OBVIOUS
<1>1. /\ \A b \in BanIds : ban[b] = NoBan
      /\ \A w \in Workers : banreq[w] = BanFree
      /\ \A n \in 1 .. SyncRuns : macrun[n] = NoRun /\ hostrun[n] = NoRun
  BY DEF BanInit
<1>2. BanTypeOK
  BY EnforceRecords DEF BanInit, BanTypeOK
<1>3. RequestsOwnBans
  BY <1>1, EnforceRecords DEF RequestsOwnBans
<1>4. LiveMacs = {} /\ LiveHosts = {}
  BY <1>1, EnforceRecords, LiveMachines
<1>5. LastReadIsLive /\ HostsReadAreLive
  BY <1>4 DEF BanInit, LastReadIsLive, HostsReadAreLive
<1>6. FileIsFromRun
  BY <1>1, EnforceRecords DEF BanInit, FileIsFromRun
<1> QED
  BY <1>2, <1>3, <1>5, <1>6 DEF EnforceInv

\* A request becomes q and starts no script: it may leave nothing owed only if the machines that
\* are banned are the same.
LEMMA OwnRequestSteps ==
  ASSUME EnforceInv, UNCHANGED scriptVars, unsynced' \in BOOLEAN, unsynced => unsynced',
         ban' \in [BanIds -> BanRows], banreq' \in [Workers -> BanRequests], overtaken' \subseteq Users,
         RequestsOwnBans', Clean' => Clean /\ LiveMacs' = LiveMacs /\ LiveHosts' = LiveHosts
  PROVE  EnforceInv'
<1>1. UNCHANGED <<macrun, hostrun, ini, torn, denied, dropped, reads, lastread>>
  BY DEF scriptVars
<1>2. BanTypeOK'
  BY <1>1 DEF EnforceInv, BanTypeOK
<1>3. LastReadIsLive' /\ HostsReadAreLive'
  BY <1>1 DEF EnforceInv, LastReadIsLive, HostsReadAreLive
<1>4. FileIsFromRun'
  BY <1>1 DEF EnforceInv, FileIsFromRun
<1> QED
  BY <1>2, <1>3, <1>4 DEF EnforceInv

\* The request becomes q, and the bans stay.
LEMMA BanRequestBecomes ==
  ASSUME EnforceInv, NEW w \in Workers, NEW q \in BanRequests, banreq' = [banreq EXCEPT ![w] = q],
         ban' = ban, overtaken' \subseteq Users, unsynced' \in BOOLEAN, UNCHANGED scriptVars,
         q.at = "lifting" => q.ban \in BanIds,
         q.at = "banning" => /\ q.ban \in BanIds /\ (q.kind = "account" => q.machine = {})
                             /\ ban[q.ban].state = "none"
                             /\ \A v \in Workers : banreq[v].ban # q.ban,
         unsynced \/ (Owes(w) /\ q.at \notin {"triggering", "restoring"}) => unsynced'
  PROVE  EnforceInv'
<1>1. banreq' \in [Workers -> BanRequests] /\ \A v \in Workers : banreq'[v] = IF v = w THEN q ELSE banreq[v]
  BY DEF EnforceInv, BanTypeOK
<1>2. RequestsOwnBans'
  BY <1>1 DEF EnforceInv, RequestsOwnBans
<1>3. Clean' => Clean
  BY <1>1 DEF Clean, Owes
<1>4. LiveMacs' = LiveMacs /\ LiveHosts' = LiveHosts
  BY DEF LiveMacs, LiveHosts
<1>5. ban' \in [BanIds -> BanRows]
  BY DEF EnforceInv, BanTypeOK
<1> QED
  BY <1>1, <1>2, <1>3, <1>4, <1>5, OwnRequestSteps

\* What the request has written becomes visible; it owes a start of the scripts unless it bans
\* accounts, which have no machine.
LEMMA PublishOwes ==
  ASSUME EnforceInv, NEW w \in Workers, banreq[w].at = "banning", NEW N \in SUBSET Users, Publish(w, N),
         NEW q \in BanRequests, banreq' = [banreq EXCEPT ![w] = q],
         ban[banreq[w].ban].state # "lifted",
         q.at \in {"banning", "triggering", "free"},
         q.at = "banning" => q.ban = banreq[w].ban /\ q.kind = banreq[w].kind /\ q.machine = banreq[w].machine,
         q.at = "free" => banreq[w].kind = "account",
         overtaken' \subseteq Users, unsynced' = unsynced, UNCHANGED scriptVars
  PROVE  EnforceInv'
<1> DEFINE b == banreq[w].ban
           row == [state |-> "live", kind |-> banreq[w].kind, machine |-> banreq[w].machine,
                   names |-> ban[b].names \cup N]
<1>1. b \in BanIds /\ banreq[w] \in BanRequests /\ ban[b] \in BanRows
  BY DEF EnforceInv, BanTypeOK, RequestsOwnBans
<1>2. /\ row \in BanRows /\ row.state = "live" /\ row.kind = banreq[w].kind
      /\ row.machine = banreq[w].machine
  BY <1>1 DEF BanRequests, BanRows
<1>3. ban' = [ban EXCEPT ![b] = row]
  BY DEF Publish
<1> HIDE DEF row
<1>4. ban' \in [BanIds -> BanRows] /\ \A c \in BanIds : ban'[c] = IF c = b THEN row ELSE ban[c]
  BY <1>1, <1>2, <1>3 DEF EnforceInv, BanTypeOK
<1>5. banreq' \in [Workers -> BanRequests] /\ \A x \in Workers : banreq'[x] = IF x = w THEN q ELSE banreq[x]
  BY DEF EnforceInv, BanTypeOK
<1>6. \A x \in Workers : x # w /\ banreq[x].at = "banning" => banreq[x].ban \in BanIds /\ banreq[x].ban # b
  BY DEF EnforceInv, RequestsOwnBans
<1>7. RequestsOwnBans'
  <2>1. \A x \in Workers : banreq'[x].at \in {"banning", "lifting"} => banreq'[x].ban \in BanIds
    BY <1>1, <1>5 DEF EnforceInv, RequestsOwnBans
  <2>2. ASSUME NEW x \in Workers, banreq'[x].at = "banning"
        PROVE  /\ banreq'[x].kind = "account" => banreq'[x].machine = {}
               /\ ban'[banreq'[x].ban].state = "live" =>
                    ban'[banreq'[x].ban].kind = banreq'[x].kind /\ ban'[banreq'[x].ban].machine = banreq'[x].machine
    <3>1. CASE x = w
      BY <1>1, <1>2, <1>4, <1>5, <2>2, <3>1 DEF EnforceInv, RequestsOwnBans
    <3>2. CASE x # w
      BY <1>4, <1>5, <1>6, <2>2, <3>2 DEF EnforceInv, RequestsOwnBans
    <3> QED
      BY <3>1, <3>2
  <2>3. \A v, x \in Workers : v # x /\ banreq'[v].at = "banning" /\ banreq'[x].at = "banning" =>
          banreq'[v].ban # banreq'[x].ban
    BY <1>5, <1>6 DEF EnforceInv, RequestsOwnBans
  <2> QED
    BY <2>1, <2>2, <2>3 DEF RequestsOwnBans
<1>8. ASSUME Clean' PROVE Clean /\ LiveMacs' = LiveMacs /\ LiveHosts' = LiveHosts
  <2>1. banreq[w].kind = "account"
    <3>1. ~Owes(w)'
      BY <1>8 DEF Clean
    <3> QED
      BY <1>1, <1>2, <1>4, <1>5, <3>1 DEF Owes
  <2>2. ASSUME NEW x \in Workers PROVE ~Owes(x)
    <3>1. CASE x = w
      BY <2>1, <3>1 DEF Owes
    <3>2. CASE x # w
      BY <1>4, <1>5, <1>6, <1>8, <3>2 DEF Clean, Owes
    <3> QED
      BY <3>1, <3>2
  <2>3. banreq[w].machine = {} /\ (ban[b].state = "live" => ban[b].machine = {})
    BY <2>1 DEF EnforceInv, RequestsOwnBans
  <2>4. LiveMacs' = LiveMacs
    BY <1>1, <1>2, <1>4, <2>3 DEF LiveMacs
  <2>5. LiveHosts' = LiveHosts
    BY <1>1, <1>2, <1>4, <2>3 DEF LiveHosts
  <2> QED
    BY <1>8, <2>2, <2>4, <2>5 DEF Clean
<1> QED
  BY <1>4, <1>5, <1>7, <1>8, OwnRequestSteps DEF EnforceInv, BanTypeOK

LEMMA LiftOwes ==
  ASSUME EnforceInv, NEW w \in Workers, DeleteBan(w)
  PROVE  EnforceInv'
<1> DEFINE b == banreq[w].ban
           row == [NoBan EXCEPT !.state = "lifted"]
           r == [banreq[w] EXCEPT !.at = "restoring"]
<1>1. banreq[w].at = "lifting" /\ b \in BanIds /\ banreq[w] \in BanRequests
  BY DEF EnforceInv, BanTypeOK, RequestsOwnBans, DeleteBan
<1>2. row \in BanRows /\ row.state = "lifted"
  BY DEF BanRows, NoBan, Kinds
<1>3. r \in BanRequests /\ r.at = "restoring"
  BY <1>1 DEF BanRequests
<1>4. /\ ban' = [ban EXCEPT ![b] = row] /\ banreq' = [banreq EXCEPT ![w] = r]
      /\ UNCHANGED <<unsynced, overtaken>> /\ UNCHANGED scriptVars
  BY DEF DeleteBan
<1> HIDE DEF row, r
<1>5. ban' \in [BanIds -> BanRows] /\ \A c \in BanIds : ban'[c] = IF c = b THEN row ELSE ban[c]
  BY <1>1, <1>2, <1>4 DEF EnforceInv, BanTypeOK
<1>6. banreq' \in [Workers -> BanRequests] /\ \A x \in Workers : banreq'[x] = IF x = w THEN r ELSE banreq[x]
  BY <1>3, <1>4 DEF EnforceInv, BanTypeOK
<1>7. RequestsOwnBans'
  BY <1>1, <1>2, <1>3, <1>5, <1>6 DEF EnforceInv, RequestsOwnBans
<1>8. ~Clean'
  BY <1>3, <1>6 DEF Clean, Owes
<1> QED
  BY <1>4, <1>5, <1>6, <1>7, <1>8, OwnRequestSteps DEF EnforceInv, BanTypeOK

LEMMA RequestsOwe ==
  ASSUME EnforceInv, NEW w \in Workers, BanStart(w) \/ BanContinue(w) \/ BanFail(w)
  PROVE  EnforceInv'
<1>0. BanTypeOK /\ banreq[w] \in BanRequests /\ unsynced \in BOOLEAN /\ overtaken \subseteq Users
  BY DEF EnforceInv, BanTypeOK
<1>1. ASSUME NEW q \in BanRequests, banreq' = [banreq EXCEPT ![w] = q],
             UNCHANGED <<ban, overtaken, unsynced>>, UNCHANGED scriptVars,
             q.at \notin {"banning", "lifting"}, q.at \in {"triggering", "restoring"} \/ ~Owes(w)
      PROVE  EnforceInv'
  BY <1>0, <1>1, BanRequestBecomes
<1>2. ASSUME BanStart(w) PROVE EnforceInv'
  <2>0. banreq[w].at = "free" /\ ~Owes(w)
    BY <1>2 DEF BanStart, Owes
  <2>1. ASSUME NEW b \in BanIds, BeginBan(w, b) PROVE EnforceInv'
    <3>1. PICK kind \in Kinds, m \in Machines, todo \in SUBSET Users :
            banreq' = [banreq EXCEPT ![w] = [at |-> "banning", ban |-> b, kind |-> kind,
                         machine |-> IF kind = "account" THEN {} ELSE {m}, todo |-> todo]]
      <4>1. \A kind \in Kinds, m \in Machines, seeds \in SUBSET Users :
              Linked(kind, IF kind = "account" THEN {} ELSE {m}, seeds) \in SUBSET Users
        BY DEF Linked, UsersOf
      <4> QED
        BY <2>1, <4>1 DEF BeginBan
    <3> DEFINE r == [at |-> "banning", ban |-> b, kind |-> kind,
                     machine |-> IF kind = "account" THEN {} ELSE {m}, todo |-> todo]
    <3>2. r \in BanRequests /\ r.at = "banning" /\ r.ban = b /\ (r.kind = "account" => r.machine = {})
      BY DEF BanRequests
    <3>3. /\ UNCHANGED <<ban, overtaken, unsynced>> /\ UNCHANGED scriptVars
          /\ ban[b].state = "none" /\ \A v \in Workers : banreq[v].ban # b
      BY <2>1 DEF BeginBan
    <3>4. banreq' = [banreq EXCEPT ![w] = r]
      BY <3>1
    <3> HIDE DEF r
    <3> QED
      BY <1>0, <2>0, <3>2, <3>3, <3>4, BanRequestBecomes
  <2>2. ASSUME NEW b \in BanIds, BeginLift(w, b) PROVE EnforceInv'
    <3>1. ASSUME NEW z \in BanRequests, NEW us \in SUBSET Users
          PROVE  LET y == [z EXCEPT !.at = "lifting", !.ban = b, !.todo = us]
                 IN  y \in BanRequests /\ y.at = "lifting" /\ y.ban = b
      BY DEF BanRequests
    <3>2. ban[b].names \in SUBSET Users
      BY <1>0 DEF BanTypeOK, BanRows
    <3>3. PICK q \in BanRequests : /\ q = [BanFree EXCEPT !.at = "lifting", !.ban = b, !.todo = ban[b].names]
                                   /\ q.at = "lifting" /\ q.ban = b
      BY <3>1, <3>2, EnforceRecords
    <3>4. banreq' = [banreq EXCEPT ![w] = q] /\ UNCHANGED <<ban, overtaken, unsynced>> /\ UNCHANGED scriptVars
      BY <2>2, <3>3 DEF BeginLift
    <3> QED
      BY <1>0, <2>0, <3>3, <3>4, BanRequestBecomes
  <2> QED
    BY <1>2, <2>1, <2>2 DEF BanStart
<1>3. ASSUME NEW u \in Users, BanUser(w, u) PROVE EnforceInv'
  <2>1. /\ banreq[w].at = "banning" /\ Publish(w, {u}) /\ ban[banreq[w].ban].state # "lifted"
        /\ unsynced' = unsynced /\ UNCHANGED scriptVars
    BY <1>3 DEF BanUser
  <2>2. PICK q \in BanRequests : /\ q = [banreq[w] EXCEPT !.todo = @ \ {u}]
                                 /\ q.at = "banning" /\ q.ban = banreq[w].ban
                                 /\ q.kind = banreq[w].kind /\ q.machine = banreq[w].machine
    <3>1. ASSUME NEW z \in BanRequests
          PROVE  LET y == [z EXCEPT !.todo = @ \ {u}]
                 IN  y \in BanRequests /\ y.at = z.at /\ y.ban = z.ban /\ y.kind = z.kind /\ y.machine = z.machine
      BY DEF BanRequests
    <3> QED
      BY <1>0, <2>1, <3>1
  <2>3. banreq' = [banreq EXCEPT ![w] = q]
    BY <1>3, <2>2 DEF BanUser
  <2>4. overtaken' \subseteq Users
    BY <1>0, <1>3 DEF BanUser
  <2>5. {u} \in SUBSET Users
    OBVIOUS
  <2> QED
    BY <2>1, <2>2, <2>3, <2>4, <2>5, PublishOwes
<1>4. ASSUME BanRefused(w) PROVE EnforceInv'
  <2>1. /\ banreq' = [banreq EXCEPT ![w] = BanFree] /\ UNCHANGED <<ban, overtaken, unsynced>>
        /\ UNCHANGED scriptVars /\ banreq[w].at = "banning" /\ ban[banreq[w].ban].state = "lifted"
    BY <1>4 DEF BanRefused
  <2>2. ~Owes(w)
    BY <2>1 DEF Owes
  <2> QED
    BY <1>1, <2>1, <2>2, EnforceRecords
<1>5. ASSUME FinishBan(w) PROVE EnforceInv'
  <2>1. banreq[w].at = "banning" /\ UNCHANGED <<unsynced, overtaken>> /\ UNCHANGED scriptVars
    BY <1>5 DEF FinishBan
  <2>2. PICK q \in BanRequests : /\ banreq' = [banreq EXCEPT ![w] = q] /\ q.at \in {"free", "triggering"}
                                 /\ q.at = "free" <=> banreq[w].kind = "account"
    <3>1. ASSUME NEW z \in BanRequests
          PROVE  LET y == [z EXCEPT !.at = "triggering"] IN y \in BanRequests /\ y.at = "triggering"
      BY DEF BanRequests
    <3>2. IF banreq[w].kind = "account" THEN banreq' = [banreq EXCEPT ![w] = BanFree]
          ELSE banreq' = [banreq EXCEPT ![w] = [banreq[w] EXCEPT !.at = "triggering"]]
      BY <1>5 DEF FinishBan
    <3>3. CASE banreq[w].kind = "account"
      BY <3>2, <3>3, EnforceRecords
    <3>4. CASE banreq[w].kind # "account"
      BY <1>0, <3>1, <3>2, <3>4
    <3> QED
      BY <3>3, <3>4
  <2>3. CASE ban[banreq[w].ban].state = "lifted"
    <3>1. ~Owes(w) /\ ban' = ban
      BY <1>5, <2>1, <2>3 DEF Owes, FinishBan
    <3> QED
      BY <1>1, <2>1, <2>2, <3>1
  <2>4. CASE ban[banreq[w].ban].state # "lifted"
    <3>1. Publish(w, {})
      BY <1>5, <2>4 DEF FinishBan
    <3>2. {} \in SUBSET Users /\ overtaken' \subseteq Users
      BY <1>0, <2>1
    <3> QED
      BY <2>1, <2>2, <2>4, <3>1, <3>2, PublishOwes
  <2> QED
    BY <2>3, <2>4
<1>6. ASSUME NEW u \in Users, RestoreUser(w, u) PROVE EnforceInv'
  <2>1. PICK q \in BanRequests : q = [banreq[w] EXCEPT !.todo = @ \ {u}] /\ q.at = "restoring"
    <3>1. ASSUME NEW z \in BanRequests
          PROVE  LET y == [z EXCEPT !.todo = @ \ {u}] IN y \in BanRequests /\ y.at = z.at
      BY DEF BanRequests
    <3> QED
      BY <1>0, <1>6, <3>1 DEF RestoreUser
  <2>2. /\ banreq' = [banreq EXCEPT ![w] = q] /\ UNCHANGED <<ban, overtaken, unsynced>> /\ UNCHANGED scriptVars
    BY <1>6, <2>1 DEF RestoreUser
  <2> QED
    BY <1>1, <2>1, <2>2
<1>7. ASSUME Trigger(w) PROVE EnforceInv'
  <2>1. PICK n \in 1 .. SyncRuns : /\ macrun[n].at = "idle"
                                   /\ macrun' = [macrun EXCEPT ![n].at = "started"]
                                   /\ hostrun' = [hostrun EXCEPT ![n].at = "started"]
    BY <1>7 DEF Trigger
  <2>2. /\ banreq' = [banreq EXCEPT ![w] = BanFree]
        /\ UNCHANGED <<ban, unsynced, overtaken, ini, torn, denied, dropped, reads, lastread>>
    BY <1>7 DEF Trigger
  <2>3. macrun[n] \in Runs /\ hostrun[n] \in Runs
    BY <1>0 DEF BanTypeOK
  <2>4. /\ macrun' \in [1 .. SyncRuns -> Runs] /\ macrun'[n].at = "started"
        /\ macrun'[n].n = macrun[n].n /\ macrun'[n].read = macrun[n].read
        /\ macrun'[n].whole = macrun[n].whole
        /\ \A k \in 1 .. SyncRuns : k # n => macrun'[k] = macrun[k]
    BY <1>0, <2>1, <2>3 DEF BanTypeOK, Runs
  <2>5. hostrun' \in [1 .. SyncRuns -> Runs] /\ hostrun'[n].at = "started"
    BY <1>0, <2>1, <2>3 DEF BanTypeOK, Runs
  <2>6. banreq' \in [Workers -> BanRequests] /\ \A x \in Workers : banreq'[x] = IF x = w THEN BanFree ELSE banreq[x]
    BY <1>0, <2>2, EnforceRecords DEF BanTypeOK
  <2>7. BanTypeOK'
    BY <1>0, <2>2, <2>4, <2>5, <2>6 DEF BanTypeOK
  <2>8. RequestsOwnBans'
    BY <2>2, <2>6, EnforceRecords DEF EnforceInv, RequestsOwnBans
  <2>9. LastReadIsLive' /\ HostsReadAreLive'
    BY <2>4, <2>5 DEF LastReadIsLive, HostsReadAreLive
  <2>10. FileIsFromRun'
    BY <2>1, <2>2, <2>4 DEF EnforceInv, FileIsFromRun
  <2> QED
    BY <2>7, <2>8, <2>9, <2>10 DEF EnforceInv
<1>8. ASSUME BanContinue(w) PROVE EnforceInv'
  BY <1>3, <1>4, <1>5, <1>6, <1>7, <1>8, LiftOwes DEF BanContinue
<1>9. ASSUME BanFail(w) PROVE EnforceInv'
  <2>1. /\ banreq' = [banreq EXCEPT ![w] = BanFree] /\ UNCHANGED <<ban, overtaken>> /\ UNCHANGED scriptVars
        /\ unsynced' = (unsynced \/ banreq[w].at # "lifting")
    BY <1>9 DEF BanFail
  <2>2. unsynced \/ Owes(w) => unsynced'
    BY <2>1 DEF Owes
  <2> QED
    BY <1>0, <2>1, <2>2, EnforceRecords, BanRequestBecomes
<1> QED
  BY <1>2, <1>8, <1>9

LEMMA ScriptsEnforce ==
  ASSUME EnforceInv, NEW n \in 1 .. SyncRuns, SyncStep(n)
  PROVE  EnforceInv'
<1>0. BanTypeOK /\ macrun[n] \in Runs /\ hostrun[n] \in Runs
  BY DEF EnforceInv, BanTypeOK
<1>1. UNCHANGED <<ban, banreq, overtaken>>
  BY DEF SyncStep, requestVars
<1>2. /\ RequestsOwnBans' /\ LiveMacs' = LiveMacs /\ LiveHosts' = LiveHosts
      /\ unsynced' = unsynced => (Clean' <=> Clean)
  BY <1>1 DEF EnforceInv, RequestsOwnBans, LiveMacs, LiveHosts, Clean, Owes
<1>3. LiveMacs \subseteq Machines /\ LiveHosts \subseteq Machines
  BY <1>0 DEF LiveMacs, LiveHosts, BanTypeOK, BanRows
<1>4. ASSUME ReadMacs(n) PROVE EnforceInv'
  <2>1. /\ macrun[n].at = "started" /\ reads' = reads + 1
        /\ macrun' = [macrun EXCEPT ![n] = [at |-> "read", read |-> LiveMacs, n |-> reads + 1, whole |-> TRUE]]
        /\ UNCHANGED <<hostrun, ini, torn, denied, dropped, lastread, unsynced>>
    BY <1>4 DEF ReadMacs
  <2>2. reads \in Nat /\ lastread \in Nat
    BY <1>0 DEF BanTypeOK
  <2>3. [at |-> "read", read |-> LiveMacs, n |-> reads + 1, whole |-> TRUE] \in Runs
    BY <1>3, <2>2 DEF Runs
  <2>4. /\ macrun' \in [1 .. SyncRuns -> Runs] /\ macrun'[n].at = "read" /\ macrun'[n].read = LiveMacs
        /\ macrun'[n].n = reads + 1 /\ macrun'[n].whole
        /\ \A k \in 1 .. SyncRuns : k # n => macrun'[k] = macrun[k]
    BY <1>0, <2>1, <2>3 DEF BanTypeOK
  <2>5. \A k \in 1 .. SyncRuns : macrun[k].n \in Nat /\ macrun[k].n <= reads
    BY <1>0 DEF BanTypeOK, Runs, EnforceInv, FileIsFromRun
  <2>6. BanTypeOK'
    BY <1>0, <1>1, <2>1, <2>2, <2>4 DEF BanTypeOK
  <2>7. LastReadIsLive'
    BY <1>2, <2>1, <2>2, <2>4, <2>5 DEF LastReadIsLive
  <2>8. HostsReadAreLive'
    BY <1>2, <2>1 DEF EnforceInv, HostsReadAreLive
  <2>9. FileIsFromRun'
    <3>1. \A k \in 1 .. SyncRuns : /\ macrun'[k].n <= reads'
                                   /\ macrun'[k].at \in {"read", "parsed", "open", "written"} => macrun'[k].n # 0
                                   /\ macrun'[k].at \in {"idle", "started"} => macrun'[k].n = 0
                                   /\ macrun'[k].at \in {"idle", "started", "read"} => macrun'[k].whole
      BY <2>1, <2>2, <2>4, <2>5 DEF EnforceInv, FileIsFromRun
    <3>2. /\ ~torn' /\ lastread' = 0 => ini' = {}
          /\ ~torn' /\ lastread' # 0 => \E k \in 1 .. SyncRuns : macrun'[k].n = lastread' /\ macrun'[k].read = ini'
                                                       /\ macrun'[k].at \in {"written", "done"}
      BY <2>1, <2>4 DEF EnforceInv, FileIsFromRun
    <3>3. \A i, j \in 1 .. SyncRuns : macrun'[i].n = macrun'[j].n /\ macrun'[i].n # 0 => i = j
      <4>1. \A k \in 1 .. SyncRuns : macrun[k].n # reads + 1
        BY <2>2, <2>5
      <4>2. reads + 1 # 0
        BY <2>2
      <4> QED
        BY <2>4, <4>1, <4>2 DEF EnforceInv, FileIsFromRun
    <3>4. /\ ~unsynced' /\ (\A k \in 1 .. SyncRuns : macrun'[k].at \notin {"open", "written"}) => denied' = ini'
          /\ ~unsynced' /\ (\A k \in 1 .. SyncRuns : macrun'[k].at # "open" /\ macrun'[k].whole) => ~torn'
      BY <2>1, <2>4 DEF EnforceInv, FileIsFromRun
    <3> QED
      BY <3>1, <3>2, <3>3, <3>4 DEF FileIsFromRun
  <2> QED
    BY <1>2, <2>6, <2>7, <2>8, <2>9 DEF EnforceInv
\* The run goes on to a later phase.
<1>5. ASSUME NEW phase \in {"open", "written", "done"}, macrun' = [macrun EXCEPT ![n].at = phase]
      PROVE  /\ macrun' \in [1 .. SyncRuns -> Runs] /\ macrun'[n].at = phase
             /\ macrun'[n].read = macrun[n].read /\ macrun'[n].n = macrun[n].n
             /\ macrun'[n].whole = macrun[n].whole
             /\ \A k \in 1 .. SyncRuns : k # n => macrun'[k] = macrun[k]
  BY <1>0, <1>5 DEF BanTypeOK, Runs
<1>11. ASSUME ReadIni(n) PROVE EnforceInv'
  <2>1. /\ macrun[n].at = "read"
        /\ macrun' = [macrun EXCEPT ![n].at = "parsed", ![n].whole = ~torn]
        /\ UNCHANGED <<hostrun, ini, torn, denied, dropped, reads, lastread, unsynced>>
    BY <1>11 DEF ReadIni
  <2>2. /\ macrun' \in [1 .. SyncRuns -> Runs] /\ macrun'[n].at = "parsed"
        /\ macrun'[n].read = macrun[n].read /\ macrun'[n].n = macrun[n].n
        /\ macrun'[n].whole = ~torn
        /\ \A k \in 1 .. SyncRuns : k # n => macrun'[k] = macrun[k]
    BY <1>0, <2>1 DEF BanTypeOK, Runs
  <2>3. BanTypeOK'
    BY <1>0, <1>1, <2>1, <2>2 DEF BanTypeOK
  <2>4. LastReadIsLive' /\ HostsReadAreLive'
    BY <1>2, <2>1, <2>2 DEF EnforceInv, LastReadIsLive, HostsReadAreLive
  <2>5. FileIsFromRun'
    BY <2>1, <2>2 DEF EnforceInv, FileIsFromRun
  <2> QED
    BY <1>2, <2>3, <2>4, <2>5 DEF EnforceInv
<1>12. ASSUME OpenIni(n) PROVE EnforceInv'
  <2>1. /\ macrun[n].at = "parsed" /\ ini' = {} /\ torn' = TRUE
        /\ macrun' = [macrun EXCEPT ![n].at = "open"]
        /\ UNCHANGED <<hostrun, denied, dropped, reads, lastread, unsynced>>
    BY <1>12 DEF OpenIni
  <2>2. /\ macrun' \in [1 .. SyncRuns -> Runs] /\ macrun'[n].at = "open"
        /\ macrun'[n].read = macrun[n].read /\ macrun'[n].n = macrun[n].n
        /\ macrun'[n].whole = macrun[n].whole
        /\ \A k \in 1 .. SyncRuns : k # n => macrun'[k] = macrun[k]
    BY <1>5, <2>1
  <2>3. BanTypeOK'
    BY <1>0, <1>1, <2>1, <2>2 DEF BanTypeOK
  <2>4. LastReadIsLive' /\ HostsReadAreLive'
    BY <1>2, <2>1, <2>2 DEF EnforceInv, LastReadIsLive, HostsReadAreLive
  <2>5. FileIsFromRun'
    BY <2>1, <2>2 DEF EnforceInv, FileIsFromRun
  <2> QED
    BY <1>2, <2>3, <2>4, <2>5 DEF EnforceInv
<1>6. ASSUME WriteIni(n) PROVE EnforceInv'
  <2>1. /\ macrun[n].at = "open" /\ torn' = ~macrun[n].whole /\ lastread' = macrun[n].n
        /\ ini' = IF macrun[n].whole THEN macrun[n].read ELSE {}
        /\ macrun' = [macrun EXCEPT ![n].at = "written"]
        /\ UNCHANGED <<hostrun, denied, dropped, reads, unsynced>>
    BY <1>6 DEF WriteIni
  <2>2. /\ macrun' \in [1 .. SyncRuns -> Runs] /\ macrun'[n].at = "written"
        /\ macrun'[n].read = macrun[n].read /\ macrun'[n].n = macrun[n].n
        /\ macrun'[n].whole = macrun[n].whole
        /\ \A k \in 1 .. SyncRuns : k # n => macrun'[k] = macrun[k]
    BY <1>5, <2>1
  <2>3. BanTypeOK'
    BY <1>0, <1>1, <2>1, <2>2 DEF BanTypeOK, Runs
  <2>4. LastReadIsLive' /\ HostsReadAreLive'
    BY <1>2, <2>1, <2>2 DEF EnforceInv, LastReadIsLive, HostsReadAreLive
  <2>5. FileIsFromRun'
    BY <2>1, <2>2 DEF EnforceInv, FileIsFromRun
  <2> QED
    BY <1>2, <2>3, <2>4, <2>5 DEF EnforceInv
<1>7. ASSUME RestartRobust(n) PROVE EnforceInv'
  <2>1. /\ macrun[n].at = "written" /\ denied' = ini
        /\ macrun' = [macrun EXCEPT ![n].at = "done"]
        /\ UNCHANGED <<hostrun, ini, torn, dropped, reads, lastread, unsynced>>
    BY <1>7 DEF RestartRobust
  <2>2. /\ macrun' \in [1 .. SyncRuns -> Runs] /\ macrun'[n].at = "done"
        /\ macrun'[n].read = macrun[n].read /\ macrun'[n].n = macrun[n].n
        /\ macrun'[n].whole = macrun[n].whole
        /\ \A k \in 1 .. SyncRuns : k # n => macrun'[k] = macrun[k]
    BY <1>5, <2>1
  <2>3. BanTypeOK'
    BY <1>0, <1>1, <2>1, <2>2 DEF BanTypeOK
  <2>4. LastReadIsLive' /\ HostsReadAreLive'
    BY <1>2, <2>1, <2>2 DEF EnforceInv, LastReadIsLive, HostsReadAreLive
  <2>5. FileIsFromRun'
    BY <2>1, <2>2 DEF EnforceInv, FileIsFromRun
  <2> QED
    BY <1>2, <2>3, <2>4, <2>5 DEF EnforceInv
<1>8. ASSUME ReadHosts(n) PROVE EnforceInv'
  <2>1. /\ hostrun' = [hostrun EXCEPT ![n].at = "read", ![n].read = LiveHosts]
        /\ UNCHANGED <<macrun, ini, torn, denied, dropped, reads, lastread, unsynced>>
    BY <1>8 DEF ReadHosts
  <2>2. /\ hostrun' \in [1 .. SyncRuns -> Runs] /\ hostrun'[n].at = "read" /\ hostrun'[n].read = LiveHosts
    BY <1>0, <1>3, <2>1 DEF BanTypeOK, Runs
  <2>3. BanTypeOK'
    BY <1>0, <1>1, <2>1, <2>2 DEF BanTypeOK
  <2>4. LastReadIsLive' /\ HostsReadAreLive'
    BY <1>2, <2>1, <2>2 DEF EnforceInv, LastReadIsLive, HostsReadAreLive
  <2>5. FileIsFromRun'
    BY <2>1 DEF EnforceInv, FileIsFromRun
  <2> QED
    BY <1>2, <2>3, <2>4, <2>5 DEF EnforceInv
<1>9. ASSUME DropHosts(n) PROVE EnforceInv'
  <2>1. /\ hostrun[n].at = "read" /\ dropped' = dropped \cup hostrun[n].read
        /\ hostrun' = [hostrun EXCEPT ![n].at = "done"]
        /\ UNCHANGED <<macrun, ini, torn, denied, reads, lastread, unsynced>>
    BY <1>9 DEF DropHosts
  <2>2. /\ hostrun' \in [1 .. SyncRuns -> Runs] /\ hostrun'[n].at = "done"
        /\ \A k \in 1 .. SyncRuns : k # n => hostrun'[k] = hostrun[k]
    BY <1>0, <2>1 DEF BanTypeOK, Runs
  <2>3. BanTypeOK'
    BY <1>0, <1>1, <2>1, <2>2 DEF BanTypeOK, Runs
  <2>4. LastReadIsLive'
    BY <1>2, <2>1 DEF EnforceInv, LastReadIsLive
  <2>5. HostsReadAreLive'
    BY <1>2, <2>1, <2>2 DEF EnforceInv, HostsReadAreLive
  <2>6. FileIsFromRun'
    BY <2>1 DEF EnforceInv, FileIsFromRun
  <2> QED
    BY <1>2, <2>3, <2>4, <2>5, <2>6 DEF EnforceInv
<1>13. ASSUME CommandsFail(n) PROVE EnforceInv'
  <2>1. PICK kept \in SUBSET hostrun[n].read : dropped' = (dropped \ hostrun[n].read) \cup kept
    BY <1>13 DEF CommandsFail
  <2>2. /\ hostrun' = [hostrun EXCEPT ![n].at = "done"]
        /\ unsynced' = TRUE /\ UNCHANGED <<macrun, ini, torn, denied, reads, lastread>>
    BY <1>13 DEF CommandsFail
  <2>3. hostrun' \in [1 .. SyncRuns -> Runs]
    BY <1>0, <2>2 DEF BanTypeOK, Runs
  <2>4. dropped' \subseteq Machines
    BY <1>0, <2>1 DEF BanTypeOK, Runs
  <2>5. BanTypeOK'
    BY <1>0, <1>1, <2>2, <2>3, <2>4 DEF BanTypeOK
  <2>6. LastReadIsLive' /\ HostsReadAreLive'
    BY <2>2 DEF LastReadIsLive, HostsReadAreLive, Clean
  <2>7. FileIsFromRun'
    BY <2>2 DEF EnforceInv, FileIsFromRun
  <2> QED
    BY <1>2, <2>5, <2>6, <2>7 DEF EnforceInv
<1>10. ASSUME ScriptFails(n) PROVE EnforceInv'
  <2>1. /\ \/ macrun[n].at \notin {"idle", "done"} /\ macrun' = [macrun EXCEPT ![n].at = "done"] /\ UNCHANGED hostrun
           \/ hostrun' = [hostrun EXCEPT ![n].at = "done"] /\ UNCHANGED macrun
        /\ unsynced' = TRUE /\ UNCHANGED <<ini, torn, denied, dropped, reads, lastread>>
    BY <1>10 DEF ScriptFails
  <2>2. LastReadIsLive' /\ HostsReadAreLive'
    BY <2>1 DEF LastReadIsLive, HostsReadAreLive, Clean
  <2>3. CASE macrun[n].at \notin {"idle", "done"} /\ macrun' = [macrun EXCEPT ![n].at = "done"] /\ UNCHANGED hostrun
    <3>1. /\ macrun' \in [1 .. SyncRuns -> Runs] /\ macrun'[n].at = "done"
          /\ macrun'[n].read = macrun[n].read /\ macrun'[n].n = macrun[n].n
          /\ macrun'[n].whole = macrun[n].whole
          /\ \A k \in 1 .. SyncRuns : k # n => macrun'[k] = macrun[k]
      BY <1>5, <2>3
    <3>2. BanTypeOK'
      BY <1>0, <1>1, <2>1, <2>3, <3>1 DEF BanTypeOK
    <3>3. FileIsFromRun'
      BY <2>1, <2>3, <3>1 DEF EnforceInv, FileIsFromRun
    <3> QED
      BY <1>2, <2>2, <3>2, <3>3 DEF EnforceInv
  <2>4. CASE hostrun' = [hostrun EXCEPT ![n].at = "done"] /\ UNCHANGED macrun
    <3>1. hostrun' \in [1 .. SyncRuns -> Runs]
      BY <1>0, <2>4 DEF BanTypeOK, Runs
    <3>2. BanTypeOK'
      BY <1>0, <1>1, <2>1, <2>4, <3>1 DEF BanTypeOK
    <3>3. FileIsFromRun'
      BY <2>1, <2>4 DEF EnforceInv, FileIsFromRun
    <3> QED
      BY <1>2, <2>2, <3>2, <3>3 DEF EnforceInv
  <2> QED
    BY <2>1, <2>3, <2>4
<1> QED
  BY <1>4, <1>6, <1>7, <1>8, <1>9, <1>10, <1>11, <1>12, <1>13 DEF SyncStep

LEMMA EnforceInvariant == Spec => []EnforceInv
<1>1. Init => EnforceInv
  BY EnforceInitial DEF Init
<1>2. EnforceInv /\ [Next]_vars => EnforceInv'
  <2> SUFFICES ASSUME EnforceInv, [Next]_vars PROVE EnforceInv'
    OBVIOUS
  <2>1. CASE UNCHANGED banVars
    BY <2>1 DEF banVars, EnforceInv, BanTypeOK, RequestsOwnBans, LastReadIsLive, HostsReadAreLive, FileIsFromRun,
                LiveMacs, LiveHosts, Clean, Owes
  <2> QED
    BY <2>1, BansAlone, RequestsOwe, ScriptsEnforce DEF BanPartStep
<1> QED
  BY <1>1, <1>2, PTL DEF Spec

\* For any bans, machines, workers and runs of the scripts, however they overlap: once all is settled,
\* Robust and the firewall refuse the machines of the live bans, with the provisos of the property.
THEOREM BansEnforced == Spec => []HardwareBansEnforced
BY EnforceInvariant, EnforceShows, PTL
=============================================================================
