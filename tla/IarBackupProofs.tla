-------------------------- MODULE IarBackupProofs --------------------------
(***************************************************************************)
(* Theorems about the inventory backups, for any users, web workers, rows, *)
(* archives and failures.                                                  *)
(***************************************************************************)
EXTENDS IarBackup, FiniteSetTheorems, TLAPS

\* Rows, requests, the unit and the region's files keep to their types in every behaviour,
\* and the unit has a row at hand just while it works on one.
THEOREM TypeCorrect == Spec => []TypeOK
<1>1. Init => TypeOK
  BY IarAssumption DEF Init, TypeOK, Statuses, Requests, Free, Units, Off, Sizes, NoRow, NoFile
<1>2. TypeOK /\ [Next]_vars => TypeOK'
  <2> SUFFICES ASSUME TypeOK, [Next]_vars PROVE TypeOK'
    OBVIOUS
  <2> USE DEF TypeOK, rowVars, regionVars
  <2>1. ASSUME NEW w \in Web, NEW u \in Users, Check(w, u) PROVE TypeOK'
    BY <2>1 DEF Check, Requests
  <2>2. ASSUME NEW w \in Web, Insert(w) PROVE TypeOK'
    <3>1. PICK r \in Rows : /\ status' = [status EXCEPT ![r] = "pending"]
                            /\ owner'  = [owner EXCEPT ![r] = web[w].user]
      BY <2>2 DEF Insert
    <3>2. web[w].user \in Users \cup {Nobody} /\ web' \in [Web -> Requests]
      BY <2>2 DEF Insert, Requests
    <3> QED
      BY <2>2, <3>1, <3>2 DEF Insert, Statuses
  <2>3. ASSUME StartUnit
        PROVE  /\ unit' \in Units
               /\ unit'.row # NoRow <=> unit'.at \in {"inject", "appear", "stable"}
               /\ unit'.at \in {"appear", "stable"} => unit'.file \in Files
    BY <2>3 DEF StartUnit, Units, Off, Sizes, NoRow, NoFile
  <2>4. ASSUME NEW w \in Web, Trigger(w) PROVE TypeOK'
    BY <2>3, <2>4 DEF Trigger, Requests, Free
  <2>5. ASSUME Boot PROVE TypeOK'
    BY <2>3, <2>5 DEF Boot
  <2>6. ASSUME Reset PROVE TypeOK'
    BY <2>6 DEF Reset, Statuses, Units
  <2>7. ASSUME NEW r \in Rows, Pick(r) PROVE TypeOK'
    <3>1. unit' = [Off EXCEPT !.at = "inject", !.row = r]
      BY <2>7 DEF Pick
    <3>2. unit' \in Units /\ unit'.at = "inject" /\ unit'.row = r
      <4>1. Off \in Units
        BY DEF Units, Off, Sizes
      <4> QED
        BY <3>1, <4>1 DEF Units
    <3>3. r # NoRow /\ status' \in [Rows -> Statuses]
      BY <2>7, IarAssumption DEF Pick, Statuses
    <3> QED
      BY <2>7, <3>2, <3>3 DEF Pick
  <2>8. ASSUME NEW f \in Files, Inject(f) PROVE TypeOK'
    <3>1. /\ unit' \in Units /\ unit'.at = "appear" /\ unit'.file = f
          /\ unit'.row = unit.row /\ unit.row # NoRow
      BY <2>8 DEF Inject, Units
    <3>2. size' \in [Files -> Sizes] /\ asked' \subseteq Files
      BY <2>8 DEF Inject, Sizes
    <3> QED
      BY <2>8, <3>1, <3>2 DEF Inject
  <2>9. ASSUME NEW new \in Finished, NEW f \in Files \cup {NoFile}, unit.row # NoRow,
               Finish(new, f), UNCHANGED <<owner, old, web, regionVars, crashes, deaths>>
        PROVE  TypeOK'
    <3>1. unit.row \in Rows
      BY <2>9 DEF Units
    <3>2. unit' \in Units /\ unit'.row = NoRow /\ unit'.at = "loop"
      BY <2>9 DEF Finish, Units, Off, Sizes, NoRow, NoFile
    <3> QED
      BY <2>9, <3>1, <3>2 DEF Finish, Finished, Statuses
  <2>10. ASSUME Fail PROVE TypeOK'
    BY <2>9, <2>10 DEF Fail, Finished
  <2>11. ASSUME Complete PROVE TypeOK'
    BY <2>9, <2>11 DEF Complete, Finished, Units
  <2>12. ASSUME Appear PROVE TypeOK'
    BY <2>12 DEF Appear, Units
  <2>13. ASSUME Sample PROVE TypeOK'
    <3>1. unit.stable + 1 \in 0..3 /\ size[unit.file] \in Sizes
      BY <2>13 DEF Sample, Units
    <3>2. PICK n \in 0..3, none \in 0..3, now \in Sizes :
            n = unit.stable + 1 /\ none = 0 /\ now = size[unit.file]
      BY <3>1
    <3>3. unit' \in Units /\ unit'.at = unit.at /\ unit'.row = unit.row /\ unit'.file = unit.file
      <4>1. \/ unit' = [unit EXCEPT !.stable = n]
            \/ unit' = [unit EXCEPT !.stable = none, !.last = now]
        BY <2>13, <3>2 DEF Sample
      <4>2. unit \in Units
        OBVIOUS
      <4> HIDE DEF TypeOK
      <4>3. CASE unit' = [unit EXCEPT !.stable = n]
        BY <4>2, <4>3 DEF Units
      <4>4. CASE unit' = [unit EXCEPT !.stable = none, !.last = now]
        BY <4>2, <4>4 DEF Units
      <4> QED
        BY <4>1, <4>3, <4>4
    <3> QED
      BY <2>13, <3>3 DEF Sample
  <2>14. ASSUME Abandon \/ QueueEmpty \/ Crash PROVE TypeOK'
    BY <2>14 DEF Abandon, QueueEmpty, Crash, Units, Off, Sizes, NoRow, NoFile
  <2>15. ASSUME Sweep PROVE TypeOK'
    <3>1. PICK P \in SUBSET Rows : unit' = [unit EXCEPT !.at = "purge", !.purge = P]
      BY <2>15 DEF Sweep
    <3>2. unit' \in Units /\ unit'.at = "purge" /\ unit'.row = unit.row /\ unit.row = NoRow
      BY <2>15, <3>1 DEF Sweep, Units
    <3> QED
      BY <2>15, <3>2 DEF Sweep
  <2>16. ASSUME NEW r \in Rows, Purge(r) PROVE TypeOK'
    <3>1. PICK P \in SUBSET Rows, Q \in SUBSET Rows :
            unit' = [unit EXCEPT !.purge = P, !.purged = Q]
      <4>1. unit.purge \ {r} \in SUBSET Rows /\ unit.purged \cup {r} \in SUBSET Rows
        BY DEF Units
      <4> QED
        BY <2>16, <4>1 DEF Purge
    <3>2. unit' \in Units /\ unit'.at = unit.at /\ unit'.row = unit.row /\ unit'.file = unit.file
      BY <3>1 DEF Units
    <3>3. size' \in [Files -> Sizes]
      BY <2>16 DEF Purge, Sizes
    <3> QED
      BY <2>16, <3>2, <3>3 DEF Purge
  <2>17. ASSUME CommitPurge PROVE TypeOK'
    BY <2>17 DEF CommitPurge, Units, Off, Sizes, Statuses, NoRow, NoFile
  <2>18. ASSUME NEW f \in Files, RegionBegins(f) \/ RegionWrites(f) PROVE TypeOK'
    BY <2>18 DEF RegionBegins, RegionWrites, Sizes
  <2>19. ASSUME RegionDies PROVE TypeOK'
    BY <2>19 DEF RegionDies
  <2>20. ASSUME NEW r \in Rows, Age(r) PROVE TypeOK'
    BY <2>20 DEF Age
  <2>21. CASE UNCHANGED vars
    BY <2>21 DEF vars
  <2> HIDE DEF TypeOK, rowVars, regionVars
  <2> QED
    BY <2>1, <2>2, <2>4, <2>5, <2>6, <2>7, <2>8, <2>10, <2>11, <2>12, <2>13, <2>14, <2>15,
       <2>16, <2>17, <2>18, <2>19, <2>20, <2>21 DEF Next, UnitStep
<1> QED
  BY <1>1, <1>2, PTL DEF Spec

(***************************************************************************)
(* Why one row at most is in processing, and why its owner is told once.   *)
(***************************************************************************)
\* What the unit works on is in processing, and what it removes is finished: nobody else
\* moves these rows on, and what a dead run had at hand is forgotten with it.
AtHand ==
  /\ unit.row # NoRow => status[unit.row] = "processing"
  /\ \A r \in unit.purge \cup unit.purged : status[r] \in Finished
  /\ unit.at # "purge" => unit.purge = {} /\ unit.purged = {}

\* What the unit has at hand, and that nothing else is in processing, in every behaviour.
LEMMA Working == Spec => [](AtHand /\ OneInProcessing)
<1> DEFINE Inv == AtHand /\ OneInProcessing
<1>1. Init => Inv
  BY DEF Init, AtHand, OneInProcessing, Off
<1>2. TypeOK /\ Inv /\ [Next]_vars => Inv'
  <2> SUFFICES ASSUME TypeOK, Inv, [Next]_vars PROVE Inv'
    OBVIOUS
  <2> USE DEF rowVars, regionVars, AtHand, OneInProcessing
  <2>1. unit \in Units /\ (unit.row # NoRow <=> unit.at \in {"inject", "appear", "stable"})
    BY DEF TypeOK
  <2>2. ASSUME UNCHANGED status, unit' = unit \/ unit' = [Off EXCEPT !.at = "sweep"] \/ unit' = Off
                                 \/ unit' = [Off EXCEPT !.at = "reset"]
        PROVE  Inv'
    BY <2>2, <2>1 DEF Off
  <2>3. ASSUME NEW w \in Web, Insert(w) PROVE Inv'
    <3>1. PICK r \in Rows : /\ status[r] = "absent"
                            /\ status' = [status EXCEPT ![r] = "pending"]
      BY <2>3 DEF Insert
    <3>2. unit' = unit
      BY <2>3 DEF Insert
    <3> QED
      BY <3>1, <3>2, <2>1 DEF TypeOK, Units, Finished
  <2>4. ASSUME Reset PROVE Inv'
    BY <2>4, <2>1 DEF Reset, TypeOK, Units
  <2>5. ASSUME NEW r \in Rows, Pick(r) PROVE Inv'
    BY <2>5 DEF Pick, Off, TypeOK
  <2>6. ASSUME NEW new \in Finished, NEW f, unit.row # NoRow, Finish(new, f) PROVE Inv'
    BY <2>6 DEF Finish, Off, TypeOK, Finished
  <2>7. ASSUME Fail PROVE Inv'
    BY <2>6, <2>7, <2>1 DEF Fail, Finished
  <2>8. ASSUME Complete PROVE Inv'
    BY <2>6, <2>8, <2>1 DEF Complete, Finished
  <2>9. ASSUME Appear \/ Sample \/ \E f \in Files : Inject(f) PROVE Inv'
    BY <2>9, <2>1 DEF Appear, Sample, Inject, Units
  <2>10. ASSUME Sweep PROVE Inv'
    BY <2>10, <2>1 DEF Sweep, Units
  <2>11. ASSUME NEW r \in Rows, Purge(r) PROVE Inv'
    BY <2>11, <2>1 DEF Purge, Units
  <2>12. ASSUME CommitPurge PROVE Inv'
    BY <2>12 DEF CommitPurge, Off, TypeOK
  <2> HIDE DEF Inv
  <2>13. ASSUME \/ \E w \in Web : Trigger(w) \/ \E u \in Users : Check(w, u)
                \/ Boot \/ QueueEmpty \/ Abandon \/ Crash \/ RegionDies
                \/ \E f \in Files : RegionBegins(f) \/ RegionWrites(f)
                \/ \E r \in Rows : Age(r)
                \/ UNCHANGED vars
         PROVE  Inv'
    <3>1. ASSUME StartUnit, UNCHANGED status PROVE Inv'
      BY <2>2, <3>1 DEF StartUnit
    <3>2. ASSUME Abandon \/ Crash \/ QueueEmpty PROVE Inv'
      BY <2>2, <3>2 DEF Abandon, Crash, QueueEmpty
    <3> QED
      BY <2>2, <2>13, <3>1, <3>2
         DEF Trigger, Check, Boot, RegionDies, RegionBegins, RegionWrites, Age, vars
  <2> QED
    BY <2>3, <2>4, <2>5, <2>7, <2>8, <2>9, <2>10, <2>11, <2>12, <2>13 DEF Next, UnitStep
<1> QED
  BY <1>1, <1>2, TypeCorrect, PTL DEF Spec

\* At most one row is in processing, whenever the unit dies or gives up and however many
\* rows, users and web workers there are.
THEOREM OneAtATime == Spec => []OneInProcessing
BY Working, PTL

\* The owner of a backup is told its end exactly once, however often the backup is begun
\* again: a row with a notice never goes back to the queue.
THEOREM EndToldOnce == Spec => []ToldOnce
<1>1. Init => ToldOnce
  BY DEF Init, ToldOnce, Finished
<1>2. TypeOK /\ AtHand /\ ToldOnce /\ [Next]_vars => ToldOnce'
  <2> SUFFICES ASSUME TypeOK, AtHand, ToldOnce, [Next]_vars PROVE ToldOnce'
    OBVIOUS
  <2> USE DEF rowVars, ToldOnce, Finished
  <2>1. ASSUME NEW w \in Web, Insert(w) PROVE ToldOnce'
    BY <2>1 DEF Insert, TypeOK
  <2>2. ASSUME Reset PROVE ToldOnce'
    BY <2>2 DEF Reset, TypeOK
  <2>3. ASSUME NEW r \in Rows, Pick(r) PROVE ToldOnce'
    BY <2>3 DEF Pick, TypeOK
  <2>4. ASSUME NEW new \in Finished, NEW f, unit.row # NoRow, Finish(new, f) PROVE ToldOnce'
    <3>1. unit.row \in Rows
      BY <2>4 DEF TypeOK, Units
    <3>2. status[unit.row] = "processing"
      BY <2>4 DEF AtHand
    <3>3. notices[unit.row] = 0
      BY <3>1, <3>2
    <3>4. \A r \in Rows : /\ status'[r] = IF r = unit.row THEN new ELSE status[r]
                          /\ notices'[r] = IF r = unit.row THEN notices[r] + 1 ELSE notices[r]
      BY <2>4 DEF Finish, TypeOK
    <3> QED
      BY <2>4, <3>3, <3>4
  <2>5. ASSUME Fail \/ Complete PROVE ToldOnce'
    <3>1. unit.row # NoRow
      BY <2>5 DEF Fail, Complete, TypeOK
    <3>2. PICK new \in Finished, f \in Files \cup {NoFile} : Finish(new, f)
      BY <2>5 DEF Fail, Complete, TypeOK
    <3> QED
      BY <3>1, <3>2, <2>4
  <2>6. ASSUME CommitPurge PROVE ToldOnce'
    <3>1. \A r \in Rows : status'[r] = IF r \in unit.purged THEN "gone" ELSE status[r]
      BY <2>6 DEF CommitPurge
    <3>2. \A r \in unit.purged : status[r] \in Finished
      BY DEF AtHand
    <3> QED
      BY <2>6, <3>1, <3>2 DEF CommitPurge
  <2>7. ASSUME UNCHANGED <<status, notices>> PROVE ToldOnce'
    BY <2>7
  <2> HIDE DEF ToldOnce
  <2> QED
    BY <2>1, <2>2, <2>3, <2>5, <2>6, <2>7
       DEF Next, UnitStep, Check, Trigger, Boot, Inject, Appear, Sample, Abandon, QueueEmpty,
           Sweep, Purge, Crash, RegionBegins, RegionWrites, RegionDies, Age, vars
<1> QED
  BY <1>1, <1>2, TypeCorrect, Working, PTL DEF Spec

(***************************************************************************)
(* Why the archive of a completed backup is on disk until it is old.       *)
(***************************************************************************)
\* The row r has an archive of its own on record, and the region was told to write it.
Archived(r) ==
  /\ file[r] \in Files /\ size[file[r]] # "unnamed"
  /\ \A s \in Rows \ {r} : status[s] = "completed" => file[s] # file[r]

\* The unit's archive is on nobody's record, and is on disk from when it appeared; what is
\* removed is old, and what did not complete has no archive on record.
OnRecord ==
  /\ \A r \in Rows : status[r] = "completed" => Archived(r)
  /\ \A r \in Rows : status[r] = "failed" => file[r] = NoFile
  /\ unit.at \in {"appear", "stable"} =>
       /\ size[unit.file] # "unnamed"
       /\ \A r \in Rows : status[r] = "completed" => file[r] # unit.file
  /\ unit.at = "stable" => size[unit.file] # "missing"
  /\ unit.purge \subseteq old

\* What is on record, in every behaviour.
LEMMA Recorded == Spec => [](OnRecord /\ CompletedIsOnDisk)
<1> DEFINE Inv == OnRecord /\ CompletedIsOnDisk
<1>1. Init => Inv
  BY DEF Init, OnRecord, CompletedIsOnDisk, Off
<1>2. TypeOK /\ AtHand /\ Inv /\ [Next]_vars => Inv'
  <2> SUFFICES ASSUME TypeOK, AtHand, Inv, [Next]_vars PROVE Inv'
    OBVIOUS
  <2> USE DEF rowVars, regionVars, OnRecord, Archived, CompletedIsOnDisk
  \* Steps that touch neither the archives nor what has ended.
  <2>1. ASSUME UNCHANGED <<file, size>>, old \subseteq old',
               \A r \in Rows : status'[r] \in Finished => status'[r] = status[r],
               unit'.at \in {"appear", "stable"} => unit'.at = unit.at /\ unit'.file = unit.file,
               unit'.purge \subseteq unit.purge
        PROVE  Inv'
    BY <2>1 DEF Finished
  <2>2. unit \in Units
    BY DEF TypeOK
  <2>3. ASSUME NEW w \in Web, Insert(w) PROVE Inv'
    <3>1. \A r \in Rows : status'[r] \in Finished => status'[r] = status[r]
      BY <2>3 DEF Insert, TypeOK, Finished
    <3> QED
      BY <2>1, <2>3, <3>1 DEF Insert
  <2>4. ASSUME Reset PROVE Inv'
    <3>1. \A r \in Rows : status'[r] \in Finished => status'[r] = status[r]
      BY <2>4 DEF Reset, Finished
    <3>2. unit'.at = "loop" /\ unit'.purge = unit.purge
      BY <2>2, <2>4 DEF Reset, Units
    <3> QED
      BY <2>1, <2>4, <3>1, <3>2 DEF Reset
  <2>5. ASSUME NEW r \in Rows, Pick(r) PROVE Inv'
    <3>1. \A s \in Rows : status'[s] \in Finished => status'[s] = status[s]
      BY <2>5 DEF Pick, TypeOK, Finished
    <3>2. unit'.at = "inject" /\ unit'.purge = {}
      BY <2>5 DEF Pick, Off
    <3> QED
      BY <2>1, <2>5, <3>1, <3>2 DEF Pick
  <2>6. ASSUME CommitPurge PROVE Inv'
    <3>1. \A r \in Rows : status'[r] \in Finished => status'[r] = status[r]
      BY <2>6 DEF CommitPurge, Finished
    <3> QED
      BY <2>1, <2>6, <3>1 DEF CommitPurge, Off
  <2>7. ASSUME NEW f \in Files, Inject(f) PROVE Inv'
    <3>1. /\ unit' = [unit EXCEPT !.at = "appear", !.file = f]
          /\ size' = [size EXCEPT ![f] = "missing"] /\ size[f] = "unnamed"
          /\ UNCHANGED <<status, file, old>>
      BY <2>7 DEF Inject
    <3>2. unit'.at = "appear" /\ unit'.file = f /\ unit'.purge = unit.purge
      BY <2>2, <3>1 DEF Units
    <3>3. \A r \in Rows : status[r] = "completed" => file[r] # f
      BY <3>1
    <3>4. size \in [Files -> Sizes]
      BY DEF TypeOK
    <3> QED
      BY <3>1, <3>2, <3>3, <3>4
  <2>8. ASSUME Appear PROVE Inv'
    <3>1. unit'.at = "stable" /\ unit'.file = unit.file /\ unit'.purge = unit.purge
      BY <2>2, <2>8 DEF Appear, Units
    <3> QED
      BY <2>8, <3>1 DEF Appear
  <2>9. ASSUME Sample PROVE Inv'
    <3>1. unit'.at = unit.at /\ unit'.file = unit.file /\ unit'.purge = unit.purge
      BY <2>2, <2>9 DEF Sample, Units
    <3> QED
      BY <2>1, <2>9, <3>1 DEF Sample
  <2>10. ASSUME NEW new \in Finished, NEW f \in Files \cup {NoFile}, Finish(new, f),
                UNCHANGED <<size, old>>, unit.row # NoRow,
                new = "failed" => f = NoFile,
                new = "completed" => unit.at = "stable" /\ f = unit.file
         PROVE  Inv'
    <3>1. unit.row \in Rows
      BY <2>2, <2>10 DEF Units
    <3>2. \A r \in Rows : /\ status'[r] = IF r = unit.row THEN new ELSE status[r]
                          /\ file'[r] = IF r = unit.row THEN f ELSE file[r]
      BY <2>10 DEF Finish, TypeOK
    <3>3. unit'.at = "loop" /\ unit'.purge = {}
      BY <2>10 DEF Finish, Off
    <3>4. new = "completed" => f \in Files
      BY <2>10 DEF TypeOK
    <3>5. CASE new = "failed"
      BY <2>10, <3>2, <3>3, <3>5
    <3>6. CASE new = "completed"
      BY <2>10, <3>2, <3>3, <3>4, <3>6
    <3> QED
      BY <2>10, <3>5, <3>6 DEF Finished
  <2>11. ASSUME Fail PROVE Inv'
    BY <2>10, <2>11 DEF Fail, Finished, TypeOK
  <2>12. ASSUME Complete PROVE Inv'
    BY <2>10, <2>12 DEF Complete, Finished, TypeOK
  <2>13. ASSUME Sweep PROVE Inv'
    <3>1. unit'.at = "purge" /\ unit'.purge \subseteq old
      BY <2>2, <2>13 DEF Sweep, Units
    <3> QED
      BY <2>13, <3>1 DEF Sweep
  <2>14. ASSUME NEW r \in Rows, Purge(r) PROVE Inv'
    <3>1. unit'.at = "purge" /\ unit'.purge \subseteq old /\ r \in old
      BY <2>2, <2>14 DEF Purge, Units
    <3>2. /\ \A f \in Files : size'[f] = size[f] \/ (f = file[r] /\ size'[f] = "missing")
          /\ UNCHANGED <<status, file, old>>
      BY <2>14 DEF Purge, TypeOK
    <3>3. status[r] = "completed" \/ file[r] = NoFile
      BY <2>14 DEF Purge, AtHand, Finished
    <3>4. file[r] = NoFile => \A f \in Files : size'[f] = size[f]
      BY <3>2, IarAssumption
    <3> QED
      BY <3>1, <3>2, <3>3, <3>4
  <2>15. ASSUME NEW f \in Files, RegionBegins(f) \/ RegionWrites(f) PROVE Inv'
    <3>1. UNCHANGED <<status, file, old, unit>>
      BY <2>15 DEF RegionBegins, RegionWrites
    <3>2. \A g \in Files : size'[g] = size[g] \/ size'[g] \in {"empty", "partial", "whole"}
      BY <2>15 DEF RegionBegins, RegionWrites, TypeOK
    <3>3. unit.at \in {"appear", "stable"} => unit.file \in Files
      BY DEF TypeOK
    <3> QED
      BY <3>1, <3>2, <3>3
  <2>16. ASSUME NEW r \in Rows, Age(r) PROVE Inv'
    BY <2>1, <2>16 DEF Age
  <2>17. ASSUME StartUnit, UNCHANGED <<status, file, size, old>> PROVE Inv'
    BY <2>1, <2>17 DEF StartUnit, Off
  <2>18. ASSUME \/ Abandon \/ QueueEmpty \/ Crash PROVE Inv'
    BY <2>1, <2>18 DEF Abandon, QueueEmpty, Crash, Off
  <2> HIDE DEF Inv
  <2>19. ASSUME UNCHANGED <<status, file, size, old, unit>> PROVE Inv'
    BY <2>1, <2>19
  <2> QED
    BY <2>3, <2>4, <2>5, <2>6, <2>7, <2>8, <2>9, <2>11, <2>12, <2>13, <2>14, <2>15, <2>16,
       <2>17, <2>18, <2>19 DEF Next, UnitStep, Check, Trigger, Boot, RegionDies, vars
<1> QED
  BY <1>1, <1>2, TypeCorrect, Working, PTL DEF Spec

\* The archive of a completed backup stays on disk until its retention is over, for any
\* number of archives, deaths of the region and of the unit.
THEOREM ArchiveKept == Spec => []CompletedIsOnDisk
BY Recorded, PTL

(***************************************************************************)
(* How requests, unit and clean-up implement the queue of backups.         *)
(***************************************************************************)
\* A backup has an archive from its end on, and clean-up takes what is old.
EndAndAge ==
  /\ \A r \in Rows : status[r] \notin {"completed", "gone"} => file[r] = NoFile
  /\ unit.purge \cup unit.purged \subseteq old

\* The unit ends the row at hand, as completed with its archive or as failed.
LEMMA EndOfRow ==
  ASSUME TypeOK, Fail \/ Complete
  PROVE  /\ unit.row \in Rows /\ unit' = [Off EXCEPT !.at = "loop"]
         /\ UNCHANGED old
         /\ notices' = [notices EXCEPT ![unit.row] = @ + 1]
         /\ \/ /\ unit.at = "stable" /\ unit.file \in Files
               /\ status' = [status EXCEPT ![unit.row] = "completed"]
               /\ file' = [file EXCEPT ![unit.row] = unit.file]
            \/ /\ status' = [status EXCEPT ![unit.row] = "failed"]
               /\ file' = [file EXCEPT ![unit.row] = NoFile]
<1>1. unit.row \in Rows /\ (unit.at = "stable" => unit.file \in Files)
  BY DEF TypeOK, Units, Fail, Complete
<1>2. CASE Fail
  BY <1>1, <1>2 DEF Fail, Finish
<1>3. CASE Complete
  BY <1>1, <1>3 DEF Complete, Finish
<1> QED
  BY <1>2, <1>3

LEMMA EndedAndAged == Spec => []EndAndAge
<1>1. Init => EndAndAge
  BY DEF Init, EndAndAge, Off
<1>2. TypeOK /\ EndAndAge /\ [Next]_vars => EndAndAge'
  <2> SUFFICES ASSUME TypeOK, EndAndAge, [Next]_vars PROVE EndAndAge'
    OBVIOUS
  <2> USE DEF EndAndAge, rowVars, regionVars
  <2>1. unit \in Units /\ status \in [Rows -> Statuses] /\ file \in [Rows -> Files \cup {NoFile}]
    BY DEF TypeOK
  \* Steps that neither end a row nor choose what is removed.
  <2>2. ASSUME UNCHANGED file, old \subseteq old',
               \A r \in Rows : status[r] \in {"completed", "gone"} => status'[r] \in {"completed", "gone"},
               unit'.purge \cup unit'.purged \subseteq unit.purge \cup unit.purged
        PROVE  EndAndAge'
    BY <2>2
  <2>3. ASSUME NEW w \in Web, Insert(w) PROVE EndAndAge'
    BY <2>1, <2>2, <2>3 DEF Insert
  <2>4. ASSUME Reset PROVE EndAndAge'
    <3>1. unit'.purge = unit.purge /\ unit'.purged = unit.purged
      BY <2>1, <2>4 DEF Reset, Units
    <3> QED
      BY <2>2, <2>4, <3>1 DEF Reset
  <2>5. ASSUME NEW r \in Rows, Pick(r) PROVE EndAndAge'
    BY <2>1, <2>2, <2>5 DEF Pick, Off
  <2>6. ASSUME Fail \/ Complete PROVE EndAndAge'
    BY <2>1, <2>6, EndOfRow DEF Off
  <2>7. ASSUME Appear \/ Sample \/ \E f \in Files : Inject(f) PROVE EndAndAge'
    <3>1. unit'.purge = unit.purge /\ unit'.purged = unit.purged
      BY <2>1, <2>7 DEF Appear, Sample, Inject, Units
    <3> QED
      BY <2>2, <2>7, <3>1 DEF Appear, Sample, Inject
  <2>8. ASSUME Sweep PROVE EndAndAge'
    <3>1. unit'.purge \subseteq old /\ unit'.purged = unit.purged
      BY <2>1, <2>8 DEF Sweep, Units
    <3> QED
      BY <2>8, <3>1 DEF Sweep
  <2>9. ASSUME NEW r \in Rows, Purge(r) PROVE EndAndAge'
    <3>1. unit'.purge \cup unit'.purged \subseteq unit.purge \cup unit.purged
      BY <2>1, <2>9 DEF Purge, Units
    <3> QED
      BY <2>2, <2>9, <3>1 DEF Purge
  <2>10. ASSUME CommitPurge PROVE EndAndAge'
    BY <2>1, <2>2, <2>10 DEF CommitPurge, Off
  <2>11. ASSUME NEW r \in Rows, Age(r) PROVE EndAndAge'
    BY <2>2, <2>11 DEF Age
  <2>12. ASSUME UNCHANGED <<status, file, old>>, unit' = unit \/ unit'.purge \cup unit'.purged = {}
         PROVE  EndAndAge'
    BY <2>2, <2>12
  <2>13. ASSUME StartUnit PROVE unit' = unit \/ unit'.purge \cup unit'.purged = {}
    BY <2>13 DEF StartUnit, Off
  <2>14. ASSUME Abandon \/ QueueEmpty \/ Crash PROVE unit'.purge \cup unit'.purged = {}
    BY <2>14 DEF Abandon, QueueEmpty, Crash, Off
  <2> HIDE DEF EndAndAge
  <2> QED
    BY <2>3, <2>4, <2>5, <2>6, <2>7, <2>8, <2>9, <2>10, <2>11, <2>12, <2>13, <2>14
       DEF Next, UnitStep, Check, Trigger, Boot, Abandon, QueueEmpty, Crash, RegionBegins,
           RegionWrites, RegionDies, vars
<1> QED
  BY <1>1, <1>2, TypeCorrect, PTL DEF Spec

LEMMA QueueStep ==
  ASSUME TypeOK, AtHand, OneInProcessing, ToldOnce, OnRecord, EndAndAge, [Next]_vars
  PROVE  [Backups!Next]_<<status, file, notices, old>>
<1> USE DEF rowVars, regionVars
<1>1. ASSUME NEW w \in Web, Insert(w) PROVE Backups!Next
  BY <1>1 DEF Insert, Backups!Next, Backups!Submit, Backups!Move
<1>2. ASSUME Reset PROVE Backups!Next \/ UNCHANGED <<status, file, notices, old>>
  <2>1. CASE \A r \in Rows : status[r] # "processing"
    <3>1. status' = status
      BY <1>2, <2>1 DEF Reset, TypeOK
    <3> QED
      BY <1>2, <3>1 DEF Reset
  <2>2. CASE \E r \in Rows : status[r] = "processing"
    <3>1. PICK r \in Rows : status[r] = "processing"
      BY <2>2
    <3>2. \A s \in Rows : status[s] = "processing" => s = r
      BY <3>1 DEF OneInProcessing
    <3>3. status' = [status EXCEPT ![r] = "pending"]
      BY <1>2, <3>1, <3>2 DEF Reset, TypeOK
    <3> QED
      BY <1>2, <3>1, <3>3 DEF Reset, Backups!Next, Backups!PutBack, Backups!Move
  <2> QED
    BY <2>1, <2>2
<1>3. ASSUME NEW r \in Rows, Pick(r) PROVE Backups!Next
  <2>1. \A s \in Rows : status[s] # "processing"
    BY <1>3 DEF Pick, OneInProcessing
  <2> QED
    BY <1>3, <2>1 DEF Pick, Backups!Next, Backups!Begin, Backups!Move
<1>4. ASSUME Fail \/ Complete PROVE Backups!Next
  <2> DEFINE r == unit.row
  <2>1. r \in Rows /\ status[r] = "processing"
    BY <1>4, EndOfRow, IarAssumption DEF AtHand, IarAssumption
  <2>2. notices[r] = 0 /\ file[r] = NoFile
    BY <2>1 DEF ToldOnce, Finished, EndAndAge
  <2>3. notices' = [notices EXCEPT ![r] = 1] /\ UNCHANGED old
    BY <1>4, <2>1, <2>2, EndOfRow DEF TypeOK
  <2>4. Backups!Tell(r)
    BY <2>2, <2>3 DEF Backups!Tell
  <2>5. CASE /\ unit.at = "stable" /\ unit.file \in Files
             /\ status' = [status EXCEPT ![r] = "completed"]
             /\ file' = [file EXCEPT ![r] = unit.file]
    <3>1. \A s \in Rows : status[s] = "completed" => file[s] # unit.file
      BY <2>5 DEF OnRecord
    <3>2. Backups!Complete(r, unit.file)
      BY <2>1, <2>4, <2>5, <3>1 DEF Backups!Complete, Backups!Move
    <3> QED
      BY <2>1, <2>5, <3>2 DEF Backups!Next
  <2>6. CASE status' = [status EXCEPT ![r] = "failed"] /\ file' = [file EXCEPT ![r] = NoFile]
    <3>1. file' = file
      BY <2>1, <2>2, <2>6 DEF TypeOK
    <3>2. Backups!Fail(r)
      BY <2>1, <2>4, <2>6, <3>1 DEF Backups!Fail, Backups!Move
    <3> QED
      BY <2>1, <3>2 DEF Backups!Next
  <2> QED
    BY <1>4, <2>5, <2>6, EndOfRow
<1>5. ASSUME CommitPurge PROVE Backups!Next
  <2>1. unit.purged \in SUBSET old /\ \A r \in unit.purged : status[r] \in {"completed", "failed"}
    BY DEF EndAndAge, AtHand, Finished
  <2>2. Backups!Delete(unit.purged)
    BY <1>5, <2>1 DEF CommitPurge, Backups!Delete
  <2> QED
    BY <2>1, <2>2 DEF Backups!Next
<1>6. ASSUME NEW r \in Rows, Age(r) PROVE Backups!Next
  BY <1>6 DEF Age, Backups!Next, Backups!Expire
<1> QED
  BY <1>1, <1>2, <1>3, <1>4, <1>5, <1>6
     DEF Next, UnitStep, Check, Trigger, Boot, Inject, Appear, Sample, Abandon, QueueEmpty,
         Sweep, Purge, Crash, RegionBegins, RegionWrites, RegionDies, vars

\* The backups implement their queue, whatever is killed and when: what the code does to the rows
\* is a submission, a beginning, a return to the queue, an end that is told, the passing of the
\* retention or a deletion the queue allows; all else is invisible.
THEOREM UnitKeepsQueue == Spec => KeepsQueue
<1>1. Init => Backups!Init
  BY DEF Init, Backups!Init
<1> QED
  BY <1>1, TypeCorrect, Working, EndToldOnce, Recorded, EndedAndAged, QueueStep, PTL
     DEF Spec, KeepsQueue, Backups!Spec

(***************************************************************************)
(* Why a user has at most one unfinished backup for each web worker: with  *)
(* the requests that have looked, and not yet inserted, there are no more. *)
(***************************************************************************)
Looked(u) == {w \in Web : web[w].at = "checked" /\ web[w].user = u}

Admitted == \A u \in Users : Cardinality(ActiveRows(u)) + Cardinality(Looked(u)) <= Cardinality(Web)

\* Rows and web workers are finitely many.
LEMMA Counts ==
  ASSUME NEW A \in SUBSET Rows, NEW L \in SUBSET Web
  PROVE  /\ IsFiniteSet(A) /\ Cardinality(A) \in Nat
         /\ IsFiniteSet(L) /\ Cardinality(L) \in Nat
         /\ Cardinality(L) <= Cardinality(Web) /\ Cardinality(Web) \in Nat
BY IarAssumption, FS_Subset, FS_CardinalityType DEF IarAssumption

\* Where neither set grows, the two together do not outgrow the web workers.
LEMMA NoGrowth ==
  ASSUME NEW A \in SUBSET Rows, NEW L \in SUBSET Web, NEW B \in SUBSET A, NEW M \in SUBSET L,
         Cardinality(A) + Cardinality(L) <= Cardinality(Web)
  PROVE  Cardinality(B) + Cardinality(M) <= Cardinality(Web)
<1>1. /\ IsFiniteSet(A) /\ Cardinality(A) \in Nat /\ Cardinality(B) \in Nat
      /\ IsFiniteSet(L) /\ Cardinality(L) \in Nat /\ Cardinality(M) \in Nat
      /\ Cardinality(Web) \in Nat
  BY Counts
<1>2. Cardinality(B) <= Cardinality(A) /\ Cardinality(M) <= Cardinality(L)
  BY <1>1, FS_Subset
<1> QED
  BY <1>1, <1>2

\* A user has at most one unfinished backup for each web worker, although the check for one
\* takes no lock: a request that inserts has looked when there was none.
THEOREM ActiveAtMost == Spec => []ActivePerUser
<1> DEFINE Within(u) == Cardinality(ActiveRows(u)') + Cardinality(Looked(u)') <= Cardinality(Web)
<1>1. Init => Admitted
  <2> SUFFICES ASSUME Init, NEW u \in Users
               PROVE  Cardinality(ActiveRows(u)) + Cardinality(Looked(u)) <= Cardinality(Web)
    BY DEF Admitted
  <2>1. ActiveRows(u) = {} /\ Looked(u) = {}
    BY DEF Init, ActiveRows, Looked, Free, Active
  <2> QED
    BY <2>1, Counts, FS_EmptySet
<1>2. TypeOK /\ Admitted /\ [Next]_vars => Admitted'
  <2> SUFFICES ASSUME TypeOK, Admitted, [Next]_vars, NEW u \in Users
               PROVE  Within(u)
    BY DEF Admitted
  <2> USE DEF rowVars, regionVars
  <2>1. Cardinality(ActiveRows(u)) + Cardinality(Looked(u)) <= Cardinality(Web)
    BY DEF Admitted
  <2>2. /\ ActiveRows(u) \in SUBSET Rows /\ Looked(u) \in SUBSET Web
        /\ ActiveRows(u)' \in SUBSET Rows /\ Looked(u)' \in SUBSET Web
    BY DEF ActiveRows, Looked
  <2>3. ASSUME ActiveRows(u)' \subseteq ActiveRows(u), Looked(u)' \subseteq Looked(u)
        PROVE  Within(u)
    BY <2>1, <2>2, <2>3, NoGrowth
  <2>4. ASSUME NEW w \in Web, NEW v \in Users, Check(w, v) PROVE Within(u)
    <3>1. ActiveRows(u)' = ActiveRows(u)
      BY <2>4 DEF Check, ActiveRows
    <3>2. CASE v = u
      <4>1. ActiveRows(u)' = {}
        BY <2>4, <3>1, <3>2 DEF Check
      <4>2. Cardinality(Looked(u)') \in Nat /\ Cardinality(Looked(u)') <= Cardinality(Web)
        BY <2>2, Counts
      <4> QED
        BY <4>1, <4>2, FS_EmptySet
    <3>3. CASE v # u
      <4>1. Looked(u)' \subseteq Looked(u)
        BY <2>4, <3>3 DEF Check, Looked
      <4> QED
        BY <3>1, <4>1, <2>3
    <3> QED
      BY <3>2, <3>3
  <2>5. ASSUME NEW w \in Web, Insert(w) PROVE Within(u)
    <3>1. PICK r \in Rows : /\ status[r] = "absent"
                            /\ status' = [status EXCEPT ![r] = "pending"]
                            /\ owner'  = [owner EXCEPT ![r] = web[w].user]
      BY <2>5 DEF Insert
    <3>2. /\ web[w].at = "checked" /\ web'[w].at = "inserted"
          /\ \A v \in Web \ {w} : web'[v] = web[v]
      BY <2>5 DEF Insert, TypeOK, Requests
    <3>3. \A s \in Rows : /\ status'[s] = IF s = r THEN "pending" ELSE status[s]
                          /\ owner'[s] = IF s = r THEN web[w].user ELSE owner[s]
      BY <3>1 DEF TypeOK
    <3>4. CASE web[w].user = u
      <4>1. r \notin ActiveRows(u) /\ w \in Looked(u)
        BY <3>1, <3>2, <3>4 DEF ActiveRows, Active, Looked
      <4>2. ActiveRows(u)' = ActiveRows(u) \cup {r}
        BY <3>3, <3>4 DEF ActiveRows, Active
      <4>3. Looked(u)' = Looked(u) \ {w}
        BY <3>2 DEF Looked
      <4>4. Cardinality(ActiveRows(u)') = Cardinality(ActiveRows(u)) + 1
        BY <4>1, <4>2, <2>2, Counts, FS_AddElement
      <4>5. Cardinality(Looked(u)') = Cardinality(Looked(u)) - 1
        BY <4>1, <4>3, <2>2, Counts, FS_RemoveElement
      <4>6. Cardinality(ActiveRows(u)) \in Nat /\ Cardinality(Looked(u)) \in Nat
        BY <2>2, Counts
      <4> QED
        BY <4>4, <4>5, <4>6, <2>1
    <3>5. CASE web[w].user # u
      <4>1. ActiveRows(u)' \subseteq ActiveRows(u)
        BY <3>3, <3>5 DEF ActiveRows
      <4>2. Looked(u)' \subseteq Looked(u)
        BY <3>2 DEF Looked
      <4> QED
        BY <4>1, <4>2, <2>3
    <3> QED
      BY <3>4, <3>5
  <2>6. ASSUME UNCHANGED <<web, owner>>,
               \A r \in Rows : status'[r] \in Active => status[r] \in Active
        PROVE  Within(u)
    BY <2>3, <2>6 DEF ActiveRows, Looked
  <2>7. ASSUME Reset \/ \E r \in Rows : Pick(r) PROVE Within(u)
    <3>1. \A r \in Rows : status'[r] \in Active => status[r] \in Active
      BY <2>7 DEF Reset, Pick, Active, TypeOK
    <3> QED
      BY <2>6, <2>7, <3>1 DEF Reset, Pick
  <2>8. ASSUME Fail \/ Complete \/ CommitPurge PROVE Within(u)
    <3>1. \A r \in Rows : status'[r] \in Active => status[r] \in Active
      BY <2>8 DEF Fail, Complete, CommitPurge, Finish, Active, TypeOK
    <3> QED
      BY <2>6, <2>8, <3>1 DEF Fail, Complete, CommitPurge
  <2>9. ASSUME NEW w \in Web, Trigger(w) PROVE Within(u)
    <3>1. ActiveRows(u)' = ActiveRows(u)
      BY <2>9 DEF Trigger, ActiveRows
    <3>2. Looked(u)' \subseteq Looked(u)
      BY <2>9 DEF Trigger, Looked, Free
    <3> QED
      BY <3>1, <3>2, <2>3
  <2>10. ASSUME UNCHANGED <<status, owner, web>> PROVE Within(u)
    BY <2>6, <2>10
  <2> HIDE DEF Within
  <2> QED
    BY <2>4, <2>5, <2>7, <2>8, <2>9, <2>10
       DEF Next, UnitStep, Boot, Inject, Appear, Sample, Abandon, QueueEmpty, Sweep, Purge,
           Crash, RegionBegins, RegionWrites, RegionDies, Age, vars
<1>3. Admitted => ActivePerUser
  <2> SUFFICES ASSUME Admitted, NEW u \in Users
               PROVE  Cardinality(ActiveRows(u)) <= Cardinality(Web)
    BY DEF ActivePerUser
  <2>1. ActiveRows(u) \in SUBSET Rows /\ Looked(u) \in SUBSET Web
    BY DEF ActiveRows, Looked
  <2>2. Cardinality(ActiveRows(u)) + Cardinality(Looked(u)) <= Cardinality(Web)
    BY DEF Admitted
  <2>3. {} \in SUBSET Looked(u) /\ ActiveRows(u) \in SUBSET ActiveRows(u)
    OBVIOUS
  <2>4. Cardinality(ActiveRows(u)) + Cardinality({}) <= Cardinality(Web)
    BY <2>1, <2>2, <2>3, NoGrowth
  <2> QED
    BY <2>1, <2>4, Counts, FS_EmptySet
<1> QED
  BY <1>1, <1>2, <1>3, TypeCorrect, PTL DEF Spec
=============================================================================
