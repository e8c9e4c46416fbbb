------------------------------ MODULE IarBackup ------------------------------
(***************************************************************************)
(* Inventory backups: the requests of users that insert rows of            *)
(* iar_backups, the systemd oneshot unit pariah-worker-iar.service that    *)
(* serves them, the region simulator that writes the archives, and the     *)
(* clean-up at the end of every run.  The unit runs at most once at a      *)
(* time; asking systemd to start it while it runs does nothing.            *)
(***************************************************************************)
EXTENDS Naturals, FiniteSets

CONSTANTS
  Users,
  Web,           \* the gunicorn workers, each serving one request at a time
  Rows,          \* ids of iar_backups, inserted in order
  Files,         \* archives, one per command given to the region
  Pauses,        \* whether the region may pause in a file for three samples
  MaxCrashes,    \* bound: the unit is killed or loses its database
  MaxDeaths      \* bound: the region simulator dies

Nobody == "nobody"
NoRow  == 0
NoFile == 0

ASSUME IarAssumption ==
  /\ Nobody \notin Users
  /\ Rows \subseteq Nat \ {NoRow}
  /\ Files \subseteq Nat \ {NoFile}
  /\ IsFiniteSet(Rows) /\ IsFiniteSet(Web)
  /\ Pauses \in BOOLEAN
  /\ MaxCrashes \in Nat /\ MaxDeaths \in Nat

VARIABLES
  status,     \* [Rows -> Statuses]: "absent" before INSERT, "gone" after DELETE
  owner,      \* [Rows -> Users \cup {Nobody}]: user_uuid
  file,       \* [Rows -> Files \cup {NoFile}]: file_path
  old,        \* rows requested longer than the retention ago
  web,        \* [Web -> the request a web worker is serving]
  unit,       \* the state of pariah-worker-iar.service
  size,       \* [Files -> Sizes]: "unnamed" before a command names the file
  asked,      \* files the region was told to write and has not begun
  writing,    \* files the region is writing
  crashes, deaths,
  notices     \* [Rows -> Nat]: rows of user_notices about the end of a backup

rowVars == <<status, owner, file, notices>>
regionVars == <<size, asked, writing>>
vars == <<status, owner, file, old, web, unit, size, asked, writing, crashes, deaths, notices>>

Statuses == {"absent", "pending", "processing", "completed", "failed", "gone"}
Finished == {"completed", "failed"}
Active   == {"pending", "processing"}
Sizes    == {"unnamed", "missing", "empty", "partial", "whole"}

Free     == [at |-> "free", user |-> Nobody]
Requests == [at : {"free", "checked", "inserted"}, user : Users \cup {Nobody}]

Off      == [at |-> "off", row |-> NoRow, file |-> NoFile, last |-> "missing", stable |-> 0,
             purge |-> {}, purged |-> {}]
Units    == [at : {"off", "reset", "loop", "inject", "appear", "stable", "sweep", "purge"},
             row : Rows \cup {NoRow}, file : Files \cup {NoFile}, last : Sizes, stable : 0..3,
             purge : SUBSET Rows, purged : SUBSET Rows]

Init ==
  /\ status  = [r \in Rows |-> "absent"]
  /\ owner   = [r \in Rows |-> Nobody]
  /\ file    = [r \in Rows |-> NoFile]
  /\ old     = {}
  /\ web     = [w \in Web |-> Free]
  /\ unit    = Off
  /\ size    = [f \in Files |-> "unnamed"]
  /\ asked   = {}
  /\ writing = {}
  /\ crashes = 0
  /\ deaths  = 0
  /\ notices = [r \in Rows |-> 0]
-----------------------------------------------------------------------------
(***************************************************************************)
(* request_iar_backup: count, insert and commit, trigger.                  *)
(***************************************************************************)
ActiveRows(u) == {r \in Rows : owner[r] = u /\ status[r] \in Active}

\* Mutant: a backup in processing does not count as one in progress.
CheckPendingOnly(w, u) ==
  /\ web[w].at = "free"
  /\ \A r \in Rows : owner[r] = u => status[r] # "pending"
  /\ web' = [web EXCEPT ![w] = [at |-> "checked", user |-> u]]
  /\ UNCHANGED <<rowVars, old, unit, regionVars, crashes, deaths>>

\* A user with a backup in progress is refused; the unit is not started for it.
Check(w, u) ==
  /\ web[w].at = "free"
  /\ ActiveRows(u) = {}
  /\ web' = [web EXCEPT ![w] = [at |-> "checked", user |-> u]]
  /\ UNCHANGED <<rowVars, old, unit, regionVars, crashes, deaths>>

Insert(w) ==
  /\ web[w].at = "checked"
  /\ \E r \in Rows :
       /\ status[r] = "absent"
       /\ \A s \in Rows : s < r => status[s] # "absent"
       /\ status' = [status EXCEPT ![r] = "pending"]
       /\ owner'  = [owner EXCEPT ![r] = web[w].user]
  /\ web' = [web EXCEPT ![w].at = "inserted"]
  /\ UNCHANGED <<file, old, unit, regionVars, crashes, deaths, notices>>

\* systemctl start: nothing happens while the unit is active.
StartUnit == unit' = IF unit.at = "off" THEN [Off EXCEPT !.at = "reset"] ELSE unit

Trigger(w) ==
  /\ web[w].at = "inserted"
  /\ web' = [web EXCEPT ![w] = Free]
  /\ StartUnit
  /\ UNCHANGED <<rowVars, old, regionVars, crashes, deaths>>

\* The first gunicorn worker to boot starts the unit as well.
Boot ==
  /\ unit.at = "off"
  /\ StartUnit
  /\ UNCHANGED <<rowVars, old, web, regionVars, crashes, deaths>>
-----------------------------------------------------------------------------
(***************************************************************************)
(* process_iar_backups                                                     *)
(***************************************************************************)
\* Mutants: rows left in processing stay there, or failed rows are begun again as well.
ResetNothing ==
  /\ unit.at = "reset"
  /\ unit' = [unit EXCEPT !.at = "loop"]
  /\ UNCHANGED <<rowVars, old, web, regionVars, crashes, deaths>>
ResetFailedToo ==
  /\ unit.at = "reset"
  /\ status' = [r \in Rows |-> IF status[r] \in {"processing", "failed"} THEN "pending"
                               ELSE status[r]]
  /\ unit' = [unit EXCEPT !.at = "loop"]
  /\ UNCHANGED <<owner, file, old, web, regionVars, crashes, deaths, notices>>

Reset ==
  /\ unit.at = "reset"
  /\ status' = [r \in Rows |-> IF status[r] = "processing" THEN "pending" ELSE status[r]]
  /\ unit' = [unit EXCEPT !.at = "loop"]
  /\ UNCHANGED <<owner, file, old, web, regionVars, crashes, deaths, notices>>

\* Select a pending row and mark it. Nobody but the unit moves a row on, so the two
\* statements are one step.
Pick(r) ==
  /\ unit.at = "loop"
  /\ status[r] = "pending"
  /\ status' = [status EXCEPT ![r] = "processing"]
  /\ unit' = [Off EXCEPT !.at = "inject", !.row = r]
  /\ UNCHANGED <<owner, file, old, web, regionVars, crashes, deaths, notices>>

\* Mutant: the row that is done is still at hand.
FinishKeepingRow(new, f) ==
  /\ status'  = [status EXCEPT ![unit.row] = new]
  /\ file'    = [file EXCEPT ![unit.row] = f]
  /\ notices' = [notices EXCEPT ![unit.row] = @ + 1]
  /\ unit'    = [unit EXCEPT !.at = "loop"]

\* The end of a row: its status and the notice to its owner, in one transaction.
Finish(new, f) ==
  /\ status'  = [status EXCEPT ![unit.row] = new]
  /\ file'    = [file EXCEPT ![unit.row] = f]
  /\ notices' = [notices EXCEPT ![unit.row] = @ + 1]
  /\ unit'    = [Off EXCEPT !.at = "loop"]

\* The settings, the account and the screen session are there, and the command is typed
\* into the region's console, naming a new file.
Inject(f) ==
  /\ unit.at = "inject"
  /\ size[f] = "unnamed"
  /\ \A g \in Files : g < f => size[g] # "unnamed"
  /\ size' = [size EXCEPT ![f] = "missing"]
  /\ asked' = asked \cup {f}
  /\ unit' = [unit EXCEPT !.at = "appear", !.file = f]
  /\ UNCHANGED <<rowVars, old, web, writing, crashes, deaths>>

\* A setting or the avatar is missing or screen fails; or the file has not appeared in
\* a minute; or it goes, or cannot be looked at, while it is being watched, or completing
\* the row fails. (One statement that fails between two that do not is left out: the path
\* of the archive may then stay on the failed row.)
Fail ==
  /\ \/ unit.at \in {"inject", "stable"}
     \/ unit.at = "appear" /\ size[unit.file] = "missing"
  /\ Finish("failed", NoFile)
  /\ UNCHANGED <<owner, old, web, regionVars, crashes, deaths>>

Appear ==
  /\ unit.at = "appear"
  /\ size[unit.file] # "missing"
  /\ unit' = [unit EXCEPT !.at = "stable"]
  /\ UNCHANGED <<rowVars, old, web, regionVars, crashes, deaths>>

\* One look at the size every two seconds. A file being written has grown since the
\* last look, unless the region pauses.
Sample ==
  LET now    == size[unit.file]
      busy   == unit.file \in writing
      mayBe  == now = unit.last /\ now # "empty"    \* the size may be as it was
  IN  /\ unit.at = "stable" /\ unit.stable < 3
      /\ \/ /\ mayBe /\ (busy => Pauses)
            /\ unit' = [unit EXCEPT !.stable = @ + 1]
         \/ /\ ~mayBe \/ busy
            /\ unit' = [unit EXCEPT !.stable = 0, !.last = now]
      /\ UNCHANGED <<rowVars, old, web, regionVars, crashes, deaths>>

Complete ==
  /\ unit.at = "stable" /\ unit.stable = 3
  /\ Finish("completed", unit.file)
  /\ UNCHANGED <<owner, old, web, regionVars, crashes, deaths>>

\* The database fails under the run: the row at hand stays in processing, and the
\* process goes on to clean-up.
Abandon ==
  /\ unit.at \in {"reset", "loop", "inject", "appear", "stable"}
  /\ crashes < MaxCrashes
  /\ crashes' = crashes + 1
  /\ unit' = [Off EXCEPT !.at = "sweep"]
  /\ UNCHANGED <<rowVars, old, web, regionVars, deaths>>

\* Mutant: the run serves one backup and leaves the others for the next start.
QueueLeft ==
  /\ unit.at = "loop"
  /\ unit' = [Off EXCEPT !.at = "sweep"]
  /\ UNCHANGED <<rowVars, old, web, regionVars, crashes, deaths>>

\* No pending row: the queue is done, and clean-up reads what is old.
QueueEmpty ==
  /\ unit.at = "loop"
  /\ \A r \in Rows : status[r] # "pending"
  /\ unit' = [Off EXCEPT !.at = "sweep"]
  /\ UNCHANGED <<rowVars, old, web, regionVars, crashes, deaths>>
-----------------------------------------------------------------------------
(***************************************************************************)
(* cleanup_old_iars: one transaction, but files are removed one by one.    *)
(***************************************************************************)
\* Mutant: clean-up does not look at the age of a backup.
SweepAll ==
  /\ unit.at = "sweep"
  /\ unit' = [unit EXCEPT !.at = "purge", !.purge = {r \in Rows : status[r] \in Finished}]
  /\ UNCHANGED <<rowVars, old, web, regionVars, crashes, deaths>>

Sweep ==
  /\ unit.at = "sweep"
  /\ unit' = [unit EXCEPT !.at = "purge", !.purge = {r \in old : status[r] \in Finished}]
  /\ UNCHANGED <<rowVars, old, web, regionVars, crashes, deaths>>

\* Remove the file of a row, if there is one and it can be removed, and delete the row.
Purge(r) ==
  /\ unit.at = "purge"
  /\ r \in unit.purge
  /\ unit' = [unit EXCEPT !.purge = @ \ {r}, !.purged = @ \cup {r}]
  /\ \/ size' = [f \in Files |-> IF f = file[r] THEN "missing" ELSE size[f]]
     \/ file[r] # NoFile /\ UNCHANGED size
  /\ UNCHANGED <<rowVars, old, web, asked, writing, crashes, deaths>>

CommitPurge ==
  /\ unit.at = "purge" /\ unit.purge = {}
  /\ status' = [r \in Rows |-> IF r \in unit.purged THEN "gone" ELSE status[r]]
  /\ unit' = Off
  /\ UNCHANGED <<owner, file, old, web, regionVars, crashes, deaths, notices>>

\* The unit is killed, as it is when the portal's unit is restarted.
Crash ==
  /\ unit.at # "off"
  /\ crashes < MaxCrashes
  /\ crashes' = crashes + 1
  /\ unit' = Off
  /\ UNCHANGED <<rowVars, old, web, regionVars, deaths>>
-----------------------------------------------------------------------------
(***************************************************************************)
(* The region simulator (external), and time.                              *)
(***************************************************************************)
RegionBegins(f) ==
  /\ f \in asked
  /\ asked' = asked \ {f}
  /\ writing' = writing \cup {f}
  /\ size' = [size EXCEPT ![f] = "empty"]
  /\ UNCHANGED <<rowVars, old, web, unit, crashes, deaths>>

RegionWrites(f) ==
  /\ f \in writing
  /\ \/ size[f] = "empty" /\ size' = [size EXCEPT ![f] = "partial"] /\ UNCHANGED writing
     \/ size[f] # "empty" /\ size' = [size EXCEPT ![f] = "whole"] /\ writing' = writing \ {f}
  /\ UNCHANGED <<rowVars, old, web, unit, asked, crashes, deaths>>

\* What the region was writing stays as it is.
RegionDies ==
  /\ asked \cup writing # {}
  /\ deaths < MaxDeaths
  /\ deaths' = deaths + 1
  /\ asked' = {} /\ writing' = {}
  /\ UNCHANGED <<rowVars, old, web, unit, size, crashes>>

\* The retention passes since a row was requested.
Age(r) ==
  /\ status[r] \notin {"absent", "gone"}
  /\ r \notin old
  /\ old' = old \cup {r}
  /\ UNCHANGED <<rowVars, web, unit, regionVars, crashes, deaths>>

UnitStep ==
  \/ Reset \/ Fail \/ Appear \/ Sample \/ Complete \/ QueueEmpty \/ Sweep \/ CommitPurge
  \/ \E r \in Rows : Pick(r) \/ Purge(r)
  \/ \E f \in Files : Inject(f)

Next ==
  \/ \E w \in Web : Insert(w) \/ Trigger(w) \/ \E u \in Users : Check(w, u)
  \/ Boot \/ UnitStep \/ Abandon \/ Crash
  \/ \E f \in Files : RegionBegins(f) \/ RegionWrites(f)
  \/ RegionDies
  \/ \E r \in Rows : Age(r)

Spec == Init /\ [][Next]_vars

(***************************************************************************)
(* Fairness: a request under way is finished, the unit runs on, and the    *)
(* region does what it was told. Nobody is obliged to make a request.      *)
(***************************************************************************)
Fairness ==
  /\ \A w \in Web : WF_vars(Insert(w)) /\ WF_vars(Trigger(w))
  /\ WF_vars(UnitStep)
  /\ \A f \in Files : WF_vars(RegionBegins(f)) /\ WF_vars(RegionWrites(f))

FairSpec == Spec /\ Fairness
-----------------------------------------------------------------------------
\* Type invariant; the unit works on a row only between picking and finishing it, and knows
\* its archive from the command on.
TypeOK ==
  /\ status \in [Rows -> Statuses]
  /\ owner \in [Rows -> Users \cup {Nobody}]
  /\ file \in [Rows -> Files \cup {NoFile}]
  /\ old \subseteq Rows
  /\ web \in [Web -> Requests]
  /\ unit \in Units
  /\ unit.row # NoRow <=> unit.at \in {"inject", "appear", "stable"}
  /\ unit.at \in {"appear", "stable"} => unit.file \in Files
  /\ size \in [Files -> Sizes]
  /\ asked \subseteq Files /\ writing \subseteq Files
  /\ crashes \in Nat /\ deaths \in Nat
  /\ notices \in [Rows -> Nat]

\* At most one row is in processing, and while the unit works on a row it is that one:
\* a row left behind by a run that died, or lost its database and went on to clean-up,
\* goes back to the queue before another is taken.
OneInProcessing ==
  \A r \in Rows : status[r] = "processing" =>
    /\ unit.at # "loop" /\ unit.row \in {NoRow, r}
    /\ \A s \in Rows : status[s] = "processing" => s = r

\* The owner of a backup is told its end once: when it is completed or failed, whatever
\* dies in between and however often the backup is begun again.
ToldOnce ==
  \A r \in Rows : notices[r] = IF status[r] \in Finished \cup {"gone"} THEN 1 ELSE 0

\* The check for a backup in progress is made before the insert, without a lock: a user
\* can have more than one, but never more than there are web workers.
ActivePerUser == \A u \in Users : Cardinality(ActiveRows(u)) <= Cardinality(Web)

\* The archive of a completed backup is on disk until the retention is over, although
\* clean-up removes files before it commits the deletion of their rows.
CompletedIsOnDisk ==
  \A r \in Rows : status[r] = "completed" /\ r \notin old
                    => size[file[r]] \notin {"unnamed", "missing"}

\* The requests, the unit, the region and clean-up implement the queue of backups: whatever dies,
\* one is served at a time, its end is told once and gives it an archive of no other, and none
\* is deleted before it has ended and its retention is over.
Backups == INSTANCE BackupQueue WITH Jobs <- Rows, Archives <- Files, None <- NoFile,
                                     archive <- file, told <- notices

KeepsQueue == Backups!Spec

\* Every start of the unit serves all rows that are pending when it begins.
RunServesAll ==
  \A r \in Rows : (unit.at = "reset" /\ status[r] = "pending")
                    ~> status[r] \in Finished \cup {"gone"}

\* "Your inventory backup has been queued. You will be notified when it is ready for
\* download." (user/routes.py): every backup in the queue comes to an end.
EventuallyNotified ==
  \A r \in Rows : (status[r] = "pending") ~> (notices[r] > 0)
=============================================================================
