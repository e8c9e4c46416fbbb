----------------------------- MODULE LogIngest -----------------------------
(***************************************************************************)
(* The ingestion of the grid's login requests (parse_gatekeeper_logs in     *)
(* scripts/worker.py): each rotated log file is read line by line into the  *)
(* tables the staff look users up in, committed, and renamed.               *)
(*                                                                         *)
(* A table keeps one row for a user and what it was seen with, the last     *)
(* one written; a statement that fails is printed, and the file goes on.    *)
(***************************************************************************)
EXTENDS Integers, FiniteSets

CONSTANTS
  Files,         \* rotated log files, numbered by their time of modification
  Sightings,     \* a user and a machine (or an origin)
  Seen,          \* [Files -> the sightings with a login request in the file]
  MaxIngestFailures  \* bound: statements, files and runs that fail

ASSUME IngestAssumption ==
  /\ Files \subseteq Nat
  /\ IsFiniteSet(Files)
  /\ Seen \in [Files -> SUBSET Sightings]
  /\ MaxIngestFailures \in Nat

VARIABLES
  rotated,    \* files that Robust has closed
  processed,  \* files renamed to Processed-...
  shown,      \* [Sightings -> the file the committed row comes from, 0 for none]: date_time
  ingest,     \* the run: the file it is reading, what it has written since the last commit
  ingestfails,
  (* history *)
  committed,  \* files whose rows were committed
  missed,     \* sightings of statements that failed, and with a deadlock the whole transaction
  failed      \* files that could not be read, committed or renamed when it was their turn

ingestVars == <<rotated, processed, shown, ingest, ingestfails, committed, missed, failed>>

IngestIdle == [at |-> "idle", todo |-> {}, file |-> {}, lines |-> {}, wrote |-> {}]

IngestInit ==
  /\ rotated = {} /\ processed = {} /\ committed = {} /\ missed = {} /\ failed = {}
  /\ shown = [s \in Sightings |-> 0]
  /\ ingest = IngestIdle /\ ingestfails = 0

\* Robust closes a log file; later files are newer.
Rotate(f) ==
  /\ f \notin rotated /\ \A g \in Files : g < f => g \in rotated
  /\ rotated' = rotated \cup {f}
  /\ UNCHANGED <<processed, shown, ingest, ingestfails, committed, missed, failed>>

\* The timer starts the worker: the files there are, without those processed.
BeginIngest ==
  /\ ingest.at = "idle" /\ rotated \ processed # {}
  /\ ingest' = [IngestIdle EXCEPT !.at = "next", !.todo = rotated \ processed]
  /\ UNCHANGED <<rotated, processed, shown, ingestfails, committed, missed, failed>>

\* Mutant: the files are taken in any order, as glob returns them.
OpenAnyFile(f) ==
  /\ ingest.at = "next" /\ f \in ingest.todo
  /\ ingest' = [at |-> "reading", todo |-> ingest.todo \ {f}, file |-> {f}, lines |-> Seen[f], wrote |-> {}]
  /\ UNCHANGED <<rotated, processed, shown, ingestfails, committed, missed, failed>>

\* The oldest of them comes first.
OpenFile(f) ==
  /\ ingest.at = "next" /\ f \in ingest.todo /\ \A g \in ingest.todo : f <= g
  /\ ingest' = [at |-> "reading", todo |-> ingest.todo \ {f}, file |-> {f}, lines |-> Seen[f], wrote |-> {}]
  /\ UNCHANGED <<rotated, processed, shown, ingestfails, committed, missed, failed>>

\* One login request: REPLACE INTO the three tables.
IngestLine(s) ==
  /\ ingest.at = "reading" /\ s \in ingest.lines
  /\ ingest' = [ingest EXCEPT !.lines = @ \ {s}, !.wrote = @ \cup {s}]
  /\ UNCHANGED <<rotated, processed, shown, ingestfails, committed, missed, failed>>

\* The statement fails, alone or (a deadlock) with all that was not committed; the loop goes on.
StatementFails(s) ==
  /\ ingest.at = "reading" /\ s \in ingest.lines
  /\ ingestfails < MaxIngestFailures /\ ingestfails' = ingestfails + 1
  /\ \E undone \in {{}, ingest.wrote} :
       /\ ingest' = [ingest EXCEPT !.lines = @ \ {s}, !.wrote = @ \ undone]
       /\ missed' = missed \cup undone \cup {s}
  /\ UNCHANGED <<rotated, processed, shown, committed, failed>>

CommitFile(f) ==
  /\ ingest.at = "reading" /\ ingest.lines = {} /\ f \in ingest.file
  /\ shown' = [s \in Sightings |-> IF s \in ingest.wrote THEN f ELSE shown[s]]
  /\ committed' = committed \cup {f}
  /\ ingest' = [ingest EXCEPT !.at = "renaming"]
  /\ UNCHANGED <<rotated, processed, ingestfails, missed, failed>>

RenameFile(f) ==
  /\ ingest.at = "renaming" /\ f \in ingest.file
  /\ processed' = processed \cup {f}
  /\ ingest' = [IngestIdle EXCEPT !.at = "next", !.todo = ingest.todo]
  /\ UNCHANGED <<rotated, shown, ingestfails, committed, missed, failed>>

\* Opening, reading, committing or renaming fails: the file stays, the run goes on with the next.
FileFails ==
  /\ ingest.at \in {"reading", "renaming"}
  /\ ingestfails < MaxIngestFailures /\ ingestfails' = ingestfails + 1
  /\ ingest' = [IngestIdle EXCEPT !.at = "next", !.todo = ingest.todo]
  /\ failed' = failed \cup ingest.file
  /\ UNCHANGED <<rotated, processed, shown, committed, missed>>

EndIngest ==
  /\ ingest.at = "next" /\ ingest.todo = {}
  /\ ingest' = IngestIdle
  /\ UNCHANGED <<rotated, processed, shown, ingestfails, committed, missed, failed>>

\* The unit is stopped, or the machine dies.
KillIngest ==
  /\ ingest.at # "idle"
  /\ ingestfails < MaxIngestFailures /\ ingestfails' = ingestfails + 1
  /\ ingest' = IngestIdle
  /\ UNCHANGED <<rotated, processed, shown, committed, missed, failed>>

IngestStep ==
  \/ BeginIngest \/ FileFails \/ EndIngest \/ KillIngest
  \/ \E f \in Files : Rotate(f) \/ OpenFile(f) \/ CommitFile(f) \/ RenameFile(f)
  \/ \E s \in Sightings : IngestLine(s) \/ StatementFails(s)

\* Files, rows, the run and the history keep to their types.
IngestTypeOK ==
  /\ rotated \subseteq Files /\ processed \subseteq Files /\ committed \subseteq Files
  /\ shown \in [Sightings -> Files \cup {0}]
  /\ ingest \in [at : {"idle", "next", "reading", "renaming"}, todo : SUBSET Files, file : SUBSET Files,
                 lines : SUBSET Sightings, wrote : SUBSET Sightings]
  /\ ingestfails \in Nat
  /\ missed \subseteq Sightings /\ failed \subseteq Files

\* What staff are shown of a user is at least as new as every file that was processed, whatever
\* is killed in between and however often a file is read again, unless a statement failed (it is
\* never repeated) or the row comes from a file that failed in its turn and was tried again later.
ShownIsNewest ==
  \A f \in processed : \A s \in Seen[f] \ missed : shown[s] >= f \/ shown[s] \in failed
=============================================================================
