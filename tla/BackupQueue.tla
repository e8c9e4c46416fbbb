----------------------------- MODULE BackupQueue -----------------------------
(***************************************************************************)
(* What the queue of backups promises its users, without unit, region or   *)
(* clean-up: one backup is served at a time; one that was begun may go     *)
(* back to the queue until it has ended; its end gives it an archive of    *)
(* its own or none, and is told once; only an ended backup whose retention *)
(* is over is deleted.                                                     *)
(***************************************************************************)
EXTENDS Naturals

CONSTANTS
  Jobs,
  Archives,
  None       \* no archive

VARIABLES
  status,    \* [Jobs -> {"absent", "pending", "processing", "completed", "failed", "gone"}]
  archive,   \* [Jobs -> Archives \cup {None}]
  told,      \* [Jobs -> Nat]: how often the owner was told its end
  old        \* SUBSET Jobs: those whose retention is over

Init ==
  /\ status = [j \in Jobs |-> "absent"]
  /\ archive = [j \in Jobs |-> None]
  /\ told = [j \in Jobs |-> 0]
  /\ old = {}

Move(j, from, to) == status[j] = from /\ status' = [status EXCEPT ![j] = to]

Submit(j) == Move(j, "absent", "pending") /\ UNCHANGED <<archive, told, old>>

Begin(j) ==
  /\ \A i \in Jobs : status[i] # "processing"
  /\ Move(j, "pending", "processing")
  /\ UNCHANGED <<archive, told, old>>

PutBack(j) == Move(j, "processing", "pending") /\ UNCHANGED <<archive, told, old>>

Tell(j) == told[j] = 0 /\ told' = [told EXCEPT ![j] = 1] /\ UNCHANGED old

Complete(j, a) ==
  /\ \A i \in Jobs : status[i] = "completed" => archive[i] # a
  /\ Move(j, "processing", "completed")
  /\ archive' = [archive EXCEPT ![j] = a]
  /\ Tell(j)

Fail(j) ==
  /\ Move(j, "processing", "failed")
  /\ UNCHANGED archive
  /\ Tell(j)

Expire(j) ==
  /\ status[j] \notin {"absent", "gone"}
  /\ old' = old \cup {j}
  /\ UNCHANGED <<status, archive, told>>

Delete(S) ==
  /\ \A j \in S : status[j] \in {"completed", "failed"}
  /\ status' = [j \in Jobs |-> IF j \in S THEN "gone" ELSE status[j]]
  /\ UNCHANGED <<archive, told, old>>

Next ==
  \/ \E j \in Jobs : Submit(j) \/ Begin(j) \/ PutBack(j) \/ Fail(j) \/ Expire(j)
  \/ \E j \in Jobs, a \in Archives : Complete(j, a)
  \/ \E S \in SUBSET old : Delete(S)

Spec == Init /\ [][Next]_<<status, archive, told, old>>
=============================================================================
