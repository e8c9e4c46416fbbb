---------------------------- MODULE SchemaUpgrade ----------------------------
(***************************************************************************)
(* What the migration engine promises of the database, without runs: the   *)
(* files are executed one after the other, each from where the database    *)
(* stands and no statement of it twice in effect, and recorded once, when  *)
(* it is there as a whole and all before it are recorded.                  *)
(***************************************************************************)
EXTENDS Naturals

CONSTANTS
  Newest,      \* number of the newest file
  Length       \* [1 .. Newest -> Nat]: the statements of each file

VARIABLES
  applied,     \* [1 .. Newest -> Nat]: how far the database is in each file
  recorded     \* SUBSET 1 .. Newest

Upgrades == 1 .. Newest

Init == applied = [m \in Upgrades |-> 0] /\ recorded = {}

\* The one file whose turn it is.
Turn(m) == m \notin recorded /\ \A k \in Upgrades : k < m => k \in recorded

\* Some more of its statements are executed ...
Advance(m) ==
  /\ Turn(m)
  /\ \E n \in applied[m] + 1 .. Length[m] : applied' = [applied EXCEPT ![m] = n]
  /\ UNCHANGED recorded

\* ... and when there are no more, it is recorded.
Enter(m) ==
  /\ Turn(m) /\ applied[m] = Length[m]
  /\ recorded' = recorded \cup {m}
  /\ UNCHANGED applied

Next == \E m \in Upgrades : Advance(m) \/ Enter(m)

Spec == Init /\ [][Next]_<<applied, recorded>>
=============================================================================
