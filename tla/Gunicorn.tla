------------------------------ MODULE Gunicorn ------------------------------
(***************************************************************************)
(* The service runs a few worker processes (packaging/pariah.service), each *)
(* of which serves one request at a time; any of them may die, be killed    *)
(* for taking too long, or lose the answer of a call it has made.           *)
(***************************************************************************)
EXTENDS Naturals, FiniteSets

CONSTANTS
  Workers,       \* gunicorn workers
  MaxFailures    \* bound: lost calls, and workers and scripts that die

ASSUME WorkerAssumption == IsFiniteSet(Workers) /\ MaxFailures \in Nat
=============================================================================
