------------------------------ MODULE NoticeLog ------------------------------
(***************************************************************************)
(* What the log of the calendar job promises, without calendar, timer or   *)
(* runs: a notice is made of messages, one for each way it is to be sent.  *)
(* They and no others are queued, one by one, again only by an attempt     *)
(* after one that lapsed (it died, or its entry in the log failed), and    *)
(* the notice is logged once, when those that must be are queued.          *)
(***************************************************************************)
EXTENDS Naturals

CONSTANTS
  Items,    \* notices
  Ways,     \* how a message may be sent
  Messages, \* [Items -> SUBSET Ways]: the messages of a notice
  Must      \* [Items -> SUBSET Ways]: those that are queued before the notice is logged

VARIABLES
  queued,   \* [Items -> [Ways -> Nat]]
  logged,   \* SUBSET Items
  lapses    \* attempts that died or could not be logged

Init ==
  /\ queued = [i \in Items |-> [w \in Ways |-> 0]]
  /\ logged = {}
  /\ lapses = 0

\* Nothing is sent of a logged notice, and no message more often than attempts were made.
Queue(i, w) ==
  /\ i \notin logged
  /\ queued[i][w] <= lapses
  /\ queued' = [queued EXCEPT ![i][w] = @ + 1]
  /\ UNCHANGED <<logged, lapses>>

Enter(i) ==
  /\ i \notin logged
  /\ \A w \in Must[i] : queued[i][w] > 0
  /\ logged' = logged \cup {i}
  /\ UNCHANGED <<queued, lapses>>

Lapse ==
  /\ lapses' = lapses + 1
  /\ UNCHANGED <<queued, logged>>

Next ==
  \/ \E i \in Items : \E w \in Messages[i] : Queue(i, w)
  \/ \E i \in Items : Enter(i)
  \/ Lapse

Spec == Init /\ [][Next]_<<queued, logged, lapses>>
=============================================================================
