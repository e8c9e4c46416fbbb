--------------------------- MODULE HandoutLedger ---------------------------
(***************************************************************************)
(* What the bot queue promises, without rows, polls or acknowledgements:   *)
(* a message is granted to the bots a number of times, and each server     *)
(* hands it out at most once for every grant.                              *)
(***************************************************************************)
EXTENDS Naturals

CONSTANTS Items, Servers

VARIABLES
  granted,    \* [Items -> Nat]
  given       \* [Items -> [Servers -> Nat]]

Init ==
  /\ granted = [i \in Items |-> 0]
  /\ given   = [i \in Items |-> [s \in Servers |-> 0]]

\* One more grant for every item of S, whoever asks for it.
Grant(S) ==
  /\ granted' = [i \in Items |-> IF i \in S THEN granted[i] + 1 ELSE granted[i]]
  /\ UNCHANGED given

\* Server s hands out the items of S, each of which it still owes a grant.
HandOut(s, S) ==
  /\ \A i \in S : given[i][s] < granted[i]
  /\ given' = [i \in Items |->
                 IF i \in S THEN [given[i] EXCEPT ![s] = @ + 1] ELSE given[i]]
  /\ UNCHANGED granted

Next ==
  \/ \E S \in SUBSET Items : Grant(S)
  \/ \E s \in Servers, S \in SUBSET Items : HandOut(s, S)

Spec == Init /\ [][Next]_<<granted, given>>
=============================================================================
