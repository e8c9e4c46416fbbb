------------------------------ MODULE MCPortal ------------------------------
(***************************************************************************)
(* A small instance of the portal: two users, one of them new, two workers, *)
(* two machines.                                                            *)
(***************************************************************************)
EXTENDS Portal, TLC

CONSTANTS ann, ben, box, lap

\* Both were seen on both machines, which are therefore alike.
MCSeenOn == {ann, ben} \X {box, lap}
MCSeen   == [f \in Files |-> IF f = 1 THEN {"x", "y"} ELSE IF f = 2 THEN {"x"} ELSE {"y"}]
MCLength == <<1, 2, 1, 2>>

Mix(some) == [p \in Served |-> IF p \in DOMAIN some THEN some[p] ELSE 0]

\* Each part by itself, and those that meet in an account two or three at a time.
MCMixes == {
  Mix([registration |-> 6]),
  Mix([bans |-> 2]),
  Mix([signin |-> 7]),
  Mix([policies |-> 5, signin |-> 1]),
  Mix([regions |-> 6]),
  Mix([tickets |-> 4]),
  Mix([ingest |-> 1]),
  Mix([migrations |-> 1]),
  Mix([registration |-> 2, bans |-> 1]),
  Mix([registration |-> 2, roles |-> 2]),
  Mix([registration |-> 3, signin |-> 1]),
  Mix([bans |-> 1, roles |-> 2]),
  Mix([bans |-> 1, signin |-> 1, policies |-> 2]),
  Mix([signin |-> 2, policies |-> 2, roles |-> 1])}

\* A member who declines, is banned, and agrees.
MCBannedMixes == {Mix([bans |-> 1, signin |-> 1, policies |-> 2])}

Symmetry == Permutations(Workers) \cup Permutations(Machines)
=============================================================================
