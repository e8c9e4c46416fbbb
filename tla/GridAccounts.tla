---------------------------- MODULE GridAccounts ----------------------------
(***************************************************************************)
(* What the account handling parts of the portal share: the user level that *)
(* the grid (Robust) keeps for every account and that the portal changes by *)
(* HTTP, the portal's sessions, and the rows of user_rbac.                  *)
(*                                                                         *)
(* The portal has no transaction that spans its database and the grid: a    *)
(* call may change the level although its answer is lost.                   *)
(***************************************************************************)
EXTENDS Gunicorn

CONSTANTS
  Users,         \* PrincipalIDs
  Newcomers      \* those who have no account yet

ASSUME AccountAssumption == Newcomers \subseteq Users /\ IsFiniteSet(Users)

VARIABLES
  level,      \* [Users -> Levels]: UserAccounts.userLevel
  session,    \* [Users -> Levels]: session["user_level"], "absent" when signed out
  rbac,       \* users with a row in user_rbac
  failures,
  (* history *)
  writer,     \* [Users -> Parts]: the part of the portal that last set the level
  uncertain   \* users a failed call or a dead request was about

accountVars == <<level, session, rbac, failures, writer, uncertain>>

\* The tiers of userLevel: 0, 1, 200 and 201 are let in, the others are negative.
LetIn  == {"member", "staff", "admin", "adminstaff"}
Levels == LetIn \cup {"absent", "unverified", "rejected", "declined", "banned"}
Parts  == {"grid", "registration", "bans", "roles", "policies"}

AccountInit ==
  /\ level     = [u \in Users |-> IF u \in Newcomers THEN "absent" ELSE "member"]
  /\ session   = [u \in Users |-> "absent"]
  /\ rbac      = {}
  /\ failures  = 0
  /\ writer    = [u \in Users |-> "grid"]
  /\ uncertain = {}

\* setaccount changed the level, and its answer says so.
Answered(u, l, part) ==
  /\ level'  = [level EXCEPT ![u] = l]
  /\ writer' = [writer EXCEPT ![u] = part]
  /\ UNCHANGED <<failures, uncertain>>

\* The call, its answer, or the worker that waits for it is lost.
Unanswered(u, l, part) ==
  /\ failures < MaxFailures
  /\ failures'  = failures + 1
  /\ uncertain' = uncertain \cup {u}
  /\ \/ /\ level'  = [level EXCEPT ![u] = l]
        /\ writer' = [writer EXCEPT ![u] = part]
     \/ UNCHANGED <<level, writer>>

SameLevels == UNCHANGED <<level, failures, writer, uncertain>>

\* set_user_level, by a caller that ignores what it returns; the grid knows no other accounts.
SetUserLevel(u, l, part) ==
  IF level[u] = "absent" THEN SameLevels
                         ELSE Answered(u, l, part) \/ Unanswered(u, l, part)

\* A request dies between two steps.
Died(us) ==
  /\ failures < MaxFailures
  /\ failures'  = failures + 1
  /\ uncertain' = uncertain \cup us
  /\ UNCHANGED <<level, writer>>

\* Accounts, sessions and the history keep to their types.
AccountTypeOK ==
  /\ level \in [Users -> Levels]
  /\ session \in [Users -> Levels]
  /\ rbac \subseteq Users
  /\ failures \in Nat
  /\ writer \in [Users -> Parts]
  /\ uncertain \subseteq Users
=============================================================================
