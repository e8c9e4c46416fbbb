-------------------------- MODULE PolicyAgreement --------------------------
(***************************************************************************)
(* The policies and the agreement to them: editors publish, and may bump    *)
(* the global version (app/blueprints/policies/routes.py); members agree or *)
(* decline (app/blueprints/user/routes.py); every page looks for an         *)
(* agreement to the version in force (app/__init__.py).                     *)
(*                                                                         *)
(* A request sees the database as it was at its first SELECT, and the hook  *)
(* that guards every page reads the version before the handler runs.        *)
(***************************************************************************)
EXTENDS GridAccounts

CONSTANT MaxBumps   \* bound: versions published

ASSUME BumpAssumption == MaxBumps \in Nat

VARIABLES
  version,     \* config.global_policy_version: <<major, minor>>
  agreements,  \* rows of policy_agreements: user, version
  polreq,      \* [Workers -> the request being served]
  (* history *)
  bumps,       \* versions published
  behind,      \* users who have not agreed to what was in force since the last bump
  collided     \* two requests bumped the version at once

policyVars == <<version, agreements, polreq, bumps, behind, collided>>

Unset     == <<0, 0>>
PolFree   == [at |-> "free", users |-> {}, read |-> Unset, current |-> FALSE, restoring |-> FALSE]
PolPhases == {"free", "minor", "major", "restoring", "agreeing"}

PolicyInit ==
  /\ version = Unset /\ agreements = {} /\ bumps = 0
  /\ polreq  = [w \in Workers |-> PolFree]
  /\ behind  = {} /\ collided = FALSE

PolEnd(w) == polreq' = [polreq EXCEPT ![w] = PolFree]
Bumping   == {w \in Workers : polreq[w].at \in {"minor", "major"}}

\* create_policy, edit_policy: major starts a new series, minor continues it.
Bumped(v, how) == IF how = "major" THEN <<v[1] + 1, 0>> ELSE <<v[1], v[2] + 1>>

\* An editor saves a document and asks for a bump: the version is read.
BeginBump(w, how) ==
  /\ bumps + Cardinality(Bumping) < MaxBumps
  /\ polreq' = [polreq EXCEPT ![w] = [PolFree EXCEPT !.at = how, !.read = version]]
  /\ collided' = (collided \/ Bumping # {})
  /\ SameLevels /\ UNCHANGED <<version, agreements, bumps, behind, session>>

\* The document and the version are committed; agreements under way are to what was before.
CommitBump(w) ==
  /\ polreq[w].at \in {"minor", "major"}
  /\ version' = Bumped(polreq[w].read, polreq[w].at)
  /\ bumps' = bumps + 1
  /\ behind' = Users
  /\ polreq' = [v \in Workers |-> IF v = w THEN PolFree ELSE [polreq[v] EXCEPT !.current = FALSE]]
  /\ SameLevels /\ UNCHANGED <<agreements, collided, session>>

\* policy_agreement, agree: the version is read; a session of the decline tier is to be restored.
BeginAgree(w, u) ==
  /\ session[u] # "absent"
  /\ polreq' = [polreq EXCEPT ![w] = [at |-> IF session[u] = "declined" THEN "restoring" ELSE "agreeing",
                                      users |-> {u}, read |-> version, current |-> TRUE,
                                      restoring |-> session[u] = "declined"]]
  /\ SameLevels /\ UNCHANGED <<version, agreements, bumps, behind, collided, session>>

Restored(u) == IF u \in rbac THEN "staff" ELSE "member"

\* The level is restored by what the session said, not by what the grid says; without the
\* grid's "true" the agreement is not saved.
RestoreLevel(w, u) ==
  /\ polreq[w].at = "restoring"
  /\ \/ /\ Answered(u, Restored(u), "policies")
        /\ polreq' = [polreq EXCEPT ![w].at = "agreeing"]
     \/ Unanswered(u, Restored(u), "policies") /\ PolEnd(w)
  /\ UNCHANGED <<version, agreements, bumps, behind, collided, session>>

\* Mutant: the agreement names the version in force when it is saved.
SaveLatest(w, u) ==
  /\ polreq[w].at = "agreeing"
  /\ agreements' = agreements \cup {<<u, version>>}
  /\ behind'  = IF polreq[w].current THEN behind \ {u} ELSE behind
  /\ session' = IF polreq[w].restoring THEN [session EXCEPT ![u] = Restored(u)] ELSE session
  /\ PolEnd(w)
  /\ SameLevels /\ UNCHANGED <<version, bumps, collided>>

\* The agreement is saved, for the version that was read.
SaveAgreement(w, u) ==
  /\ polreq[w].at = "agreeing"
  /\ agreements' = agreements \cup {<<u, polreq[w].read>>}
  /\ behind'  = IF polreq[w].current THEN behind \ {u} ELSE behind
  /\ session' = IF polreq[w].restoring THEN [session EXCEPT ![u] = Restored(u)] ELSE session
  /\ PolEnd(w)
  /\ SameLevels /\ UNCHANGED <<version, bumps, collided>>

\* Declining locks the account; the browser is sent to the logout page.
Decline(w, u) ==
  /\ session[u] # "absent"
  /\ \/ /\ Answered(u, "declined", "policies")
        /\ session' = [session EXCEPT ![u] = "declined"]
     \/ Unanswered(u, "declined", "policies") /\ UNCHANGED session
  /\ UNCHANGED <<version, agreements, polreq, bumps, behind, collided>>

PolicyStart(w) ==
  /\ polreq[w].at = "free"
  /\ \/ \E how \in {"minor", "major"} : BeginBump(w, how)
     \/ \E u \in Users : BeginAgree(w, u) \/ Decline(w, u)
  /\ UNCHANGED rbac

PolicyContinue(w) ==
  /\ CommitBump(w) \/ \E u \in polreq[w].users : RestoreLevel(w, u) \/ SaveAgreement(w, u)
  /\ UNCHANGED rbac

PolicyFail(w) ==
  /\ polreq[w].at # "free"
  /\ PolEnd(w)
  /\ Died(polreq[w].users)
  /\ UNCHANGED <<session, rbac, version, agreements, bumps, behind, collided>>

\* require_policy_agreement lets the pages of the portal be seen.
MayBrowse(u) == session[u] \in LetIn /\ (version = Unset \/ <<u, version>> \in agreements)

\* The version, agreements, requests and the history keep to their types.
PolicyTypeOK ==
  /\ version \in Nat \X Nat
  /\ agreements \subseteq Users \X (Nat \X Nat)
  /\ polreq \in [Workers -> [at : PolPhases, users : SUBSET Users, read : Nat \X Nat,
                             current : BOOLEAN, restoring : BOOLEAN]]
  /\ bumps \in Nat /\ behind \subseteq Users /\ collided \in BOOLEAN

\* A bump makes everyone agree anew: who may browse the portal has agreed since the last bump,
\* in a request that began after it, unless two bumps were under way at once (the second then
\* gives the same version, and those who agreed to the first are never asked about it).
AgreedSinceBump ==
  \A u \in Users : MayBrowse(u) /\ ~collided /\ version # Unset => u \notin behind
=============================================================================
