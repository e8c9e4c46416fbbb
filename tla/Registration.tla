---------------------------- MODULE Registration ----------------------------
(***************************************************************************)
(* Registration: an applicant gets a locked account, follows the link in a  *)
(* mail, and staff approve or reject (app/blueprints/register/routes.py,    *)
(* app/blueprints/admin/routes.py); a member who changes the mail address   *)
(* uses the same table (app/blueprints/user/routes.py).                     *)
(*                                                                         *)
(* The row in pending_registrations and the level in the grid are written   *)
(* one after the other, in an order that differs from handler to handler.   *)
(***************************************************************************)
EXTENDS GridAccounts

VARIABLES
  status,    \* [Users -> Statuses]: pending_registrations.status, "none" without a row
  approval,  \* users whose row says requires_approval
  regreq     \* [Workers -> the request being served]

registrationVars == <<status, approval, regreq>>

Statuses == {"none", "pending_email", "pending_email_change", "pending_approval",
             "approved", "rejected"}
RegFree  == [at |-> "free", users |-> {}]
RegPhases == {"free", "created", "locked", "queueing", "welcoming", "activating",
              "approving", "rejecting"}

RegistrationInit ==
  /\ status   = [u \in Users |-> "none"]
  /\ approval = {}
  /\ regreq   = [w \in Workers |-> RegFree]

RegGo(w, phase, u) == regreq' = [regreq EXCEPT ![w] = [at |-> phase, users |-> {u}]]
RegEnd(w) == regreq' = [regreq EXCEPT ![w] = RegFree]

\* verify_email holds the row's lock while it calls the grid: another UPDATE waits.
Unlocked(u) == \A v \in Workers : regreq[v].at = "activating" => u \notin regreq[v].users

\* UPDATE pending_registrations ... WHERE user_uuid = u
SetStatus(u, s) ==
  status' = IF status[u] = "none" THEN status ELSE [status EXCEPT ![u] = s]

\* createuser: the grid makes the account with level 0; its answer may be lost.
CreateAccount(w, u) ==
  /\ level[u] = "absent"
  /\ \/ Answered(u, "member", "registration") /\ RegGo(w, "created", u)
     \/ Unanswered(u, "member", "registration") /\ UNCHANGED regreq
  /\ UNCHANGED <<status, approval>>

\* register: whatever the grid answers, the application is recorded next.
LockAccount(w, u) ==
  /\ regreq[w].at = "created"
  /\ SetUserLevel(u, "unverified", "registration")
  /\ RegGo(w, "locked", u)
  /\ UNCHANGED <<status, approval>>

RecordApplication(w, u) ==
  /\ regreq[w].at = "locked"
  /\ IF status[u] = "none"
     THEN /\ status' = [status EXCEPT ![u] = "pending_email"]
          /\ \E needed \in BOOLEAN : approval' = IF needed THEN approval \cup {u} ELSE approval
     ELSE UNCHANGED <<status, approval>>
  /\ RegEnd(w)
  /\ SameLevels

\* verify_email: the link finds the row, which awaits it and says whether staff must approve.
FollowLink(w, u) ==
  /\ status[u] = "pending_email"
  /\ RegGo(w, IF u \in approval THEN "queueing" ELSE "welcoming", u)
  /\ SameLevels /\ UNCHANGED <<status, approval>>

AwaitApproval(w, u) ==
  /\ regreq[w].at = "queueing"
  /\ Unlocked(u)
  /\ SetStatus(u, "pending_approval")
  /\ RegEnd(w)
  /\ SameLevels /\ UNCHANGED approval

\* Without approval the status is written, but not committed ...
MarkActive(w, u) ==
  /\ regreq[w].at = "welcoming"
  /\ Unlocked(u)
  /\ RegGo(w, "activating", u)
  /\ SameLevels /\ UNCHANGED <<status, approval>>

\* ... until the audit entry that follows the call commits both.
Activate(w, u) ==
  /\ regreq[w].at = "activating"
  /\ SetUserLevel(u, "member", "registration")
  /\ SetStatus(u, "approved")
  /\ RegEnd(w)
  /\ UNCHANGED approval

\* approve_user looks at no status; it goes on only when the grid says "true".
ApproveLevel(w, u) ==
  /\ level[u] # "absent"
  /\ \/ Answered(u, "member", "registration") /\ RegGo(w, "approving", u)
     \/ Unanswered(u, "member", "registration") /\ UNCHANGED regreq
  /\ UNCHANGED <<status, approval>>

\* Mutant: only a registration that awaits approval is marked approved.
RecordAwaited(w, u) ==
  /\ regreq[w].at = "approving"
  /\ Unlocked(u)
  /\ status' = IF status[u] = "pending_approval" THEN [status EXCEPT ![u] = "approved"] ELSE status
  /\ RegEnd(w)
  /\ SameLevels /\ UNCHANGED approval

RecordApproval(w, u) ==
  /\ regreq[w].at = "approving"
  /\ Unlocked(u)
  /\ SetStatus(u, "approved")
  /\ RegEnd(w)
  /\ SameLevels /\ UNCHANGED approval

\* reject_user: the status is committed first, then the level set, whatever comes of it.
RejectStatus(w, u) ==
  /\ level[u] # "absent"
  /\ Unlocked(u)
  /\ SetStatus(u, "rejected")
  /\ RegGo(w, "rejecting", u)
  /\ SameLevels /\ UNCHANGED approval

RejectLevel(w, u) ==
  /\ regreq[w].at = "rejecting"
  /\ SetUserLevel(u, "rejected", "registration")
  /\ RegEnd(w)
  /\ UNCHANGED <<status, approval>>

\* request_email_change overwrites the row of whoever is signed in, whatever it said.
RequestEmailChange(w, u) ==
  /\ session[u] # "absent"
  /\ Unlocked(u)
  /\ status' = [status EXCEPT ![u] = "pending_email_change"]
  /\ SameLevels /\ UNCHANGED <<approval, regreq>>

\* verify_email_change: the grid has the new address, and the row goes.
ConfirmEmailChange(w, u) ==
  /\ status[u] = "pending_email_change"
  /\ status' = [status EXCEPT ![u] = "none"]
  /\ approval' = approval \ {u}
  /\ SameLevels /\ UNCHANGED regreq

RegistrationStart(w) ==
  /\ regreq[w].at = "free"
  /\ \E u \in Users :
       \/ CreateAccount(w, u)
       \/ FollowLink(w, u)
       \/ ApproveLevel(w, u)
       \/ RejectStatus(w, u)
       \/ RequestEmailChange(w, u)
       \/ ConfirmEmailChange(w, u)
  /\ UNCHANGED <<session, rbac>>

RegistrationContinue(w) ==
  /\ \E u \in regreq[w].users :
       \/ LockAccount(w, u)
       \/ RecordApplication(w, u)
       \/ AwaitApproval(w, u)
       \/ MarkActive(w, u)
       \/ Activate(w, u)
       \/ RecordApproval(w, u)
       \/ RejectLevel(w, u)
  /\ UNCHANGED <<session, rbac>>

\* The worker dies; what is not committed is undone, what the grid did is not.
RegistrationFail(w) ==
  /\ regreq[w].at # "free"
  /\ \E u \in regreq[w].users :
       IF regreq[w].at = "activating" THEN Unanswered(u, "member", "registration")
                                      ELSE Died({u})
  /\ RegEnd(w)
  /\ UNCHANGED <<status, approval, session, rbac>>

\* Registrations and requests keep to their types.
RegistrationTypeOK ==
  /\ status \in [Users -> Statuses]
  /\ approval \subseteq Users
  /\ regreq \in [Workers -> [at : RegPhases, users : SUBSET Users]]

\* Approving writes the level and then the status, rejecting the status and then the level:
\* whichever of them overlap, and whatever the applicant does with the links meanwhile, who ends up
\* rejected is not let in, unless a call was lost, a request died, or another part set the level since.
RejectedStaysOut ==
  \A u \in Users :
    status[u] = "rejected" /\ writer[u] = "registration" /\ u \notin uncertain
      => level[u] \notin LetIn \/ \E w \in Workers : u \in regreq[w].users
=============================================================================
