-------------------------- MODULE SuggestionReview --------------------------
(***************************************************************************)
(* Event suggestions: members suggest and withdraw, moderators approve and *)
(* reject (app/blueprints/events/routes.py).                               *)
(*                                                                         *)
(* A request is served by one web worker in the steps of its handler: it   *)
(* reads the row, and then writes it by id without looking again.  Each    *)
(* commit is a step, and so is the message queued for the submitter.  A    *)
(* worker may fail between two steps.                                      *)
(***************************************************************************)
EXTENDS Naturals, FiniteSets

CONSTANTS
  Suggestions,   \* ids of event_suggestions, inserted in order
  Users,         \* members
  Workers,       \* gunicorn workers
  Limit,         \* calendar_suggestion_rate_limit
  MaxFailures    \* bound: requests that fail between two steps

Nobody == "nobody"
None   == 0

ASSUME SuggestionAssumption ==
  /\ Suggestions \subseteq Nat \ {None}
  /\ Nobody \notin Users
  /\ IsFiniteSet(Suggestions) /\ IsFiniteSet(Workers)
  /\ Limit \in Nat \ {0}
  /\ MaxFailures \in Nat

VARIABLES
  status,      \* [Suggestions -> Statuses]: "absent" before INSERT
  submitter,   \* [Suggestions -> Users \cup {Nobody}]
  published,   \* [Suggestions -> [Workers -> Nat]]: rows of calendar_events with this
               \* source_suggestion_id, by the worker that inserted them
  req,         \* [Workers -> the request being served]
  failures,
  (* history *)
  decided,     \* suggestions whose submitter was sent a decision
  lost         \* suggestions of which a decision was lost with the worker that was to send it

vars == <<status, submitter, published, req, failures, decided, lost>>

Statuses == {"absent", "pending", "approved", "rejected", "withdrawn"}
Review   == {"withdrawing", "approving", "rejecting"}
Free     == [at |-> "free", user |-> Nobody, sug |-> None]
Requests == [at : {"free", "suggesting", "deciding"} \cup Review,
             user : Users \cup {Nobody}, sug : Suggestions \cup {None}]

Init ==
  /\ status    = [s \in Suggestions |-> "absent"]
  /\ submitter = [s \in Suggestions |-> Nobody]
  /\ published = [s \in Suggestions |-> [w \in Workers |-> 0]]
  /\ req       = [w \in Workers |-> Free]
  /\ failures  = 0
  /\ decided = {} /\ lost = {}

PendingOf(u)  == {s \in Suggestions : submitter[s] = u /\ status[s] = "pending"}
Suggesting(u) == {w \in Workers : req[w].at = "suggesting" /\ req[w].user = u}

\* Mutant: the limit is not looked at.
CountNothing(w, u) ==
  /\ req[w].at = "free"
  /\ req' = [req EXCEPT ![w] = [Free EXCEPT !.at = "suggesting", !.user = u]]
  /\ UNCHANGED <<status, submitter, published, failures, decided, lost>>

\* suggest: the pending suggestions of the member are counted.
CountPending(w, u) ==
  /\ req[w].at = "free"
  /\ Cardinality(PendingOf(u)) < Limit
  /\ req' = [req EXCEPT ![w] = [Free EXCEPT !.at = "suggesting", !.user = u]]
  /\ UNCHANGED <<status, submitter, published, failures, decided, lost>>

InsertSuggestion(w) ==
  /\ req[w].at = "suggesting"
  /\ \E s \in Suggestions :
       /\ status[s] = "absent"
       /\ \A r \in Suggestions : r < s => status[r] # "absent"
       /\ status'    = [status EXCEPT ![s] = "pending"]
       /\ submitter' = [submitter EXCEPT ![s] = req[w].user]
  /\ req' = [req EXCEPT ![w] = Free]
  /\ UNCHANGED <<published, failures, decided, lost>>

\* Mutant: a suggestion that was decided is reviewed again.
ReadAny(w, s, review) ==
  /\ req[w].at = "free"
  /\ status[s] # "absent"
  /\ req' = [req EXCEPT ![w] = [Free EXCEPT !.at = review, !.sug = s]]
  /\ UNCHANGED <<status, submitter, published, failures, decided, lost>>

\* withdraw_suggestion, approve_suggestion and reject_suggestion look for a pending row.
ReadPending(w, s, review) ==
  /\ req[w].at = "free"
  /\ status[s] = "pending"
  /\ req' = [req EXCEPT ![w] = [Free EXCEPT !.at = review, !.sug = s]]
  /\ UNCHANGED <<status, submitter, published, failures, decided, lost>>

\* The submitter's own UPDATE, with nothing after it.
Withdraw(w) ==
  /\ req[w].at = "withdrawing"
  /\ status' = [status EXCEPT ![req[w].sug] = "withdrawn"]
  /\ req' = [req EXCEPT ![w] = Free]
  /\ UNCHANGED <<submitter, published, failures, decided, lost>>

\* Mutant: the status is committed, the event is not.
ApproveOnly(w) ==
  /\ req[w].at = "approving"
  /\ status' = [status EXCEPT ![req[w].sug] = "approved"]
  /\ req' = [req EXCEPT ![w].at = "deciding"]
  /\ UNCHANGED <<submitter, published, failures, decided, lost>>

\* The event and the status in one transaction; the submitter is told afterwards.
Approve(w) ==
  /\ req[w].at = "approving"
  /\ published' = [published EXCEPT ![req[w].sug][w] = @ + 1]
  /\ status' = [status EXCEPT ![req[w].sug] = "approved"]
  /\ req' = [req EXCEPT ![w].at = "deciding"]
  /\ UNCHANGED <<submitter, failures, decided, lost>>

\* Mutant: the submitter is not told.
RejectSilently(w) ==
  /\ req[w].at = "rejecting"
  /\ status' = [status EXCEPT ![req[w].sug] = "rejected"]
  /\ req' = [req EXCEPT ![w] = Free]
  /\ UNCHANGED <<submitter, published, failures, decided, lost>>

Reject(w) ==
  /\ req[w].at = "rejecting"
  /\ status' = [status EXCEPT ![req[w].sug] = "rejected"]
  /\ req' = [req EXCEPT ![w].at = "deciding"]
  /\ UNCHANGED <<submitter, published, failures, decided, lost>>

\* Mutant: the request forgets which suggestion it decided.
ForgetSuggestion(w) ==
  /\ req[w].at = "deciding"
  /\ decided' = decided \cup {req[w].sug}
  /\ req' = [req EXCEPT ![w].sug = None]
  /\ UNCHANGED <<status, submitter, published, failures, lost>>

\* notify_submitter_decision: the IM is queued, the mail may fail unnoticed.
TellDecision(w) ==
  /\ req[w].at = "deciding"
  /\ decided' = decided \cup {req[w].sug}
  /\ req' = [req EXCEPT ![w] = Free]
  /\ UNCHANGED <<status, submitter, published, failures, lost>>

\* The worker, or its database connection, fails: what is not committed is undone.
Fail(w) ==
  /\ req[w].at # "free"
  /\ failures < MaxFailures
  /\ failures' = failures + 1
  /\ req' = [req EXCEPT ![w] = Free]
  /\ lost' = IF req[w].at = "deciding" THEN lost \cup {req[w].sug} ELSE lost
  /\ UNCHANGED <<status, submitter, published, decided>>

\* What remains of a request once it is begun.
Continue(w) ==
  InsertSuggestion(w) \/ Withdraw(w) \/ Approve(w) \/ Reject(w) \/ TellDecision(w)

Next ==
  \E w \in Workers :
    \/ Continue(w)
    \/ \E u \in Users : CountPending(w, u)
    \/ \E s \in Suggestions, review \in Review : ReadPending(w, s, review)
    \/ Fail(w)

Spec == Init /\ [][Next]_vars

\* Fairness: a worker goes on with a request it has begun.
FairSpec == Spec /\ \A w \in Workers : WF_vars(Continue(w))
-----------------------------------------------------------------------------
\* Type invariant; a review knows its suggestion, which has been inserted.
TypeOK ==
  /\ status \in [Suggestions -> Statuses]
  /\ submitter \in [Suggestions -> Users \cup {Nobody}]
  /\ published \in [Suggestions -> [Workers -> Nat]]
  /\ req \in [Workers -> Requests]
  /\ failures \in Nat
  /\ decided \subseteq Suggestions /\ lost \subseteq Suggestions
  /\ \A w \in Workers :
       req[w].at \in Review \cup {"deciding"} =>
         req[w].sug # None /\ status[req[w].sug] # "absent"

\* A suggestion is found pending in one step and approved in another: reviews that overlap
\* publish it twice, whatever the flash "already processed" says, but reviews by one web
\* worker never do, so there are at most as many events as workers.
PublishedOncePerWorker ==
  \A s \in Suggestions, w \in Workers : published[s][w] <= 1

\* An approved suggestion has its event, whatever other reviews of it were under way.
ApprovedIsPublished ==
  \A s \in Suggestions : status[s] = "approved" => \E w \in Workers : published[s][w] > 0

\* The limit of pending suggestions is checked before the insert, without a lock: it is
\* exceeded by no more than the requests that other workers have under way.
PendingWithinLimit ==
  \A u \in Users :
    Cardinality(PendingOf(u)) + Cardinality(Suggesting(u)) <= Limit + Cardinality(Workers) - 1

\* A decision reaches the submitter unless the worker that made it failed after the commit,
\* even when another review of the same suggestion follows at once; the failure of any other
\* request makes no difference.
DecisionIsTold ==
  \A s \in Suggestions :
    status[s] \in {"approved", "rejected"} ~> s \in decided \cup lost
=============================================================================
