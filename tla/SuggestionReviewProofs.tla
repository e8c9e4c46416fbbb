----------------------- MODULE SuggestionReviewProofs -----------------------
(***************************************************************************)
(* Theorems about suggestions and their review, for any members, workers   *)
(* and limits.                                                             *)
(***************************************************************************)
EXTENDS SuggestionReview, FiniteSetTheorems, TLAPS

\* A worker that has committed its review goes on to tell the submitter.
LEMMA Deciding ==
  ASSUME NEW w \in Workers, req \in [Workers -> Requests],
         req' = [req EXCEPT ![w].at = "deciding"]
  PROVE  /\ req' \in [Workers -> Requests]
         /\ req'[w].at = "deciding" /\ req'[w].sug = req[w].sug
         /\ \A v \in Workers \ {w} : req'[v] = req[v]
<1>1. req[w] \in Requests
  OBVIOUS
<1>2. req' = [req EXCEPT ![w] = [req[w] EXCEPT !.at = "deciding"]]
  OBVIOUS
<1>3. [req[w] EXCEPT !.at = "deciding"] \in Requests
  BY <1>1 DEF Requests
<1>4. req'[w] = [req[w] EXCEPT !.at = "deciding"]
  BY <1>2
<1>5. [req[w] EXCEPT !.at = "deciding"].at = "deciding" /\ [req[w] EXCEPT !.at = "deciding"].sug = req[w].sug
  BY <1>1 DEF Requests
<1> QED
  BY <1>2, <1>3, <1>4, <1>5

\* The columns and requests keep to their types, and a review always knows a suggestion
\* that has been inserted, for any number of workers and members.
THEOREM TypeCorrect == Spec => []TypeOK
<1>1. Init => TypeOK
  BY SuggestionAssumption DEF Init, TypeOK, Statuses, Requests, Review, Free
<1>2. TypeOK /\ [Next]_vars => TypeOK'
  <2> SUFFICES ASSUME TypeOK, [Next]_vars PROVE TypeOK'
    OBVIOUS
  <2> USE DEF TypeOK, Statuses, Requests, Review
  <2>1. ASSUME NEW w \in Workers, InsertSuggestion(w) PROVE TypeOK'
    <3>1. PICK s \in Suggestions :
            /\ status' = [status EXCEPT ![s] = "pending"]
            /\ submitter' = [submitter EXCEPT ![s] = req[w].user]
      BY <2>1 DEF InsertSuggestion
    <3>2. \A r \in Suggestions : status[r] # "absent" => status'[r] # "absent"
      BY <3>1
    <3>3. req' = [req EXCEPT ![w] = Free] /\ UNCHANGED <<published, failures, decided, lost>>
      BY <2>1 DEF InsertSuggestion
    <3> QED
      BY <3>1, <3>2, <3>3 DEF Free
  <2>2. ASSUME NEW w \in Workers, Withdraw(w) PROVE TypeOK'
    BY <2>2 DEF Withdraw, Free
  <2>3. ASSUME NEW w \in Workers, Approve(w) PROVE TypeOK'
    <3>1. /\ req' \in [Workers -> Requests]
          /\ req'[w].at = "deciding" /\ req'[w].sug = req[w].sug
          /\ \A v \in Workers \ {w} : req'[v] = req[v]
      <4> HIDE DEF Requests
      <4> QED
        BY <2>3, Deciding DEF Approve
    <3>2. req[w].sug \in Suggestions
      BY <2>3 DEF Approve
    <3> HIDE DEF Requests
    <3>3. /\ published' \in [Suggestions -> [Workers -> Nat]]
          /\ status' \in [Suggestions -> Statuses]
          /\ \A s \in Suggestions : status[s] # "absent" => status'[s] # "absent"
      BY <2>3, <3>2 DEF Approve
    <3> QED
      BY <2>3, <3>1, <3>2, <3>3 DEF Approve
  <2>4. ASSUME NEW w \in Workers, Reject(w) PROVE TypeOK'
    <3>1. /\ req' \in [Workers -> Requests]
          /\ req'[w].at = "deciding" /\ req'[w].sug = req[w].sug
          /\ \A v \in Workers \ {w} : req'[v] = req[v]
      <4> HIDE DEF Requests
      <4> QED
        BY <2>4, Deciding DEF Reject
    <3>2. req[w].sug \in Suggestions
      BY <2>4 DEF Reject
    <3> HIDE DEF Requests
    <3> QED
      BY <2>4, <3>1, <3>2 DEF Reject
  <2>5. ASSUME NEW w \in Workers, TellDecision(w) PROVE TypeOK'
    BY <2>5 DEF TellDecision, Free
  <2>6. ASSUME NEW w \in Workers, NEW u \in Users, CountPending(w, u) PROVE TypeOK'
    BY <2>6 DEF CountPending, Free
  <2>7. ASSUME NEW w \in Workers, NEW s \in Suggestions, NEW review \in Review,
               ReadPending(w, s, review)
        PROVE  TypeOK'
    BY <2>7, SuggestionAssumption DEF ReadPending, Free
  <2>8. ASSUME NEW w \in Workers, Fail(w) PROVE TypeOK'
    BY <2>8 DEF Fail, Free
  <2>9. CASE UNCHANGED vars
    BY <2>9 DEF vars
  <2> HIDE DEF TypeOK, Statuses, Requests, Review
  <2> QED
    BY <2>1, <2>2, <2>3, <2>4, <2>5, <2>6, <2>7, <2>8, <2>9 DEF Next, Continue
<1> QED
  BY <1>1, <1>2, PTL DEF Spec

\* An approved suggestion has its event in the calendar, whatever other reviews of it were
\* under way: the two writes are one transaction, and nothing takes an event away.
THEOREM ApprovalPublishes == Spec => []ApprovedIsPublished
<1>1. Init => ApprovedIsPublished
  BY DEF Init, ApprovedIsPublished
<1>2. TypeOK /\ ApprovedIsPublished /\ [Next]_vars => ApprovedIsPublished'
  <2> SUFFICES ASSUME TypeOK, ApprovedIsPublished, [Next]_vars,
                      NEW s \in Suggestions, status'[s] = "approved"
               PROVE  \E w \in Workers : published'[s][w] > 0
    BY DEF ApprovedIsPublished
  <2> USE DEF TypeOK
  <2>1. ASSUME UNCHANGED published, status[s] = "approved"
        PROVE  \E w \in Workers : published'[s][w] > 0
    BY <2>1 DEF ApprovedIsPublished
  <2>2. ASSUME NEW w \in Workers, Approve(w) PROVE \E v \in Workers : published'[s][v] > 0
    <3>1. CASE req[w].sug = s
      <4>1. published'[s][w] = published[s][w] + 1 /\ published[s][w] \in Nat
        BY <2>2, <3>1 DEF Approve
      <4> QED
        BY <4>1
    <3>2. CASE req[w].sug # s
      <4>1. status[s] = "approved" /\ published'[s] = published[s]
        BY <2>2, <3>2 DEF Approve
      <4> QED
        BY <4>1 DEF ApprovedIsPublished
    <3> QED
      BY <3>1, <3>2
  <2>3. ASSUME NEW w \in Workers, InsertSuggestion(w)
        PROVE  UNCHANGED published /\ status[s] = "approved"
    BY <2>3 DEF InsertSuggestion
  <2>4. ASSUME NEW w \in Workers, Withdraw(w) \/ Reject(w)
        PROVE  UNCHANGED published /\ status[s] = "approved"
    BY <2>4 DEF Withdraw, Reject, Review
  <2>5. ASSUME \/ \E w \in Workers : TellDecision(w) \/ Fail(w)
               \/ \E w \in Workers, u \in Users : CountPending(w, u)
               \/ \E w \in Workers, r \in Suggestions, review \in Review : ReadPending(w, r, review)
               \/ UNCHANGED vars
        PROVE  UNCHANGED published /\ status[s] = "approved"
    BY <2>5 DEF TellDecision, Fail, CountPending, ReadPending, vars
  <2> HIDE DEF TypeOK
  <2> QED
    BY <2>1, <2>2, <2>3, <2>4, <2>5 DEF Next, Continue
<1> QED
  BY <1>1, <1>2, TypeCorrect, PTL DEF Spec

\* Why a worker publishes no suggestion twice: as long as it is pending nobody has
\* published it, and a worker that has it under review found it pending.
Unpublished ==
  \A s \in Suggestions, w \in Workers :
    /\ published[s][w] <= 1
    /\ status[s] \in {"absent", "pending"} => published[s][w] = 0
    /\ req[w].at \in Review /\ req[w].sug = s => published[s][w] = 0

\* No worker publishes a suggestion twice, for any number of workers, members and
\* suggestions: one suggestion makes at most as many events as there are workers.
THEOREM PublishedOnce == Spec => []PublishedOncePerWorker
<1>1. Init => Unpublished
  BY DEF Init, Unpublished, Free, Review
<1>2. TypeOK /\ Unpublished /\ [Next]_vars => Unpublished'
  <2> SUFFICES ASSUME TypeOK, Unpublished, [Next]_vars,
                      NEW s \in Suggestions, NEW v \in Workers
               PROVE  /\ published'[s][v] <= 1
                      /\ status'[s] \in {"absent", "pending"} => published'[s][v] = 0
                      /\ req'[v].at \in Review /\ req'[v].sug = s => published'[s][v] = 0
    BY DEF Unpublished
  <2> DEFINE Goal == /\ published'[s][v] <= 1
                     /\ status'[s] \in {"absent", "pending"} => published'[s][v] = 0
                     /\ req'[v].at \in Review /\ req'[v].sug = s => published'[s][v] = 0
  <2> USE DEF TypeOK, Unpublished
  <2>1. ASSUME NEW w \in Workers, InsertSuggestion(w) PROVE Goal
    BY <2>1 DEF InsertSuggestion, Free, Review
  <2>2. ASSUME NEW w \in Workers, Withdraw(w) PROVE Goal
    BY <2>2 DEF Withdraw, Free, Review
  <2>3. ASSUME NEW w \in Workers, Approve(w) PROVE Goal
    <3>1. CASE req[w].sug = s /\ w = v
      <4>1. published[s][v] = 0
        BY <2>3, <3>1 DEF Approve, Review
      <4>2. published'[s][v] = 1 /\ status'[s] = "approved" /\ req'[v].at = "deciding"
        BY <2>3, <3>1, <4>1, Deciding DEF Approve
      <4> QED
        BY <4>2 DEF Review
    <3>2. CASE req[w].sug = s /\ w # v
      <4>1. published'[s][v] = published[s][v] /\ status'[s] = "approved" /\ req'[v] = req[v]
        BY <2>3, <3>2 DEF Approve
      <4> QED
        BY <4>1
    <3>3. CASE req[w].sug # s
      <4>1. published'[s] = published[s] /\ status'[s] = status[s]
        BY <2>3, <3>3 DEF Approve
      <4>2. req'[v] = req[v] \/ req'[v].at = "deciding"
        <5>1. req'[w].at = "deciding" /\ \A x \in Workers \ {w} : req'[x] = req[x]
          BY <2>3, Deciding DEF Approve
        <5> QED
          BY <5>1
      <4> QED
        BY <4>1, <4>2 DEF Review
    <3> QED
      BY <3>1, <3>2, <3>3
  <2>4. ASSUME NEW w \in Workers, Reject(w) PROVE Goal
    <3>1. req'[v] = req[v] \/ req'[v].at = "deciding"
      <4>1. req'[w].at = "deciding" /\ \A x \in Workers \ {w} : req'[x] = req[x]
        BY <2>4, Deciding DEF Reject
      <4> QED
        BY <4>1
    <3>2. UNCHANGED published /\ (status'[s] = status[s] \/ status'[s] = "rejected")
      BY <2>4 DEF Reject
    <3> QED
      BY <3>1, <3>2 DEF Review
  <2>5. ASSUME NEW w \in Workers, req' = [req EXCEPT ![w] = Free], UNCHANGED <<status, published>>
        PROVE  Goal
    <3>1. req'[v] = req[v] \/ req'[v] = Free
      BY <2>5
    <3> QED
      BY <2>5, <3>1 DEF Free, Review
  <2>6. ASSUME NEW w \in Workers, NEW u \in Users, CountPending(w, u) PROVE Goal
    BY <2>6 DEF CountPending, Free, Review
  <2>7. ASSUME NEW w \in Workers, NEW r \in Suggestions, NEW review \in Review,
               ReadPending(w, r, review)
        PROVE  Goal
    BY <2>7 DEF ReadPending, Free
  <2>8. ASSUME UNCHANGED vars PROVE Goal
    BY <2>8 DEF vars
  <2> HIDE DEF TypeOK, Unpublished, Goal
  <2>9. ASSUME NEW w \in Workers, TellDecision(w) PROVE Goal
    BY <2>9, <2>5 DEF TellDecision
  <2>10. ASSUME NEW w \in Workers, Fail(w) PROVE Goal
    BY <2>10, <2>5 DEF Fail
  <2>11. ASSUME NEW w \in Workers, Continue(w) PROVE Goal
    BY <2>11, <2>1, <2>2, <2>3, <2>4, <2>9 DEF Continue
  <2>12. ASSUME Next PROVE Goal
    <3>1. PICK w \in Workers :
            \/ Continue(w)
            \/ \E u \in Users : CountPending(w, u)
            \/ \E r \in Suggestions, review \in Review : ReadPending(w, r, review)
            \/ Fail(w)
      BY <2>12 DEF Next
    <3> QED
      BY <3>1, <2>6, <2>7, <2>10, <2>11
  <2>13. Goal
    BY <2>8, <2>12
  <2> QED
    BY <2>13 DEF Goal
<1>3. Unpublished => PublishedOncePerWorker
  BY DEF Unpublished, PublishedOncePerWorker
<1> QED
  BY <1>1, <1>2, <1>3, TypeCorrect, PTL DEF Spec

\* Who waits for a decision, and the workers that insert for a member, are finitely many.
LEMMA Counts ==
  ASSUME NEW P \in SUBSET Suggestions, NEW S \in SUBSET Workers
  PROVE  /\ IsFiniteSet(P) /\ Cardinality(P) \in Nat
         /\ IsFiniteSet(S) /\ Cardinality(S) \in Nat
         /\ Cardinality(S) <= Cardinality(Workers) /\ Cardinality(Workers) \in Nat
BY SuggestionAssumption, FS_Subset, FS_CardinalityType DEF SuggestionAssumption

\* Steps that let neither set grow keep a member within the limit.
LEMMA NoGrowth ==
  ASSUME NEW u \in Users,
         PendingOf(u)' \subseteq PendingOf(u), Suggesting(u)' \subseteq Suggesting(u),
         Cardinality(PendingOf(u)) + Cardinality(Suggesting(u)) <= Limit + Cardinality(Workers) - 1
  PROVE  Cardinality(PendingOf(u)') + Cardinality(Suggesting(u)')
           <= Limit + Cardinality(Workers) - 1
<1> DEFINE P == PendingOf(u)  Q == PendingOf(u)'  S == Suggesting(u)  T == Suggesting(u)'
<1>1. P \in SUBSET Suggestions /\ Q \in SUBSET Suggestions
      /\ S \in SUBSET Workers /\ T \in SUBSET Workers
  BY DEF PendingOf, Suggesting
<1>2. Q \subseteq P /\ T \subseteq S
  OBVIOUS
<1>3. Cardinality(P) + Cardinality(S) <= Limit + Cardinality(Workers) - 1
  OBVIOUS
<1> HIDE DEF P, Q, S, T
<1>4. /\ IsFiniteSet(P) /\ Cardinality(P) \in Nat /\ Cardinality(Q) \in Nat
      /\ IsFiniteSet(S) /\ Cardinality(S) \in Nat /\ Cardinality(T) \in Nat
      /\ Cardinality(Workers) \in Nat
  BY <1>1, Counts
<1>5. Cardinality(Q) <= Cardinality(P) /\ Cardinality(T) <= Cardinality(S)
  BY <1>2, <1>4, FS_Subset
<1>6. Cardinality(Q) + Cardinality(T) <= Limit + Cardinality(Workers) - 1
  BY <1>3, <1>4, <1>5, SuggestionAssumption DEF SuggestionAssumption
<1> QED
  BY <1>6 DEF Q, T

\* The limit of pending suggestions is exceeded by at most the requests of the other
\* workers, for any limit and any number of workers: the count is taken without a lock, but
\* each worker can add only one to what it counted.
THEOREM LimitHolds == Spec => []PendingWithinLimit
<1> DEFINE Bound == Limit + Cardinality(Workers) - 1
           Within(u) == Cardinality(PendingOf(u)') + Cardinality(Suggesting(u)') <= Bound
<1>1. Init => PendingWithinLimit
  <2> SUFFICES ASSUME Init, NEW u \in Users
               PROVE  Cardinality(PendingOf(u)) + Cardinality(Suggesting(u)) <= Bound
    BY DEF PendingWithinLimit
  <2>1. PendingOf(u) = {} /\ Suggesting(u) = {}
    BY DEF Init, PendingOf, Suggesting, Free
  <2>2. Workers # {} => Cardinality(Workers) > 0
    BY Counts, FS_EmptySet, SuggestionAssumption DEF SuggestionAssumption
  <2> QED
    BY <2>1, Counts, FS_EmptySet, SuggestionAssumption DEF SuggestionAssumption
<1>2. TypeOK /\ PendingWithinLimit /\ [Next]_vars => PendingWithinLimit'
  <2> SUFFICES ASSUME TypeOK, PendingWithinLimit, [Next]_vars, NEW u \in Users
               PROVE  Within(u)
    BY DEF PendingWithinLimit
  <2>1. Cardinality(PendingOf(u)) + Cardinality(Suggesting(u)) <= Bound
    BY DEF PendingWithinLimit
  <2>2. ASSUME PendingOf(u)' \subseteq PendingOf(u), Suggesting(u)' \subseteq Suggesting(u)
        PROVE  Within(u)
    BY <2>1, <2>2, NoGrowth
  <2>3. /\ PendingOf(u) \in SUBSET Suggestions /\ Suggesting(u) \in SUBSET Workers
        /\ PendingOf(u)' \in SUBSET Suggestions /\ Suggesting(u)' \in SUBSET Workers
    BY DEF PendingOf, Suggesting
  <2> USE DEF TypeOK
  <2>4. ASSUME NEW w \in Workers, InsertSuggestion(w) PROVE Within(u)
    <3>1. PICK s \in Suggestions :
            /\ status[s] = "absent"
            /\ status' = [status EXCEPT ![s] = "pending"]
            /\ submitter' = [submitter EXCEPT ![s] = req[w].user]
      BY <2>4 DEF InsertSuggestion
    <3>2. req[w].at = "suggesting" /\ req' = [req EXCEPT ![w] = Free]
      BY <2>4 DEF InsertSuggestion
    <3>3. CASE req[w].user = u
      <4>1. s \notin PendingOf(u) /\ w \in Suggesting(u)
        BY <3>1, <3>2, <3>3 DEF PendingOf, Suggesting
      <4>2. PendingOf(u)' = PendingOf(u) \cup {s}
        BY <3>1, <3>3 DEF PendingOf
      <4>3. Suggesting(u)' = Suggesting(u) \ {w}
        BY <3>2 DEF Suggesting, Free
      <4>4. Cardinality(PendingOf(u)') = Cardinality(PendingOf(u)) + 1
        BY <4>1, <4>2, <2>3, Counts, FS_AddElement
      <4>5. Cardinality(Suggesting(u)') = Cardinality(Suggesting(u)) - 1
        BY <4>1, <4>3, <2>3, Counts, FS_RemoveElement
      <4>6. Cardinality(PendingOf(u)) \in Nat /\ Cardinality(Suggesting(u)) \in Nat
        BY <2>3, Counts
      <4> QED
        BY <4>4, <4>5, <4>6, <2>1
    <3>4. CASE req[w].user # u
      <4>1. PendingOf(u)' \subseteq PendingOf(u)
        BY <3>1, <3>4 DEF PendingOf
      <4>2. Suggesting(u)' \subseteq Suggesting(u)
        BY <3>2 DEF Suggesting, Free
      <4> QED
        BY <4>1, <4>2, <2>2
    <3> QED
      BY <3>3, <3>4
  <2>5. ASSUME NEW w \in Workers, NEW m \in Users, CountPending(w, m) PROVE Within(u)
    <3>1. PendingOf(u)' = PendingOf(u)
      BY <2>5 DEF CountPending, PendingOf
    <3>2. CASE m = u
      <4>1. Cardinality(PendingOf(u)) < Limit
        BY <2>5, <3>2 DEF CountPending
      <4>2. /\ Cardinality(PendingOf(u)) \in Nat /\ Cardinality(Suggesting(u)') \in Nat
            /\ Cardinality(Suggesting(u)') <= Cardinality(Workers)
            /\ Cardinality(Workers) \in Nat
        BY <2>3, Counts
      <4> QED
        BY <3>1, <4>1, <4>2, SuggestionAssumption DEF SuggestionAssumption
    <3>3. CASE m # u
      <4>1. Suggesting(u)' \subseteq Suggesting(u)
        BY <2>5, <3>3 DEF CountPending, Suggesting, Free
      <4> QED
        BY <3>1, <4>1, <2>2
    <3> QED
      BY <3>2, <3>3
  <2>6. ASSUME NEW w \in Workers, Withdraw(w) PROVE Within(u)
    <3>1. PendingOf(u)' \subseteq PendingOf(u)
      BY <2>6 DEF Withdraw, PendingOf
    <3>2. Suggesting(u)' \subseteq Suggesting(u)
      BY <2>6 DEF Withdraw, Suggesting, Free
    <3> QED
      BY <3>1, <3>2, <2>2
  <2>7. ASSUME NEW w \in Workers, Approve(w) \/ Reject(w) PROVE Within(u)
    <3>1. PendingOf(u)' \subseteq PendingOf(u)
      BY <2>7 DEF Approve, Reject, PendingOf
    <3>2. req'[w].at = "deciding" /\ \A v \in Workers \ {w} : req'[v] = req[v]
      BY <2>7, Deciding DEF Approve, Reject
    <3>3. Suggesting(u)' \subseteq Suggesting(u)
      BY <3>2 DEF Suggesting
    <3> QED
      BY <3>1, <3>3, <2>2
  <2>8. ASSUME NEW w \in Workers, TellDecision(w) \/ Fail(w) PROVE Within(u)
    <3>1. PendingOf(u)' = PendingOf(u)
      BY <2>8 DEF TellDecision, Fail, PendingOf
    <3>2. Suggesting(u)' \subseteq Suggesting(u)
      BY <2>8 DEF TellDecision, Fail, Suggesting, Free
    <3> QED
      BY <3>1, <3>2, <2>2
  <2>9. ASSUME NEW w \in Workers, NEW r \in Suggestions, NEW review \in Review,
               ReadPending(w, r, review)
        PROVE  Within(u)
    <3>1. PendingOf(u)' = PendingOf(u)
      BY <2>9 DEF ReadPending, PendingOf
    <3>2. Suggesting(u)' \subseteq Suggesting(u)
      BY <2>9 DEF ReadPending, Suggesting, Free, Review
    <3> QED
      BY <3>1, <3>2, <2>2
  <2>10. ASSUME UNCHANGED vars PROVE Within(u)
    BY <2>10, <2>2 DEF vars, PendingOf, Suggesting
  <2> HIDE DEF TypeOK, Within, Bound
  <2>11. ASSUME NEW w \in Workers, Continue(w) PROVE Within(u)
    BY <2>11, <2>4, <2>6, <2>7, <2>8 DEF Continue
  <2> QED
    BY <2>5, <2>8, <2>9, <2>10, <2>11 DEF Next
<1> QED
  BY <1>1, <1>2, TypeCorrect, PTL DEF Spec
=============================================================================
