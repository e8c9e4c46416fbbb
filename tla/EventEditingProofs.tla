------------------------- MODULE EventEditingProofs -------------------------
(***************************************************************************)
(* Theorems about the requests on calendar events, for any events,         *)
(* occurrences, members and workers.                                       *)
(***************************************************************************)
EXTENDS EventEditing, TLAPS

\* What becomes of a request: one worker's changes, the others' do not.
LEMMA OneRequest ==
  ASSUME NEW w \in Workers, req \in [Workers -> Requests], NEW r \in Requests,
         req' = [req EXCEPT ![w] = r]
  PROVE  /\ req' \in [Workers -> Requests]
         /\ req'[w] = r
         /\ \A v \in Workers \ {w} : req'[v] = req[v]
OBVIOUS

\* A free worker's request is well typed.
LEMMA FreeType == Free \in Requests /\ Free.at = "free"
BY DEF Free, Requests, Present, What

\* A commit of a cancellation leaves the request with the same event and what was cancelled.
LEMMA ListingType ==
  ASSUME NEW r \in Requests
  PROVE  /\ [r EXCEPT !.at = "listing"] \in Requests
         /\ [r EXCEPT !.at = "listing"].at = "listing"
         /\ [r EXCEPT !.at = "listing"].event = r.event
BY DEF Requests, Telling

\* So does the reading of the followers, and each message.
LEMMA TellingType ==
  ASSUME NEW r \in Requests, NEW L \in SUBSET Audience
  PROVE  /\ [r EXCEPT !.at = "telling", !.left = L] \in Requests
         /\ [r EXCEPT !.at = "telling", !.left = L].at = "telling"
         /\ [r EXCEPT !.at = "telling", !.left = L].event = r.event
         /\ [r EXCEPT !.left = L] \in Requests
         /\ [r EXCEPT !.left = L].at = r.at
         /\ [r EXCEPT !.left = L].event = r.event
BY DEF Requests, Telling

\* The requests that the readers begin.
LEMMA CancellingType ==
  ASSUME NEW e \in Events, NEW r, r = [Free EXCEPT !.at = "cancelling", !.event = e]
  PROVE  r \in Requests /\ r.at = "cancelling" /\ r.event = e /\ r.what = Series
BY DEF Free, Requests, Writing, Present, What

\* What Edit and AskCancel make of a free worker.
LEMMA EditBegins ==
  ASSUME TypeOK, NEW w \in Workers, NEW e \in Events, NEW publish \in BOOLEAN,
         NEW rule \in BOOLEAN, Edit(w, e, publish, rule)
  PROVE  \E r \in Requests :
           /\ r.at = "saving" /\ r.event = e /\ r.publish = publish
           /\ ~publish => r.new = status[e]
           /\ req' = [req EXCEPT ![w] = r]
<1>1. status[e] \in Present
  BY DEF Edit, Begin
<1>2. (IF publish THEN "published" ELSE status[e]) \in Present
  BY <1>1 DEF Present
<1>3. PICK new \in Present : new = IF publish THEN "published" ELSE status[e]
  BY <1>2
<1> DEFINE r == [Free EXCEPT !.at = "saving", !.publish = publish, !.flag = rule,
                             !.event = e, !.new = new]
<1>4. r \in Requests /\ r.at = "saving" /\ r.event = e /\ r.publish = publish /\ r.new = new
  BY DEF Free, Requests, Writing, What
<1>5. req' = [req EXCEPT ![w] = r]
  BY <1>3 DEF Edit, Begin
<1> HIDE DEF r
<1> QED
  BY <1>3, <1>4, <1>5

\* Of a cancellation, which of the two kinds it is.
LEMMA AskBegins ==
  ASSUME TypeOK, NEW w \in Workers, NEW e \in Events, NEW what \in What, AskCancel(w, e, what)
  PROVE  \E r \in Requests :
           /\ r.event = e /\ req' = [req EXCEPT ![w] = r]
           /\ \/ r.at = "cancelling" /\ r.what = Series
              \/ /\ r.at = "dropping" /\ r.what \in Occurrences
                 /\ r.list = dropped[e] \cup {r.what}
<1>1. CASE what # Series /\ recurring[e]
  <2>1. what \in Occurrences /\ dropped[e] \cup {what} \in SUBSET Occurrences
    BY <1>1 DEF What, TypeOK
  <2>2. PICK L \in SUBSET Occurrences : L = dropped[e] \cup {what}
    BY <2>1
  <2> DEFINE r == [Free EXCEPT !.at = "dropping", !.event = e, !.what = what, !.list = L]
  <2>3. r \in Requests /\ r.at = "dropping" /\ r.event = e /\ r.what = what /\ r.list = L
    BY <2>1 DEF Free, Requests, Writing, Present, What
  <2>4. req' = [req EXCEPT ![w] = r]
    BY <1>1, <2>2 DEF AskCancel, Begin
  <2> HIDE DEF r
  <2> QED
    BY <2>1, <2>2, <2>3, <2>4
<1>2. CASE ~(what # Series /\ recurring[e])
  <2>1. PICK r : r = [Free EXCEPT !.at = "cancelling", !.event = e]
    OBVIOUS
  <2>2. r \in Requests /\ r.at = "cancelling" /\ r.event = e /\ r.what = Series
    BY <2>1, CancellingType
  <2>3. req' = [req EXCEPT ![w] = r]
    BY <1>2, <2>1 DEF AskCancel, Begin
  <2> QED
    BY <2>2, <2>3
<1> QED
  BY <1>1, <1>2

\* Likewise for a member who follows.
LEMMA FollowBegins ==
  ASSUME NEW w \in Workers, NEW u \in Users, NEW e \in Events, NEW inworld \in BOOLEAN,
         ReadPublished(w, u, e, inworld)
  PROVE  \E r \in Requests :
           /\ r.at = "following" /\ r.event = e /\ r.user \in Users
           /\ req' = [req EXCEPT ![w] = r]
<1> DEFINE r == [Free EXCEPT !.at = "following", !.event = e, !.user = u, !.flag = inworld]
<1>1. r \in Requests /\ r.at = "following" /\ r.event = e /\ r.user \in Users
  BY DEF Free, Requests, Present, What
<1>2. req' = [req EXCEPT ![w] = r]
  BY DEF ReadPublished, Begin
<1> HIDE DEF r
<1> QED
  BY <1>1, <1>2

\* The fields a request is read for.
LEMMA Fields ==
  ASSUME NEW r \in Requests
  PROVE  /\ r.new \in Present /\ r.flag \in BOOLEAN /\ r.publish \in BOOLEAN
         /\ r.list \in SUBSET Occurrences /\ r.what \in What /\ r.left \in SUBSET Audience
         /\ r.user \in Users \cup {Nobody}
BY DEF Requests

\* An UPDATE keeps its column well typed.
LEMMA WriteType ==
  ASSUME NEW T, NEW column \in [Events -> T], NEW e \in Events, NEW value \in T
  PROVE  Write(column, e, value) \in [Events -> T]
BY DEF Write

\* What a request does to its worker, in the words TypeOK needs.
Holds(w, r) ==
  /\ r \in Requests /\ req' = [req EXCEPT ![w] = r]
  /\ r.at # "free" => r.event \in Events
  /\ r.at = "following" => r.user \in Users

\* The request has written, and keeps its event while it lasts.
GoesOn(w, r) ==
  /\ r.at \notin Writing
  /\ r.at # "free" => req[w].at # "free" /\ r.event = req[w].event

\* A worker that holds a well-typed request leaves all of them well typed.
LEMMA RequestsType ==
  ASSUME TypeOK, NEW w \in Workers, NEW r, Holds(w, r)
  PROVE  /\ req' \in [Workers -> Requests]
         /\ \A v \in Workers : /\ req'[v].at # "free" => req'[v].event \in Events
                               /\ req'[v].at = "following" => req'[v].user \in Users
<1>1. req' \in [Workers -> Requests] /\ req'[w] = r /\ \A v \in Workers \ {w} : req'[v] = req[v]
  BY OneRequest DEF Holds, TypeOK
<1>2. \A v \in Workers : /\ req[v].at # "free" => req[v].event \in Events
                         /\ req[v].at = "following" => req[v].user \in Users
  BY DEF TypeOK
<1>3. (r.at # "free" => r.event \in Events) /\ (r.at = "following" => r.user \in Users)
  BY DEF Holds
<1>4. ASSUME NEW v \in Workers
      PROVE  /\ req'[v].at # "free" => req'[v].event \in Events
             /\ req'[v].at = "following" => req'[v].user \in Users
  <2>1. CASE v = w
    BY <2>1, <1>1, <1>3
  <2>2. CASE v # w
    <3>1. req'[v] = req[v]
      BY <2>2, <1>1
    <3>2. /\ req[v].at # "free" => req[v].event \in Events
          /\ req[v].at = "following" => req[v].user \in Users
      BY <1>2
    <3> QED
      BY <3>1, <3>2
  <2> QED
    BY <2>1, <2>2
<1> QED
  BY <1>1, <1>4

\* Every step of a request that is under way leaves its worker with a well-typed request.
LEMMA ActionHolds ==
  ASSUME TypeOK, NEW w \in Workers,
         \/ Save(w) \/ DropOccurrence(w) \/ CancelSeries(w) \/ ListFollowers(w) \/ TellOne(w)
         \/ Follow(w) \/ Fail(w)
  PROVE  \E r : Holds(w, r) /\ GoesOn(w, r)
<1>1. req[w] \in Requests /\ (req[w].at # "free" => req[w].event \in Events)
  BY DEF TypeOK
<1>2. Followers(req[w].event) \cup {Grid} \in SUBSET Audience
  BY DEF Followers, Audience
<1>3. ASSUME Save(w) \/ Follow(w) \/ Fail(w) PROVE Holds(w, Free) /\ GoesOn(w, Free)
  BY <1>3, FreeType DEF Save, Follow, Fail, Holds, GoesOn, Writing
<1>4. ASSUME DropOccurrence(w) \/ CancelSeries(w)
      PROVE  /\ Holds(w, [req[w] EXCEPT !.at = "listing"])
             /\ GoesOn(w, [req[w] EXCEPT !.at = "listing"])
  <2>1. req[w].at # "free"
    BY <1>4 DEF DropOccurrence, CancelSeries
  <2>2. req' = [req EXCEPT ![w] = [req[w] EXCEPT !.at = "listing"]]
    BY <1>4 DEF DropOccurrence, CancelSeries, Committed
  <2> QED
    BY <1>1, <2>1, <2>2, ListingType DEF Holds, GoesOn, Writing
<1>5. ASSUME ListFollowers(w)
      PROVE  \E r : Holds(w, r) /\ GoesOn(w, r)
  <2>1. req[w].at # "free"
    BY <1>5 DEF ListFollowers
  <2>2. PICK L \in SUBSET Audience : L = Followers(req[w].event) \cup {Grid}
    BY <1>2
  <2>3. req' = [req EXCEPT ![w] = [req[w] EXCEPT !.at = "telling", !.left = L]]
    BY <1>5, <2>2 DEF ListFollowers
  <2>4. /\ Holds(w, [req[w] EXCEPT !.at = "telling", !.left = L])
        /\ GoesOn(w, [req[w] EXCEPT !.at = "telling", !.left = L])
    BY <1>1, <2>1, <2>3, TellingType DEF Holds, GoesOn, Writing
  <2> QED
    BY <2>4
<1>6. ASSUME TellOne(w) PROVE \E r : Holds(w, r) /\ GoesOn(w, r)
  <2>1. PICK a \in req[w].left :
          req' = [req EXCEPT ![w] = IF a = Grid THEN Free
                                    ELSE [req[w] EXCEPT !.left = req[w].left \ {a}]]
    BY <1>6 DEF TellOne
  <2>2. PICK L \in SUBSET Audience : L = req[w].left \ {a}
    BY <1>1, Fields
  <2>3. CASE a = Grid
    <3>1. req' = [req EXCEPT ![w] = Free]
      BY <2>1, <2>3
    <3>2. Holds(w, Free) /\ GoesOn(w, Free)
      BY <3>1, FreeType DEF Holds, GoesOn, Writing
    <3> QED
      BY <3>2
  <2>4. CASE a # Grid
    <3>1. req[w].at = "telling"
      BY <1>6 DEF TellOne
    <3>2. req' = [req EXCEPT ![w] = [req[w] EXCEPT !.left = L]]
      BY <2>1, <2>2, <2>4
    <3>3. Holds(w, [req[w] EXCEPT !.left = L]) /\ GoesOn(w, [req[w] EXCEPT !.left = L])
      BY <1>1, <3>1, <3>2, TellingType DEF Holds, GoesOn, Writing
    <3> QED
      BY <3>3
  <2> QED
    BY <2>3, <2>4
<1> QED
  BY <1>3, <1>4, <1>5, <1>6

\* Every column, request and history keeps to its type, and a request under way knows its
\* event, for any events, occurrences, members and workers.
THEOREM TypeCorrect == Spec => []TypeOK
<1> USE DEF rows, bounds, history
<1>1. Init => TypeOK
  BY EventAssumption, FreeType DEF Init, TypeOK, Statuses, Present, Audience, What
<1>2. TypeOK /\ [Next]_vars => TypeOK'
  <2> SUFFICES ASSUME TypeOK, [Next]_vars PROVE TypeOK'
    OBVIOUS
  <2> DEFINE Typed == /\ req' \in [Workers -> Requests]
                      /\ \A v \in Workers :
                           /\ req'[v].at # "free" => req'[v].event \in Events
                           /\ req'[v].at = "following" => req'[v].user \in Users
  <2>1. ASSUME NEW w \in Workers, NEW r, Holds(w, r) PROVE Typed
    BY <2>1, RequestsType
  <2>2. ASSUME NEW w \in Workers,
               \/ Save(w) \/ DropOccurrence(w) \/ CancelSeries(w) \/ ListFollowers(w)
               \/ TellOne(w) \/ Follow(w) \/ Fail(w)
        PROVE  Typed
    BY <2>1, <2>2, ActionHolds
  <2>3. ASSUME NEW w \in Workers, req[w].at # "free"
        PROVE  /\ req[w] \in Requests /\ req[w].event \in Events
               /\ req[w].new \in Present /\ req[w].flag \in BOOLEAN
               /\ req[w].list \in SUBSET Occurrences /\ req[w].what \in What
               /\ req[w].left \in SUBSET Audience /\ req[w].user \in Users \cup {Nobody}
    BY <2>3, Fields DEF TypeOK
  <2>4. ASSUME NEW w \in Workers, NEW e \in Events, NEW new \in {"draft", "published"},
               NEW rule \in BOOLEAN, Create(w, e, new, rule)
        PROVE  TypeOK'
    BY <2>4 DEF Create, TypeOK, Statuses, Present
  <2>5. ASSUME NEW w \in Workers, NEW e \in Events, NEW r \in Requests, r.event = e,
               r.at = "following" => r.user \in Users,
               req' = [req EXCEPT ![w] = r], requests' = requests + 1,
               UNCHANGED <<rows, follows, failures, history>>, overlapped' \subseteq Events
        PROVE  TypeOK'
    <3>1. Typed
      BY <2>1, <2>5 DEF Holds
    <3> QED
      BY <3>1, <2>5 DEF TypeOK
  <2>6. ASSUME NEW w \in Workers, NEW e \in Events, NEW publish \in BOOLEAN, NEW rule \in BOOLEAN,
               Edit(w, e, publish, rule)
        PROVE  TypeOK'
    <3>1. PICK r \in Requests : /\ r.event = e /\ r.at # "following"
                                /\ req' = [req EXCEPT ![w] = r]
      BY <2>6, EditBegins
    <3>2. /\ requests' = requests + 1 /\ UNCHANGED <<rows, follows, failures, history>>
          /\ overlapped' \subseteq Events
      BY <2>6 DEF Edit, Begin, NoteOverlap, TypeOK
    <3> QED
      BY <3>1, <3>2, <2>5
  <2>7. ASSUME NEW w \in Workers, NEW e \in Events, NEW what \in What, AskCancel(w, e, what)
        PROVE  TypeOK'
    <3>1. PICK r \in Requests : /\ r.event = e /\ r.at # "following"
                                /\ req' = [req EXCEPT ![w] = r]
      BY <2>7, AskBegins
    <3>2. /\ requests' = requests + 1 /\ UNCHANGED <<rows, follows, failures, history>>
          /\ overlapped' \subseteq Events
      BY <2>7 DEF AskCancel, Begin, NoteOverlap, TypeOK
    <3> QED
      BY <3>1, <3>2, <2>5
  <2>8. ASSUME NEW w \in Workers, NEW u \in Users, NEW e \in Events, NEW inworld \in BOOLEAN,
               ReadPublished(w, u, e, inworld)
        PROVE  TypeOK'
    <3>1. PICK r \in Requests : /\ r.event = e /\ r.user \in Users
                                /\ req' = [req EXCEPT ![w] = r]
      BY <2>8, FollowBegins
    <3>2. /\ requests' = requests + 1 /\ UNCHANGED <<rows, follows, failures, history>>
          /\ overlapped' \subseteq Events
      BY <2>8 DEF ReadPublished, Begin, TypeOK
    <3> QED
      BY <3>1, <3>2, <2>5
  <2>9. ASSUME NEW w \in Workers, Save(w) PROVE TypeOK'
    <3>1. Typed
      BY <2>2, <2>9
    <3>2. req[w].event \in Events /\ req[w].new \in Statuses /\ req[w].flag \in BOOLEAN
      BY <2>3, <2>9 DEF Save, Statuses, Present
    <3>3. status' \in [Events -> Statuses]
      BY <2>9, <3>2, WriteType DEF Save, TypeOK
    <3>4. recurring' \in [Events -> BOOLEAN]
      BY <2>9, <3>2, WriteType DEF Save, TypeOK
    <3>5. standing' \subseteq Events \X What
      BY <2>9 DEF Save, TypeOK
    <3> QED
      BY <3>1, <3>3, <3>4, <3>5, <2>9 DEF Save, TypeOK
  <2>10. ASSUME NEW w \in Workers, DropOccurrence(w) \/ CancelSeries(w) PROVE TypeOK'
    <3>1. Typed
      BY <2>2, <2>10
    <3>2. /\ req[w].event \in Events /\ req[w].what \in What
          /\ req[w].list \in SUBSET Occurrences
      BY <2>3, <2>10 DEF DropOccurrence, CancelSeries
    <3>3. status' \in [Events -> Statuses]
      <4>1. status \in [Events -> Statuses] /\ "cancelled" \in Statuses
        BY DEF TypeOK, Statuses
      <4>2. status' = status \/ status' = Write(status, req[w].event, "cancelled")
        BY <2>10 DEF DropOccurrence, CancelSeries
      <4> QED
        BY <4>1, <4>2, <3>2 DEF Write
    <3>4. dropped' \in [Events -> SUBSET Occurrences]
      <4>1. dropped \in [Events -> SUBSET Occurrences]
        BY DEF TypeOK
      <4>2. dropped' = dropped \/ dropped' = Write(dropped, req[w].event, req[w].list)
        BY <2>10 DEF DropOccurrence, CancelSeries
      <4> QED
        BY <4>1, <4>2, <3>2 DEF Write
    <3>5. standing' \subseteq Events \X What
      BY <2>10, <3>2 DEF DropOccurrence, CancelSeries, Committed, TypeOK
    <3>6. owed' \subseteq Audience \X Events \X What
      <4>1. owed' = owed \cup {<<a, req[w].event, req[w].what>> :
                                 a \in Followers(req[w].event) \cup {Grid}}
        BY <2>10 DEF DropOccurrence, CancelSeries, Committed
      <4>2. Followers(req[w].event) \cup {Grid} \subseteq Audience
        BY DEF Followers, Audience
      <4> QED
        BY <4>1, <4>2, <3>2 DEF TypeOK
    <3> QED
      BY <3>1, <3>3, <3>4, <3>5, <3>6, <2>10 DEF DropOccurrence, CancelSeries, TypeOK
  <2>11. ASSUME NEW w \in Workers, ListFollowers(w) PROVE TypeOK'
    BY <2>2, <2>11 DEF ListFollowers, TypeOK
  <2>12. ASSUME NEW w \in Workers, TellOne(w) PROVE TypeOK'
    <3>1. Typed
      BY <2>2, <2>12
    <3>2. req[w].event \in Events /\ req[w].what \in What /\ req[w].left \in SUBSET Audience
      BY <2>3, <2>12 DEF TellOne
    <3>3. told' \subseteq Audience \X Events \X What
      BY <2>12, <3>2 DEF TellOne, TypeOK
    <3> QED
      BY <3>1, <3>3, <2>12 DEF TellOne, TypeOK
  <2>13. ASSUME NEW w \in Workers, Follow(w) PROVE TypeOK'
    <3>1. Typed
      BY <2>2, <2>13
    <3>2. owed' \subseteq Audience \X Events \X What
      BY <2>13 DEF Follow, TypeOK
    <3>3. follows' \subseteq Users \X Events
      BY <2>13, <2>3 DEF Follow, TypeOK
    <3> QED
      BY <3>1, <3>2, <3>3, <2>13 DEF Follow, TypeOK
  <2>14. ASSUME NEW w \in Workers, Fail(w) PROVE TypeOK'
    <3>1. Typed
      BY <2>2, <2>14
    <3>2. failures' \in Nat /\ owed' \subseteq Audience \X Events \X What
      BY <2>14 DEF Fail, TypeOK
    <3> QED
      BY <3>1, <3>2, <2>14 DEF Fail, TypeOK
  <2>15. ASSUME NEW w \in Workers, NEW e \in Events, Delete(w, e) PROVE TypeOK'
    BY <2>15 DEF Delete, TypeOK, Statuses
  <2>16. ASSUME UNCHANGED vars PROVE TypeOK'
    BY <2>16 DEF vars, TypeOK
  <2> HIDE DEF rows, bounds, history, Typed
  <2>17. ASSUME NEW w \in Workers, Continue(w) PROVE TypeOK'
    BY <2>17, <2>9, <2>10, <2>11, <2>12, <2>13 DEF Continue
  <2>18. ASSUME NEW w \in Workers, NEW e \in Events,
                \/ \E new \in {"draft", "published"}, rule \in BOOLEAN : Create(w, e, new, rule)
                \/ \E publish, rule \in BOOLEAN : Edit(w, e, publish, rule)
                \/ \E what \in What : AskCancel(w, e, what)
                \/ Delete(w, e)
                \/ \E u \in Users, inworld \in BOOLEAN : ReadPublished(w, u, e, inworld)
         PROVE  TypeOK'
    BY <2>18, <2>4, <2>6, <2>7, <2>8, <2>15
  <2> QED
    BY <2>14, <2>16, <2>17, <2>18 DEF Next
<1> QED
  BY <1>1, <1>2, PTL DEF Spec

(***************************************************************************)
(* Why a cancellation stands where requests do not overlap: a request that *)
(* is alone still writes what it read, because what it read is still so.   *)
(***************************************************************************)
WritesTo(w, e) == req[w].at \in Writing /\ req[w].event = e

\* A request under way is about a row that was inserted, and knows what it cancels.
InHand(w) ==
  /\ req[w].at # "free" => status[req[w].event] # "absent"
  /\ req[w].at = "dropping" => req[w].what \in Occurrences /\ req[w].what \in req[w].list
  /\ req[w].at = "cancelling" => req[w].what = Series

\* What the request w is to write, if it is a save or the loss of an occurrence, agrees with
\* the row as it is.
UpToDate(w, e) ==
  /\ req[w].at = "saving" /\ ~req[w].publish => req[w].new = status[e]
  /\ req[w].at = "dropping" => dropped[e] \subseteq req[w].list

Stands(e) ==
  /\ <<e, Series>> \in standing => status[e] = "cancelled"
  /\ \A o \in Occurrences : <<e, o>> \in standing => o \in dropped[e]

Undisturbed(e) ==
  /\ \A v, w \in Workers : WritesTo(v, e) /\ WritesTo(w, e) => v = w
  /\ status[e] # "deleted" => Stands(e) /\ \A w \in Workers : WritesTo(w, e) => UpToDate(w, e)

Recorded(e) == status[e] = "absent" => \A what \in What : <<e, what>> \notin standing

IInv ==
  /\ \A w \in Workers : InHand(w)
  /\ \A e \in Events : Recorded(e)
  /\ \A e \in Events \ overlapped : Undisturbed(e)

\* Steps that leave the rows and the standing cancellations alone and end a write, or do
\* not begin one.
LEMMA QuietStep ==
  ASSUME TypeOK, IInv, NEW w \in Workers, NEW r, Holds(w, r), r.at \notin Writing,
         r.at # "free" => status[r.event] # "absent",
         UNCHANGED <<status, dropped, standing, overlapped>>
  PROVE  IInv'
<1>1. req'[w] = r /\ \A v \in Workers \ {w} : req'[v] = req[v]
  BY OneRequest DEF Holds, TypeOK
<1>2. ASSUME NEW v \in Workers PROVE InHand(v)'
  <2>1. CASE v = w
    BY <2>1, <1>1 DEF InHand, Writing
  <2>2. CASE v # w
    <3>1. req'[v] = req[v] /\ InHand(v)
      BY <2>2, <1>1 DEF IInv
    <3> QED
      BY <3>1 DEF InHand
  <2> QED
    BY <2>1, <2>2
<1>3. ASSUME NEW e \in Events, NEW v \in Workers, WritesTo(v, e)'
      PROVE  req'[v] = req[v] /\ WritesTo(v, e)
  BY <1>1, <1>3 DEF WritesTo
<1>4. ASSUME NEW e \in Events \ overlapped' PROVE Undisturbed(e)'
  <2>1. Undisturbed(e)
    BY <1>4 DEF IInv
  <2>2. \A u, v \in Workers : WritesTo(u, e)' /\ WritesTo(v, e)' => u = v
    BY <2>1, <1>3 DEF Undisturbed
  <2>3. ASSUME NEW v \in Workers, WritesTo(v, e)', status'[e] # "deleted" PROVE UpToDate(v, e)'
    BY <2>1, <2>3, <1>3 DEF Undisturbed, UpToDate
  <2>4. status'[e] # "deleted" => Stands(e)'
    BY <2>1 DEF Undisturbed, Stands
  <2> QED
    BY <2>2, <2>3, <2>4 DEF Undisturbed
<1>5. \A e \in Events : Recorded(e)'
  BY DEF IInv, Recorded
<1> QED
  BY <1>2, <1>4, <1>5 DEF IInv

\* Steps that begin a write of what was just read.
LEMMA ReadStep ==
  ASSUME TypeOK, IInv, NEW w \in Workers, NEW e \in Events, NEW r \in Requests,
         req[w].at = "free", req' = [req EXCEPT ![w] = r], r.event = e,
         status[e] \in Present, NoteOverlap(e), UNCHANGED <<status, dropped, standing>>,
         \/ r.at = "saving" /\ (~r.publish => r.new = status[e])
         \/ r.at = "cancelling" /\ r.what = Series
         \/ r.at = "dropping" /\ r.what \in Occurrences /\ r.list = dropped[e] \cup {r.what}
  PROVE  IInv'
<1>1. req'[w] = r /\ \A v \in Workers \ {w} : req'[v] = req[v]
  BY OneRequest DEF TypeOK
<1>2. ASSUME NEW v \in Workers PROVE InHand(v)'
  <2>1. CASE v = w
    BY <2>1, <1>1 DEF InHand, Present
  <2>2. CASE v # w
    <3>1. req'[v] = req[v] /\ InHand(v)
      BY <2>2, <1>1 DEF IInv
    <3> QED
      BY <3>1 DEF InHand
  <2> QED
    BY <2>1, <2>2
<1>3. overlapped \subseteq overlapped'
  BY DEF NoteOverlap
<1>4. ASSUME e \notin overlapped', NEW v \in Workers PROVE ~WritesTo(v, e)
  BY <1>4 DEF NoteOverlap, WritesTo
<1>5. ASSUME NEW f \in Events \ overlapped' PROVE Undisturbed(f)'
  <2>1. Undisturbed(f)
    BY <1>3, <1>5 DEF IInv
  <2>2. status'[f] # "deleted" => Stands(f)'
    BY <2>1 DEF Undisturbed, Stands
  <2>3. CASE f = e
    <3>1. \A v \in Workers : WritesTo(v, e)' => v = w
      BY <2>3, <1>1, <1>4, <1>5 DEF WritesTo
    <3>2. UpToDate(w, e)'
      BY <1>1 DEF UpToDate
    <3> QED
      BY <2>2, <2>3, <3>1, <3>2 DEF Undisturbed
  <2>4. CASE f # e
    <3>1. ASSUME NEW v \in Workers, WritesTo(v, f)' PROVE req'[v] = req[v] /\ WritesTo(v, f)
      BY <2>4, <3>1, <1>1 DEF WritesTo
    <3>2. \A u, v \in Workers : WritesTo(u, f)' /\ WritesTo(v, f)' => u = v
      BY <2>1, <3>1 DEF Undisturbed
    <3>3. ASSUME NEW v \in Workers, WritesTo(v, f)', status'[f] # "deleted" PROVE UpToDate(v, f)'
      BY <2>1, <3>1, <3>3 DEF Undisturbed, UpToDate
    <3> QED
      BY <2>2, <3>2, <3>3 DEF Undisturbed
  <2> QED
    BY <2>3, <2>4
<1>6. \A f \in Events : Recorded(f)'
  BY DEF IInv, Recorded
<1> QED
  BY <1>2, <1>5, <1>6 DEF IInv

\* Steps that write the row of their event; what they write has to be shown for each.
LEMMA WriteStep ==
  ASSUME TypeOK, IInv, NEW w \in Workers, NEW e \in Events, e = req[w].event,
         req[w].at \in Writing, NEW r, Holds(w, r), GoesOn(w, r), UNCHANGED overlapped,
         \A f \in Events \ {e} : status'[f] = status[f] /\ dropped'[f] = dropped[f],
         \A f \in Events \ {e}, what \in What : <<f, what>> \in standing' => <<f, what>> \in standing,
         status'[e] # "absent",
         Undisturbed(e) /\ status'[e] # "deleted" => Stands(e)'
  PROVE  IInv'
<1>1. req'[w] = r /\ \A v \in Workers \ {w} : req'[v] = req[v]
  BY OneRequest DEF Holds, TypeOK
<1>2. ASSUME NEW v \in Workers PROVE InHand(v)'
  <2>1. CASE v = w
    BY <2>1, <1>1 DEF InHand, GoesOn, Writing
  <2>2. CASE v # w
    <3>1. req'[v] = req[v] /\ InHand(v)
      BY <2>2, <1>1 DEF IInv
    <3>2. req[v].at # "free" => status'[req[v].event] # "absent"
      BY <3>1 DEF InHand, TypeOK
    <3> QED
      BY <3>1, <3>2 DEF InHand
  <2> QED
    BY <2>1, <2>2
<1>3. ASSUME NEW f \in Events, NEW v \in Workers, WritesTo(v, f)'
      PROVE  v # w /\ req'[v] = req[v] /\ WritesTo(v, f)
  BY <1>1, <1>3 DEF WritesTo, GoesOn
<1>4. ASSUME NEW f \in Events \ overlapped' PROVE Undisturbed(f)'
  <2>1. Undisturbed(f)
    BY <1>4 DEF IInv
  <2>2. CASE f = e
    <3>1. WritesTo(w, e)
      BY DEF WritesTo
    <3>2. \A v \in Workers : ~WritesTo(v, e)'
      BY <2>1, <2>2, <3>1, <1>3 DEF Undisturbed
    <3>3. status'[e] # "deleted" => Stands(e)'
      BY <2>1, <2>2
    <3> QED
      BY <2>2, <3>2, <3>3 DEF Undisturbed
  <2>3. CASE f # e
    <3>1. \A u, v \in Workers : WritesTo(u, f)' /\ WritesTo(v, f)' => u = v
      BY <2>1, <1>3 DEF Undisturbed
    <3>2. ASSUME NEW v \in Workers, WritesTo(v, f)', status'[f] # "deleted" PROVE UpToDate(v, f)'
      BY <2>1, <2>3, <3>2, <1>3 DEF Undisturbed, UpToDate
    <3>3. status'[f] # "deleted" => Stands(f)'
      BY <2>1, <2>3 DEF Undisturbed, Stands, What
    <3> QED
      BY <3>1, <3>2, <3>3 DEF Undisturbed
  <2> QED
    BY <2>2, <2>3
<1>5. ASSUME NEW f \in Events PROVE Recorded(f)'
  <2>1. CASE f = e
    BY <2>1 DEF Recorded
  <2>2. CASE f # e
    BY <2>2 DEF IInv, Recorded
  <2> QED
    BY <2>1, <2>2
<1> QED
  BY <1>2, <1>4, <1>5 DEF IInv

\* Organisers' requests about an event that did not overlap do not undo one another: what
\* was cancelled stays cancelled through later edits and cancellations, for any number of
\* workers, occurrences and requests.
THEOREM CancellationsStand == Spec => []CancellationStands
<1>1. Init => IInv
  BY FreeType DEF Init, IInv, InHand, Recorded, Undisturbed, WritesTo, Stands, Writing
<1>2. TypeOK /\ IInv /\ [Next]_vars => IInv'
  <2> SUFFICES ASSUME TypeOK, IInv, [Next]_vars PROVE IInv'
    OBVIOUS
  <2> USE DEF rows, history
  <2>1. ASSUME NEW w \in Workers, req[w].at # "free"
        PROVE  /\ req[w].event \in Events /\ status[req[w].event] \in Present \cup {"deleted"}
               /\ InHand(w) /\ req[w] \in Requests
    BY <2>1 DEF TypeOK, IInv, InHand, Statuses, Present
  <2>2. ASSUME NEW w \in Workers, ListFollowers(w) \/ TellOne(w) \/ Follow(w) \/ Fail(w)
        PROVE  IInv'
    <3>1. PICK r : Holds(w, r) /\ GoesOn(w, r)
      BY <2>2, ActionHolds
    <3>2. UNCHANGED <<status, dropped, standing, overlapped>>
      BY <2>2 DEF ListFollowers, TellOne, Follow, Fail
    <3>3. r.at \notin Writing /\ (r.at # "free" => status[r.event] # "absent")
      BY <3>1, <2>1 DEF GoesOn, InHand
    <3> QED
      BY <3>1, <3>2, <3>3, QuietStep
  <2>3. ASSUME NEW w \in Workers, NEW u \in Users, NEW e \in Events, NEW inworld \in BOOLEAN,
               ReadPublished(w, u, e, inworld)
        PROVE  IInv'
    <3>1. PICK r \in Requests : /\ r.at = "following" /\ r.event = e /\ r.user \in Users
                                /\ req' = [req EXCEPT ![w] = r]
      BY <2>3, FollowBegins
    <3>2. UNCHANGED <<status, dropped, standing, overlapped>> /\ status[e] = "published"
      BY <2>3 DEF ReadPublished, Begin
    <3>3. Holds(w, r)
      BY <3>1 DEF Holds
    <3>4. r.at \notin Writing /\ status[r.event] # "absent"
      BY <3>1, <3>2 DEF Writing
    <3> QED
      BY <3>2, <3>3, <3>4, QuietStep
  <2>4. ASSUME NEW w \in Workers, NEW e \in Events, NEW publish \in BOOLEAN, NEW rule \in BOOLEAN,
               Edit(w, e, publish, rule)
        PROVE  IInv'
    <3>1. PICK r \in Requests : /\ r.at = "saving" /\ r.event = e /\ r.publish = publish
                                /\ ~publish => r.new = status[e]
                                /\ req' = [req EXCEPT ![w] = r]
      BY <2>4, EditBegins
    <3>2. /\ req[w].at = "free" /\ status[e] \in Present /\ NoteOverlap(e)
          /\ UNCHANGED <<status, dropped, standing>>
      BY <2>4 DEF Edit, Begin
    <3>3. ~r.publish => r.new = status[e]
      BY <3>1
    <3> QED
      BY <3>1, <3>2, <3>3, ReadStep
  <2>5. ASSUME NEW w \in Workers, NEW e \in Events, NEW what \in What, AskCancel(w, e, what)
        PROVE  IInv'
    <3>1. PICK r \in Requests :
            /\ r.event = e /\ req' = [req EXCEPT ![w] = r]
            /\ \/ r.at = "cancelling" /\ r.what = Series
               \/ /\ r.at = "dropping" /\ r.what \in Occurrences
                  /\ r.list = dropped[e] \cup {r.what}
      BY <2>5, AskBegins
    <3>2. /\ req[w].at = "free" /\ status[e] \in Present /\ NoteOverlap(e)
          /\ UNCHANGED <<status, dropped, standing>>
      BY <2>5 DEF AskCancel, Begin
    <3> QED
      BY <3>1, <3>2, ReadStep
  <2>6. ASSUME NEW w \in Workers, NEW e \in Events, NEW new \in {"draft", "published"},
               NEW rule \in BOOLEAN, Create(w, e, new, rule)
        PROVE  IInv'
    <3>1. /\ status[e] = "absent" /\ status' = [status EXCEPT ![e] = new]
          /\ UNCHANGED <<req, dropped, standing, overlapped>>
      BY <2>6 DEF Create
    <3>2. \A f \in Events : f # e => status'[f] = status[f]
      BY <3>1 DEF TypeOK
    <3>3. status'[e] # "absent"
      BY <3>1 DEF TypeOK
    <3>4. \A v \in Workers : InHand(v)' /\ ~WritesTo(v, e)
      BY <3>1, <3>2, <3>3 DEF IInv, InHand, WritesTo, Writing, TypeOK
    <3>5. \A f \in Events : Recorded(f)'
      BY <3>1, <3>2, <3>3 DEF IInv, Recorded
    <3>6. ASSUME NEW f \in Events \ overlapped' PROVE Undisturbed(f)'
      <4>1. CASE f = e
        <5>1. \A v \in Workers : ~WritesTo(v, e)'
          BY <3>1, <3>4 DEF WritesTo
        <5>2. Stands(e)'
          BY <3>1 DEF IInv, Recorded, Stands, What
        <5> QED
          BY <4>1, <5>1, <5>2 DEF Undisturbed
      <4>2. CASE f # e
        <5>1. status'[f] = status[f] /\ Undisturbed(f)
          BY <4>2, <3>1, <3>2, <3>6 DEF IInv
        <5> QED
          BY <5>1, <3>1 DEF Undisturbed, Stands, WritesTo, UpToDate
      <4> QED
        BY <4>1, <4>2
    <3> QED
      BY <3>4, <3>5, <3>6 DEF IInv
  <2>7. ASSUME NEW w \in Workers, NEW e \in Events, Delete(w, e) PROVE IInv'
    <3>1. /\ status' = [status EXCEPT ![e] = "deleted"]
          /\ UNCHANGED <<req, dropped, standing, overlapped>>
      BY <2>7 DEF Delete
    <3>2. status'[e] = "deleted" /\ \A f \in Events : f # e => status'[f] = status[f]
      BY <3>1 DEF TypeOK
    <3>3. \A v \in Workers : InHand(v)'
      BY <3>1, <3>2 DEF IInv, InHand, TypeOK
    <3>4. \A f \in Events : Recorded(f)'
      BY <3>1, <3>2 DEF IInv, Recorded
    <3>5. ASSUME NEW f \in Events \ overlapped' PROVE Undisturbed(f)'
      <4>1. Undisturbed(f)
        BY <3>1, <3>5 DEF IInv
      <4>2. f = e \/ status'[f] = status[f]
        BY <3>2
      <4> QED
        BY <4>1, <4>2, <3>1, <3>2 DEF Undisturbed, Stands, WritesTo, UpToDate
    <3> QED
      BY <3>3, <3>4, <3>5 DEF IInv
  <2>8. ASSUME NEW w \in Workers, Save(w) \/ DropOccurrence(w) \/ CancelSeries(w) PROVE IInv'
    <3>1. PICK r : Holds(w, r) /\ GoesOn(w, r)
      BY <2>8, ActionHolds
    <3>2. PICK e : e = req[w].event
      OBVIOUS
    <3>3. req[w].at \in Writing /\ req[w].at # "free"
      BY <2>8 DEF Save, DropOccurrence, CancelSeries, Writing
    <3>4. /\ e \in Events /\ status[e] \in Present \cup {"deleted"} /\ InHand(w)
          /\ req[w].new \in Present
      BY <3>2, <3>3, <2>1, Fields
    <3>5. \A f \in Events \ {e} : status'[f] = status[f] /\ dropped'[f] = dropped[f]
      BY <2>8, <3>2, <3>4 DEF Save, DropOccurrence, CancelSeries, Write, TypeOK
    <3>6. \A f \in Events \ {e}, what \in What : <<f, what>> \in standing' => <<f, what>> \in standing
      BY <2>8, <3>2 DEF Save, DropOccurrence, CancelSeries, Committed
    <3>7. UNCHANGED overlapped
      BY <2>8 DEF Save, DropOccurrence, CancelSeries
    <3>8. status'[e] # "absent" /\ (status'[e] # "deleted" => status[e] \in Present)
      BY <2>8, <3>2, <3>4 DEF Save, DropOccurrence, CancelSeries, Write, TypeOK, Present
    <3>9. ASSUME Undisturbed(e), status'[e] # "deleted" PROVE Stands(e)'
      <4>1. /\ Stands(e) /\ UpToDate(w, e) /\ status[e] \in Present
        BY <3>2, <3>3, <3>8, <3>9 DEF Undisturbed, WritesTo, Present
      <4>2. CASE Save(w)
        <5>1. /\ status'[e] = req[w].new /\ dropped' = dropped
              /\ standing' = IF req[w].publish THEN standing \ {<<e, Series>>} ELSE standing
          BY <4>1, <4>2, <3>2, <3>4 DEF Save, Write, TypeOK
        <5>2. ~req[w].publish => req[w].new = status[e]
          BY <4>1, <4>2 DEF UpToDate, Save
        <5> QED
          BY <4>1, <5>1, <5>2 DEF Stands
      <4>3. CASE DropOccurrence(w)
        <5>1. /\ status' = status /\ dropped'[e] = req[w].list
              /\ standing' = standing \cup {<<e, req[w].what>>}
          BY <4>1, <4>3, <3>2, <3>4 DEF DropOccurrence, Committed, Write, TypeOK
        <5>2. /\ dropped[e] \subseteq req[w].list /\ req[w].what \in Occurrences
              /\ req[w].what \in req[w].list
          BY <4>1, <4>3, <3>4 DEF UpToDate, InHand, DropOccurrence
        <5>3. req[w].what # Series
          BY <5>2, EventAssumption DEF EventAssumption
        <5> QED
          BY <4>1, <5>1, <5>2, <5>3 DEF Stands
      <4>4. CASE CancelSeries(w)
        <5>1. /\ status'[e] = "cancelled" /\ dropped' = dropped
              /\ standing' = standing \cup {<<e, req[w].what>>} /\ req[w].what = Series
          BY <4>1, <4>4, <3>2, <3>4 DEF CancelSeries, Committed, Write, TypeOK, InHand
        <5> QED
          BY <4>1, <5>1, EventAssumption DEF Stands, EventAssumption
      <4> QED
        BY <2>8, <4>2, <4>3, <4>4
    <3> QED
      BY <3>1, <3>2, <3>3, <3>4, <3>5, <3>6, <3>7, <3>8, <3>9, WriteStep
  <2>9. ASSUME UNCHANGED vars PROVE IInv'
    BY <2>9 DEF vars, IInv, InHand, Recorded, Undisturbed, Stands, WritesTo, UpToDate
  <2> HIDE DEF rows, history
  <2>10. ASSUME NEW w \in Workers, Continue(w) PROVE IInv'
    BY <2>10, <2>2, <2>8 DEF Continue
  <2>11. ASSUME NEW w \in Workers, NEW e \in Events,
                \/ \E new \in {"draft", "published"}, rule \in BOOLEAN : Create(w, e, new, rule)
                \/ \E publish, rule \in BOOLEAN : Edit(w, e, publish, rule)
                \/ \E what \in What : AskCancel(w, e, what)
                \/ Delete(w, e)
                \/ \E u \in Users, inworld \in BOOLEAN : ReadPublished(w, u, e, inworld)
         PROVE  IInv'
    BY <2>11, <2>3, <2>4, <2>5, <2>6, <2>7
  <2> QED
    BY <2>2, <2>9, <2>10, <2>11 DEF Next
<1>3. IInv => CancellationStands
  BY DEF IInv, Undisturbed, Stands, CancellationStands
<1> QED
  BY <1>1, <1>2, <1>3, TypeCorrect, PTL DEF Spec
=============================================================================
