---------------------------- MODULE EventEditing ----------------------------
(***************************************************************************)
(* Calendar events as organisers and followers see them: create, edit,     *)
(* cancel (an occurrence or all of it), delete and follow                  *)
(* (app/blueprints/events/routes.py).                                      *)
(*                                                                         *)
(* A request is served by one web worker in the steps of its handler: it   *)
(* reads the row, and then writes it by id without looking again.  Each    *)
(* commit is a step, and so is each message queued after it.  A worker may *)
(* fail between two steps.                                                 *)
(***************************************************************************)
EXTENDS Naturals

CONSTANTS
  Events,        \* ids of calendar_events
  Occurrences,   \* the occurrences of a recurring event
  Users,         \* members who may follow
  Workers,       \* gunicorn workers
  MaxRequests,   \* bound: requests about events that exist
  MaxFailures    \* bound: requests that fail between two steps

Nobody  == "nobody"
NoEvent == "no event"
Grid    == "grid"      \* to whom the region and group announcements speak
Series  == "series"    \* what is cancelled when it is not one occurrence

ASSUME EventAssumption ==
  /\ Nobody \notin Users /\ Grid \notin Users
  /\ NoEvent \notin Events
  /\ Series \notin Occurrences
  /\ MaxRequests \in Nat /\ MaxFailures \in Nat

VARIABLES
  status,      \* [Events -> Statuses]: "absent" before INSERT, "deleted" after DELETE
  recurring,   \* [Events -> BOOLEAN]: recurrence_rule is set
  dropped,     \* [Events -> SUBSET Occurrences]: cancelled_occurrences
  follows,     \* SUBSET (Users \X Events): event_follows with notify_inworld
  req,         \* [Workers -> the request being served]
  requests, failures,   \* bounds
  (* history *)
  standing,    \* SUBSET (Events \X What): cancellations not taken back by "publish"
  overlapped,  \* events that two organisers' requests had in hand at once
  owed,        \* SUBSET (Audience \X Events \X What): to be told when it was committed
  told         \* SUBSET (Audience \X Events \X What)

rows    == <<status, recurring, dropped>>
bounds  == <<requests, failures>>
history == <<standing, owed, told>>
vars    == <<rows, follows, req, bounds, overlapped, history>>

Statuses == {"absent", "draft", "published", "cancelled", "deleted"}
Present  == {"draft", "published", "cancelled"}
What     == Occurrences \cup {Series}
Audience == Users \cup {Grid}
Writing  == {"saving", "dropping", "cancelling"}
Telling  == {"listing", "telling"}

Free     == [at |-> "free", event |-> NoEvent, user |-> Nobody, new |-> "draft",
             publish |-> FALSE, flag |-> FALSE, what |-> Series, list |-> {}, left |-> {}]
Requests == [at : {"free", "following"} \cup Writing \cup Telling, event : Events \cup {NoEvent},
             user : Users \cup {Nobody}, new : Present, publish : BOOLEAN, flag : BOOLEAN,
             what : What, list : SUBSET Occurrences, left : SUBSET Audience]

Init ==
  /\ status    = [e \in Events |-> "absent"]
  /\ recurring = [e \in Events |-> FALSE]
  /\ dropped   = [e \in Events |-> {}]
  /\ follows   = {}
  /\ req       = [w \in Workers |-> Free]
  /\ requests = 0 /\ failures = 0
  /\ standing = {} /\ overlapped = {} /\ owed = {} /\ told = {}

\* A free worker reads the event e and begins the request r about it.
Begin(w, e, r) ==
  /\ req[w].at = "free"
  /\ status[e] \in Present
  /\ requests < MaxRequests
  /\ requests' = requests + 1
  /\ req' = [req EXCEPT ![w] = r]
  /\ UNCHANGED <<rows, follows, failures, history>>

\* History: another organiser's request about e has not written yet.
NoteOverlap(e) ==
  overlapped' = IF \E w \in Workers : req[w].at \in Writing /\ req[w].event = e
                THEN overlapped \cup {e} ELSE overlapped

\* UPDATE by id: a row that was deleted meanwhile stays deleted.
Write(column, e, value) ==
  IF status[e] \in Present THEN [column EXCEPT ![e] = value] ELSE column
-----------------------------------------------------------------------------
\* manage_event without an id: one INSERT.
Create(w, e, new, rule) ==
  /\ req[w].at = "free"
  /\ status[e] = "absent"
  /\ status' = [status EXCEPT ![e] = new]
  /\ recurring' = [recurring EXCEPT ![e] = rule]
  /\ UNCHANGED <<dropped, follows, req, bounds, overlapped, history>>

\* manage_event with an id: the status to write is the one that was read, unless the button
\* was "publish"; whether the event recurs is taken from the form.
Edit(w, e, publish, rule) ==
  /\ Begin(w, e, [Free EXCEPT !.at = "saving", !.publish = publish, !.flag = rule,
                              !.event = e, !.new = IF publish THEN "published" ELSE status[e]])
  /\ NoteOverlap(e)

Save(w) ==
  LET e == req[w].event IN
  /\ req[w].at = "saving"
  /\ status' = Write(status, e, req[w].new)
  /\ recurring' = Write(recurring, e, req[w].flag)
  /\ standing' = IF req[w].publish THEN standing \ {<<e, Series>>} ELSE standing
  /\ req' = [req EXCEPT ![w] = Free]
  /\ UNCHANGED <<dropped, follows, bounds, overlapped, owed, told>>

\* Mutant: the list is begun anew.
AskCancelAnew(w, e, what) ==
  /\ Begin(w, e, IF what # Series /\ recurring[e]
                 THEN [Free EXCEPT !.at = "dropping", !.event = e, !.what = what, !.list = {what}]
                 ELSE [Free EXCEPT !.at = "cancelling", !.event = e])
  /\ NoteOverlap(e)

\* cancel_event: an occurrence is added to the list that was read; where the event no longer
\* recurs, or the form said so, all of it is cancelled.
AskCancel(w, e, what) ==
  /\ Begin(w, e, IF what # Series /\ recurring[e]
                 THEN [Free EXCEPT !.at = "dropping", !.event = e, !.what = what,
                                   !.list = dropped[e] \cup {what}]
                 ELSE [Free EXCEPT !.at = "cancelling", !.event = e])
  /\ NoteOverlap(e)

\* Who is to be told: those who follow the event at the commit, and the grid.
Followers(e) == {u \in Users : <<u, e>> \in follows}
Committed(w) ==
  /\ standing' = standing \cup {<<req[w].event, req[w].what>>}
  /\ owed' = owed \cup {<<a, req[w].event, req[w].what>> :
                          a \in Followers(req[w].event) \cup {Grid}}
  /\ req' = [req EXCEPT ![w].at = "listing"]

DropOccurrence(w) ==
  /\ req[w].at = "dropping"
  /\ dropped' = Write(dropped, req[w].event, req[w].list)
  /\ Committed(w)
  /\ UNCHANGED <<status, recurring, follows, bounds, overlapped, told>>

CancelSeries(w) ==
  /\ req[w].at = "cancelling"
  /\ status' = Write(status, req[w].event, "cancelled")
  /\ Committed(w)
  /\ UNCHANGED <<recurring, dropped, follows, bounds, overlapped, told>>

\* notify_followers_cancelled reads the followers after the commit.
ListFollowers(w) ==
  /\ req[w].at = "listing"
  /\ req' = [req EXCEPT ![w].at = "telling", ![w].left = Followers(req[w].event) \cup {Grid}]
  /\ UNCHANGED <<rows, follows, bounds, overlapped, history>>

\* Mutant: the loop ends with its first message.
TellOnly(w) ==
  /\ req[w].at = "telling"
  /\ \E a \in req[w].left :
       /\ a = Grid => req[w].left = {Grid}
       /\ told' = told \cup {<<a, req[w].event, req[w].what>>}
       /\ req' = [req EXCEPT ![w] = Free]
  /\ UNCHANGED <<rows, follows, bounds, overlapped, standing, owed>>

\* Mutant: the request forgets its event with its first message.
TellAndForget(w) ==
  /\ req[w].at = "telling"
  /\ \E a \in req[w].left :
       /\ a = Grid => req[w].left = {Grid}
       /\ told' = told \cup {<<a, req[w].event, req[w].what>>}
       /\ req' = [req EXCEPT ![w].event = NoEvent, ![w].left = @ \ {a}]
  /\ UNCHANGED <<rows, follows, bounds, overlapped, standing, owed>>

\* The followers one by one, then broadcast_event_cancelled.
TellOne(w) ==
  /\ req[w].at = "telling"
  /\ \E a \in req[w].left :
       /\ a = Grid => req[w].left = {Grid}
       /\ told' = told \cup {<<a, req[w].event, req[w].what>>}
       /\ req' = [req EXCEPT ![w] = IF a = Grid THEN Free
                                                ELSE [req[w] EXCEPT !.left = @ \ {a}]]
  /\ UNCHANGED <<rows, follows, bounds, overlapped, standing, owed>>

\* delete_event: one DELETE, of an event in whatever state; the rows of event_follows stay.
Delete(w, e) ==
  /\ req[w].at = "free"
  /\ status[e] \in Present
  /\ status' = [status EXCEPT ![e] = "deleted"]
  /\ UNCHANGED <<recurring, dropped, follows, req, bounds, overlapped, history>>

\* follow: only an event that is published when it is read can be followed.
ReadPublished(w, u, e, inworld) ==
  /\ status[e] = "published"
  /\ Begin(w, e, [Free EXCEPT !.at = "following", !.event = e, !.user = u, !.flag = inworld])
  /\ UNCHANGED overlapped

\* INSERT ... ON DUPLICATE KEY UPDATE.  History: who turns the messages off is owed none.
Follow(w) ==
  /\ req[w].at = "following"
  /\ follows' = IF req[w].flag THEN follows \cup {<<req[w].user, req[w].event>>}
                               ELSE follows \ {<<req[w].user, req[w].event>>}
  /\ owed' = IF req[w].flag THEN owed
             ELSE {m \in owed : <<m[1], m[2]>> # <<req[w].user, req[w].event>>}
  /\ req' = [req EXCEPT ![w] = Free]
  /\ UNCHANGED <<rows, bounds, overlapped, standing, told>>

\* The worker, or its database connection, fails: what is not committed is undone.  History:
\* what it was telling is owed to nobody any more.
Fail(w) ==
  /\ req[w].at # "free"
  /\ failures < MaxFailures
  /\ failures' = failures + 1
  /\ req' = [req EXCEPT ![w] = Free]
  /\ owed' = IF req[w].at \in Telling
             THEN {m \in owed : <<m[2], m[3]>> # <<req[w].event, req[w].what>>} ELSE owed
  /\ UNCHANGED <<rows, follows, requests, overlapped, standing, told>>

\* What remains of a request once it is begun.
Continue(w) ==
  Save(w) \/ DropOccurrence(w) \/ CancelSeries(w) \/ ListFollowers(w) \/ TellOne(w) \/ Follow(w)

Next ==
  \E w \in Workers :
    \/ Continue(w)
    \/ Fail(w)
    \/ \E e \in Events :
         \/ \E new \in {"draft", "published"}, rule \in BOOLEAN : Create(w, e, new, rule)
         \/ \E publish, rule \in BOOLEAN : Edit(w, e, publish, rule)
         \/ \E what \in What : AskCancel(w, e, what)
         \/ Delete(w, e)
         \/ \E u \in Users, inworld \in BOOLEAN : ReadPublished(w, u, e, inworld)

Spec == Init /\ [][Next]_vars

\* Fairness: a worker goes on with a request it has begun.
FairSpec == Spec /\ \A w \in Workers : WF_vars(Continue(w))
-----------------------------------------------------------------------------
\* Type invariant; a request under way knows its event and, where it
\* follows, its member.
TypeOK ==
  /\ status \in [Events -> Statuses]
  /\ recurring \in [Events -> BOOLEAN]
  /\ dropped \in [Events -> SUBSET Occurrences]
  /\ follows \subseteq Users \X Events
  /\ req \in [Workers -> Requests]
  /\ requests \in Nat /\ failures \in Nat
  /\ standing \subseteq Events \X What
  /\ overlapped \subseteq Events
  /\ owed \subseteq Audience \X Events \X What
  /\ told \subseteq Audience \X Events \X What
  /\ \A w \in Workers : /\ req[w].at # "free" => req[w].event \in Events
                        /\ req[w].at = "following" => req[w].user \in Users

\* Where organisers' requests about an event never overlapped, what was cancelled stays
\* cancelled through every later edit and cancellation, until "publish" is pressed.  (Where
\* they overlap it need not: Edit writes back the status it read, and AskCancel the list.)
CancellationStands ==
  \A e \in Events \ overlapped : status[e] # "deleted" =>
    /\ <<e, Series>> \in standing => status[e] = "cancelled"
    /\ \A o \in Occurrences : <<e, o>> \in standing => o \in dropped[e]

\* Everybody who followed an event when it, or an occurrence, was cancelled is told, and so
\* is the grid, unless the worker that tells it failed or the member turned the messages off
\* meanwhile; neither the failure of another request nor a deletion of the event makes a
\* difference.
CancellationIsTold ==
  \A a \in Audience, e \in Events, what \in What :
    <<a, e, what>> \in owed ~> (<<a, e, what>> \in told \/ <<a, e, what>> \notin owed)
=============================================================================
