--------------------------- MODULE CalendarNotify ---------------------------
(***************************************************************************)
(* The calendar job (worker.py calendar): every fifteen minutes a oneshot  *)
(* process reads the published events, queues the announcements that are   *)
(* due and then the reminders of the followers, and logs each one so that  *)
(* no later run repeats it.  Every commit is a step of its own, and the    *)
(* job may die between two of them; organisers change events meanwhile.    *)
(*                                                                         *)
(* Time is counted in units of thirty seconds and a run of the job takes   *)
(* less than one unit: the clock stands while a run is under way.          *)
(***************************************************************************)
EXTENDS Integers, FiniteSets

CONSTANTS
  Events,
  Starts,        \* [Events -> SUBSET Nat]: occurrences up to recurrence_until
  Rule,          \* [Events -> SUBSET Nat]: occurrences of the rule alone
  Half,          \* [Events -> Nat]: half the duration, 0 without an end
  Fanout,        \* [Events -> SUBSET BotChannels]: event_group_settings
  Followers,
  Wants,         \* [Followers -> SUBSET {"email", "im"}]
  Offsets,       \* [Followers -> SUBSET Nat]: reminder_offsets
  MinGap,        \* least time from one run to the next (the timer's 15 minutes)
  MaxGap,        \* longest time from one run to the next
  Horizon,       \* bound: the clock stops here
  MaxLapses,     \* bound: runs that die and log rows that fail, together
  MaxChanges     \* bound: requests that change an event

Minute         == 2
RangeBack      == 5 * Minute         \* expand_events_for_range(now - 5 minutes, ...)
RangeAhead     == 120 * Minute
ReminderAhead  == RangeAhead + 7 * 24 * 60 * Minute
NoSlackWindow  == 15 * Minute        \* mutant: the thirty seconds are left out
UpcomingWindow == 15 * Minute + 1    \* calendar_bot_upcoming_minutes and 30 seconds
StartingWindow == Minute
HalfwayWindow  == 3                  \* 90 seconds
ReminderWindow == 2 * Minute

BotChannels == {"region", "group_chat", "group_notice"}
Channels    == BotChannels \cup {"email", "im"}
Nobody      == "nobody"

ASSUME CalendarAssumption ==
  /\ Starts \in [Events -> SUBSET Nat]
  /\ Rule \in [Events -> SUBSET Nat]
  /\ \A e \in Events : Starts[e] \subseteq Rule[e]
  /\ Half \in [Events -> Nat]
  /\ Fanout \in [Events -> SUBSET BotChannels]
  /\ Nobody \notin Followers
  /\ Wants \in [Followers -> SUBSET {"email", "im"}]
  /\ Offsets \in [Followers -> SUBSET Nat]
  /\ MinGap \in Nat /\ MaxGap \in Nat \ {0} /\ MinGap <= MaxGap
  /\ Horizon \in Nat /\ MaxLapses \in Nat /\ MaxChanges \in Nat

(***************************************************************************)
(* A notice is identified as in event_notification_log: the event, the     *)
(* follower (or nobody), the occurrence and the type of the notification.  *)
(***************************************************************************)
Announcement(e, s, kind) == [event |-> e, who |-> Nobody, start |-> s, kind |-> kind, offset |-> 0]
Reminder(f, e, s, o)     == [event |-> e, who |-> f, start |-> s, kind |-> "reminder", offset |-> o]

Announcements ==
  UNION {{Announcement(e, s, k) : s \in Starts[e], k \in {"upcoming", "starting", "halfway"}} :
           e \in Events}
Reminders ==
  UNION {{Reminder(f, e, s, o) : s \in Rule[e], o \in Offsets[f]} :
           f \in Followers, e \in Events}
Notices == Announcements \cup Reminders

\* The messages of a notice: the fan-out of an announcement, the mail and the IM of a reminder.
MessagesOf(n) == IF n.who = Nobody THEN Fanout[n.event] ELSE Wants[n.who]

VARIABLES
  clock,
  status,     \* [Events -> Statuses]
  dropped,    \* [Events -> SUBSET Nat]: the cancelled_occurrences column
  follows,    \* SUBSET (Followers \X Events): rows of event_follows
  log,        \* SUBSET Notices: rows of event_notification_log
  job,        \* the run under way; view is what its transaction reads, if it has one,
              \* and overtaken (history) the events changed since the run began
  lastRun,    \* when the last run began
  changes,
  (* history *)
  crashes,    \* runs that died
  unlogged,   \* notices whose row of the log could not be inserted
  sent,       \* [Notices -> [Channels -> Nat]]: messages queued or mailed
  touched,    \* events that were changed since the beginning
  asked       \* reminders whose follower asked for them before they fell due

eventVars == <<status, dropped, touched, changes>>
followVars == <<follows, asked>>
lapseVars == <<crashes, unlogged>>
vars == <<clock, eventVars, followVars, log, job, lastRun, lapseVars, sent>>

Statuses == {"published", "cancelled", "deleted"}
NoNotice == [event |-> Nobody, who |-> Nobody, start |-> 0, kind |-> "none", offset |-> 0]
Idle     == [at |-> "idle", phase |-> "announce", now |-> 0, todo |-> {},
             current |-> NoNotice, left |-> {}, overtaken |-> {}, view |-> {}]
Views    == [status : [Events -> Statuses], dropped : [Events -> SUBSET Nat],
             follows : SUBSET (Followers \X Events)]
Jobs     == [at : {"idle", "next", "sending"}, phase : {"announce", "remind"}, now : Nat,
             todo : SUBSET Notices, current : Notices \cup {NoNotice},
             left : SUBSET Channels, overtaken : SUBSET Events, view : SUBSET Views]

Init ==
  /\ clock = 0
  /\ status = [e \in Events |-> "published"]
  /\ dropped = [e \in Events |-> {}]
  /\ follows = {}
  /\ log = {}
  /\ job = Idle
  /\ lastRun = 0 - MaxGap          \* the first run is due at once
  /\ crashes = 0 /\ unlogged = 0
  /\ changes = 0
  /\ sent = [n \in Notices |-> [c \in Channels |-> 0]]
  /\ touched = {} /\ asked = {}
-----------------------------------------------------------------------------
(***************************************************************************)
(* The timer.                                                              *)
(***************************************************************************)
Within(x, y, window) == x - y <= window /\ y - x <= window

\* A transaction reads the rows as they were at its first SELECT, whatever others commit
\* meanwhile; the first SELECT after a commit opens the next one.
CurrentRows == [status |-> status, dropped |-> dropped, follows |-> follows]
View == IF job.view = {} THEN CurrentRows ELSE CHOOSE v \in job.view : TRUE

\* Mutant: cancelled occurrences are announced.
DueThoughDropped(v, n, now) ==
  /\ v.status[n.event] = "published"
  /\ now - RangeBack <= n.start /\ n.start <= now + RangeAhead
  /\ CASE n.kind = "upcoming" -> now < n.start /\ n.start - now <= UpcomingWindow
       [] n.kind = "starting" -> Within(n.start, now, StartingWindow)
       [] n.kind = "halfway"  ->
            Half[n.event] > 0 /\ Within(now, n.start + Half[n.event], HalfwayWindow)

\* The announcements a run finds due: occurrences in the range it expands, of
\* published events, that are not cancelled.
DueAnnouncement(v, n, now) ==
  /\ v.status[n.event] = "published"
  /\ n.start \notin v.dropped[n.event]
  /\ now - RangeBack <= n.start /\ n.start <= now + RangeAhead
  /\ CASE n.kind = "upcoming" -> now < n.start /\ n.start - now <= UpcomingWindow
       [] n.kind = "starting" -> Within(n.start, now, StartingWindow)
       [] n.kind = "halfway"  ->
            Half[n.event] > 0 /\ Within(now, n.start + Half[n.event], HalfwayWindow)

\* The reminders a run finds due. The row it expands carries neither the cancelled
\* occurrences nor the end of the series.
DueReminder(v, n, now) ==
  /\ v.status[n.event] = "published"
  /\ <<n.who, n.event>> \in v.follows
  /\ now <= n.start /\ n.start <= now + ReminderAhead
  /\ Within(n.start - now, n.offset, ReminderWindow)

Tick ==
  /\ job.at = "idle"
  /\ clock < Horizon
  /\ clock < lastRun + MaxGap
  /\ clock' = clock + 1
  /\ UNCHANGED <<eventVars, followVars, log, job, lastRun, lapseVars, sent>>

\* A run reads the rows it needs and works on what is due.
Read(v, phase, now, due) ==
  job' = [job EXCEPT !.at = "next", !.phase = phase, !.now = now, !.todo = due, !.view = {v}]

BeginRun ==
  /\ job.at = "idle"
  /\ clock >= lastRun + MinGap
  /\ lastRun' = clock
  /\ Read(CurrentRows, "announce", clock,
          {n \in Announcements : DueAnnouncement(CurrentRows, n, clock)})
  /\ UNCHANGED <<clock, eventVars, followVars, log, lapseVars, sent>>
-----------------------------------------------------------------------------
(***************************************************************************)
(* The run: one notice after the other, announcements in order of their    *)
(* occurrences and of their kinds.                                         *)
(***************************************************************************)
Kinds    == <<"upcoming", "starting", "halfway", "reminder">>
Sequence == <<"region", "group_chat", "group_notice", "email", "im">>
Position(seq, x) == CHOOSE i \in DOMAIN seq : seq[i] = x

Earlier(m, n) ==
  /\ m.who = Nobody
  /\ \/ m.start < n.start
     \/ /\ m.start = n.start /\ m.event = n.event
        /\ Position(Kinds, m.kind) < Position(Kinds, n.kind)
First(S) == {n \in S : \A m \in S : ~Earlier(m, n)}

\* Mutant: the follower is compared with = instead of <=>, so that the NULL of an
\* announcement equals nothing.
ConsiderNullUnequal ==
  /\ job.at = "next"
  /\ \E n \in First(job.todo) :
       job' = IF n \in log /\ n.who # Nobody THEN [job EXCEPT !.todo = @ \ {n}, !.view = {View}]
              ELSE [job EXCEPT !.at = "sending", !.todo = @ \ {n}, !.view = {View},
                               !.current = n, !.left = MessagesOf(n)]
  /\ UNCHANGED <<clock, eventVars, followVars, log, lastRun, lapseVars, sent>>

\* Mutant: the log is not asked.
ConsiderAnyway ==
  /\ job.at = "next"
  /\ \E n \in First(job.todo) :
       job' = [job EXCEPT !.at = "sending", !.todo = @ \ {n}, !.view = {View},
                          !.current = n, !.left = MessagesOf(n)]
  /\ UNCHANGED <<clock, eventVars, followVars, log, lastRun, lapseVars, sent>>

\* Mutant: the notice is logged before its messages are queued.
ConsiderAndLog ==
  /\ job.at = "next"
  /\ \E n \in First(job.todo) :
       /\ job' = IF n \in log THEN [job EXCEPT !.todo = @ \ {n}, !.view = {View}]
                 ELSE [job EXCEPT !.at = "sending", !.todo = @ \ {n}, !.view = {View},
                                  !.current = n, !.left = MessagesOf(n)]
       /\ log' = log \cup {n}
  /\ UNCHANGED <<clock, eventVars, followVars, lastRun, lapseVars, sent>>

\* notification_already_sent: a logged notice is passed over, another one is begun.
Consider ==
  /\ job.at = "next"
  /\ \E n \in First(job.todo) :
       job' = IF n \in log THEN [job EXCEPT !.todo = @ \ {n}, !.view = {View}]
              ELSE [job EXCEPT !.at = "sending", !.todo = @ \ {n}, !.view = {View},
                               !.current = n, !.left = MessagesOf(n)]
  /\ UNCHANGED <<clock, eventVars, followVars, log, lastRun, lapseVars, sent>>

\* The next message of the notice: one INSERT, committed on its own, or a mail,
\* whose failure is only noted in the application log. The commit ends the transaction
\* as well, but nothing is read of the rows before the notice is logged.
Send ==
  /\ job.at = "sending"
  /\ \E c \in job.left :
       /\ \A d \in job.left : Position(Sequence, c) <= Position(Sequence, d)
       /\ job' = [job EXCEPT !.left = @ \ {c}]
       /\ \/ sent' = [sent EXCEPT ![job.current][c] = @ + 1]
          \/ c = "email" /\ UNCHANGED sent
  /\ UNCHANGED <<clock, eventVars, followVars, log, lastRun, lapseVars>>

\* log_notification_sent, which ends the transaction.
Log ==
  /\ job.at = "sending"
  /\ job.left = {}
  /\ log' = log \cup {job.current}
  /\ job' = [job EXCEPT !.at = "next", !.current = NoNotice, !.view = {}]
  /\ UNCHANGED <<clock, eventVars, followVars, lastRun, lapseVars, sent>>

\* The INSERT fails and is rolled back: log_notification_sent says so, but nobody looks at
\* its answer. The run goes on, and the notice is in no log.
LogFails ==
  /\ job.at = "sending"
  /\ job.left = {}
  /\ crashes + unlogged < MaxLapses
  /\ unlogged' = unlogged + 1
  /\ job' = [job EXCEPT !.at = "next", !.current = NoNotice, !.view = {}]
  /\ UNCHANGED <<clock, eventVars, followVars, log, lastRun, crashes, sent>>

\* After the last announcement the followers of published events are read.
ReadFollows ==
  /\ job.at = "next" /\ job.phase = "announce" /\ job.todo = {}
  /\ Read(View, "remind", job.now, {n \in Reminders : DueReminder(View, n, job.now)})
  /\ UNCHANGED <<clock, eventVars, followVars, log, lastRun, lapseVars, sent>>

EndRun ==
  /\ job.at = "next" /\ job.phase = "remind" /\ job.todo = {}
  /\ job' = Idle
  /\ UNCHANGED <<clock, eventVars, followVars, log, lastRun, lapseVars, sent>>

\* The process dies: what it committed stays, the rest is left to the next run.
Crash ==
  /\ job.at # "idle"
  /\ crashes + unlogged < MaxLapses
  /\ crashes' = crashes + 1
  /\ job' = Idle
  /\ UNCHANGED <<clock, eventVars, followVars, log, lastRun, unlogged, sent>>
-----------------------------------------------------------------------------
(***************************************************************************)
(* Organisers and followers.  Only the rows the job reads matter here, not *)
(* the messages a cancellation sends at once.                              *)
(***************************************************************************)
Change(e) ==
  /\ status[e] # "deleted"
  /\ changes < MaxChanges
  /\ changes' = changes + 1
  /\ touched' = touched \cup {e}
  /\ job' = IF job.at = "idle" THEN job ELSE [job EXCEPT !.overtaken = @ \cup {e}]
  /\ UNCHANGED <<clock, followVars, log, lastRun, lapseVars, sent>>

\* cancel_event with the scope "occurrence", of a recurring event.
CancelOccurrence(e, s) ==
  /\ Cardinality(Rule[e]) > 1
  /\ Change(e)
  /\ dropped' = [dropped EXCEPT ![e] = @ \cup {s}]
  /\ UNCHANGED status

\* Mutant: a status the job does not know.
SetStatusMisspelt(e, new) ==
  /\ Change(e)
  /\ status' = [status EXCEPT ![e] = IF new = "cancelled" THEN "canceled" ELSE new]
  /\ UNCHANGED dropped

\* cancel_event with the scope "series", delete_event, and manage_event with the
\* action "publish".
SetStatus(e, new) ==
  /\ Change(e)
  /\ status' = [status EXCEPT ![e] = new]
  /\ UNCHANGED dropped

\* follow: only a published event can be followed.
Follow(f, e) ==
  /\ status[e] = "published"
  /\ <<f, e>> \notin follows
  /\ follows' = follows \cup {<<f, e>>}
  /\ asked' = asked \cup {n \in Reminders : /\ n.who = f /\ n.event = e
                                            /\ clock + n.offset + ReminderWindow < n.start}
  /\ UNCHANGED <<clock, eventVars, log, job, lastRun, lapseVars, sent>>

Next ==
  \/ Tick \/ BeginRun
  \/ Consider \/ Send \/ Log \/ LogFails \/ ReadFollows \/ EndRun \/ Crash
  \/ \E e \in Events : \E s \in Starts[e] : CancelOccurrence(e, s)
  \/ \E e \in Events, new \in {"cancelled", "deleted", "published"} : SetStatus(e, new)
  \/ \E f \in Followers, e \in Events : Follow(f, e)

Spec == Init /\ [][Next]_vars
-----------------------------------------------------------------------------
\* Type invariant; the messages still to be sent belong to the notice at hand.
TypeOK ==
  /\ clock \in Nat /\ lastRun \in Int /\ crashes \in Nat /\ unlogged \in Nat /\ changes \in Nat
  /\ status \in [Events -> Statuses]
  /\ dropped \in [Events -> SUBSET Nat]
  /\ follows \subseteq Followers \X Events
  /\ log \subseteq Notices
  /\ job \in Jobs
  /\ job.at = "sending" => job.current \in Notices /\ job.left \subseteq MessagesOf(job.current)
  /\ sent \in [Notices -> [Channels -> Nat]]
  /\ touched \subseteq Events /\ asked \subseteq Reminders

\* Attempts at a notice that left it out of the log, the most there can have been.
Lapses == crashes + unlogged

\* The log exists so that no run repeats a notice: a message goes out at most once, and once
\* more for each run that died between sending it and logging it and for each row of the log
\* that could not be inserted.
SentOncePerAttempt ==
  \A n \in Notices, c \in Channels : sent[n][c] <= 1 + Lapses

\* Every bot message of the notice was queued; a mail may fail.
WasQueued(n) == \A c \in MessagesOf(n) \ {"email"} : sent[n][c] > 0

\* A logged notice is one whose every bot message was queued, although the messages
\* and the log row are committed one by one and runs may die in between.
LoggedWasQueued == \A n \in log : WasQueued(n)

\* The job implements the log of notices: whatever dies or fails between two commits and whatever
\* changes meanwhile, only the messages of a notice are sent, none once it is logged and none again
\* but for a lapse, and a notice is logged when its bot messages are queued, and never again.
NoticesLogged ==
  INSTANCE NoticeLog WITH Items <- Notices, Ways <- Channels, logged <- log, lapses <- Lapses,
                          queued <- sent, Messages <- [n \in Notices |-> MessagesOf(n)],
                          Must <- [n \in Notices |-> MessagesOf(n) \ {"email"}]

KeepsLog == NoticesLogged!Spec

\* While no run comes later than the announcement window after the one before, the announcement of
\* every occurrence of an event left alone is queued before it starts, unless a run died; a log row
\* that fails does no harm here.
UpcomingIsAnnounced ==
  \A e \in Events : \A s \in Starts[e] :
    e \notin touched /\ crashes = 0 /\ 0 < s /\ s < clock
      => WasQueued(Announcement(e, s, "upcoming"))

\* The event is published and, for an announcement, its occurrence not cancelled, by the rows
\* as they are now.
Stands(n) ==
  /\ status[n.event] = "published"
  /\ n.who = Nobody => n.start \notin dropped[n.event]

\* A run works on what it read, and rows change under it between its commits. What has ceased to
\* stand is still sent only by the run that was under way at the change: no later run announces a
\* cancelled occurrence or sends anything of an event cancelled or deleted, whichever run died or
\* could not log, and however old the snapshot is the followers are read from.
VoidOnlyIfOvertaken ==
  job.at = "sending" /\ job.current.event \notin job.overtaken => Stands(job.current)

\* The reminder a follower has asked for is sent: who followed an event, left alone
\* since, before a reminder fell due has received it when the occurrence begins.
ReminderIsSent ==
  \A n \in asked :
    n.event \notin touched /\ n.start \in Starts[n.event] /\ crashes = 0 /\ n.start < clock
      => WasQueued(n)
=============================================================================
