------------------------ MODULE CalendarNotifyProofs ------------------------
(***************************************************************************)
(* Theorems about the calendar job, for any events, followers, channels,   *)
(* gaps between runs, deaths and changes by organisers.                    *)
(***************************************************************************)
EXTENDS CalendarNotify, TLAPS

-----------------------------------------------------------------------------
(* Types *)

\* A notice is either an announcement, to nobody, or a reminder, to a follower.
LEMMA NoticeKinds ==
  /\ \A n \in Announcements : n.event \in Events /\ n.who = Nobody /\ n.start \in Starts[n.event]
                              /\ n.kind \in {"upcoming", "starting", "halfway"}
  /\ \A n \in Reminders : n.event \in Events /\ n.who \in Followers /\ n.who # Nobody
  /\ \A e \in Events : \A s \in Starts[e] : Announcement(e, s, "upcoming") \in Announcements
BY CalendarAssumption DEF Announcements, Reminders, Announcement, Reminder

LEMMA MessagesTyped == \A n \in Notices : MessagesOf(n) \subseteq Channels
BY NoticeKinds, CalendarAssumption DEF Notices, MessagesOf, Channels

LEMMA IdleTyped == Idle \in Jobs /\ NoNotice.kind = "none"
BY DEF Idle, Jobs, NoNotice

LEMMA ViewTyped == ASSUME TypeOK PROVE CurrentRows \in Views /\ View \in Views
<1>1. CurrentRows \in Views
  BY DEF TypeOK, CurrentRows, Views
<1>2. job.view \subseteq Views
  BY DEF TypeOK, Jobs
<1> QED
  BY <1>1, <1>2 DEF View

LEMMA ReadTyped ==
  ASSUME TypeOK, NEW v \in Views, NEW phase \in {"announce", "remind"}, NEW now \in Nat,
         NEW due \in SUBSET Notices, Read(v, phase, now, due)
  PROVE  /\ job' \in Jobs /\ job'.at = "next" /\ job'.phase = phase /\ job'.now = now
         /\ job'.todo = due /\ job'.overtaken = job.overtaken /\ job'.view = {v}
<1>1. job \in Jobs /\ {v} \in SUBSET Views
  BY DEF TypeOK
<1> QED
  BY <1>1 DEF Jobs, Read

\* What a run begins or passes over, and what is left of it to be sent.
LEMMA ConsiderTyped ==
  ASSUME TypeOK, Consider
  PROVE  /\ job' \in Jobs /\ job'.phase = job.phase /\ job'.now = job.now
         /\ job'.overtaken = job.overtaken /\ job'.view = {View}
         /\ \E n \in job.todo :
              /\ job'.todo = job.todo \ {n} /\ n \in Notices
              /\ \/ n \in log /\ job'.at = "next"
                 \/ /\ n \notin log /\ job'.at = "sending"
                    /\ job'.current = n /\ job'.left = MessagesOf(n)
<1>1. PICK n \in First(job.todo) :
        job' = IF n \in log THEN [job EXCEPT !.todo = @ \ {n}, !.view = {View}]
               ELSE [job EXCEPT !.at = "sending", !.todo = @ \ {n}, !.view = {View},
                                !.current = n, !.left = MessagesOf(n)]
  BY DEF Consider
<1>2. n \in job.todo /\ n \in Notices /\ job.at = "next" /\ job \in Jobs
  BY DEF Consider, First, TypeOK, Jobs
<1>3. MessagesOf(n) \in SUBSET Channels /\ {View} \in SUBSET Views /\ job.todo \ {n} \in SUBSET Notices
  BY <1>2, MessagesTyped, ViewTyped DEF Jobs
<1>4. CASE n \in log
  BY <1>1, <1>2, <1>3, <1>4 DEF Jobs
<1>5. CASE n \notin log
  BY <1>1, <1>2, <1>3, <1>5 DEF Jobs
<1> QED
  BY <1>4, <1>5

LEMMA SendTyped ==
  ASSUME TypeOK, Send
  PROVE  /\ job' \in Jobs /\ job'.at = "sending" /\ job'.phase = job.phase /\ job'.now = job.now
         /\ job'.todo = job.todo /\ job'.overtaken = job.overtaken /\ job'.current = job.current
         /\ job'.view = job.view
         /\ job.at = "sending" /\ job.current \in Notices /\ UNCHANGED <<log, Lapses>>
         /\ \E c \in job.left :
              /\ job'.left = job.left \ {c} /\ c \in Channels
              /\ \/ sent' = [sent EXCEPT ![job.current][c] = @ + 1]
                 \/ c = "email" /\ UNCHANGED sent
BY DEF Send, TypeOK, Jobs, Lapses, lapseVars

\* One message more is counted, or a mail is not.
LEMMA SentTyped ==
  ASSUME TypeOK, Send
  PROVE  /\ sent' \in [Notices -> [Channels -> Nat]]
         /\ \E c \in job.left \cap Channels :
              /\ job'.left = job.left \ {c}
              /\ \A n \in Notices, d \in Channels :
                   \/ n = job.current /\ d = c /\ sent'[n][d] = sent[n][d] + 1
                   \/ sent'[n][d] = sent[n][d] /\ (n = job.current /\ d = c => c = "email")
<1>1. PICK c \in job.left : /\ job'.left = job.left \ {c} /\ c \in Channels
                           /\ \/ sent' = [sent EXCEPT ![job.current][c] = @ + 1]
                              \/ c = "email" /\ UNCHANGED sent
  BY SendTyped
<1>2. sent \in [Notices -> [Channels -> Nat]] /\ job.current \in Notices
  BY SendTyped DEF TypeOK
<1>3. CASE UNCHANGED sent /\ c = "email"
  BY <1>1, <1>2, <1>3
<1>4. CASE sent' = [sent EXCEPT ![job.current][c] = @ + 1]
  <2> DEFINE more == [sent[job.current] EXCEPT ![c] = sent[job.current][c] + 1]
  <2>1. sent[job.current] \in [Channels -> Nat] /\ sent[job.current][c] + 1 \in Nat
    BY <1>1, <1>2
  <2>2. more \in [Channels -> Nat]
    BY <2>1
  <2>3. sent' = [sent EXCEPT ![job.current] = more]
    BY <1>4
  <2>4. more[c] = sent[job.current][c] + 1 /\ \A d \in Channels \ {c} : more[d] = sent[job.current][d]
    BY <1>1, <2>1
  <2> HIDE DEF more
  <2> QED
    BY <1>1, <1>2, <2>2, <2>3, <2>4
<1> QED
  BY <1>1, <1>3, <1>4

LEMMA LogTyped ==
  ASSUME TypeOK, Log \/ LogFails
  PROVE  /\ job' \in Jobs /\ job'.at = "next" /\ job'.phase = job.phase /\ job'.now = job.now
         /\ job'.todo = job.todo /\ job'.overtaken = job.overtaken /\ job'.view = {}
         /\ job.at = "sending" /\ job.left = {} /\ job.current \in Notices /\ UNCHANGED <<sent, crashes>>
         /\ \/ log' = log \cup {job.current} /\ UNCHANGED Lapses
            \/ log' = log /\ Lapses' = Lapses + 1
<1>1. /\ job' \in Jobs /\ job'.at = "next" /\ job'.phase = job.phase /\ job'.now = job.now
      /\ job'.todo = job.todo /\ job'.overtaken = job.overtaken /\ job'.view = {}
      /\ job.at = "sending" /\ job.left = {} /\ job.current \in Notices
  BY DEF Log, LogFails, TypeOK, Jobs
<1>2. CASE Log
  BY <1>1, <1>2 DEF Log, Lapses, lapseVars
<1>3. CASE LogFails
  BY <1>1, <1>3 DEF LogFails, Lapses, TypeOK
<1> QED
  BY <1>2, <1>3

\* A change by an organiser is noted by the run under way, and moves nothing else of it.
LEMMA ChangeTyped ==
  ASSUME TypeOK, NEW e \in Events, Change(e)
  PROVE  /\ job' \in Jobs /\ job'.at = job.at /\ job'.phase = job.phase /\ job'.now = job.now
         /\ job'.todo = job.todo /\ job'.current = job.current /\ job'.left = job.left
         /\ job'.view = job.view
         /\ job.at # "idle" => job'.overtaken = job.overtaken \cup {e}
<1>1. job \in Jobs
  BY DEF TypeOK
<1>2. CASE job.at = "idle"
  BY <1>1, <1>2 DEF Change
<1>3. CASE job.at # "idle"
  BY <1>1, <1>3 DEF Change, Jobs
<1> QED
  BY <1>2, <1>3

\* The job, its log and what organisers and followers write keep to their types, and what is left to
\* be sent belongs to the notice at hand, for any calendar, timer and failures.
THEOREM TypeCorrect == Spec => []TypeOK
<1>1. Init => TypeOK
  <2> SUFFICES ASSUME Init PROVE TypeOK
    OBVIOUS
  <2>1. lastRun \in Int /\ clock \in Nat /\ crashes \in Nat /\ unlogged \in Nat /\ changes \in Nat
    BY CalendarAssumption DEF Init
  <2>2. job \in Jobs /\ job.at = "idle"
    BY IdleTyped DEF Init, Idle
  <2> QED
    BY <2>1, <2>2 DEF Init, TypeOK, Statuses
<1>2. TypeOK /\ [Next]_vars => TypeOK'
  <2> SUFFICES ASSUME TypeOK, [Next]_vars PROVE TypeOK'
    OBVIOUS
  <2> USE DEF eventVars, followVars, lapseVars
  <2>1. ASSUME Tick PROVE TypeOK'
    BY <2>1 DEF Tick, TypeOK, MessagesOf
  <2>2. ASSUME BeginRun PROVE TypeOK'
    <3>1. job' \in Jobs /\ job'.at = "next"
      BY <2>2, ReadTyped, ViewTyped DEF BeginRun, Notices, TypeOK
    <3> QED
      BY <2>2, <3>1 DEF BeginRun, TypeOK
  <2>3. ASSUME Consider PROVE TypeOK'
    BY <2>3, ConsiderTyped DEF Consider, TypeOK, MessagesOf
  <2>4. ASSUME Send PROVE TypeOK'
    <3>1. sent' \in [Notices -> [Channels -> Nat]]
      BY <2>4, SentTyped
    <3> QED
      BY <2>4, <3>1, SendTyped DEF Send, TypeOK, MessagesOf
  <2>5. ASSUME Log \/ LogFails PROVE TypeOK'
    BY <2>5, LogTyped DEF Log, LogFails, TypeOK
  <2>6. ASSUME ReadFollows PROVE TypeOK'
    <3>1. job' \in Jobs /\ job'.at = "next"
      BY <2>6, ReadTyped, ViewTyped DEF ReadFollows, Notices, TypeOK, Jobs
    <3> QED
      BY <2>6, <3>1 DEF ReadFollows, TypeOK
  <2>7. ASSUME EndRun \/ Crash PROVE TypeOK'
    <3>1. job' \in Jobs /\ job'.at = "idle"
      BY <2>7, IdleTyped DEF EndRun, Crash, Idle
    <3> QED
      BY <2>7, <3>1 DEF EndRun, Crash, TypeOK
  <2>8. ASSUME NEW e \in Events, NEW s \in Starts[e], CancelOccurrence(e, s) PROVE TypeOK'
    <3>1. s \in Nat
      BY CalendarAssumption
    <3>2. job' \in Jobs /\ job'.at = job.at /\ job'.current = job.current /\ job'.left = job.left
      BY <2>8, ChangeTyped DEF CancelOccurrence
    <3> QED
      BY <2>8, <3>1, <3>2 DEF CancelOccurrence, Change, TypeOK, MessagesOf
  <2>9. ASSUME NEW e \in Events, NEW new \in {"cancelled", "deleted", "published"}, SetStatus(e, new)
        PROVE  TypeOK'
    <3>1. job' \in Jobs /\ job'.at = job.at /\ job'.current = job.current /\ job'.left = job.left
      BY <2>9, ChangeTyped DEF SetStatus
    <3> QED
      BY <2>9, <3>1 DEF SetStatus, Change, TypeOK, Statuses, MessagesOf
  <2>10. ASSUME NEW f \in Followers, NEW e \in Events, Follow(f, e) PROVE TypeOK'
    BY <2>10 DEF Follow, TypeOK, MessagesOf
  <2>11. CASE UNCHANGED vars
    BY <2>11 DEF vars, TypeOK, MessagesOf
  <2> QED
    BY <2>1, <2>2, <2>3, <2>4, <2>5, <2>6, <2>7, <2>8, <2>9, <2>10, <2>11 DEF Next
<1> QED
  BY <1>1, <1>2, PTL DEF Spec
-----------------------------------------------------------------------------
(* The log of notices *)

\* What is not in the log has been sent as often as attempts have lapsed, and once more just what
\* the run under way has sent of the notice at hand, which is not in the log.
Attempts ==
  /\ job.at = "sending" => job.current \notin log
  /\ \A n \in Notices, c \in Channels : sent[n][c] <= 1 + Lapses
  /\ \A n \in Notices \ log, c \in Channels :
       \/ job.at = "sending" /\ job.current = n /\ c \notin job.left
       \/ sent[n][c] <= Lapses

\* What is gone from the notice at hand was queued, unless it was a mail.
Queued ==
  /\ LoggedWasQueued
  /\ job.at = "sending" =>
       \A c \in MessagesOf(job.current) \ {"email"} : c \in job.left \/ sent[job.current][c] > 0

LogInv == Attempts /\ Queued

\* A step that neither sends nor logs, and does not begin a notice.
Quiet ==
  /\ UNCHANGED <<log, sent>>
  /\ \/ job'.at # "sending" /\ Lapses' = Lapses + 1
     \/ job'.at # "sending" /\ job.at # "sending" /\ UNCHANGED Lapses
     \/ job'.at = job.at /\ job'.current = job.current /\ job'.left = job.left /\ UNCHANGED Lapses

LEMMA QuietSteps ==
  ASSUME TypeOK,
         \/ Tick \/ BeginRun \/ LogFails \/ ReadFollows \/ EndRun \/ Crash \/ UNCHANGED vars
         \/ \E e \in Events : \E s \in Starts[e] : CancelOccurrence(e, s)
         \/ \E e \in Events, new \in {"cancelled", "deleted", "published"} : SetStatus(e, new)
         \/ \E f \in Followers, e \in Events : Follow(f, e)
  PROVE  Quiet
<1> USE DEF lapseVars, Lapses
<1>1. CASE BeginRun
  BY <1>1, ReadTyped, ViewTyped DEF BeginRun, Notices, TypeOK, Quiet
<1>2. CASE ReadFollows
  BY <1>2, ReadTyped, ViewTyped DEF ReadFollows, Notices, TypeOK, Jobs, Quiet
<1>3. CASE LogFails
  BY <1>3, LogTyped DEF LogFails, TypeOK, Quiet
<1>4. CASE EndRun \/ Crash
  BY <1>4 DEF EndRun, Crash, Idle, Quiet, TypeOK
<1>5. ASSUME NEW e \in Events, Change(e) PROVE Quiet
  BY <1>5, ChangeTyped DEF Change, Quiet
<1>6. CASE \/ Tick \/ UNCHANGED vars
           \/ \E f \in Followers, e \in Events : Follow(f, e)
  BY <1>6 DEF Tick, vars, Follow, Quiet
<1> QED
  BY <1>1, <1>2, <1>3, <1>4, <1>5, <1>6 DEF CancelOccurrence, SetStatus

LEMMA LogInvariant == Spec => [](TypeOK /\ LogInv)
<1>1. Init => LogInv
  BY DEF Init, Idle, LogInv, Attempts, Queued, LoggedWasQueued, Lapses
<1>2. TypeOK /\ LogInv /\ [Next]_vars => LogInv'
  <2> SUFFICES ASSUME TypeOK, LogInv, [Next]_vars PROVE LogInv'
    OBVIOUS
  <2> USE MessagesTyped DEF WasQueued
  <2>0. Lapses \in Nat
    BY DEF TypeOK, Lapses
  <2>1. ASSUME Quiet PROVE LogInv'
    <3>1. Lapses <= Lapses' /\ Lapses' \in Nat
      BY <2>0, <2>1 DEF Quiet
    <3>2. Attempts'
      BY <2>0, <2>1, <3>1 DEF Quiet, LogInv, Attempts, TypeOK
    <3>3. Queued'
      BY <2>1 DEF Quiet, LogInv, Queued, LoggedWasQueued, MessagesOf
    <3> QED
      BY <3>2, <3>3 DEF LogInv
  <2>2. ASSUME Consider PROVE LogInv'
    <3>1. UNCHANGED <<log, sent, Lapses>> /\ job.at = "next"
      BY <2>2 DEF Consider, Lapses, lapseVars
    <3>2. Attempts'
      BY <2>2, <3>1, ConsiderTyped DEF LogInv, Attempts
    <3>3. Queued'
      BY <2>2, <3>1, ConsiderTyped DEF LogInv, Queued, LoggedWasQueued, MessagesOf
    <3> QED
      BY <3>2, <3>3 DEF LogInv
  <2>3. ASSUME Send PROVE LogInv'
    <3>1. PICK c \in job.left \cap Channels :
            /\ job'.left = job.left \ {c}
            /\ \A n \in Notices, d \in Channels :
                 \/ n = job.current /\ d = c /\ sent'[n][d] = sent[n][d] + 1
                 \/ sent'[n][d] = sent[n][d] /\ (n = job.current /\ d = c => c = "email")
      BY <2>3, SentTyped
    <3>2. /\ job.at = "sending" /\ job'.at = "sending" /\ job'.current = job.current
          /\ UNCHANGED <<log, Lapses>> /\ job.current \in Notices /\ job.current \notin log
      BY <2>3, SendTyped DEF LogInv, Attempts
    <3>3. sent[job.current][c] <= Lapses
      BY <3>1, <3>2 DEF LogInv, Attempts
    <3>4. \A n \in Notices, d \in Channels : sent[n][d] \in Nat /\ Lapses \in Nat
      BY <2>0 DEF TypeOK
    <3>5. Attempts'
      BY <3>1, <3>2, <3>3, <3>4 DEF LogInv, Attempts
    <3>6. LoggedWasQueued'
      BY <3>1, <3>2, <3>4 DEF LogInv, Queued, LoggedWasQueued, TypeOK, MessagesOf
    <3>7. \A d \in MessagesOf(job.current) \ {"email"} : d \in job'.left \/ sent'[job.current][d] > 0
      BY <3>1, <3>2, <3>4 DEF LogInv, Queued
    <3> QED
      BY <3>2, <3>5, <3>6, <3>7 DEF LogInv, Queued, MessagesOf
  <2>4. ASSUME Log PROVE LogInv'
    <3>1. log' = log \cup {job.current} /\ UNCHANGED Lapses
      BY <2>4 DEF Log, Lapses, lapseVars
    <3> QED
      BY <2>4, <3>1, LogTyped DEF LogInv, Attempts, Queued, LoggedWasQueued, MessagesOf
  <2> QED
    BY <2>1, <2>2, <2>3, <2>4, QuietSteps DEF Next
<1> QED
  BY <1>1, <1>2, TypeCorrect, PTL DEF Spec

\* No message goes out more than once, but for runs that died between sending and logging and for
\* rows of the log that could not be inserted, for any calendar and any number of both.
THEOREM SentOnce == Spec => []SentOncePerAttempt
<1>1. LogInv => SentOncePerAttempt
  BY DEF LogInv, Attempts, SentOncePerAttempt
<1> QED
  BY <1>1, LogInvariant, PTL

\* Wherever a run dies, every bot message of a logged notice was queued.
THEOREM LoggedIsQueued == Spec => []LoggedWasQueued
<1>1. LogInv => LoggedWasQueued
  BY DEF LogInv, Queued
<1> QED
  BY <1>1, LogInvariant, PTL

LEMMA LogStep ==
  ASSUME TypeOK, LogInv, [Next]_vars
  PROVE  [NoticesLogged!Next]_<<sent, log, Lapses>>
<1>1. CASE Quiet
  BY <1>1 DEF Quiet, NoticesLogged!Next, NoticesLogged!Lapse
<1>2. CASE Consider
  BY <1>2 DEF Consider, Lapses, lapseVars
<1>3. CASE Send
  <2>1. PICK c \in job.left : /\ c \in Channels
                             /\ \/ sent' = [sent EXCEPT ![job.current][c] = @ + 1]
                                \/ c = "email" /\ UNCHANGED sent
    BY <1>3, SendTyped
  <2>2. job.at = "sending" /\ job.current \in Notices /\ job.current \notin log /\ UNCHANGED <<log, Lapses>>
    BY <1>3, SendTyped DEF LogInv, Attempts
  <2>3. sent[job.current][c] <= Lapses
    BY <2>1, <2>2 DEF LogInv, Attempts
  <2>4. c \in MessagesOf(job.current)
    BY <2>1, <2>2 DEF TypeOK
  <2>5. c \in [n \in Notices |-> MessagesOf(n)][job.current]
    BY <2>2, <2>4
  <2> QED
    BY <2>1, <2>2, <2>3, <2>5 DEF NoticesLogged!Next, NoticesLogged!Queue
<1>4. CASE Log
  <2>1. job.current \in Notices /\ job.current \notin log /\ UNCHANGED <<sent, Lapses>>
        /\ log' = log \cup {job.current}
    BY <1>4, LogTyped DEF Log, LogInv, Attempts, Lapses, lapseVars
  <2>2. \A c \in MessagesOf(job.current) \ {"email"} : sent[job.current][c] > 0
    BY <1>4, LogTyped DEF LogInv, Queued
  <2> QED
    BY <2>1, <2>2 DEF NoticesLogged!Next, NoticesLogged!Enter
<1> QED
  BY <1>1, <1>2, <1>3, <1>4, QuietSteps DEF Next

\* The job implements the log of notices: every step queues one message that is owed, logs a notice
\* whose messages are queued, is a lapse, or is invisible.
THEOREM JobKeepsLog == Spec => KeepsLog
<1>1. Init => NoticesLogged!Init
  BY DEF Init, NoticesLogged!Init, Lapses
<1> QED
  BY <1>1, LogInvariant, LogStep, PTL DEF Spec, KeepsLog, NoticesLogged!Spec

-----------------------------------------------------------------------------
(* Cancelled occurrences *)

\* An event that was not changed since the run began stands in the run's transaction as it stands
\* in the rows, and so does what is left to do and what is at hand of it.
StandsInv ==
  job.at # "idle" =>
    /\ \A v \in job.view : \A e \in Events \ job.overtaken :
         v.status[e] = status[e] /\ v.dropped[e] = dropped[e]
    /\ \A n \in job.todo : n.event \notin job.overtaken => Stands(n)
    /\ VoidOnlyIfOvertaken

\* What a run finds due stands in the rows it reads.
LEMMA DueStands ==
  ASSUME TypeOK, NEW v \in Views, NEW now \in Nat, NEW n \in Notices,
         v.status[n.event] = status[n.event], v.dropped[n.event] = dropped[n.event],
         \/ n \in Announcements /\ DueAnnouncement(v, n, now)
         \/ n \in Reminders /\ DueReminder(v, n, now)
  PROVE  Stands(n)
BY NoticeKinds DEF DueAnnouncement, DueReminder, Stands

LEMMA StandsSteps == ASSUME TypeOK, StandsInv, [Next]_vars PROVE StandsInv'
<1> USE DEF eventVars
<1>1. ASSUME UNCHANGED eventVars, UNCHANGED job PROVE StandsInv'
  BY <1>1 DEF StandsInv, Stands, VoidOnlyIfOvertaken
<1>2. CASE BeginRun
  <2>1. /\ job'.at = "next" /\ job'.view = {CurrentRows} /\ UNCHANGED eventVars
        /\ job'.todo = {n \in Announcements : DueAnnouncement(CurrentRows, n, clock)}
    BY <1>2, ReadTyped, ViewTyped DEF BeginRun, Notices, TypeOK
  <2>2. CurrentRows \in Views /\ clock \in Nat /\ CurrentRows.status = status /\ CurrentRows.dropped = dropped
    BY ViewTyped DEF CurrentRows, TypeOK
  <2>3. \A n \in job'.todo : Stands(n)
    BY <2>1, <2>2, DueStands DEF Notices
  <2> QED
    BY <2>1, <2>2, <2>3 DEF StandsInv, Stands, VoidOnlyIfOvertaken
<1>3. CASE ReadFollows
  <2>1. /\ job'.at = "next" /\ job'.view = {View} /\ job'.overtaken = job.overtaken
        /\ UNCHANGED eventVars /\ job.at = "next"
        /\ job'.todo = {n \in Reminders : DueReminder(View, n, job.now)}
    BY <1>3, ReadTyped, ViewTyped DEF ReadFollows, Notices, TypeOK, Jobs
  <2>2. View \in Views /\ job.now \in Nat
    BY ViewTyped DEF TypeOK, Jobs
  <2>3. \A e \in Events \ job.overtaken : View.status[e] = status[e] /\ View.dropped[e] = dropped[e]
    BY <2>1 DEF View, CurrentRows, StandsInv
  <2>4. \A n \in job'.todo : n.event \notin job.overtaken => Stands(n)
    <3> SUFFICES ASSUME NEW n \in job'.todo, n.event \notin job.overtaken PROVE Stands(n)
      OBVIOUS
    <3>1. n \in Reminders /\ n \in Notices /\ DueReminder(View, n, job.now) /\ n.event \in Events
      BY <2>1, NoticeKinds DEF Notices
    <3> QED
      BY <2>2, <2>3, <3>1, DueStands
  <2> QED
    BY <2>1, <2>3, <2>4 DEF StandsInv, Stands, VoidOnlyIfOvertaken
<1>4. CASE Consider
  <2>1. /\ job'.overtaken = job.overtaken /\ job'.view = {View} /\ job.at = "next"
        /\ UNCHANGED eventVars
    BY <1>4, ConsiderTyped DEF Consider
  <2>2. \A e \in Events \ job.overtaken : View.status[e] = status[e] /\ View.dropped[e] = dropped[e]
    BY <2>1 DEF View, CurrentRows, StandsInv
  <2>3. \A n \in job.todo : n.event \notin job.overtaken => Stands(n)
    BY <2>1 DEF StandsInv
  <2>4. PICK n \in job.todo : job'.todo = job.todo \ {n} /\ (job'.at = "next" \/ job'.current = n)
    BY <1>4, ConsiderTyped
  <2>5. \A m \in job.todo : m.event \notin job'.overtaken =>
          status'[m.event] = "published" /\ (m.who = Nobody => m.start \notin dropped'[m.event])
    BY <2>1, <2>3 DEF Stands
  <2>6. \A v \in job'.view : \A e \in Events \ job'.overtaken :
          v.status[e] = status'[e] /\ v.dropped[e] = dropped'[e]
    BY <2>1, <2>2
  <2>7. VoidOnlyIfOvertaken'
    BY <2>4, <2>5 DEF VoidOnlyIfOvertaken, Stands
  <2>8. \A m \in job'.todo : m.event \notin job'.overtaken => Stands(m)'
    BY <2>4, <2>5 DEF Stands
  <2> QED
    BY <2>6, <2>7, <2>8 DEF StandsInv, Stands
<1>5. CASE Send
  BY <1>5, SendTyped DEF Send, StandsInv, Stands, VoidOnlyIfOvertaken
<1>6. CASE Log \/ LogFails
  BY <1>6, LogTyped DEF Log, LogFails, StandsInv, Stands, VoidOnlyIfOvertaken
<1>7. CASE EndRun \/ Crash
  BY <1>7 DEF EndRun, Crash, Idle, StandsInv, VoidOnlyIfOvertaken
<1>8. ASSUME NEW e \in Events, Change(e), \A d \in Events \ {e} : status'[d] = status[d] /\ dropped'[d] = dropped[d]
      PROVE  StandsInv'
  <2>1. /\ job'.at = job.at /\ job'.todo = job.todo /\ job'.current = job.current /\ job'.view = job.view
        /\ job.at # "idle" => job'.overtaken = job.overtaken \cup {e}
    BY <1>8, ChangeTyped
  <2>2. \A n \in Notices : n.event \in Events
    BY NoticeKinds DEF Notices
  <2>3. job.todo \subseteq Notices /\ (job.at = "sending" => job.current \in Notices)
    BY DEF TypeOK, Jobs
  <2> QED
    BY <1>8, <2>1, <2>2, <2>3 DEF StandsInv, Stands, VoidOnlyIfOvertaken
<1>9. CASE \/ \E e \in Events : \E s \in Starts[e] : CancelOccurrence(e, s)
           \/ \E e \in Events, new \in {"cancelled", "deleted", "published"} : SetStatus(e, new)
  BY <1>8, <1>9 DEF CancelOccurrence, SetStatus, TypeOK
<1> QED
  BY <1>1, <1>2, <1>3, <1>4, <1>5, <1>6, <1>7, <1>9 DEF Next, vars, Tick, Follow

\* Whatever organisers change and wherever runs die, what a run sends still stands, unless its event
\* was changed while that run was under way.
THEOREM OnlyOvertakenVoid == Spec => []VoidOnlyIfOvertaken
<1>1. Init => StandsInv
  BY DEF Init, Idle, StandsInv
<1>2. TypeOK /\ StandsInv => VoidOnlyIfOvertaken
  BY DEF StandsInv, VoidOnlyIfOvertaken
<1> QED
  BY <1>1, <1>2, StandsSteps, TypeCorrect, PTL DEF Spec

-----------------------------------------------------------------------------
(* Announcements in time *)

Upcoming(e, s) == Announcement(e, s, "upcoming")

\* Before the first run the clock stands; afterwards no run is overdue, and it stands in each.
TimerInv ==
  /\ clock <= lastRun + MaxGap
  /\ \/ lastRun = 0 - MaxGap /\ clock = 0 /\ job.at = "idle"
     \/ 0 <= lastRun /\ lastRun <= clock
  /\ job.at # "idle" => clock = lastRun /\ job.now = lastRun

UntouchedInv == \A e \in Events \ touched : status[e] = "published" /\ dropped[e] = {}

\* The runs so far have announced what begins in the window after the last of them; the run under
\* way has still to do, or has at hand, what begins after it.
Announced(e, s) ==
  \/ WasQueued(Upcoming(e, s))
  \/ job.at # "idle" /\ job.phase = "announce" /\ lastRun < s /\ Upcoming(e, s) \in job.todo
  \/ job.at = "sending" /\ job.phase = "announce" /\ lastRun < s /\ job.current = Upcoming(e, s)

WindowInv ==
  crashes = 0 /\ 0 <= lastRun =>
    \A e \in Events \ touched : \A s \in Starts[e] :
      0 < s /\ s <= lastRun + UpcomingWindow => Announced(e, s)

AnnounceInv == TimerInv /\ UntouchedInv /\ WindowInv

LEMMA TimerSteps == ASSUME TypeOK, TimerInv, [Next]_vars PROVE TimerInv'
<1> USE CalendarAssumption DEF TimerInv
<1>1. ASSUME UNCHANGED <<clock, lastRun>>, job'.at # "idle" => job.at # "idle" /\ job'.now = job.now,
             job'.at = job.at \/ job.at # "idle"
      PROVE  TimerInv'
  BY <1>1
<1>2. CASE Tick
  BY <1>2 DEF Tick, TypeOK
<1>3. CASE BeginRun
  <2>1. job'.at = "next" /\ job'.now = clock
    BY <1>3, ReadTyped, ViewTyped DEF BeginRun, Notices, TypeOK
  <2>2. 0 <= clock /\ lastRun' = clock /\ clock' = clock
    BY <1>3 DEF BeginRun, TypeOK
  <2> QED
    BY <2>1, <2>2 DEF TypeOK
<1>4. CASE Consider
  BY <1>1, <1>4, ConsiderTyped DEF Consider
<1>5. CASE Send
  BY <1>1, <1>5, SendTyped DEF Send
<1>6. CASE Log \/ LogFails
  BY <1>1, <1>6, LogTyped DEF Log, LogFails
<1>7. CASE ReadFollows
  <2>1. job'.at = "next" /\ job'.now = job.now /\ job.at = "next"
    BY <1>7, ReadTyped, ViewTyped DEF ReadFollows, Notices, TypeOK, Jobs
  <2> QED
    BY <1>1, <1>7, <2>1 DEF ReadFollows
<1>8. CASE EndRun \/ Crash
  BY <1>1, <1>8 DEF EndRun, Crash, Idle
<1>9. CASE \/ UNCHANGED vars
           \/ \E e \in Events : \E s \in Starts[e] : CancelOccurrence(e, s)
           \/ \E e \in Events, new \in {"cancelled", "deleted", "published"} : SetStatus(e, new)
           \/ \E f \in Followers, e \in Events : Follow(f, e)
  BY <1>1, <1>9, ChangeTyped DEF vars, CancelOccurrence, SetStatus, Change, Follow
<1> QED
  BY <1>2, <1>3, <1>4, <1>5, <1>6, <1>7, <1>8, <1>9 DEF Next

LEMMA UntouchedSteps == ASSUME TypeOK, UntouchedInv, [Next]_vars PROVE UntouchedInv'
<1>1. ASSUME UNCHANGED eventVars PROVE UntouchedInv'
  BY <1>1 DEF UntouchedInv, eventVars
<1>2. CASE \/ \E e \in Events : \E s \in Starts[e] : CancelOccurrence(e, s)
           \/ \E e \in Events, new \in {"cancelled", "deleted", "published"} : SetStatus(e, new)
  BY <1>2 DEF CancelOccurrence, SetStatus, Change, UntouchedInv, TypeOK
<1> QED
  BY <1>1, <1>2 DEF Next, vars, eventVars, Tick, BeginRun, Consider, Send, Log, LogFails, ReadFollows, EndRun,
     Crash, Follow

\* No message is taken back.
LEMMA QueuedStays ==
  ASSUME TypeOK, LogInv, [Next]_vars, NEW n \in Notices, WasQueued(n) PROVE WasQueued(n)'
<1>1. \A c \in Channels : sent[n][c] \in Nat /\ sent'[n][c] \in Nat /\ sent[n][c] <= sent'[n][c]
  <2>1. CASE UNCHANGED sent
    BY <2>1 DEF TypeOK
  <2>2. CASE Send
    BY <2>2, SentTyped DEF TypeOK
  <2> QED
    BY <2>1, <2>2 DEF Next, vars, Tick, BeginRun, Consider, Log, LogFails, ReadFollows, EndRun, Crash,
       CancelOccurrence, SetStatus, Change, Follow
<1>2. \A c \in MessagesOf(n) \ {"email"} : c \in Channels /\ sent[n][c] > 0
  BY MessagesTyped DEF WasQueued
<1>3. \A c \in MessagesOf(n) \ {"email"} : sent'[n][c] > 0
  BY <1>1, <1>2
<1> QED
  BY <1>3 DEF WasQueued, MessagesOf

\* What happens to an announcement that is due: it stays so until its messages are queued.
LEMMA AnnouncedSteps ==
  ASSUME TypeOK, LogInv, UNCHANGED lastRun, crashes' = 0, [Next]_vars,
         NEW e \in Events, NEW s \in Starts[e], Announced(e, s)
  PROVE  Announced(e, s)'
<1>0. PICK n \in Announcements : n = Upcoming(e, s)
  BY NoticeKinds DEF Upcoming
<1> USE DEF Announced
<1>1. WasQueued(n) => WasQueued(n)'
  BY QueuedStays DEF Notices
<1>2. ASSUME job.at # "idle", job.phase = "announce", lastRun < s,
             n \in job.todo \/ (job.at = "sending" /\ job.current = n)
      PROVE  \/ WasQueued(n)'
             \/ job'.at # "idle" /\ job'.phase = "announce" /\ n \in job'.todo
             \/ job'.at = "sending" /\ job'.phase = "announce" /\ job'.current = n
  <2>1. CASE Consider
    <3>1. PICK m \in job.todo : /\ job'.todo = job.todo \ {m}
                               /\ \/ m \in log /\ job'.at = "next"
                                  \/ job'.at = "sending" /\ job'.current = m
      BY <2>1, ConsiderTyped
    <3>2. m \in log => WasQueued(m) /\ m \in Notices
      BY DEF LogInv, Queued, LoggedWasQueued, TypeOK
    <3>3. m \in log => WasQueued(m)'
      BY <3>2, QueuedStays
    <3>4. job.at = "next" /\ job'.phase = job.phase
      BY <2>1, ConsiderTyped DEF Consider
    <3> QED
      BY <1>2, <3>1, <3>3, <3>4
  <2>2. CASE Send
    BY <1>2, <2>2, SendTyped
  <2>3. CASE Log \/ LogFails
    <3>1. n = job.current => WasQueued(n)
      BY <2>3, LogTyped DEF LogInv, Queued, WasQueued
    <3>2. n = job.current => WasQueued(n)'
      BY <3>1, QueuedStays DEF Notices
    <3> QED
      BY <1>2, <2>3, <3>2, LogTyped
  <2>4. CASE UNCHANGED job
    BY <1>2, <2>4
  <2>5. ASSUME NEW d \in Events, Change(d)
        PROVE  job'.at = job.at /\ job'.phase = job.phase /\ job'.todo = job.todo /\ job'.current = job.current
    BY <2>5, ChangeTyped
  <2>6. ~Tick /\ ~BeginRun /\ ~ReadFollows /\ ~EndRun /\ ~Crash
    BY <1>2 DEF Tick, BeginRun, ReadFollows, EndRun, Crash, TypeOK
  <2>7. CASE \/ \E d \in Events : \E t \in Starts[d] : CancelOccurrence(d, t)
             \/ \E d \in Events, new \in {"cancelled", "deleted", "published"} : SetStatus(d, new)
    BY <1>2, <2>5, <2>7 DEF CancelOccurrence, SetStatus
  <2> QED
    BY <1>2, <2>1, <2>2, <2>3, <2>4, <2>6, <2>7 DEF Next, vars, Follow
<1>3. Upcoming(e, s)' = n
  BY <1>0 DEF Upcoming, Announcement
<1>4. CASE ~WasQueued(n)
  <2>1. /\ job.at # "idle" /\ job.phase = "announce" /\ lastRun < s
        /\ n \in job.todo \/ (job.at = "sending" /\ job.current = n)
    BY <1>0, <1>4
  <2>2. \/ WasQueued(n)'
        \/ job'.at # "idle" /\ job'.phase = "announce" /\ n \in job'.todo
        \/ job'.at = "sending" /\ job'.phase = "announce" /\ job'.current = n
    BY <1>2, <2>1
  <2> QED
    BY <1>0, <1>3, <2>1, <2>2
<1>5. CASE WasQueued(n)
  BY <1>1, <1>3, <1>5
<1> QED
  BY <1>4, <1>5

\* A run that begins within the window of the one before has all that follows still to do.
LEMMA BeginAnnounces ==
  ASSUME TypeOK, AnnounceInv, MaxGap <= UpcomingWindow, BeginRun, crashes = 0,
         NEW e \in Events \ touched, NEW s \in Starts[e], 0 < s, s <= lastRun' + UpcomingWindow
  PROVE  Announced(e, s)'
<1>1. s \in Nat /\ clock \in Nat /\ lastRun \in Int /\ MaxGap \in Nat /\ UpcomingWindow = 31
  BY CalendarAssumption DEF TypeOK, UpcomingWindow, Minute
<1>2. lastRun' = clock /\ UNCHANGED <<log, clock>> /\ job.at = "idle"
  BY DEF BeginRun
<1>3. CASE s <= clock
  <2>1. 0 <= lastRun /\ s <= lastRun + UpcomingWindow
    BY <1>1, <1>3 DEF AnnounceInv, TimerInv
  <2> QED
    BY <1>2, <2>1 DEF AnnounceInv, WindowInv, Announced, WasQueued, BeginRun, MessagesOf, Upcoming, Announcement
<1>4. CASE clock < s
  <2>1. /\ job'.at = "next" /\ job'.phase = "announce"
        /\ job'.todo = {n \in Announcements : DueAnnouncement(CurrentRows, n, clock)}
    BY ReadTyped, ViewTyped DEF BeginRun, Notices, TypeOK
  <2>2. Upcoming(e, s) \in Announcements
    BY NoticeKinds DEF Upcoming
  <2>3. status[e] = "published" /\ dropped[e] = {}
    BY DEF AnnounceInv, UntouchedInv
  <2>4. DueAnnouncement(CurrentRows, Upcoming(e, s), clock)
    BY <1>1, <1>2, <1>4, <2>3
       DEF DueAnnouncement, CurrentRows, Upcoming, Announcement, RangeBack, RangeAhead, Minute
  <2> QED
    BY <1>2, <1>4, <2>1, <2>2, <2>4 DEF Announced
<1> QED
  BY <1>1, <1>3, <1>4

LEMMA WindowSteps ==
  ASSUME TypeOK, LogInv, AnnounceInv, MaxGap <= UpcomingWindow, [Next]_vars PROVE WindowInv'
<1> SUFFICES ASSUME crashes' = 0, 0 <= lastRun', NEW e \in Events \ touched', NEW s \in Starts[e],
                    0 < s, s <= lastRun' + UpcomingWindow
             PROVE  Announced(e, s)'
  BY DEF WindowInv
<1>1. crashes = 0 /\ e \notin touched
  <2>1. touched \subseteq touched'
    BY DEF Next, vars, eventVars, Tick, BeginRun, Consider, Send, Log, LogFails, ReadFollows, EndRun, Crash, Follow,
       CancelOccurrence, SetStatus, Change
  <2>2. crashes' = crashes \/ crashes' = crashes + 1
    BY DEF Next, vars, lapseVars, Tick, BeginRun, Consider, Send, Log, LogFails, ReadFollows, EndRun, Crash, Follow,
       CancelOccurrence, SetStatus, Change
  <2> QED
    BY <2>1, <2>2 DEF TypeOK
<1>2. CASE BeginRun
  BY <1>1, <1>2, BeginAnnounces
<1>3. CASE ~BeginRun
  <2>1. UNCHANGED lastRun
    BY <1>3 DEF Next, vars, Tick, Consider, Send, Log, LogFails, ReadFollows, EndRun, Crash, Follow,
       CancelOccurrence, SetStatus, Change
  <2> QED
    BY <1>1, <2>1, AnnouncedSteps DEF AnnounceInv, WindowInv
<1> QED
  BY <1>2, <1>3

LEMMA AnnounceInvariant ==
  ASSUME MaxGap <= UpcomingWindow PROVE Spec => [](TypeOK /\ LogInv /\ AnnounceInv)
<1>1. Init => AnnounceInv
  BY CalendarAssumption DEF Init, Idle, AnnounceInv, TimerInv, UntouchedInv, WindowInv
<1>2. TypeOK /\ LogInv /\ AnnounceInv /\ [Next]_vars => AnnounceInv'
  BY TimerSteps, UntouchedSteps, WindowSteps DEF AnnounceInv
<1> QED
  BY <1>1, <1>2, LogInvariant, PTL DEF Spec

\* If no run begins later after the one before than the announcement window is long, the announcement
\* of every occurrence of an event left alone is queued before it begins, unless a run died, for any
\* calendar.
THEOREM AnnouncedInTime ==
  ASSUME MaxGap <= UpcomingWindow PROVE Spec => []UpcomingIsAnnounced
<1>1. TypeOK /\ LogInv /\ AnnounceInv => UpcomingIsAnnounced
  <2> SUFFICES ASSUME TypeOK, AnnounceInv, NEW e \in Events, NEW s \in Starts[e],
                      e \notin touched, crashes = 0, 0 < s, s < clock
               PROVE  WasQueued(Upcoming(e, s))
    BY DEF UpcomingIsAnnounced, Upcoming
  <2>1. s \in Nat /\ clock \in Nat /\ lastRun \in Int /\ MaxGap \in Nat /\ UpcomingWindow = 31
    BY CalendarAssumption DEF TypeOK, UpcomingWindow, Minute
  <2>2. 0 <= lastRun /\ s <= lastRun + UpcomingWindow
    BY <2>1 DEF AnnounceInv, TimerInv
  <2>3. Announced(e, s)
    BY <2>2 DEF AnnounceInv, WindowInv
  <2>4. job.at # "idle" => s <= lastRun
    BY <2>1 DEF AnnounceInv, TimerInv
  <2> QED
    BY <2>1, <2>3, <2>4 DEF Announced
<1> QED
  BY <1>1, AnnounceInvariant, PTL
=============================================================================
