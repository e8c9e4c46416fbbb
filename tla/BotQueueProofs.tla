--------------------------- MODULE BotQueueProofs ---------------------------
(***************************************************************************)
(* Theorems about the bot queue, for any set of messages, workers and      *)
(* bots and any limits.                                                    *)
(***************************************************************************)
EXTENDS BotQueue, TLAPS

\* What a bot does with a line is well typed, and an acknowledgement that will be
\* read as a success is sent only with something said, save by a reference bot.
LEMMA HandleType ==
  ASSUME NEW kind \in {"lsl", "client", "reference"}, NEW here,
         NEW msg, msg.channel \in Channels,
         NEW r, r = Handle(kind, here, msg)
  PROVE  /\ r.acked \in BOOLEAN
         /\ r.ack \in Acks
         /\ r.said \in Channels \cup {"none"}
         /\ r.acked /\ Succeeded(r.ack) /\ kind # "reference" => r.said # "none"
<1> DEFINE p        == ParseString2List(Line(msg))
           line     == Line(msg)
           delivery == IF Len(p) >= 8 THEN p[6] ELSE IF p[3] \in Uuids THEN "im" ELSE "region"
           Outcomes == {Ignored, Refused(WrongRegionAck), Refused(MissingGroupAck)}
                         \cup {Spoken(c) : c \in Channels}
           Goal == /\ r.acked \in BOOLEAN
                   /\ r.ack \in Acks
                   /\ r.said \in Channels \cup {"none"}
                   /\ r.acked /\ Succeeded(r.ack) /\ kind # "reference" => r.said # "none"
<1>1. {"im", "region"} \subseteq Channels /\ GroupChannels \subseteq Channels
  BY DEF Channels, GroupChannels
<1>2. ASSUME kind = "lsl" PROVE r \in Outcomes
  <2>1. r = IF Len(p) < 5 THEN Ignored
            ELSE IF delivery \in GroupChannels THEN GroupScript(p)
            ELSE IF delivery = "im" \/ p[3] \in Uuids THEN Spoken("im")
            ELSE IF p[4] # here THEN Refused(WrongRegionAck)
            ELSE Spoken("region")
    BY <1>2 DEF Handle, LslScript
  <2>2. ASSUME delivery \in GroupChannels
        PROVE  GroupScript(p) = Refused(MissingGroupAck) \/ GroupScript(p) = Spoken(delivery)
    <3> HIDE DEF p
    <3>1. delivery = p[6]
      BY <2>2 DEF GroupChannels
    <3> QED
      BY <3>1 DEF GroupScript
  <2> HIDE DEF p, delivery
  <2> QED
    BY <2>1, <2>2, <1>1
<1>3. ASSUME kind = "client" PROVE r \in Outcomes
  <2>1. r = Spoken(IF line[6] \in GroupChannels THEN line[6]
                   ELSE IF line[3] # "" THEN "im" ELSE "region")
    BY <1>3 DEF Handle, PythonClient
  <2> HIDE DEF line
  <2> QED
    BY <2>1, <1>1
<1>4. ASSUME kind = "reference"
      PROVE  r \in Outcomes \cup {Refused(ReferenceAck)}
  BY <1>4 DEF Handle, ReferenceBot
<1>5. ASSUME r \in Outcomes PROVE Goal
  <2>1. CASE r = Ignored
    BY <2>1 DEF Ignored, Acks
  <2>2. CASE r \in {Refused(WrongRegionAck), Refused(MissingGroupAck)}
    <3>1. ~Succeeded(WrongRegionAck) /\ ~Succeeded(MissingGroupAck)
      BY DEF Succeeded, WrongRegionAck, MissingGroupAck
    <3>2. ASSUME NEW a \in Acks, ~Succeeded(a), r = Refused(a) PROVE Goal
      BY <3>2 DEF Refused
    <3> HIDE DEF Goal
    <3> QED
      BY <2>2, <3>1, <3>2 DEF Acks
  <2>3. ASSUME NEW c \in Channels, r = Spoken(c) PROVE Goal
    BY <2>3 DEF Spoken, Acks, Channels, GroupChannels
  <2> HIDE DEF Goal
  <2> QED
    BY <1>5, <2>1, <2>2, <2>3
<1>6. ASSUME kind = "reference", r = Refused(ReferenceAck) PROVE Goal
  <2>1. ASSUME NEW a \in Acks, r = Refused(a)
        PROVE  r.acked = TRUE /\ r.ack \in Acks /\ r.said = "none"
    BY <2>1 DEF Refused
  <2> QED
    BY <1>6, <2>1 DEF Acks
<1>7. Goal
  <2> HIDE DEF Goal, Outcomes
  <2> QED
    BY <1>2, <1>3, <1>4, <1>5, <1>6
<1> QED
  BY <1>7

\* The batch a poll selects consists of rows of the table.
LEMMA BatchType == \A P \in Batches : P \subseteq Messages /\ P \subseteq Pending
BY DEF Batches, Prefixes, Pending

\* Setting a status keeps the columns it writes well typed.
LEMMA SetStatusType ==
  ASSUME TypeOK, NEW m \in Messages, NEW new \in Statuses, SetStatus(m, new)
  PROVE  status' \in [Messages -> Statuses] /\ queued' \in [Messages -> Nat]
BY DEF TypeOK, SetStatus

\* Every reachable state is well typed.
LEMMA TypeInit == Init => TypeOK
BY DEF Init, TypeOK, Statuses, Polls, BotStates, Idle, Resting

LEMMA TypeStep == TypeOK /\ [Next]_vars => TypeOK'
<1> SUFFICES ASSUME TypeOK, [Next]_vars PROVE TypeOK'
  OBVIOUS
<1> USE DEF TypeOK, rowVars
<1>1. ASSUME NEW m \in Messages, Enqueue(m) PROVE TypeOK'
  BY <1>1, SetStatusType DEF Enqueue, Statuses
<1>2. ASSUME NEW b \in Bots, NEW w \in Workers, Poll(b, w) PROVE TypeOK'
  <2>1. PICK P \in Batches :
          worker' = [worker EXCEPT ![w] = [busy |-> TRUE, client |-> b, todo |-> P, got |-> P]]
    BY <1>2 DEF Poll
  <2>2. P \subseteq Messages
    BY BatchType
  <2> QED
    <3>1. worker' \in [Workers -> Polls] /\ \A v \in Workers : worker'[v].todo \subseteq worker'[v].got
      BY <2>1, <2>2 DEF Polls
    <3>2. bot' \in [Bots -> BotStates]
      BY <1>2 DEF Poll, BotStates
    <3> QED
      BY <1>2, <3>1, <3>2 DEF Poll
<1>3. ASSUME NEW w \in Workers, ClaimNext(w) PROVE TypeOK'
  <2>1. PICK m \in First(worker[w].todo) :
          /\ worker' = [worker EXCEPT ![w].todo = @ \ {m}]
          /\ SetStatus(m, IF status[m] = "pending" THEN "claimed" ELSE status[m])
    BY <1>3 DEF ClaimNext
  <2>2. worker' \in [Workers -> Polls] /\ \A v \in Workers : worker'[v].todo \subseteq worker'[v].got
    BY <2>1 DEF Polls
  <2>3. status' \in [Messages -> Statuses] /\ queued' \in [Messages -> Nat]
    <3>1. m \in Messages
      BY DEF First, Polls
    <3> QED
      BY <2>1, <3>1, SetStatusType DEF Statuses
  <2> QED
    BY <1>3, <2>2, <2>3 DEF ClaimNext
<1>4. ASSUME NEW w \in Workers, Answer(w) PROVE TypeOK'
  <2>1. PICK P \in Prefixes(worker[w].got) :
          /\ bot' = [bot EXCEPT ![worker[w].client] =
                       IF P = {} THEN Resting ELSE [doing |-> "speaking", inbox |-> P]]
          /\ handed' = [m \in Messages |->
                          IF m \in P THEN [handed[m] EXCEPT ![w] = @ + 1] ELSE handed[m]]
    BY <1>4 DEF Answer
  <2>2. P \subseteq Messages
    BY DEF Prefixes, Polls
  <2>3. bot' \in [Bots -> BotStates]
    BY <2>1, <2>2 DEF Resting, BotStates
  <2>4. handed' \in [Messages -> [Workers -> Nat]]
    BY <2>1
  <2> QED
    BY <1>4, <2>3, <2>4 DEF Answer, Idle, Polls
<1>5. ASSUME NEW w \in Workers, AnswerNobody(w) PROVE TypeOK'
  BY <1>5 DEF AnswerNobody, Idle, Polls
<1>6. ASSUME NEW w \in Workers, WorkerFails(w) PROVE TypeOK'
  BY <1>6 DEF WorkerFails, Idle, Resting, Polls, BotStates
<1>7. ASSUME NEW b \in Bots, PollFails(b) PROVE TypeOK'
  <2>1. worker' \in [Workers -> Polls] /\ \A v \in Workers : worker'[v].todo \subseteq worker'[v].got
    <3>1. \A v \in Workers : /\ [worker[v] EXCEPT !.client = NoBot] \in Polls
                              /\ [worker[v] EXCEPT !.client = NoBot].todo = worker[v].todo
                              /\ [worker[v] EXCEPT !.client = NoBot].got = worker[v].got
      BY DEF Polls
    <3> QED
      BY <1>7, <3>1 DEF PollFails
  <2>2. bot' \in [Bots -> BotStates]
    BY <1>7 DEF PollFails, Resting, BotStates
  <2> QED
    BY <1>7, <2>1, <2>2 DEF PollFails
<1>8. ASSUME NEW b \in Bots, Speak(b) PROVE TypeOK'
  <2>1. PICK m \in First(bot[b].inbox) :
          /\ Deliver(m, Handle(Kind[b], Place[b], Content[m]))
          /\ bot' = [bot EXCEPT ![b] = IF bot[b].inbox = {m} THEN Resting
                                       ELSE [bot[b] EXCEPT !.inbox = @ \ {m}]]
          /\ UNCHANGED <<rowVars, worker, handed>>
    BY <1>8 DEF Speak
  <2>2. m \in Messages
    BY DEF First, BotStates
  <2>3. PICK r : /\ Deliver(m, r)
                 /\ r.said \in Channels \cup {"none"}
                 /\ r.ack \in Acks
    BY <2>1, <2>2, HandleType, BotQueueAssumption
  <2>4. heard' \subseteq Messages \X Channels
    BY <2>2, <2>3 DEF Deliver
  <2>5. acks' \in [Messages -> [Acks -> Nat]]
    BY <2>2, <2>3 DEF Deliver
  <2>6. bot' \in [Bots -> BotStates]
    <3>1. [bot[b] EXCEPT !.inbox = @ \ {m}] \in BotStates
      BY DEF BotStates
    <3>2. Resting \in BotStates
      BY DEF Resting, BotStates
    <3> QED
      BY <2>1, <3>1, <3>2
  <2> QED
    BY <2>1, <2>4, <2>5, <2>6
<1>9. ASSUME NEW b \in Bots, BotFails(b) PROVE TypeOK'
  BY <1>9 DEF BotFails, Resting, BotStates
<1>10. ASSUME NEW m \in Messages, NEW a \in Acks, AckArrives(m, a) PROVE TypeOK'
  <2>1. acks' \in [Messages -> [Acks -> Nat]]
    BY <1>10 DEF AckArrives
  <2>2. status' \in [Messages -> Statuses] /\ queued' \in [Messages -> Nat]
    BY <1>10, SetStatusType DEF AckArrives, Statuses
  <2>3. retries' \in [Messages -> Nat]
    <3>1. CASE UNCHANGED retries
      BY <3>1
    <3>2. CASE retries' = [retries EXCEPT ![m] = @ + 1]
      BY <3>2
    <3> QED
      BY <1>10, <3>1, <3>2, Zenon DEF AckArrives
  <2> QED
    BY <1>10, <2>1, <2>2, <2>3 DEF AckArrives
<1>11. ASSUME NEW m \in Messages, NEW a \in Acks, AckLost(m, a) PROVE TypeOK'
  BY <1>11 DEF AckLost
<1>12. ASSUME NEW S \in SUBSET Messages, Requeue(S) PROVE TypeOK'
  BY <1>12 DEF Requeue, Statuses
<1>13. CASE RetryAll
  BY <1>12, <1>13 DEF RetryAll
<1>14. CASE RetrySelected
  BY <1>12, <1>14 DEF RetrySelected
<1>15. CASE UNCHANGED vars
  BY <1>15 DEF vars
<1> QED
  BY <1>1, <1>2, <1>3, <1>4, <1>5, <1>6, <1>7, <1>8, <1>9, <1>10, <1>11, <1>13, <1>14, <1>15
     DEF Next

\* Every reachable state is well typed.
THEOREM TypeCorrect == Spec => []TypeOK
BY TypeInit, TypeStep, PTL DEF Spec
-----------------------------------------------------------------------------
(***************************************************************************)
(* Hand-outs.  AtMostOncePerWorker is not inductive: it must be known what *)
(* a worker still owes for the rows of its answer, and for pending rows.   *)
(***************************************************************************)

\* Row m has been queued more often than worker w has handed it out while it is
\* pending or part of w's answer, and once more again if it is both and already marked.
Owes(m, w) ==
  /\ handed[m][w] <= queued[m]
  /\ status[m] = "pending" => handed[m][w] < queued[m]
  /\ m \in worker[w].got => handed[m][w] < queued[m]
  /\ status[m] = "pending" /\ m \in worker[w].got /\ m \notin worker[w].todo
       => handed[m][w] + 1 < queued[m]
Owed == \A m \in Messages, w \in Workers : Owes(m, w)

\* Rows whose columns change in no way that concerns Owes.
LEMMA OwesKept ==
  ASSUME TypeOK, Owed, NEW m \in Messages, NEW w \in Workers,
         handed'[m][w] = handed[m][w],
         worker'[w].got \subseteq worker[w].got,
         worker'[w].todo = worker[w].todo \/ worker'[w].got = {},
         \/ queued'[m] = queued[m] /\ (status'[m] = "pending" => status[m] = "pending")
         \/ queued'[m] = queued[m] + 1
  PROVE  Owes(m, w)'
<1>1. /\ handed[m][w] \in Nat
      /\ queued[m] \in Nat
  BY DEF TypeOK
<1>2. Owes(m, w)
  BY DEF Owed
<1> QED
  BY <1>1, <1>2 DEF Owes

\* Setting one status either leaves a row's place in the queue or queues it once more.
LEMMA SetStatusEffect ==
  ASSUME TypeOK, NEW m \in Messages, NEW new, SetStatus(m, new), NEW n \in Messages
  PROVE  \/ queued'[n] = queued[n] /\ (status'[n] = "pending" => status[n] = "pending")
         \/ queued'[n] = queued[n] + 1
BY DEF SetStatus, TypeOK

LEMMA OwedStep == TypeOK /\ Owed /\ [Next]_vars => Owed'
<1> SUFFICES ASSUME TypeOK, Owed, [Next]_vars, NEW n \in Messages, NEW v \in Workers
             PROVE  Owes(n, v)'
  BY DEF Owed
<1> USE DEF rowVars
<1>1. ASSUME NEW m \in Messages, Enqueue(m) PROVE Owes(n, v)'
  BY <1>1, SetStatusEffect, OwesKept DEF Enqueue
<1>2. ASSUME NEW b \in Bots, NEW w \in Workers, Poll(b, w) PROVE Owes(n, v)'
  <2>1. PICK P \in Batches :
          worker' = [worker EXCEPT ![w] = [busy |-> TRUE, client |-> b, todo |-> P, got |-> P]]
    BY <1>2 DEF Poll
  <2>2. n \in P => status[n] = "pending"
    BY BatchType DEF Pending
  <2>3. CASE v = w
    <3>1. worker'[v].got = P /\ worker'[v].todo = P
      BY <2>1, <2>3 DEF TypeOK
    <3>2. handed'[n][v] = handed[n][v] /\ queued'[n] = queued[n] /\ status'[n] = status[n]
      BY <1>2 DEF Poll
    <3> QED
      BY <2>2, <3>1, <3>2 DEF Owed, Owes
  <2>4. CASE v # w
    <3>1. worker'[v] = worker[v]
      BY <2>1, <2>4 DEF TypeOK
    <3> QED
      BY <1>2, <3>1, OwesKept DEF Poll
  <2> QED
    BY <2>3, <2>4
<1>3. ASSUME NEW w \in Workers, ClaimNext(w) PROVE Owes(n, v)'
  <2>1. PICK m \in First(worker[w].todo) :
          /\ worker' = [worker EXCEPT ![w].todo = @ \ {m}]
          /\ SetStatus(m, IF status[m] = "pending" THEN "claimed" ELSE status[m])
          /\ UNCHANGED handed
    BY <1>3 DEF ClaimNext
  <2>2. m \in Messages
    BY DEF First, TypeOK, Polls
  <2>3. /\ queued'[n] = queued[n]
        /\ status'[n] = "pending" => status[n] = "pending" /\ n # m
    BY <2>1, <2>2 DEF SetStatus, TypeOK
  <2>4. CASE v = w /\ n = m
    <3>1. worker'[v].got = worker[v].got
      BY <2>1, <2>4 DEF TypeOK, Polls
    <3> QED
      BY <2>1, <2>3, <2>4, <3>1 DEF Owed, Owes
  <2>5. CASE v = w /\ n # m
    <3>1. worker'[v].got = worker[v].got /\ (n \in worker'[v].todo <=> n \in worker[v].todo)
      BY <2>1, <2>5 DEF TypeOK, Polls
    <3> QED
      BY <2>1, <2>3, <3>1 DEF Owed, Owes
  <2>6. CASE v # w
    BY <2>1, <2>3, <2>6, OwesKept DEF TypeOK
  <2> QED
    BY <2>4, <2>5, <2>6
<1>4. ASSUME NEW w \in Workers, Answer(w) PROVE Owes(n, v)'
  <2>1. PICK P \in Prefixes(worker[w].got) :
          handed' = [m \in Messages |->
                       IF m \in P THEN [handed[m] EXCEPT ![w] = @ + 1] ELSE handed[m]]
    BY <1>4 DEF Answer
  <2>2. P \subseteq worker[w].got
    BY DEF Prefixes
  <2>3. /\ worker' = [worker EXCEPT ![w] = Idle]
        /\ worker[w].todo = {}
        /\ queued' = queued
        /\ status' = status
    BY <1>4 DEF Answer
  <2>4. CASE v = w /\ n \in P
    <3>1. handed'[n][v] = handed[n][v] + 1
      BY <2>1, <2>4 DEF TypeOK
    <3>2. handed[n][v] \in Nat /\ queued[n] \in Nat
      BY DEF TypeOK
    <3>3. worker'[v].got = {}
      BY <2>3, <2>4 DEF TypeOK, Idle
    <3> QED
      BY <2>2, <2>3, <2>4, <3>1, <3>2, <3>3 DEF Owed, Owes
  <2>5. CASE ~(v = w /\ n \in P)
    <3>1. handed'[n][v] = handed[n][v]
      BY <2>1, <2>5 DEF TypeOK
    <3>2. worker'[v] = IF v = w THEN Idle ELSE worker[v]
      BY <2>3 DEF TypeOK
    <3> QED
      BY <2>3, <3>1, <3>2, OwesKept DEF Idle
  <2> QED
    BY <2>4, <2>5
<1>5. ASSUME NEW w \in Workers, AnswerNobody(w) \/ WorkerFails(w) PROVE Owes(n, v)'
  <2>1. worker'[v] = IF v = w THEN Idle ELSE worker[v]
    BY <1>5 DEF AnswerNobody, WorkerFails, TypeOK
  <2> QED
    BY <1>5, <2>1, OwesKept DEF AnswerNobody, WorkerFails, Idle
<1>6. ASSUME NEW b \in Bots, PollFails(b) PROVE Owes(n, v)'
  <2>1. worker'[v].got = worker[v].got /\ worker'[v].todo = worker[v].todo
    BY <1>6 DEF PollFails, TypeOK, Polls
  <2> QED
    BY <1>6, <2>1, OwesKept DEF PollFails
<1>7. ASSUME NEW b \in Bots, Speak(b) PROVE Owes(n, v)'
  BY <1>7, OwesKept DEF Speak
<1>8. ASSUME NEW b \in Bots, BotFails(b) PROVE Owes(n, v)'
  BY <1>8, OwesKept DEF BotFails
<1>9. ASSUME NEW m \in Messages, NEW a \in Acks, AckArrives(m, a) PROVE Owes(n, v)'
  BY <1>9, SetStatusEffect, OwesKept DEF AckArrives
<1>10. ASSUME NEW m \in Messages, NEW a \in Acks, AckLost(m, a) PROVE Owes(n, v)'
  BY <1>10, OwesKept DEF AckLost
<1>11. ASSUME NEW S \in SUBSET Messages, Requeue(S) PROVE Owes(n, v)'
  <2>1. \/ queued'[n] = queued[n] /\ status'[n] = status[n]
        \/ queued'[n] = queued[n] + 1
    BY <1>11 DEF Requeue
  <2> QED
    BY <1>11, <2>1, OwesKept DEF Requeue
<1>12. CASE RetryAll
  BY <1>11, <1>12 DEF RetryAll
<1>13. CASE RetrySelected
  BY <1>11, <1>13 DEF RetrySelected
<1>14. CASE UNCHANGED vars
  BY <1>14, OwesKept DEF vars
<1> QED
  BY <1>1, <1>2, <1>3, <1>4, <1>5, <1>6, <1>7, <1>8, <1>9, <1>10, <1>12, <1>13, <1>14 DEF Next

LEMMA OwedInvariant == Spec => []Owed
<1>1. Init => Owed
  BY DEF Init, Owed, Owes, Idle
<1> QED
  BY <1>1, TypeCorrect, OwedStep, PTL DEF Spec

\* Each worker hands a message to a bot at most once for every time it was queued.
THEOREM HandedAtMostOnce == Spec => []AtMostOncePerWorker
<1>1. Owed => AtMostOncePerWorker
  BY DEF Owed, Owes, AtMostOncePerWorker
<1> QED
  BY <1>1, OwedInvariant, PTL

\* Every step of the queue grants a set of rows, hands a set of rows out, or is unseen.
LEMMA LedgerStep == TypeOK /\ Owed /\ [Next]_vars => [Ledger!Next]_<<queued, handed>>
<1> SUFFICES ASSUME TypeOK, Owed, [Next]_vars PROVE [Ledger!Next]_<<queued, handed>>
  OBVIOUS
<1> USE DEF rowVars
<1>1. ASSUME NEW S \in SUBSET Messages, UNCHANGED handed,
             queued' = [m \in Messages |-> IF m \in S THEN queued[m] + 1 ELSE queued[m]]
      PROVE  Ledger!Next
  BY <1>1 DEF Ledger!Next, Ledger!Grant
<1>2. ASSUME NEW m \in Messages, NEW new, SetStatus(m, new), UNCHANGED handed
      PROVE  [Ledger!Next]_<<queued, handed>>
  <2>1. CASE new = "pending" /\ status[m] # "pending"
    <3>1. queued' = [n \in Messages |-> IF n \in {m} THEN queued[n] + 1 ELSE queued[n]]
      BY <1>2, <2>1 DEF SetStatus, TypeOK
    <3> QED
      BY <1>1, <1>2, <3>1
  <2>2. CASE ~(new = "pending" /\ status[m] # "pending")
    BY <1>2, <2>2 DEF SetStatus
  <2> QED
    BY <2>1, <2>2
<1>3. ASSUME NEW m \in Messages, Enqueue(m) PROVE [Ledger!Next]_<<queued, handed>>
  BY <1>2, <1>3 DEF Enqueue
<1>4. ASSUME NEW w \in Workers, ClaimNext(w) PROVE [Ledger!Next]_<<queued, handed>>
  <2>1. PICK m \in First(worker[w].todo) :
          /\ SetStatus(m, IF status[m] = "pending" THEN "claimed" ELSE status[m])
          /\ UNCHANGED handed
    BY <1>4 DEF ClaimNext
  <2>2. m \in Messages
    BY DEF First, TypeOK, Polls
  <2> QED
    BY <1>2, <2>1, <2>2
<1>5. ASSUME NEW w \in Workers, Answer(w) PROVE Ledger!Next
  <2>1. PICK P \in Prefixes(worker[w].got) :
          handed' = [m \in Messages |->
                       IF m \in P THEN [handed[m] EXCEPT ![w] = @ + 1] ELSE handed[m]]
    BY <1>5 DEF Answer
  <2>2. P \subseteq Messages /\ \A m \in P : handed[m][w] < queued[m]
    BY DEF Prefixes, TypeOK, Polls, Owed, Owes
  <2>3. UNCHANGED queued
    BY <1>5 DEF Answer
  <2>4. Ledger!HandOut(w, P)
    BY <2>1, <2>2, <2>3 DEF Ledger!HandOut
  <2> QED
    BY <2>2, <2>4 DEF Ledger!Next
<1>6. ASSUME NEW m \in Messages, NEW a \in Acks, AckArrives(m, a)
      PROVE  [Ledger!Next]_<<queued, handed>>
  BY <1>2, <1>6 DEF AckArrives
<1>7. ASSUME NEW S \in SUBSET Messages, Requeue(S) PROVE Ledger!Next
  BY <1>1, <1>7 DEF Requeue
<1>8. CASE RetryAll
  BY <1>7, <1>8 DEF RetryAll
<1>9. CASE RetrySelected
  BY <1>7, <1>9 DEF RetrySelected
<1>10. ASSUME \/ \E b \in Bots, w \in Workers : Poll(b, w)
              \/ \E w \in Workers : AnswerNobody(w) \/ WorkerFails(w)
              \/ \E b \in Bots : PollFails(b) \/ Speak(b) \/ BotFails(b)
              \/ \E m \in Messages, a \in Acks : AckLost(m, a)
              \/ UNCHANGED vars
       PROVE  UNCHANGED <<queued, handed>>
  BY <1>10 DEF Poll, AnswerNobody, WorkerFails, PollFails, Speak, BotFails, AckLost, vars
<1> QED
  BY <1>3, <1>4, <1>5, <1>6, <1>8, <1>9, <1>10 DEF Next

\* The bot queue implements the abstract ledger of grants and hand-outs.
THEOREM QueueKeepsLedger == Spec => KeepsLedger
<1>1. Init => Ledger!Init
  BY DEF Init, Ledger!Init
<1> QED
  BY <1>1, TypeCorrect, OwedInvariant, LedgerStep, PTL DEF Spec, KeepsLedger, Ledger!Spec
-----------------------------------------------------------------------------
(***************************************************************************)
(* Deliveries and attempts.  Both need that a row which is not in the      *)
(* table yet is in nobody's hands.                                         *)
(***************************************************************************)

\* A row that was never inserted has no history, and no worker, bot or
\* acknowledgement knows of it.
Unknown(m) ==
  /\ queued[m] = 0
  /\ retries[m] = 0
  /\ \A w \in Workers : m \notin worker[w].got
  /\ \A b \in Bots : m \notin bot[b].inbox
  /\ \A a \in Acks : acks[m][a] = 0
NothingBeforeInsert == \A m \in Messages : status[m] = "absent" => Unknown(m)

LEMMA NothingBeforeInsertStep ==
  TypeOK /\ NothingBeforeInsert /\ [Next]_vars => NothingBeforeInsert'
<1> SUFFICES ASSUME TypeOK, NothingBeforeInsert, [Next]_vars, NEW n \in Messages,
                    status'[n] = "absent"
             PROVE  Unknown(n)'
  BY DEF NothingBeforeInsert
<1> USE DEF rowVars
<1> DEFINE Same == /\ queued'[n] = queued[n]
                   /\ retries'[n] = retries[n]
           Out  == /\ \A w \in Workers : n \notin worker'[w].got
                   /\ \A b \in Bots : n \notin bot'[b].inbox
                   /\ \A a \in Acks : acks'[n][a] = 0
<1>1. ASSUME status[n] = "absent", Same, Out PROVE Unknown(n)'
  BY <1>1 DEF NothingBeforeInsert, Unknown
<1>2. ASSUME status[n] = "absent"
      PROVE  /\ \A w \in Workers : n \notin worker[w].got
             /\ \A b \in Bots : n \notin bot[b].inbox
             /\ \A a \in Acks : acks[n][a] = 0
  BY <1>2 DEF NothingBeforeInsert, Unknown
<1>3. ASSUME NEW m \in Messages, NEW new, new # "absent", SetStatus(m, new)
      PROVE  n # m /\ queued'[n] = queued[n] /\ status[n] = "absent"
  BY <1>3 DEF SetStatus, TypeOK
<1>4. ASSUME NEW m \in Messages, Enqueue(m) PROVE Unknown(n)'
  BY <1>1, <1>2, <1>3, <1>4 DEF Enqueue
<1>5. ASSUME NEW b \in Bots, NEW w \in Workers, Poll(b, w) PROVE Unknown(n)'
  <2>1. PICK P \in Batches :
          worker' = [worker EXCEPT ![w] = [busy |-> TRUE, client |-> b, todo |-> P, got |-> P]]
    BY <1>5 DEF Poll
  <2>2. status[n] = "absent" /\ n \notin P /\ Same /\ UNCHANGED acks
    BY <1>5, BatchType DEF Poll, Pending
  <2>3. \A v \in Workers : n \notin worker'[v].got
    BY <1>2, <2>1, <2>2 DEF TypeOK
  <2>4. \A c \in Bots : n \notin bot'[c].inbox
    BY <1>2, <1>5, <2>2 DEF Poll, TypeOK, BotStates
  <2> QED
    BY <1>1, <1>2, <2>2, <2>3, <2>4
<1>6. ASSUME NEW w \in Workers, ClaimNext(w) PROVE Unknown(n)'
  <2>1. PICK m \in First(worker[w].todo) :
          /\ worker' = [worker EXCEPT ![w].todo = @ \ {m}]
          /\ SetStatus(m, IF status[m] = "pending" THEN "claimed" ELSE status[m])
          /\ UNCHANGED <<retries, bot, acks>>
    BY <1>6 DEF ClaimNext
  <2>2. m \in Messages /\ m \in worker[w].got
    BY DEF First, TypeOK, Polls
  <2>3. status[m] # "absent"
    BY <2>2 DEF NothingBeforeInsert, Unknown
  <2>4. status[n] = "absent" /\ Same
    BY <1>3, <2>1, <2>2, <2>3
  <2>5. \A v \in Workers : worker'[v].got = worker[v].got
    BY <2>1 DEF TypeOK, Polls
  <2> QED
    BY <1>1, <1>2, <2>1, <2>4, <2>5
<1>7. ASSUME NEW w \in Workers, Answer(w) PROVE Unknown(n)'
  <2>1. PICK P \in Prefixes(worker[w].got) :
          bot' = [bot EXCEPT ![worker[w].client] =
                    IF P = {} THEN Resting ELSE [doing |-> "speaking", inbox |-> P]]
    BY <1>7 DEF Answer
  <2>2. status[n] = "absent" /\ Same /\ UNCHANGED acks /\ worker' = [worker EXCEPT ![w] = Idle]
    BY <1>7 DEF Answer
  <2>3. n \notin P
    BY <1>2, <2>2 DEF Prefixes
  <2>4. \A c \in Bots : n \notin bot'[c].inbox
    BY <1>2, <2>1, <2>2, <2>3 DEF TypeOK, Resting
  <2>5. \A v \in Workers : n \notin worker'[v].got
    BY <1>2, <2>2 DEF TypeOK, Idle
  <2> QED
    BY <1>1, <1>2, <2>2, <2>4, <2>5
<1>8. ASSUME NEW w \in Workers, AnswerNobody(w) \/ WorkerFails(w) PROVE Unknown(n)'
  <2>1. status[n] = "absent" /\ Same /\ UNCHANGED acks /\ worker' = [worker EXCEPT ![w] = Idle]
    BY <1>8 DEF AnswerNobody, WorkerFails
  <2>2. \A c \in Bots : n \notin bot'[c].inbox
    BY <1>2, <1>8, <2>1 DEF AnswerNobody, WorkerFails, Resting
  <2>3. \A v \in Workers : n \notin worker'[v].got
    BY <1>2, <2>1 DEF TypeOK, Idle
  <2> QED
    BY <1>1, <1>2, <2>1, <2>2, <2>3
<1>9. ASSUME NEW b \in Bots, PollFails(b) PROVE Unknown(n)'
  <2>1. \A v \in Workers : worker'[v].got = worker[v].got
    BY <1>9 DEF PollFails, TypeOK, Polls
  <2>2. \A c \in Bots : bot'[c].inbox \subseteq bot[c].inbox
    BY <1>9 DEF PollFails, TypeOK, Resting
  <2> QED
    BY <1>1, <1>2, <1>9, <2>1, <2>2 DEF PollFails
<1>10. ASSUME NEW b \in Bots, Speak(b) PROVE Unknown(n)'
  <2>1. PICK m \in First(bot[b].inbox) :
          /\ Deliver(m, Handle(Kind[b], Place[b], Content[m]))
          /\ bot' = [bot EXCEPT ![b] = IF bot[b].inbox = {m} THEN Resting
                                       ELSE [bot[b] EXCEPT !.inbox = @ \ {m}]]
          /\ UNCHANGED <<rowVars, worker, handed>>
    BY <1>10 DEF Speak
  <2>2. status[n] = "absent" /\ Same
    BY <2>1
  <2>3. n # m
    BY <1>2, <2>1, <2>2 DEF First
  <2>4. PICK r : Deliver(m, r)
    BY <2>1
  <2>5. acks'[n] = acks[n]
    BY <2>3, <2>4 DEF Deliver, TypeOK
  <2>6. \A c \in Bots : bot'[c].inbox \subseteq bot[c].inbox
    BY <2>1 DEF TypeOK, BotStates, Resting
  <2> QED
    BY <1>1, <1>2, <2>1, <2>2, <2>5, <2>6
<1>11. ASSUME NEW b \in Bots, BotFails(b) PROVE Unknown(n)'
  <2>1. \A c \in Bots : bot'[c].inbox \subseteq bot[c].inbox
    BY <1>11 DEF BotFails, TypeOK, Resting
  <2> QED
    BY <1>1, <1>2, <1>11, <2>1 DEF BotFails
<1>12. ASSUME NEW m \in Messages, NEW a \in Acks, AckArrives(m, a) PROVE Unknown(n)'
  <2>1. PICK new : new # "absent" /\ SetStatus(m, new)
    BY <1>12 DEF AckArrives
  <2>2. n # m /\ queued'[n] = queued[n] /\ status[n] = "absent"
    BY <1>3, <2>1
  <2>3. retries'[n] = retries[n] /\ acks'[n] = acks[n]
    BY <1>12, <2>2 DEF AckArrives, TypeOK
  <2> QED
    BY <1>1, <1>2, <1>12, <2>2, <2>3 DEF AckArrives
<1>13. ASSUME NEW m \in Messages, NEW a \in Acks, AckLost(m, a) PROVE Unknown(n)'
  <2>1. status[n] = "absent" /\ Same /\ UNCHANGED <<worker, bot>>
    BY <1>13 DEF AckLost
  <2>2. n # m
    BY <1>2, <1>13, <2>1 DEF AckLost, TypeOK
  <2>3. acks'[n] = acks[n]
    BY <1>13, <2>2 DEF AckLost, TypeOK
  <2> QED
    BY <1>1, <1>2, <2>1, <2>3
<1>14. ASSUME NEW S \in SUBSET Messages, Requeue(S) PROVE Unknown(n)'
  <2>1. n \notin S /\ status[n] = "absent" /\ Same
    BY <1>14 DEF Requeue
  <2> QED
    BY <1>1, <1>2, <1>14, <2>1 DEF Requeue
<1>15. CASE RetryAll
  BY <1>14, <1>15 DEF RetryAll
<1>16. CASE RetrySelected
  BY <1>14, <1>16 DEF RetrySelected
<1>17. CASE UNCHANGED vars
  BY <1>1, <1>2, <1>17 DEF vars
<1> QED
  BY <1>4, <1>5, <1>6, <1>7, <1>8, <1>9, <1>10, <1>11, <1>12, <1>13, <1>15, <1>16, <1>17
     DEF Next

LEMMA NothingBeforeInsertInvariant == Spec => []NothingBeforeInsert
<1>1. Init => NothingBeforeInsert
  BY DEF Init, NothingBeforeInsert, Unknown, Idle, Resting
<1> QED
  BY <1>1, TypeCorrect, NothingBeforeInsertStep, PTL DEF Spec

\* A row nobody has put back was queued once plus at most once per counted refusal,
\* and is pending only while refusals are left.
Attempted(m) ==
  rescues[m] = 0 => /\ queued[m] <= retries[m] + 1
                    /\ queued[m] <= MaxWrongRegion
                    /\ status[m] = "pending" => retries[m] < MaxWrongRegion
Attempts == \A m \in Messages : Attempted(m)

LEMMA AttemptsStep ==
  TypeOK /\ NothingBeforeInsert /\ Attempts /\ [Next]_vars => Attempts'
<1> SUFFICES ASSUME TypeOK, NothingBeforeInsert, Attempts, [Next]_vars, NEW n \in Messages
             PROVE  Attempted(n)'
  BY DEF Attempts
<1> USE DEF rowVars
<1>1. /\ queued[n] \in Nat /\ retries[n] \in Nat /\ rescues[n] \in Nat
      /\ MaxWrongRegion \in Nat \ {0}
  BY BotQueueAssumption DEF TypeOK
<1>2. ASSUME queued'[n] = queued[n], retries'[n] = retries[n], rescues'[n] = rescues[n],
             status'[n] = "pending" => status[n] = "pending"
      PROVE  Attempted(n)'
  BY <1>2 DEF Attempts, Attempted
<1>3. ASSUME NEW m \in Messages, Enqueue(m) PROVE Attempted(n)'
  <2>1. CASE n = m
    <3>1. queued'[n] = 1 /\ retries'[n] = 0
      BY <1>3, <2>1 DEF Enqueue, SetStatus, NothingBeforeInsert, Unknown, TypeOK
    <3> QED
      BY <1>1, <3>1 DEF Attempted
  <2>2. CASE n # m
    <3>1. queued'[n] = queued[n] /\ status'[n] = status[n]
      BY <1>3, <2>2 DEF Enqueue, SetStatus, TypeOK
    <3> QED
      BY <1>2, <1>3, <3>1 DEF Enqueue
  <2> QED
    BY <2>1, <2>2
<1>4. ASSUME NEW w \in Workers, ClaimNext(w) PROVE Attempted(n)'
  <2>1. PICK m \in First(worker[w].todo) :
          /\ SetStatus(m, IF status[m] = "pending" THEN "claimed" ELSE status[m])
          /\ UNCHANGED <<retries, rescues>>
    BY <1>4 DEF ClaimNext
  <2>2. queued'[n] = queued[n] /\ (status'[n] = "pending" => status[n] = "pending")
    BY <2>1 DEF SetStatus, TypeOK
  <2> QED
    BY <1>2, <2>1, <2>2
<1>5. ASSUME NEW m \in Messages, NEW a \in Acks, AckArrives(m, a) PROVE Attempted(n)'
  <2>1. rescues' = rescues
    BY <1>5 DEF AckArrives
  <2>2. CASE SetStatus(m, "delivered") /\ UNCHANGED retries
    <3>1. queued'[n] = queued[n] /\ (status'[n] = "pending" => status[n] = "pending")
      BY <2>2 DEF SetStatus, TypeOK
    <3> QED
      BY <1>2, <2>1, <2>2, <3>1
  <2>3. ASSUME NEW new, SetStatus(m, new), retries' = [retries EXCEPT ![m] = @ + 1],
               new \in {"pending", "failed"},
               new = "pending" => retries[m] + 1 < MaxWrongRegion
        PROVE  Attempted(n)'
    <3>1. CASE n = m
      <4>1. retries'[n] = retries[n] + 1 /\ status'[n] = new
        BY <2>3, <3>1 DEF SetStatus, TypeOK
      <4>2. queued'[n] = queued[n] \/ (queued'[n] = queued[n] + 1 /\ new = "pending")
        BY <2>3, <3>1 DEF SetStatus, TypeOK
      <4> QED
        BY <1>1, <2>1, <2>3, <3>1, <4>1, <4>2 DEF Attempts, Attempted
    <3>2. CASE n # m
      <4>1. queued'[n] = queued[n] /\ status'[n] = status[n] /\ retries'[n] = retries[n]
        BY <2>3, <3>2 DEF SetStatus, TypeOK
      <4> QED
        BY <1>2, <2>1, <4>1
    <3> QED
      BY <3>1, <3>2
  <2>4. ASSUME ~(SetStatus(m, "delivered") /\ UNCHANGED retries)
        PROVE  /\ SetStatus(m, IF a.error = "wrong_region" /\ retries[m] + 1 < MaxWrongRegion
                               THEN "pending" ELSE "failed")
               /\ retries' = [retries EXCEPT ![m] = @ + 1]
    BY <1>5, <2>4, Zenon DEF AckArrives
  <2> QED
    BY <2>2, <2>3, <2>4
<1>6. ASSUME NEW S \in SUBSET Messages, Requeue(S) PROVE Attempted(n)'
  <2>1. CASE n \in S
    <3>1. rescues'[n] # 0
      BY <1>1, <1>6, <2>1 DEF Requeue
    <3> QED
      BY <3>1 DEF Attempted
  <2>2. CASE n \notin S
    BY <1>2, <1>6, <2>2 DEF Requeue
  <2> QED
    BY <2>1, <2>2
<1>7. CASE RetryAll
  BY <1>6, <1>7 DEF RetryAll
<1>8. CASE RetrySelected
  BY <1>6, <1>8 DEF RetrySelected
<1>9. ASSUME \/ \E b \in Bots, w \in Workers : Poll(b, w)
             \/ \E w \in Workers : Answer(w) \/ AnswerNobody(w) \/ WorkerFails(w)
             \/ \E b \in Bots : PollFails(b) \/ Speak(b) \/ BotFails(b)
             \/ \E m \in Messages, a \in Acks : AckLost(m, a)
             \/ UNCHANGED vars
      PROVE  UNCHANGED rowVars
  BY <1>9 DEF Poll, Answer, AnswerNobody, WorkerFails, PollFails, Speak, BotFails, AckLost, vars
<1>10. ASSUME UNCHANGED rowVars PROVE Attempted(n)'
  BY <1>2, <1>10
<1> QED
  BY <1>3, <1>4, <1>5, <1>7, <1>8, <1>9, <1>10 DEF Next

\* A message no admin puts back is queued at most MAX_WRONG_REGION_RETRIES times, whatever
\* acknowledgements arrive in whatever order.
THEOREM QueuedAtMostMaxTimes == Spec => []AttemptsBounded
<1>1. Init => Attempts
  BY BotQueueAssumption DEF Init, Attempts, Attempted
<1>2. Attempts => AttemptsBounded
  BY DEF Attempts, Attempted, AttemptsBounded
<1> QED
  BY <1>1, <1>2, TypeCorrect, NothingBeforeInsertInvariant, AttemptsStep, PTL DEF Spec

\* An acknowledgement of success on its way, or one that has arrived, is for a message
\* that was spoken.
Heard(m)   == \E c \in Channels : <<m, c>> \in heard
AckedHeard == \A m \in Messages, a \in Acks : acks[m][a] > 0 /\ Succeeded(a) => Heard(m)

\* The bots are the in-world scripts and the headless client; none takes an
\* acknowledgement that names no success for a refusal.
NoReferenceBots == \A b \in Bots : Kind[b] # "reference"

LEMMA HeardStep ==
  ASSUME NoReferenceBots
  PROVE  TypeOK /\ AckedHeard /\ DeliveredWasHeard /\ [Next]_vars
           => (AckedHeard /\ DeliveredWasHeard)'
<1> SUFFICES ASSUME TypeOK, AckedHeard, DeliveredWasHeard, [Next]_vars
             PROVE  (AckedHeard /\ DeliveredWasHeard)'
  OBVIOUS
<1> USE DEF rowVars
<1>1. ASSUME heard \subseteq heard', UNCHANGED acks,
             \A m \in Messages : status'[m] = "delivered" => status[m] = "delivered"
      PROVE  (AckedHeard /\ DeliveredWasHeard)'
  BY <1>1 DEF AckedHeard, Heard, DeliveredWasHeard
<1>2. ASSUME NEW m \in Messages, NEW new, SetStatus(m, new), UNCHANGED heard,
             new = "delivered" => Heard(m)
      PROVE  DeliveredWasHeard'
  BY <1>2 DEF SetStatus, TypeOK, Heard, DeliveredWasHeard
<1>3. ASSUME NEW m \in Messages, Enqueue(m) PROVE (AckedHeard /\ DeliveredWasHeard)'
  BY <1>2, <1>3 DEF Enqueue, AckedHeard, Heard
<1>4. ASSUME NEW w \in Workers, ClaimNext(w) PROVE (AckedHeard /\ DeliveredWasHeard)'
  <2>1. PICK m \in First(worker[w].todo) :
          /\ SetStatus(m, IF status[m] = "pending" THEN "claimed" ELSE status[m])
          /\ UNCHANGED <<acks, heard>>
    BY <1>4 DEF ClaimNext
  <2>2. \A k \in Messages : status'[k] = "delivered" => status[k] = "delivered"
    BY <2>1 DEF SetStatus, TypeOK
  <2> QED
    BY <1>1, <2>1, <2>2
<1>5. ASSUME NEW b \in Bots, Speak(b) PROVE (AckedHeard /\ DeliveredWasHeard)'
  <2>1. PICK m \in First(bot[b].inbox) :
          /\ Deliver(m, Handle(Kind[b], Place[b], Content[m]))
          /\ UNCHANGED status
    BY <1>5 DEF Speak
  <2>2. m \in Messages
    BY DEF First, TypeOK, BotStates
  <2>3. PICK r : /\ Deliver(m, r)
                 /\ r.said \in Channels \cup {"none"}
                 /\ r.ack \in Acks
                 /\ r.acked \in BOOLEAN
                 /\ r.acked /\ Succeeded(r.ack) => r.said # "none"
    BY <2>1, <2>2, HandleType, BotQueueAssumption, NoReferenceBots DEF NoReferenceBots
  <2>4. heard \subseteq heard' /\ (r.said # "none" => Heard(m)')
    BY <2>3 DEF Deliver, Heard
  <2>5. ASSUME NEW k \in Messages, NEW a \in Acks, acks'[k][a] > 0, Succeeded(a)
        PROVE  Heard(k)'
    <3>1. CASE acks[k][a] > 0
      BY <2>4, <2>5, <3>1 DEF AckedHeard, Heard
    <3>2. CASE ~(acks[k][a] > 0)
      <4>1. acks' # acks
        BY <2>5, <3>2
      <4>2. r.acked /\ acks' = [acks EXCEPT ![m][r.ack] = @ + 1]
        BY <2>3, <4>1 DEF Deliver
      <4>3. k = m /\ a = r.ack
        BY <2>5, <3>2, <4>2 DEF TypeOK
      <4> QED
        BY <2>3, <2>4, <2>5, <4>2, <4>3
    <3> QED
      BY <3>1, <3>2
  <2> QED
    BY <2>1, <2>4, <2>5 DEF AckedHeard, Heard, DeliveredWasHeard
<1>6. ASSUME NEW m \in Messages, NEW a \in Acks, acks[m][a] > 0, UNCHANGED heard,
             acks' = [acks EXCEPT ![m][a] = @ - 1]
      PROVE  AckedHeard'
  <2>1. \A k \in Messages, c \in Acks : acks'[k][c] > 0 => acks[k][c] > 0
    BY <1>6 DEF TypeOK
  <2> QED
    BY <1>6, <2>1 DEF AckedHeard, Heard
<1>7. ASSUME NEW m \in Messages, NEW a \in Acks, AckArrives(m, a)
      PROVE  (AckedHeard /\ DeliveredWasHeard)'
  <2>1. UNCHANGED heard /\ acks[m][a] > 0
    BY <1>7 DEF AckArrives
  <2>2. PICK new : SetStatus(m, new) /\ (new = "delivered" => Succeeded(a))
    BY <1>7 DEF AckArrives
  <2>3. DeliveredWasHeard'
    BY <1>2, <2>1, <2>2 DEF AckedHeard
  <2>4. AckedHeard'
    BY <1>6, <1>7 DEF AckArrives
  <2> QED
    BY <2>3, <2>4
<1>8. ASSUME NEW m \in Messages, NEW a \in Acks, AckLost(m, a)
      PROVE  (AckedHeard /\ DeliveredWasHeard)'
  BY <1>6, <1>8 DEF AckLost, DeliveredWasHeard
<1>9. ASSUME NEW S \in SUBSET Messages, Requeue(S) PROVE (AckedHeard /\ DeliveredWasHeard)'
  BY <1>1, <1>9 DEF Requeue
<1>10. CASE RetryAll
  BY <1>9, <1>10 DEF RetryAll
<1>11. CASE RetrySelected
  BY <1>9, <1>11 DEF RetrySelected
<1>12. ASSUME \/ \E b \in Bots, w \in Workers : Poll(b, w)
              \/ \E w \in Workers : Answer(w) \/ AnswerNobody(w) \/ WorkerFails(w)
              \/ \E b \in Bots : PollFails(b) \/ BotFails(b)
              \/ UNCHANGED vars
       PROVE  UNCHANGED <<status, acks, heard>>
  BY <1>12 DEF Poll, Answer, AnswerNobody, WorkerFails, PollFails, BotFails, vars
<1>13. ASSUME UNCHANGED <<status, acks, heard>> PROVE (AckedHeard /\ DeliveredWasHeard)'
  BY <1>1, <1>13
<1> QED
  BY <1>3, <1>4, <1>5, <1>7, <1>8, <1>10, <1>11, <1>12, <1>13 DEF Next

\* With the bots of the repository a row says "delivered" only if its message was spoken.
THEOREM OnlyHeardIsDelivered ==
  ASSUME NoReferenceBots PROVE Spec => []DeliveredWasHeard
<1>1. Init => AckedHeard /\ DeliveredWasHeard
  BY DEF Init, AckedHeard, DeliveredWasHeard
<1>2. TypeOK /\ AckedHeard /\ DeliveredWasHeard /\ [Next]_vars => (AckedHeard /\ DeliveredWasHeard)'
  BY HeardStep
<1> QED
  BY <1>1, <1>2, TypeCorrect, PTL DEF Spec
=============================================================================
