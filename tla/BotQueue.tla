------------------------------ MODULE BotQueue ------------------------------
(***************************************************************************)
(* The Grid Service Bot message queue: rows of bot_message_queue, the      *)
(* gunicorn workers that answer GET /api/bot/queue and GET /api/bot/ack,   *)
(* the in-world bots that poll, speak and acknowledge, and the retry       *)
(* buttons of the admin page.  Every database call that commits is a step  *)
(* of its own; requests, answers and acknowledgements may be lost.         *)
(***************************************************************************)
EXTENDS BotLine, FiniteSets

CONSTANTS
  Messages,          \* the ids of the rows that will be inserted, in id order
  Content,           \* [Messages -> message record, see BotLine]
  Workers,           \* gunicorn worker processes
  Bots,              \* clients of the bot API
  Kind,              \* [Bots -> {"lsl", "client", "reference"}]
  Place,             \* [Bots -> region name]: where each bot stands
  BatchLimit,        \* rows per poll (20 in the code)
  MaxWrongRegion,    \* MAX_WRONG_REGION_RETRIES (20 in the code)
  MaxRescues,        \* bound: admin retries per message
  Lossy              \* whether requests, answers, acks and processes may fail

NoBot == "none"

ASSUME BotQueueAssumption ==
  /\ Messages \subseteq Nat
  /\ Content \in [Messages -> [uuid : STRING, region : STRING, group : STRING,
                              channel : Channels, subject : STRING,
                              high : BOOLEAN, created : Nat]]
  /\ NoBot \notin Bots
  /\ Kind \in [Bots -> {"lsl", "client", "reference"}]
  /\ BatchLimit \in Nat \ {0}
  /\ MaxWrongRegion \in Nat \ {0}
  /\ MaxRescues \in Nat
  /\ Lossy \in BOOLEAN

VARIABLES
  status,     \* [Messages -> Statuses]: the status column, "absent" before INSERT
  retries,    \* [Messages -> Nat]: the retry_count column
  worker,     \* [Workers -> poll request being answered]
  bot,        \* [Bots -> what the client is doing]
  acks,       \* [Messages -> [Acks -> Nat]]: ack requests on their way
  (* history, read by no action but the bound on rescues *)
  queued,     \* [Messages -> Nat]: times the row became pending
  handed,     \* [Messages -> [Workers -> Nat]]: times a worker's answer with it arrived
  heard,      \* {<<message, channel>>}: what was spoken in-world
  rescues     \* [Messages -> Nat]: times an admin put the row back

rowVars == <<status, retries, queued, rescues>>
vars    == <<status, retries, worker, bot, acks, queued, handed, heard, rescues>>

Polls     == [busy : BOOLEAN, client : Bots \cup {NoBot},
              todo : SUBSET Messages, got : SUBSET Messages]
BotStates == [doing : {"resting", "waiting", "speaking"}, inbox : SUBSET Messages]
Statuses == {"absent", "pending", "claimed", "delivered", "failed"}
Idle     == [busy |-> FALSE, client |-> NoBot, todo |-> {}, got |-> {}]
Resting  == [doing |-> "resting", inbox |-> {}]

(***************************************************************************)
(* ORDER BY FIELD(priority, 'high', 'normal'), created_at: rows of equal   *)
(* priority and second come in any order.                                  *)
(***************************************************************************)
Before(m, n) ==
  \/ Content[m].high /\ ~Content[n].high
  \/ Content[m].high = Content[n].high /\ Content[m].created < Content[n].created
First(S)    == {m \in S : \A n \in S : ~Before(n, m)}
Prefixes(S) == {P \in SUBSET S : \A m \in P, n \in S \ P : ~Before(n, m)}
\* Mutant: the poll selects rows that another poll has claimed as well.
PendingOrClaimed == {m \in Messages : status[m] \in {"pending", "claimed"}}
Pending     == {m \in Messages : status[m] = "pending"}
Batches     == {P \in Prefixes(Pending) :
                  \/ Cardinality(P) = BatchLimit
                  \/ Cardinality(P) < BatchLimit /\ P = Pending}

Init ==
  /\ status  = [m \in Messages |-> "absent"]
  /\ retries = [m \in Messages |-> 0]
  /\ worker  = [w \in Workers |-> Idle]
  /\ bot     = [b \in Bots |-> Resting]
  /\ acks    = [m \in Messages |-> [a \in Acks |-> 0]]
  /\ queued  = [m \in Messages |-> 0]
  /\ handed  = [m \in Messages |-> [w \in Workers |-> 0]]
  /\ heard   = {}
  /\ rescues = [m \in Messages |-> 0]

\* Set the status of one row; a row that becomes pending is queued once more.
SetStatus(m, new) ==
  /\ status' = [status EXCEPT ![m] = new]
  /\ queued' = IF new = "pending" /\ status[m] # "pending"
               THEN [queued EXCEPT ![m] = @ + 1] ELSE queued

\* enqueue_bot_message: one INSERT, committed on its own.
Enqueue(m) ==
  /\ status[m] = "absent"
  /\ \A n \in Messages : n < m => status[n] # "absent"
  /\ SetStatus(m, "pending")
  /\ UNCHANGED <<retries, worker, bot, acks, handed, heard, rescues>>

\* A resting bot (timer, touch, or the client's loop) polls; an idle worker
\* runs claim_pending_messages, which reads rows and changes none.
Poll(b, w) ==
  /\ bot[b].doing = "resting"
  /\ ~worker[w].busy
  /\ bot' = [bot EXCEPT ![b].doing = "waiting"]
  /\ \E P \in Batches :
       worker' = [worker EXCEPT ![w] =
                    [busy |-> TRUE, client |-> b, todo |-> P, got |-> P]]
  /\ UNCHANGED <<rowVars, acks, handed, heard>>

\* Mutants of the claim: the UPDATE is not committed, a status outside the column's
\* enumeration is written.
ClaimUnsaved(w) ==
  \E m \in First(worker[w].todo) :
    /\ worker' = [worker EXCEPT ![w].todo = @ \ {m}]
    /\ UNCHANGED <<rowVars, bot, acks, handed, heard>>
ClaimUnknownStatus(w) ==
  \E m \in First(worker[w].todo) :
    /\ worker' = [worker EXCEPT ![w].todo = @ \ {m}]
    /\ SetStatus(m, "sent")
    /\ UNCHANGED <<retries, bot, acks, handed, heard, rescues>>

\* mark_message_claimed for the next row of the batch. Its result is not looked
\* at: the row stays in the answer whether or not it was still pending.
ClaimNext(w) ==
  \E m \in First(worker[w].todo) :
    /\ worker' = [worker EXCEPT ![w].todo = @ \ {m}]
    /\ SetStatus(m, IF status[m] = "pending" THEN "claimed" ELSE status[m])
    /\ UNCHANGED <<retries, bot, acks, handed, heard, rescues>>

\* The answer goes out and arrives as far as the line P ends: all of it, or with
\* Lossy any prefix of it (an in-world script reads a bounded response body).
Answer(w) ==
  /\ worker[w].busy
  /\ worker[w].todo = {}
  /\ worker[w].client # NoBot
  /\ \E P \in Prefixes(worker[w].got) :
       /\ Lossy \/ P = worker[w].got
       /\ bot' = [bot EXCEPT ![worker[w].client] =
                    IF P = {} THEN Resting ELSE [doing |-> "speaking", inbox |-> P]]
       /\ handed' = [m \in Messages |->
                       IF m \in P THEN [handed[m] EXCEPT ![w] = @ + 1] ELSE handed[m]]
  /\ worker' = [worker EXCEPT ![w] = Idle]
  /\ UNCHANGED <<rowVars, acks, heard>>

\* The worker answers a client that has stopped waiting.
AnswerNobody(w) ==
  /\ worker[w].busy
  /\ worker[w].todo = {}
  /\ worker[w].client = NoBot
  /\ worker' = [worker EXCEPT ![w] = Idle]
  /\ UNCHANGED <<rowVars, bot, acks, handed, heard>>

\* The request of a waiting bot fails (http_response with a status other than
\* 200, a URLError) while its worker goes on.
PollFails(b) ==
  /\ Lossy
  /\ bot[b].doing = "waiting"
  /\ bot' = [bot EXCEPT ![b] = Resting]
  /\ worker' = [w \in Workers |->
                  IF worker[w].client = b THEN [worker[w] EXCEPT !.client = NoBot]
                  ELSE worker[w]]
  /\ UNCHANGED <<rowVars, acks, handed, heard>>

\* The worker fails between two statements: rows it has marked stay claimed.
WorkerFails(w) ==
  /\ Lossy
  /\ worker[w].busy
  /\ bot' = [b \in Bots |-> IF b = worker[w].client THEN Resting ELSE bot[b]]
  /\ worker' = [worker EXCEPT ![w] = Idle]
  /\ UNCHANGED <<rowVars, acks, handed, heard>>

\* Speaking or not, and the one acknowledgement request sent (or none).
Deliver(m, r) ==
  /\ heard' = IF r.said = "none" THEN heard ELSE heard \cup {<<m, r.said>>}
  /\ acks' = IF r.acked THEN [acks EXCEPT ![m][r.ack] = @ + 1] ELSE acks

\* A bot takes the next line of its answer and delivers it.
Speak(b) ==
  \E m \in First(bot[b].inbox) :
    /\ Deliver(m, Handle(Kind[b], Place[b], Content[m]))
    /\ bot' = [bot EXCEPT ![b] = IF bot[b].inbox = {m} THEN Resting
                                 ELSE [bot[b] EXCEPT !.inbox = @ \ {m}]]
    /\ UNCHANGED <<rowVars, worker, handed>>

\* The bot stops or is reset with lines unread.
BotFails(b) ==
  /\ Lossy
  /\ bot[b].doing = "speaking"
  /\ bot' = [bot EXCEPT ![b] = Resting]
  /\ UNCHANGED <<rowVars, worker, acks, handed, heard>>

\* Mutant: the retry that reaches the limit is still granted.
AckOffByOne(m, a) ==
  /\ acks[m][a] > 0
  /\ acks' = [acks EXCEPT ![m][a] = @ - 1]
  /\ \/ /\ Succeeded(a)
        /\ SetStatus(m, "delivered")
        /\ UNCHANGED retries
     \/ /\ ~Succeeded(a)
        /\ SetStatus(m, IF a.error = "wrong_region" /\ retries[m] + 1 <= MaxWrongRegion
                         THEN "pending" ELSE "failed")
        /\ retries' = [retries EXCEPT ![m] = @ + 1]
  /\ UNCHANGED <<worker, bot, handed, heard, rescues>>

\* ack_message: three UPDATEs, none of which looks at the row's status.
AckArrives(m, a) ==
  /\ acks[m][a] > 0
  /\ acks' = [acks EXCEPT ![m][a] = @ - 1]
  /\ \/ /\ Succeeded(a)
        /\ SetStatus(m, "delivered")
        /\ UNCHANGED retries
     \/ /\ ~Succeeded(a)
        /\ SetStatus(m, IF a.error = "wrong_region" /\ retries[m] + 1 < MaxWrongRegion
                         THEN "pending" ELSE "failed")
        /\ retries' = [retries EXCEPT ![m] = @ + 1]
  /\ UNCHANGED <<worker, bot, handed, heard, rescues>>

\* An ack request that never reaches the portal: the bots send it once.
AckLost(m, a) ==
  /\ Lossy
  /\ acks[m][a] > 0
  /\ acks' = [acks EXCEPT ![m][a] = @ - 1]
  /\ UNCHANGED <<rowVars, worker, bot, handed, heard>>

\* retry_failed_messages puts every row of S back; retry_count is not reset.
Requeue(S) ==
  /\ S # {}
  /\ \A m \in S : rescues[m] < MaxRescues
  /\ status'  = [m \in Messages |-> IF m \in S THEN "pending" ELSE status[m]]
  /\ queued'  = [m \in Messages |-> IF m \in S THEN queued[m] + 1 ELSE queued[m]]
  /\ rescues' = [m \in Messages |-> IF m \in S THEN rescues[m] + 1 ELSE rescues[m]]
  /\ UNCHANGED <<retries, worker, bot, acks, handed, heard>>

\* "Retry all failed": claimed rows are left alone.
RetryAll == Requeue({m \in Messages : status[m] = "failed"})

\* "Retry selected": the ticked rows that are failed or claimed.
RetrySelected ==
  \E S \in SUBSET {m \in Messages : status[m] \in {"failed", "claimed"}} : Requeue(S)

Next ==
  \/ \E m \in Messages : Enqueue(m)
  \/ \E b \in Bots, w \in Workers : Poll(b, w)
  \/ \E w \in Workers : ClaimNext(w) \/ Answer(w) \/ AnswerNobody(w) \/ WorkerFails(w)
  \/ \E b \in Bots : PollFails(b) \/ Speak(b) \/ BotFails(b)
  \/ \E m \in Messages, a \in Acks : AckArrives(m, a) \/ AckLost(m, a)
  \/ RetryAll
  \/ RetrySelected

Spec == Init /\ [][Next]_vars

(***************************************************************************)
(* Fairness: the bot's timer keeps polling, a worker finishes the request  *)
(* it has begun, a bot reads the lines it was given, a sent ack arrives.   *)
(* Nobody is obliged to enqueue, to retry, or to lose anything.            *)
(***************************************************************************)
Fairness ==
  /\ \A b \in Bots : SF_vars(\E w \in Workers : Poll(b, w))
  /\ \A w \in Workers : WF_vars(ClaimNext(w)) /\ WF_vars(Answer(w)) /\ WF_vars(AnswerNobody(w))
  /\ \A b \in Bots : WF_vars(Speak(b))
  /\ \A m \in Messages, a \in Acks : WF_vars(AckArrives(m, a))

FairSpec == Spec /\ Fairness
-----------------------------------------------------------------------------
\* Type invariant: the columns keep to their enumeration, a worker or bot at rest
\* holds no rows, and what a worker still has to mark is part of its answer.
TypeOK ==
  /\ status \in [Messages -> Statuses]
  /\ retries \in [Messages -> Nat]
  /\ worker \in [Workers -> Polls]
  /\ bot \in [Bots -> BotStates]
  /\ acks \in [Messages -> [Acks -> Nat]]
  /\ queued \in [Messages -> Nat]
  /\ handed \in [Messages -> [Workers -> Nat]]
  /\ heard \subseteq (Messages \X Channels)
  /\ rescues \in [Messages -> Nat]
  /\ \A w \in Workers : worker[w].todo \subseteq worker[w].got

\* Although a poll ignores whether it won the claim, each web worker hands a
\* message to a bot at most once for every time the row became pending: two
\* overlapping polls can deliver a message twice, but never more often than there
\* are workers, and one worker alone never delivers twice what was queued once.
AtMostOncePerWorker ==
  \A m \in Messages, w \in Workers : handed[m][w] <= queued[m]

\* A row says "delivered" only if some bot spoke the message, on whatever channel,
\* however late, duplicated or out of order the acknowledgements arrive.
DeliveredWasHeard ==
  \A m \in Messages : status[m] = "delivered" => \E c \in Channels : <<m, c>> \in heard

\* A message no admin has put back is queued at most MAX_WRONG_REGION_RETRIES times,
\* whatever mixture of duplicate and late refusals reaches the portal.
AttemptsBounded ==
  \A m \in Messages : rescues[m] = 0 => queued[m] <= MaxWrongRegion

\* A region announcement for no region: without its empty fields the line is too short for
\* GridServiceBot.lsl, which drops it and acknowledges nothing.
Unread(m) ==
  /\ Content[m].channel = "region" /\ Content[m].region = "" /\ Content[m].uuid = ""
  /\ \E b \in Bots : Kind[b] = "lsl"

\* If nothing is lost, every message that is in the queue is some time later delivered or failed: no
\* claim outlives its acknowledgement, and neither a batch full of messages for another region nor
\* one that is never acknowledged keeps the ones behind it waiting for ever.  An announcement that
\* GridServiceBot.lsl leaves unread is not settled: it is claimed, and stays so until an admin
\* puts it back.
EventuallySettled ==
  \A m \in Messages :
    (status[m] = "pending")
      ~> (status[m] \in {"delivered", "failed"} \cup (IF Unread(m) THEN {"claimed"} ELSE {}))

\* The queue implements the ledger: a row that becomes pending is a grant, the
\* answer of a worker that reaches a bot hands out its rows, the rest is unseen.
Ledger == INSTANCE HandoutLedger
            WITH Items <- Messages, Servers <- Workers, granted <- queued, given <- handed
KeepsLedger == Ledger!Spec

\* The delivery rules of packaging/inworld/README.md: a delivered message was spoken on
\* the channel its row names, and a region message is not refused by bots that stand in
\* its region.
DeliveryRulesKept ==
  \A m \in Messages :
    /\ status[m] = "delivered" => <<m, Content[m].channel>> \in heard
    /\ (\A b \in Bots : Content[m].region = Place[b]) => retries[m] = 0
=============================================================================
