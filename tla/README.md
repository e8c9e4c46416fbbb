# Verification of the OS Pariah Portal

OS Pariah Portal is a Flask application that runs the community side of an
OpenSimulator grid: registration, news, calendar, tickets, regions, policies,
bans, inventory backups and a message queue for an in-world bot. This directory
holds TLA+ modules translated from its source, the TLC configurations that check
them on small instances, and proofs that TLAPS checks for every value of the
constants.

    tlc -workers 2 -config BotQueueOverlap.cfg MCBotQueue.tla     # one run
    tlc -workers 2 -config Portal.cfg MCPortal.tla                # the accounts, desks and scripts together
    tlapm BotQueueProofs.tla                                      # the proofs of one module

`PROJECT.json` is the index: the runs, the lines each definition stands for, the
hazards with the properties that cover them, the mutants that show each property
can fail, the disagreements found, and the theorems.

## 1. Inventory

### How the program runs

* The web application runs under gunicorn with four synchronous workers
  (processes). A request is served by one worker, with one pooled MariaDB
  connection (`app/utils/db.py`); autocommit is off and the isolation level is
  REPEATABLE READ, so a transaction reads the rows as they were at its first
  SELECT, while UPDATE and DELETE act on the rows as last committed. Nothing in
  the portal takes a lock of its own: every "check, then write" is two steps. A row
  that was written stays locked until the commit, and a commit comes wherever the
  code writes an audit entry, in the middle of a handler too.
* systemd runs oneshot units beside it: the log worker and the calendar worker on
  timers, the backup worker when a request (or the boot of the portal) starts it,
  and two synchronisation workers for bans; the migration engine runs before every
  start of the service, and by hand.
* Outside the portal are the Robust grid services (a second database and an HTTP
  API), the region simulators, the in-world bot scripts, and mail.

### Components

| Component | State | Operations | What makes it hard | What must hold |
|---|---|---|---|---|
| Grid bot queue (`grid_bot.py`, `api/routes.py`, LSL scripts, `grid_bot_client.py`) | `bot_message_queue` | enqueue, poll and claim, acknowledge, retry | overlapping polls, lost answers and acks, late acks | bounded hand-outs and retries, delivered means spoken, every message settles unless no bot acknowledges it |
| Calendar job (`scripts/calendar_notifications.py`) | `event_notification_log` | a run every 15 minutes | time windows, crashes between commits, log rows that fail unnoticed, stale reads | nothing lost or repeated but for such a lapse, nothing void sent by a later run |
| Inventory backups (`user/routes.py`, `worker.py iar`) | `iar_backups`, `user_notices`, files | request, start the unit, process, clean up | check-then-insert, lost starts, kills, a foreign process writing the file | every request ends, one notice, no file lost |
| Events and moderation (`events/routes.py`) | `calendar_events`, `event_suggestions`, `event_follows` | suggest, withdraw, approve, reject, edit, cancel, delete, follow | concurrent moderators, edits from stale forms | one event per suggestion, cancellations stay |
| Registration and approval (`register/routes.py`, `admin/routes.py`, `user/routes.py`) | `pending_registrations`, grid levels | apply, follow the link, approve, reject, change the mail address | row and level written one after the other, in orders that differ | who is rejected stays out |
| Login, OIDC, password resets (`auth/routes.py`, `password_resets.py`) | sessions, codes, tokens, `password_resets` | sign in and out, authorize, exchange, ask for a reset, reset | a secret looked up in one statement and deleted in another | a secret is honoured once by each worker, signing out ends access unless its deletion failed |
| Policies (`policies/routes.py`, `user/routes.py`, `app/__init__.py`) | version, `policy_agreements`, session | bump, agree, decline | version read in one statement and used in another, agreement seen through the session | who browses has agreed since the last bump |
| Bans and roles (`user_mgmt.py`, `sync_*.py`) | the four tables of bans, grid levels, `user_rbac`, Robust's configuration, firewall | ban, lift, set level and roles, synchronise | two databases, commits within a handler, scripts that overlap and rewrite one file | who is locked out is on record, machines are refused |
| Tickets (`tickets/routes.py`) | `tickets`, replies, attachments, files | open, reply, claim, close, delete | the assignee read is written back later | a claim stands |
| Regions (`regions/routes.py`) | `region_configs`, `region_settings`, `hosts` | add, edit, import, toggle, delete, fetch | settings written one by one, in two orders, only those submitted | what a request wrote is seen as a whole |
| Log ingest (`worker.py logs`) | gatekeeper tables, files | open, write, commit, rename | crashes, failed statements, deadlocks, files tried again | what is shown is the newest |
| Migrations (`migrate.py`) | schema, `schema_versions` | apply in order | DDL commits by itself, runs overlap and are killed | the schema is what is recorded, and one more at most |
| Texture snapshot (`texture_gallery.py`) | snapshot table | rebuild | – | – |
| Settings, news, rendering, installation helpers | tables of independent rows, files | single statements, pure conversions | – | – |

The components meet in five places: the calendar job and the cancellation of
events enqueue bot messages; the job reads events and follows that web requests
change meanwhile; backups, bans and logs start units by `systemctl start`, which
does nothing while the unit is active; registration, bans, roles, policies and
resets write to the grid over HTTP and to the portal's own database without a
common transaction, and all of them set the same user level; and every request
needs one of the few workers, which may die in it.

## 2. Modules

| Module | Models | Lines |
|---|---|---|
| `BotLine` | the text line of a message and what each kind of bot does with it | `grid_bot.py` 256-271, `GridServiceBot.lsl`, `GridServiceBotGroup.lsl`, `grid_bot_client.py` |
| `BotQueue` | the queue: rows, polls, claims, bots, acknowledgements, admin | `grid_bot.py`, `api/routes.py` 173-223, `admin/routes.py` 584-592 |
| `HandoutLedger` | abstract: grants and hand-outs | – |
| `BotQueueProofs` | theorems about `BotQueue` | – |
| `CalendarNotify` | the calendar job, its timer, organisers and followers | `calendar_notifications.py`, `event_notifications.py` 143-174 |
| `NoticeLog` | abstract: the messages of a notice, queued, and its entry in the log | – |
| `CalendarNotifyProofs` | theorems about `CalendarNotify` | – |
| `IarBackup` | backup requests, the unit, the region, clean-up | `user/routes.py` 155-190, `worker.py` 206-417 |
| `BackupQueue` | abstract: backups served one at a time, told once, deleted when old | – |
| `IarBackupProofs` | theorems about `IarBackup` | – |
| `SuggestionReview` | suggestions and their review by concurrent moderators | `events/routes.py` 470-492, 609-665, 724-807 |
| `SuggestionReviewProofs` | theorems about `SuggestionReview` | – |
| `EventEditing` | organisers' and followers' requests about events | `events/routes.py` 545-587, 813-1037, `event_notifications.py` 95-140 |
| `EventEditingProofs` | theorems about `EventEditing` | – |
| `Gunicorn` | the workers and the bound on failures | `packaging/pariah.service` |
| `GridAccounts` | levels in the grid, sessions, rows of `user_rbac`, and the calls that change a level | `robust_api.py`, `audit.py`, `schema.py` 93-123 |
| `Registration` | applicants and members who change their address | `register/routes.py`, `admin/routes.py` 105-246, `user/routes.py` 86-152 |
| `Bans` | bans, their lifting, and the two scripts | `user_mgmt.py` 435-955, `sync_robust.py`, `sync_firewall.py` |
| `SignIn` | signing in and out, codes, tokens, resets | `auth/routes.py`, `password_resets.py` |
| `PolicyAgreement` | versions, agreements and the hook that guards every page | `policies/routes.py`, `user/routes.py` 201-260, `app/__init__.py` 121-186 |
| `Roles` | roles, and levels set by hand | `user_mgmt.py` 958-1123 |
| `Regions` | regions and the simulators that fetch them | `regions/routes.py` |
| `RegionStore` | abstract: regions whose submitted settings are replaced at once, and which are removed as a whole | – |
| `Tickets` | tickets, replies, attachments | `tickets/routes.py` |
| `LogIngest` | the ingestion of login requests | `worker.py` 84-203 |
| `Migrations` | the migration engine | `migrate.py` |
| `SchemaUpgrade` | abstract: files executed and recorded in order | – |
| `Portal` | their composition | `packaging/pariah.service` 25-32 |
| `AccountProofs`, `DeskProofs`, `ScriptProofs` | theorems about `Portal` | – |
| `MC*` | constants and symmetry for TLC | – |

### The bot queue

A row is `status[m]` with `retries[m]` (`retry_count`). `Enqueue` is one INSERT.
A poll is a request of a bot served by a worker in steps, as in `bot_queue`:
`Poll` reads a batch (`claim_pending_messages`), `ClaimNext` is one
`mark_message_claimed`, each committed on its own, and `Answer` sends the text.
The claim's result is ignored in the code, and so it is in `ClaimNext`. Answers
may arrive cut short (an in-world script reads a bounded body), polls and workers
may fail, acknowledgements are requests on their way (`acks`) that may be lost
and arrive in any order. `AckArrives` is `ack_message`, which looks at no status.
`BotLine` translates the line and the three ways of reading it; the LSL script's
`llParseString2List` drops empty fields.

`HandoutLedger` says what the queue promises and nothing else: granted messages,
each handed out by each server at most once per grant. `BotQueue` implements it
with `granted <- queued` and `given <- handed`.

| Run | Shows | Bounds |
|---|---|---|
| `bot_overlap` | the safety properties and the refinement, with every failure allowed | one message, two workers, two bots of different kinds, limit 3, one admin retry: enough for both polls to overlap and for late and duplicate acks to meet |
| `bot_settles` | every queued message is settled, but for one that the in-world script never acknowledges | three messages (an IM, a region announcement, one for no region), batch of 1, nothing lost |
| `bot_delivery` | a disagreement (section 4) | two messages, one in-world script |

A region announcement that names no region leaves too short a line once its empty fields are gone;
`GridServiceBot.lsl` returns without a word, and the row stays claimed although nothing was lost.
`Unread(m)` names these messages: `EventuallySettled` lets them rest in `claimed`, and says that they
keep no other message waiting. An admin's requeueing is the only way out, and leads there again.

The safety run has one message; that a batch of any length keeps the same promises
row by row is what the proofs add. `BotLine` also has the bot that an outsider would
write from the API table of `packaging/inworld/README.md` (`ReferenceBot`): no run
contains one, and the theorem `OnlyHeardIsDelivered` names its absence as its
assumption.

Fairness in `bot_settles`: a bot's timer keeps polling (strong, since a worker is
not always free), a worker finishes the request it began, a bot reads its lines,
an acknowledgement sent arrives. Nobody is obliged to enqueue, retry or lose
anything. The timer runs every 30 seconds and a gunicorn worker runs its request
to the end, which is what the code's scheduling gives.

### The calendar job

Time is counted in units of thirty seconds; a run takes less than one, so the
clock stands while a run is under way. A run reads what is due (`BeginRun`), goes
through the announcements in the order of the code (`Consider`, one `Send` per
INSERT or mail, `Log`), then reads the followers (`ReadFollows`) and goes through
the reminders. A transaction reads the rows as at its first SELECT: `job.view`
holds them, `Log`'s commit ends the transaction. `Crash` may come between any two
steps. `LogFails` is the INSERT that fails: `log_notification_sent` rolls back and answers False, the
job does not look at the answer and goes on, and the notice is in no log. Both are lapses; `MaxLapses`
bounds them together. Web requests change events at any moment, and `job.overtaken` notes which events
were changed since the run began.

`NoticeLog` says what the log is for, without clock or runs: a notice's messages are queued,
again only by an attempt after one that lapsed (it died, or its entry failed), and the notice is logged
once, when all that must be are queued. `CalendarNotify` implements it with `queued <- sent`,
`logged <- log` and `lapses <- Lapses`; mails are the messages that need not be sent, since the code logs a reminder
whose mail failed.

| Run | Shows | Bounds |
|---|---|---|
| `calendar_announce` | nothing announced twice without a lapse, logged before it is queued, missed, or sent although void by a run that began after the change; the job implements the log of notices | a series of two occurrences three units apart, an offset of three minutes, a follower, 17.5 minutes, runs at most 15.5 minutes apart, two lapses, two changes |
| `calendar_reminder` | a disagreement (section 4) | one event, one follower |

The occurrences lie so close that one run finds both due, which is what lets a
lapse, a change and a second announcement meet; the horizon holds two runs of the
timer, the first of which may die or fail to log.

`VoidOnlyIfOvertaken` compares what is about to be sent with the rows as they are at that moment, not
with what the run had read: a run works on several snapshots, one per transaction, and keeps a list of
what was due. What has ceased to stand is sent only if its event was changed while this very run was
under way; a run that begins after the cancellation never sends it.

`UpcomingIsAnnounced` holds as long as no run comes later than the announcement
window (15.5 minutes) after the one before. The shipped timer leaves systemd's
`AccuracySec` at its default of one minute, which is more than those thirty
seconds; the run states the assumption, it does not remove the hazard.

### Inventory backups

A request is three steps (`Check`, `Insert`, `Trigger`) of a web worker. The unit
is a state machine along `process_iar_backups` and `cleanup_old_iars`: reset what
a dead run left in processing, pick a row, inject the command into the region's
console, wait for the file, sample its size until it is stable, finish; then
sweep and purge. `Trigger` on an active unit does nothing, as `systemctl start`
does. `Fail` ends a row as failed: before the command, when no file appears, or when the file cannot be
looked at or the row cannot be completed. `Crash` kills the unit anywhere; `Abandon` is the outer `except`, after which
the process goes on to clean-up with the row still in processing. The region
(external) creates the file empty, then partial, then whole, and may die.

`BackupQueue` is what is left when unit, region and files are taken away: one backup is served
at a time, one that was begun may be put back, its end gives it an archive of no other and is told
once, and only an ended and old one is deleted. `IarBackup` implements it with `archive <- file`
and `told <- notices`; a row's file name is written in the UPDATE that ends it, so the command, the
waiting and the sampling are all invisible there.

| Run | Shows | Bounds |
|---|---|---|
| `iar_crashes` | one row in processing, one notice per finished backup, no file removed early; the unit implements the queue of backups | two rows, three archives, one failure of the unit, one of the region, pauses |
| `iar_served` | at most one unfinished backup per web worker and user; a start serves everything pending at that moment | three rows, one user, two web workers, nothing fails |
| `iar_lost_start` | a disagreement (section 4) | two users |

`iar_crashes` has no liveness property and uses the symmetry of users and of web workers;
the other two use none. Fairness: a request under way is finished, the
unit runs on, the region does as told; nobody is obliged to make a request.

### Suggestions and events

Both modules model a request as the record `req[w]` of the worker that serves it:
`ReadPending`, `CountPending` and `Begin` are the reads at the beginning of a handler,
the action named for the handler's work (`Approve`, `Save`, `CancelSeries`, ...) is its
transaction, and the messages after the commit are steps of their own. `Fail` may end
a request at any of these points. `Write` is an UPDATE by id, which leaves a deleted
row alone. An UPDATE waits for the row lock of another one and then acts on what that
one committed, so transactions of two workers take effect one after the other.

| Run | Shows | Bounds |
|---|---|---|
| `suggestions` | an approved suggestion has its event, no worker publishes twice, the limit is exceeded by at most the requests of other workers, decisions are told | two suggestions of one member, limit 1, two workers, one failure: two reviews of one suggestion, or two submissions, overlap |
| `events` | cancellations stand unless organisers' requests overlapped, and are told to all who followed | one event with two occurrences, one follower, two workers, four requests (follow, two cancellations and an edit), one failure |

`CancellationStands` is conditional because the code does lose cancellations where two
organisers' requests overlap: `Edit` writes back the status it read, `AskCancel` the list
of cancelled occurrences it read. Likewise `PublishedOncePerWorker` allows one event per
worker, because two moderators who approve at once publish twice.

Fairness: a worker goes on with the request it has begun, as a gunicorn worker does
unless it fails (`Fail`). Nobody is obliged to make a request.

### The portal

`Portal` puts the remaining parts together. Each part has a module with its own
variables, `XInit`, and three operators for a worker `w`: `XStart(w)` takes a
request, `XContinue(w)` does its next step, `XFail(w)` loses it. `Portal` adds the rest:
a worker that is `Free` in every part may be given a request of any part, goes on with
it, or dies in it; the scripts, the simulators and time go on beside (`Beside`).
`Only(part)` says which variables a step of a part leaves alone. The parts that handle
accounts share `GridAccounts`: the level that Robust keeps, which they set by the same
HTTP call, and the sessions. The call may take effect although its answer is lost
(`Unanswered`). Regions, tickets, ingestion and migrations share only the workers.

* `Registration`: a row is created, locked and recorded in three steps; following the link
  holds the row's lock while it calls the grid (`Unlocked`); approving sets the level and then
  the status, rejecting the other way round. `SetStatus` is an UPDATE: it finds the row or does
  nothing.
* `Bans`: a ban collects the accounts linked to a machine (`UsersOf`, `Linked`) and sets their
  levels one by one. Each call writes an audit entry on the same connection and so commits
  (`Publish`): the ban is visible, and can be lifted, before it is complete. `macrun` and
  `hostrun` are runs of the two scripts. `sync_robust.py` reads the bans, reads the file, opens it
  for writing (which truncates it), writes it and restarts Robust, each a step of its own (`ReadMacs`,
  `ReadIni`, `OpenIni`, `WriteIni`, `RestartRobust`); a run that reads while another has the file
  truncated finds no sections, so it writes none, and neither does any later run (`torn`). A script may
  fail at any of these steps (`ScriptFails`), and what it did stays; a `firewall-cmd` that fails is
  logged and the script succeeds (`CommandsFail`). Runs that succeed only add rules to the firewall.
* `SignIn`: `ReadCode` and `DeleteCode`, `ReadReset` and `BurnResets` are the two statements of
  using a secret up; `Grant` and `ChangePassword` come after or between. `LogoutFails` is a DELETE that
  fails: it is logged, the user is signed out and told so, and codes and access tokens live on
  (`undeleted`). A new reset token replaces the old ones in one transaction (`RenewReset`).
* `PolicyAgreement`: `BeginBump` reads the version, `CommitBump` writes the next. A request that
  agrees reads the version in the hook, before its handler runs; `MayBrowse` is that hook.
* `Roles`: the level read at the beginning decides what is set at the end.
* `Regions`: a request writes its settings one by one, in the order of its handler (`NextKey`);
  what it has touched stays locked (`KeyLocked`), and two that wait for each other end by the
  undoing of one (`Deadlock`). It writes only what it submits (`Submitted`): an edit skips empty
  fields, an import has no port if the grid knows none. `Fetch` is a simulator that boots.
* `Tickets`: `ReadTicket` reads status and assignee, `CommitReply` writes back what follows from
  them. The file is on disk before its row.
* `LogIngest`: `IngestLine` or `StatementFails` for every sighting of a file, then `CommitFile`,
  then `RenameFile`. A deadlock takes all uncommitted rows along; a file that fails is tried again
  in the next run, after newer ones.
* `Migrations`: a file is one call, which the database executes statement by statement even when
  the client is killed; its record comes last. Every statement counts as committing by itself, the
  few that only write rows too.

Two parts implement an abstract specification of their own. `SchemaUpgrade` executes the files one
after the other, from where the database stands, and records each when it is there as a whole;
`Migrations` does so however many runs overlap or are killed: a run behind the others repeats what is
there or gives up. `RegionStore` replaces the settings that a request submits in one step, and
removes a region with all of them; the many statements of a request of `Regions` become that step at
its commit, where the rows become visible to the simulators.

| Run | Shows | Bounds |
|---|---|---|
| `portal` | what each part promises: eleven invariants and the two refinements | two users, of whom one is new; two workers; two machines; one failure of a worker or a call, two of the ingestion, one kill of the engine; the requests of `MCMixes` |
| `portal_banned` | a disagreement (section 4) | a ban, a sign-in, two requests about policies |

`left` counts down how many requests of each part are still to come. `MCMixes` gives the
budgets: each part by itself with enough requests for two to overlap and a third to see what they
left (a ban and its lifting; seven sign-ins, exchanges and resets; six requests about one region; four
about one ticket), and the parts that meet in an account two or three at a time: registration with bans, roles
and sign-in, bans with roles, bans or roles with sign-in and policies. One budget for all would have put
the same interleavings beyond the reach of a run. When the requests are used up the behaviour ends,
so the run does not look for deadlocks; a request that waits for a lock has a step of its own that
ends the wait (`Deadlock`), or waits for a step that is enabled. Workers are symmetric, and so are the
machines, since both users have been seen on both; users and staff are not used symmetrically, since
the instance tells them apart. No fairness is
assumed, as the run has safety properties only.

Most invariants name the case in which the code does not keep them, so that what is left holds
and is worth having: `RejectedStaysOut`
except after a lost call or a dead request, `BanIsOnRecord` except for a user the ban named between
the two steps of its lifting, `HardwareBansEnforced` except when a script or a command of it failed,
when the run that read the bans earlier wrote later, or when a run read the file that another had
truncated, `SpentOncePerWorker` per worker rather than once, `LogoutEndsAccess` except when the deletion
failed and no later one has succeeded, `NeverHalfFetched` only about requests that wrote both settings
(a partial edit mixes its own with what was there), `AgreedSinceBump` unless two bumps
collided, `ClaimStands` except for a reply that read the ticket before another wrote it,
`ShownIsNewest` except for failed statements and files tried again. The history variables
(`uncertain`, `overtaken`, `lastread`, `whole`, `unburnt`, `over`, `undeleted`, `collided`, `behind`, `crossed`, `missed`, `failed`)
record these cases and are read by no action of the code.

Abstractions: a user has one session at a time; a machine of `Bans` stands for the MAC address and
the host id that were seen together; the documents, messages and forms are left out; a level is one
of the tiers of `schema.py`.

## 3. Proofs

`BotQueueProofs` proves for any messages, contents, workers, bots, limits and
losses, from `BotQueueAssumption` alone:

* `TypeCorrect`: `Spec => []TypeOK`. Inductive as it stands, action by action.
* `HandedAtMostOnce`: `Spec => []AtMostOncePerWorker`. The bound on `handed` is not
  inductive: it must say what a row and an answer under way still entitle to.
  `Owes(m, w)` adds that a pending row, and a row in worker `w`'s answer, has been
  queued once more than `w` has handed it out, and twice more when it is pending
  again although `w` has already been past it. `Owed` says so of every row and worker.
* `QueueKeepsLedger`: `Spec => Ledger!Spec`; with `Owed` every `Answer` is a
  `HandOut` of rows still owed, a row becoming pending is a `Grant`.
* `QueuedAtMostMaxTimes`: with `NothingBeforeInsert` (a row not inserted has never
  been queued or acknowledged) and `Attempts` (a row not rescued has been queued at
  most `retries + 1` times, and at most `MaxWrongRegion`).
* `OnlyHeardIsDelivered`: if no bot sends the API table's form of the refusal,
  `Spec => []DeliveredWasHeard`, from the invariant that a successful
  acknowledgement on its way was preceded by speech.

`CalendarNotifyProofs`, for any events, rules, followers, channels, gaps between runs, lapses and
changes by organisers:

* `TypeCorrect`: `Spec => []TypeOK`.
* `SentOnce`: `Spec => []SentOncePerAttempt`. Not inductive: a notice at hand may have been queued by
  a run that died or could not log it. `Attempts` says that a message has been queued at most once per
  lapse, and once more only if its notice is logged, or is at hand with that message no longer to be sent.
* `LoggedIsQueued`: `Spec => []LoggedWasQueued`, with `Queued`: of the notice at hand, what is not
  left to be sent has been queued.
* `JobKeepsLog`: `Spec => KeepsLog`, from both; every step that is not a `Send`, a `Log` or a
  lapse (`Crash`, `LogFails`) is invisible in the log.
* `OnlyOvertakenVoid`: `Spec => []VoidOnlyIfOvertaken`. `StandsInv` says that of an event not
  overtaken, the rows the run's transaction reads are the rows as they are, and that whatever the run
  still has on its list stands; a change marks the event, and only a new run clears the mark.
* `AnnouncedInTime`: `MaxGap <= UpcomingWindow` implies `Spec => []UpcomingIsAnnounced`. The property
  speaks of occurrences whose start has come; `WindowInv` says what is known earlier: as long as no
  run has died and nobody touched the event, an occurrence that was within the window at the last
  run's reading is logged, or still in that run's hands. `TimerInv` bounds the time since that
  reading by `MaxGap`. The hypothesis is what the code needs and not more: its window is thirty
  seconds wider than the timer's interval, and a timer that is later than that leaves a gap (section 2).

`IarBackupProofs`, for any users, web workers, rows, archives and failures:

* `TypeCorrect`: `Spec => []TypeOK`, inductive because it also says that the unit has a row
  at hand just while it works on one, and an archive from the command on.
* `OneAtATime`: `Spec => []OneInProcessing`. `AtHand` adds that the row at hand is in
  processing and what clean-up removes is finished, whatever is requested meanwhile.
* `EndToldOnce`: `Spec => []ToldOnce`, with `AtHand`: a row that ends has no notice yet, and
  a row with a notice never goes back to the queue.
* `ArchiveKept`: `Spec => []CompletedIsOnDisk`. Clean-up removes files one by one before it
  commits, so the invariant is about archives and not rows: `OnRecord` says that each
  completed row has an archive of its own, that the archive the unit waits for is on
  nobody's record, and that what is removed is old.
* `ActiveAtMost`: `Spec => []ActivePerUser`. A user's unfinished rows together with the
  requests that have looked and not yet inserted (`Admitted`) are at most as many as web
  workers: a request looks when there are no rows, and an insertion turns one into the other.
* `UnitKeepsQueue`: `Spec => KeepsQueue`. `AtHand` and `OneInProcessing` make the unit's row the only
  one it may begin or end, `Recorded` (the invariant behind `ArchiveKept`) makes its archive one of no
  other row, and `EndAndAge` adds what the queue says of age: only rows that exist grow old, and what
  clean-up is to remove has ended and is old.

`SuggestionReviewProofs`, for any suggestions, members, limit, workers and failures:

* `TypeCorrect`: `Spec => []TypeOK`.
* `ApprovalPublishes`: `Spec => []ApprovedIsPublished`, inductive as it stands: the only
  transaction that writes `approved` is the one that inserts the event, and nothing
  takes an event back.
* `PublishedOnce`: `Spec => []PublishedOncePerWorker`. The bound is not inductive, since a
  worker may be about to publish. The strengthening says that while a suggestion is pending
  nobody has published it, and that a worker with it under review has not.
* `LimitHolds`: `Spec => []PendingWithinLimit`. A step that adds a pending suggestion ends a
  request that was counted, so the sum of both is only raised by a member's request that
  counts fewer than the limit, at a moment when at most the other workers have one too.

`EventEditingProofs`, for any events, occurrences, members, workers and bounds:

* `TypeCorrect`: `Spec => []TypeOK`.
* `CancellationsStand`: `Spec => []CancellationStands`. That a cancellation stands is not
  inductive: a request under way writes what it read. `Undisturbed` adds that where no
  requests overlapped at most one writes to the event, and that what it is to write still
  agrees with the row; `InHand` says that a request is about a row that was inserted and
  that its list contains what it cancels; `Recorded`, that nothing stands about a row
  never inserted.

The theorems about `Portal` are spread over three modules. Each begins with a lemma that projects
`Next` onto the variables of its part (`MigrationsAlone`, `IngestAlone`, `BansAlone`, `SignAlone`,
`RegionsAlone`, `TicketsAlone`, `PoliciesAlone`): whatever step the portal takes, those variables
change by an action of the part or not at all. After that the proof is about the part. They hold
for any users, workers, machines and failures, and for any budget, so not only for the mixtures of
the run.

`ScriptProofs`:

* `SchemaInOrder`: `Spec => []SchemaIsInOrder`. Inductive with `RunInOrder`: a run works on one
  file, what it found recorded is, and everything before its next statement is in the database.
* `RunsKeepSchema`: `Spec => KeepsSchema`. By `RunInOrder` the file at hand is the one whose turn it
  is; a statement of it is an `Advance`, the record that comes last an `Enter`.
* `NewestIsShown`: `Spec => []ShownIsNewest`. `ReadingInOrder` says what of the file at hand is
  written, `TakenInOrder` that everything older than it has been processed or has failed, and
  `CommittedIsShown` is the property for committed rather than renamed files, since a run may be killed
  between the two.
* `BansEnforced`: `Spec => []HardwareBansEnforced`. The property speaks only of moments when all is
  settled, so the invariant says what is owed before: when no request still has a script to start
  (`Clean`) and no run is still to read, the latest has read the live bans (`LastReadIsLive`,
  `HostsReadAreLive`), and the file, unless it is torn or a run has read it torn, is from the run that
  wrote it last (`FileIsFromRun`).

`DeskProofs`:

* `FetchedTogether`: `Spec => []NeverHalfFetched`. `InStep` says of the rows what the property says of
  the simulators, with a bound that makes it inductive: no setting is from a commit yet to come.
  `CommitInStep` is the step: a commit puts what it writes last, and both settings if it is a whole one.
* `RequestsKeepStore`: `Spec => KeepsStore`. `WritesToOne` makes a commit about one region, which is
  new only if something is submitted: a `Configure` with what the request submits; a request undone or
  lost leaves nothing.
* `ClaimsStand`: `Spec => []ClaimStands`. `Knows` says that a reply which is no claim carries the
  assignee on unless another request wrote the ticket since; `OpensAlone`, that a ticket being
  opened is nobody else's.

`AccountProofs`, where the parts meet:

* `RejectedStays`: `Spec => []RejectedStaysOut`. Levels are set by other parts too. `SetElsewhere(mine)`
  says what these may do: no account goes away, and what they set they sign. Every action of bans,
  sign-in, policies and roles is shown to do no more, and the requests of registration are then
  followed one by one, with the invariant that a rejected account let in by registration has a
  request still deciding (`RejectionStands`).
* `BanOnRecord`: `Spec => []BanIsOnRecord`, by the same projection with the roles exchanged;
  `BanKnown` adds that a request that is to lift a ban has read every name but those that overtook it.
* `SpentOnce`: `Spec => []SpentOncePerWorker`. A worker that is about to honour a secret has not
  honoured it before (`RequestInOrder`), one that has is still deleting it, or it is gone
  (`SpentIsGone`).
* `LogoutIsFinal`: `Spec => []LogoutEndsAccess`. `OverIsOver` adds that such a code, unless its deletion failed, is
  issued, not valid, and in nobody's exchange.
* `AgreedSince`: `Spec => []AgreedSinceBump`. `InOrder` orders versions lexicographically: what a
  request has read, and what anyone has agreed to, is never beyond the version in force, which is
  why a new version is one that nobody has agreed to. It holds as long as no two bumps collide.
* `PortalTypes`: `Spec => []TypeOK`, the types of all parts together.

Each theorem rests on the named assumptions about the constants, and no others but the
hypotheses stated with it: that no bot speaks the API table's form (`OnlyHeardIsDelivered`), and that
the timer is on time to within the window (`AnnouncedInTime`). Every safety invariant and every
refinement that a passing run checks is proved. Only model-checked, since it is out of the prover's
reach, is liveness: `EventuallySettled`, `RunServesAll`, `DecisionIsTold` and `CancellationIsTold`.
The five abstract specifications state no fairness, so the refinements are of safety.

## 4. Disagreements met while modelling

Runs with an expected violation (`PROJECT.json` quotes the text each contradicts):

1. `bot_delivery`: the LSL script sends group chat posts as instant messages to the
   group's uuid, and refuses region announcements in their own region, because
   `llParseString2List` drops empty fields.
2. `calendar_reminder`: reminders are due for four minutes, runs come every fifteen.
3. `iar_lost_start`: a backup requested while the unit cleans up stays pending for ever.
4. `portal_banned`: a member who declined the policies, was then banned, and agrees with the session
   kept from before is let in by the agreement, which looks at the level in the session and not in
   the grid; the ban stays on record.

Seen in the models and stated in their comments, with no run of their own:

5. `?error=wrong_region` without `success`, as in the API table of
   `packaging/inworld/README.md`, marks the message delivered.
6. Reminders are sent for cancelled occurrences and beyond the end of a series.
7. Half-way announcements are made only for events shorter than about 13 minutes.
8. Two concurrent requests of a user both queue a backup.
9. An archive cut short by the death of the region is reported as completed.
10. Two moderators who approve a suggestion at once publish it twice.
11. A save that overlaps a cancellation restores the event, and of two overlapping
    cancellations of occurrences one is lost, after the followers were told of both.
12. Two requests that overlap exchange one code, or use one reset token, both.
13. Two documents saved at once with a bump give one version; who agreed to the first is not asked
    about the second.
14. A user whom a ban names between the two steps of its lifting stays locked out with no ban on record.
15. A role granted while an account is being banned lets the account in again.
16. The rule of a host whose ban was lifted stays in the firewall.
17. A row from a log file that failed and was read again later replaces a newer one.
18. A migration killed within a file that cannot be repeated makes every later run fail there.
19. A region announcement without a region name is never acknowledged by the in-world script and stays
    claimed.
20. A log row of the calendar job that cannot be inserted goes unnoticed, and the next run queues the
    notice again.
21. A run of `sync_robust.py` that reads the configuration while another has it truncated writes back a
    file without its sections: nobody is denied any more, and no later run repairs it.
22. A signing out whose DELETE fails says that it was done, and codes and access tokens live on.
23. A partial edit leaves the location of one request beside the port of another; an import of a region
    whose port the grid does not know leaves a new region with none.

## 5. Plan

1. Done: `BotQueue`, `CalendarNotify`, `IarBackup`, `SuggestionReview`, `EventEditing`; the parts of
   `Portal` and their composition; the proofs of all their safety properties; the abstract
   specifications of the queue of messages, the log of notices, the queue of backups, the schema and
   the regions, with the proofs that they are implemented.
2. Proofs to come: an abstract specification of secrets that each worker honours once, and that
   `SignIn` implements it.
3. To be modelled: the feed subscriptions of the calendar, and bot messages as the meeting point of
   `BotQueue`, `CalendarNotify` and `EventEditing`, which are separate modules today.

None of the modules declares a RECURSIVE operator.

## 6. Not modelled

* Formatting, templates, rendering, feeds: no state.
* Settings, news and messages: single statements on independent rows. The settings page can also write
  the version of the policies directly; `PolicyAgreement` has the bumps of the editors only.
* The texture snapshot: one transaction replaces it, and a page sees the old rows or the new ones.
* The HUD's pages and the user-info endpoint: they only read.
* The resend link, notes and names of users, the online-list switch and the remote commands of regions,
  the first administrator and the secrets file: single statements or one-shot actions whose result
  nothing modelled reads.
* The installation helpers: run once, by hand, on files.
* Authorisation of requests: who may press a button is a guard on who, not on what
  happens; the models let anyone who may act at all act at any time.
* The words of messages, mails and notices; the length of batches beyond the
  instances (the proofs cover any length).
