# TLA+ models of the HCP CRM server

HCP CRM is a multi-tenant CRM for home-service contractors: a React client, an
Express server on PostgreSQL, and a dozen integrations (Housecall Pro, Dialpad,
Twilio, Gmail, Facebook, Google). The server is where things can go wrong at
once: every request handler, webhook, timer and one-shot worker is a chain of
`await`s against shared rows, interleaved by one event loop per process and run
by several processes (the web server, and `server/worker.ts` started by a
scheduler). The modules in this directory model those chains one await at a
time, TLC checks them on small instances, and TLAPS proves the properties that
matter most for every instance.

Paths below are relative to the repository's `src/` unless they start with it.

## 1. The system

| Component | State | Operations | Hard behaviour | Correct means |
|---|---|---|---|---|
| **Workflow engine** `server/workflow-engine/*`, `storage/workflows.ts` | rows of `workflow_executions` (status, currentStep, resumeAt); calls of `executeWorkflow` / `resumeSuspendedWorkflow` in memory | trigger, run groups, park, poll and claim, resume, cancel, delete, stale schedule and sweep, crash recovery | poll cycles overlap within and across processes; writes that do not look at the row; crashes between claim and run | one run at a time, groups once and in order, over means over, cancels honoured, due rows picked up |
| **Step groups and branch gating** `step-runner.ts` | the step log, the graph saved in the steps | group, gate, run, suspend, resume from the rest | the rest of the steps is re-parsed after a suspend | only selected branches run, suspended or not |
| **Dialpad call events** `jobs/dialpad-event-*.ts`, `routes/webhooks/dialpad-calls.ts` | `webhook_events` rows; in-memory queue, running count, in-flight stamps; the call's activity | accept, enqueue, pump, handle, retry, give up, poll for lost rows, drain and exit | out-of-order events, two handlers of one call, wedged handlers, lost memory | a call is logged once; every accepted event is processed or given up |
| **Background timers** `poller.ts`, `dialpad-event-poller.ts`, `sales-process-cron.ts` | timer handles, flags, back-off | start, stop, nudge, tick | nudges in the middle of a tick, stop in the middle of a tick | never two bodies, never none, stop means stop, a nudge is not forgotten |
| **Sales cadences, cron** `services/sales-process-cron.ts`, `storage/sales-process.ts` | task rows (dueAt, status, attempts) | materialise, reschedule, claim, send, retry, sleep until the next due time | sleep computed from a stale read, claims that leave the row as it is | every due task is taken up within a bound; attempts are bounded |
| **Lead intake** `services/lead-ingestion.ts`, `lead-identity.ts`, `utils/contact-enrichment.ts` | contacts, leads, receipts, activities; the per-contractor advisory lock | a delivery: lock, receipt, match, note, remember, enrich, create, capture, release, follow-up work | redelivery, eight writes without a transaction, crashes, lost lock sessions, unlocked channels | one lead per submission, no twin contacts, no repeated notes, nothing taken off a contact |
| **Sales cadences, enrolment** `services/sales-process.ts`, `storage/sales-process.ts` | cadence, steps, task rows per lead and step | enrol on creation, on a status change, by backfill; save, delete; skip, complete | reads, then writes, in queries of their own; detached hooks | an entity is enrolled once; no task is left on a lead that is through |
| **Sync scheduler, job lock, worker** `sync-scheduler.ts`, `jobs/job-lock.ts`, `worker.ts` | `sync_schedules` rows, active set, advisory lock | start, stop, pass, stamp, retry, sync by hand, recover, run a job once | two processes and a user on the same rows; a failing write after a sync; a lost lock session | a row is synced by one at a time; a due row has its turn |
| **Scheduling and booking** `scheduling/*`, `services/contact-status.ts`, `services/availability-cache.ts` | bookings, estimates here and in Housecall Pro, contact status, rotation, cached slots | choose, write HCP, write rows, mark, clear, cancel, reconcile, invalidate, recompute | three systems without a transaction; results computed before an invalidation stored after it | no double booking but by overlap, no second estimate for a retry, no stale slots without a reason |
| **Housecall Pro mirror** `sync/hcp-*.ts`, `routes/webhooks/housecall-pro/*`, `services/hcp-*.ts` | estimates, jobs, contacts that mirror HCP's | webhook events, periodic pass, backfill, status set by staff | events out of order, late, repeated, lost; handler beside pass; no unique index on jobs and contacts | forward only, staff respected, no twins, rows catch up |
| **Channel pulls** `sync/google-local-services-leads.ts`, `services/lead-capture-sync.ts`, `sync/facebook-leads.ts` | cursors and checkpoints, saved parse failures, dispute markers | list, enter, stamp, dispute, resolve, manual sync | a cursor that passes what failed; overlapping passes without a lock | nothing forgotten, disputed once, Google's decision arrives |
| Sessions | refresh rows, auth cache | rotate, revoke | concurrent refreshes | not modelled, see 5 |
| Health and alerts | incident and throttle rows | check, alert | two ticks at once | not modelled, see 5 |
| Contacts, merge, stages; messaging providers; reports; WebSocket; maintenance; boot; client | rows, sockets, UI state | CRUD, I/O, aggregation | little interplay of their own | not modelled, see 5 |

How they interact: webhooks and channel pulls feed lead intake; intake, the
HCP webhooks and user edits fire `triggerWorkflowsForEvent` and the sales-process
hooks; both nudge their timers; timers and the one-shot worker work the same
rows from different processes; bookings and HCP webhooks write the same estimates
and mark the same contacts; the scheduler starts every
pull. All shared state is in PostgreSQL; whatever is in memory (queues, stamps, back-offs, active sets, caches) belongs to one process
and dies with it.

`PROJECT.json` lists every component with its status, and under "hazards" the
places in this code a test would hardly reach, with the property that watches
each.

## 2. The modules

Every module takes its sizes as CONSTANTS, keeps one action for one piece of
code between two `await`s, and puts history variables (marked "history" where
they are declared) beside the program's state only where a property speaks of
the past.

| Module | What it is | State ↔ code | Actions ↔ code |
|---|---|---|---|
| `WorkflowEngine` | all writes of an execution row | `status`, `currentStep`, `resumeAt`, `old`, `stale`: the columns; `pc`, `exec`, `host`, `at`, `todo`, `outcome`, `caught`: one in-process call of `executeWorkflow` / `resumeSuspendedWorkflow`; `due`, `sweep`, `recover`: lists read and not yet worked off | `Trigger`..`StorageError`: the awaits of a call in order; `Poll`, `Claim`, `ClaimLost`, `ClaimFails`: `_claimAndResumeAll`; `CancelExecution`, `DeleteWorkflow`: routes; `ScheduleStale`, `Answer`, `SweepRead`, `SweepOne`: the stale-estimate trigger; `Crash`, `RecoverOne`: the end of a process and `recoverZombieExecutions` |
| `ExecutionLifecycle` | what the engine promises, abstractly | `stage`, `done` | begin, schedule, discard, park, wake, run a group, finish |
| `StepGroups` | one execution's walk through its graph | `workflow`, `stepOrder`, `whole`: the saved rows; `slice`, `left`, `gating`, `results`: locals of `runStepGroups`; `currentStep`, `log`: the columns | `Begin`, `RunGroup` (with `Suspend`, `Fail`, `Proceed`, in the code's order), `Resume`, `ResumeAtEnd` |
| `DialpadEvents` | Dialpad call events | `received`, `processed`, `failed`: `webhook_events`; `meta`, `copies`: the activity; `queue`, `job`, `inFlight`: the worker's memory; `enabled`: whether any contractor has Dialpad enabled; `gate`, `polling`, `scanned`: what the poller's process remembers of that, the answer it just got, its list | `Insert`, `Accept`: the route; `Pump`, `Leave`, `Throw`, `BackoffEnds`: the queue; `Look`, `Merge`, `Create`, `Record`: the handler; `MarkFailed*`; `Ask`, `Denied`, `PollRead`, `PollEnqueue`, `PresenceExpires`: a poll behind its gate; `EnableTenantIntegration`, `DisableTenantIntegration`; `Exit`, `Crash`, `Wedge`, `Expire` |
| `PollLoop` | what a background loop promises | on/off, working, pending | start, stop, begin, end |
| `RecoveryTimer` | timer of the Dialpad recovery poller | `running`, `timer`, `ticking`, `nudged`, the idle count | `Start`, `Stop`, `Nudge`, `TickBegin`, `TickEnd`, `Advance` |
| `AdaptivePoller` | timer chains of the workflow poller | `_isRunning`, `_pollerTimer`, all armed timers, back-off, polls in flight | `Start`, `Stop`, `Nudge`, `Fire`, `PollEnd` |
| `SalesCron` | cron timer with the tasks it claims | as above, plus `state`, `dueAt`, `attemptCount` of the tasks | materialise, commit, reschedule, tick, claim, ask, sleep, another process's pass |
| `LeadIntake` | every await of `ingestLead` | `contacts`, `leads`, `captured`: rows; `lock`: the advisory lock; `pc`, `mine`, `lead`, `path`, `seen`, `tries`: a delivery's locals | `Begin`..`StartEffects` in the order of the code; `Fail`, `Crash`, `LoseSession`, `Recede` (the 24-hour window passes, or the lead is archived) |
| `Cadence` | one lead cadence and its tasks | `target`, `active`, `deleted`, `live`, `gone`: the cadence and its steps; `status`: leads; `task`: per lead and step; `job`: what each call has read | `Create`, `Patch`, `Write` and the hook; match, count, insert of `materializeForEntity`; the sweep; save, delete, backfill; completion by reps and activities |
| `SyncScheduler` | the due rows and who syncs them | `row`, `enabled`: tables; `isRunning`, `timer`, `activeSyncs`: the web process; `holder`: the advisory lock; `pc`, `list`, `cur`: a pass | `Start`, `Stop`, `Recover`, `List`, `Take`, `Ran`, `Stamp`, `Retry`, `Ask`, `Arm`, `Fire`: the chain in its order; `WorkerBegins`, `LoseSession`: the lock; `Trigger`: the user's sync |
| `AvailabilityCache` | free slots of a date | `entry`, `flight`, `found`: the two maps and what a computation read | `Ask`, `Look`, `Fill`, `FillFails`, `Expire`, `Invalidate`, `Forget` |
| `Booking` | appointments over that cache | `booking`, `estimate`, `status`, `rotation`: rows; `inHcp`: the other system; `pc`, `job`, `person`, `est`, `saw`, `todo`: a call | the steps of `bookAppointment` from `Choose` to `Finish`; of the two marks, of `cancelBooking`, of the clear; `Reconcile`; `Webhook`, which announces every date; `Exit` |
| `GlsPull` | Google Local Services | `google`: their state; `row`: leads with their payload; `listed`, `this`, `found`, `base`, `answer`: a call's locals | `Fetch`, `Find`, `Update` or `Create` and `Stamp`; `ReadLead`, `AskGoogle`, `Write`: a dispute, by a rule or (`Ask`) by a clerk |
| `InboxPull` | the lead-capture inbox | `checkpoint`, `filed`, `dropped`, `saved`: rows; `mailbox`, `archived`: Gmail; `since`, `pending`, `todo`, `known`, `hand`: a pass | `ListPending`, `List`, `ReadKnown`; `Skip`, `Drop`, `File`, `FileReply`, `ParseFails`, `Ambiguous`; `Resolve`, `Stamp`, `End` |
| `FacebookPull` | Facebook Lead Ads | `cursor`, `entered`, `deferred`; `created`, `visible`, `page`: Facebook; `kind`, `since`, `forms`, `leads`, `errors`: a call | `Start` of a poll with a cursor, of one without (it looks back an hour) or of a manual sync; `ListForms`, `NextForm`, `FormFails`, `Enter`, `Ambiguous`, `LeadFails`, `End` (which writes the cursor, for a page without forms too); `Webhook`; `Disconnect` |
| `HcpMirror` | an estimate, its job and customer in HCP and here | `remote`, `remoteJob`, `underway`: HCP and its events; `est`, `jobs`, `contacts`: rows; `call`: a handler's or the pass's locals | `Deliver`, `List`: where a call begins; look, fetch and write or insert of estimate, contact and job; `Link`, `Approve`, `Convert`, `Promote`; `Replay`: the backfill; `SetStatus`: staff |
| `SubmissionLedger` | what retries rely on | `entries`, `answers` | enter, answer |
| `MC*` | instances for TLC; `MCLoops`, `MCFollowUp` and `MCContacts` hold several | `part` | |
| `*_proofs` | theorems, see 4 | one module per component; `Contacts_proofs` holds the pulls and the bookings, `FollowUp_proofs` and `Loops_proofs` several timers | |

`ExecutionLifecycle`, `PollLoop` and `SubmissionLedger` are abstract: the
detailed modules name them with `INSTANCE ... WITH` and are proved to implement
them; TLC checks it too for all but the cron. `PollLoop` is
implemented by two different timers, the recovery poller's and the cron's. Operators that sit just before the operator they resemble and are
commented as a bug or fault (`ClaimableAlways`, `KeepNothing`, ...) are what the
mutants in `PROJECT.json` put in place of the real one: each property is shown
to fail for a bug a programmer could make there.

## 3. The runs

| Run | Question | Bounds | Result |
|---|---|---|---|
| `Workflow_one` | Is an execution worked on by one call, its groups once and in order, are cancel, answer and end respected, whatever overlaps? | 1 execution, 2 calls, 2 processes, 2 poll cycles in different processes, orders 0..2, 1 crash, 1 storage error (of a call or of a claim) | holds, 0.9 M states |
| `Workflow_live` | Is a due row picked up and does every call return? | the same with 1 call slot, orders 0..1 | holds |
| `Workflow_cancelled` | Does a cancel stand? | 1 execution | **no**, see 6 |
| `StepGroups_safe` | Do the steps that run fit the branches taken, whatever waits and fails? | 15 648 workflows of 4 steps, rows with all or only their own edges, all outcomes | holds, 1 M states |
| `StepGroups_resumed` | ... also after a wait, with the rows as the builder saves them? | the same | **no**, see 6 |
| `Dialpad_one` | One activity per call whatever looks it up at once? Does a job wait beside a free slot? Is every accepted event processed or given up? | 1 event, web server and one-shot worker, 2 slots each, 2 attempts, any 2 faults (errors, a wedged handler, expiries, crashes); Dialpad is enabled and disabled at any time | holds, 0.3 M states |
| `Loops_safe` | The background loops. *Recovery timer*: is a nudge remembered, does it implement `PollLoop`? *Workflow poller*: does polling survive nudges that overlap polls? *Scheduler*: is a row synced by one at a time, does a due row have its turn, does a missing one come back? *Dialpad queue*: the same with two events of a call, and do the two log it once? *Google*: does its decision reach the CRM? | delays 2..7, time to 14; 4 timers, 4 back-off steps, 2 polls; 2 rows with chain and user, or 1 row with 2 workers; 2 events out of order, Dialpad enabled, nothing fails; 1 lead, 1 pass, 1 clerk | holds, 0.14 M states |
| `FollowUp_safe` | *Cadence*: is a lead enrolled once, is a task left on a lead that is through only for a known reason? *Cron*: is every due task claimed within its bound? | 1 lead, 2 steps, 2 workers, 3 statuses; 2 tasks, sleeps 2..5, delays 0 and 6, time to 10, 1 reschedule | holds |
| `Contacts_safe` | *Booking*: can a slot be booked twice, an entry be stale, a contact be left unscheduled, an estimate be made twice, an announcement be repeated, other than by overlap or failure? *Pulls*: is a lead disputed once, does a cursor pass anything? | 2 calls, 1 contact, 2 dates, 2 salespeople; 2 passes each, with failing queries and crashes; Facebook: 1 form, a look-back of 2, an overlap of 1, time to 2, from no cursor, with a disconnect | holds, 2.1 M states |
| `Mirror_live` | What may be written over what, when do rows double, and do they catch up with HCP? | 1 handler beside the pass, 3 outside events, 1 failure, 2 contacts, 3 jobs, from nothing or from an estimate already sent | holds, 1.2 M states |
| `Intake_retry` | Does redelivery of an inquiry change nothing that is done, repair what is not, only add to a contact, and end? | 3 deliveries of 2 submissions of one person, 2 processes, 2 failing queries, 1 crash | holds, 26 K states |
| `Intake_lost` | Are follow-up work and notes single even when the lock's session is cut? | the same with 1 lost session | holds, 0.7 M states |

`Loops_safe`, `FollowUp_safe` and `Contacts_safe` each hold several small
instances, which their MC modules call parts. The initial state chooses the part
and a behaviour is one of that part alone: the state spaces add up, they do
not multiply, and nothing of one part is assumed of another. Parts share a run
because they are of a kind, not because they interact.

Why the bounds are enough. Races of the engine need two calls on one row: two
poll cycles in two processes give them, a third group lets one execution be
parked and woken twice; rows do not interact except through a process's
lists and its crash (all lists are sets, treated row by row). Four steps are the
least with a condition, a skipped step, a wait beside it and a step behind the
skipped one, and leave one to spare for a join. One call's events need two to
race, one slot to queue behind each other, a second process to have a second
queue. The timers are checked over every order of nudge, tick, stop and time up
to twice the longest delay. Where section 4 lists a theorem, the bounds of the run
do not matter to the property it states: the engine, the recovery timer, the
cron, the workflow poller, the scheduler's `SyncAlone`, the Dialpad queue, the mirror,
the cadence, the step groups, the bookings, the safety of the pulls and that of the
intake are proved for all values.
Three deliveries make a retry, a race and a third party that changes the
contact between the two. Only effects and notes are asked about when a session is
cut: a delivery that goes on without the lock writes beside the next one, and with
a third identity in play an array read earlier replaces a newer one, which is what
the lock is there to prevent. Two rows let one of them fail or be dropped while
the other is due; two workers and one row let the lock's session break. An
enrolment and what overtakes it are two calls of `Cadence`. What two bookings do
to one another needs two dates, one to move from and one to move to, and two
salespeople, of whom one is in Housecall Pro; a third call would add a booking
that overtakes two others, and does not fit. Two passes of a pull overlap in
every way that matters for one lead, mail or form; its cursor may be moved by the
other. In `HcpMirror` all calls take the same steps on the same rows, so one
handler beside the pass overlaps in every way two handlers can; the two endings
are what HCP may make of the estimate, because the states between take the same
steps as an approval; with three outside events one of them can overtake
another and staff still come between. Contacts and jobs are as many as the calls
in flight can insert, so that nobody waits for a slot. TLC's other limits: `copies`,
`calls` and `timers` are slots, and a behaviour that would need one more waits
for a free one.

`CHECK_DEADLOCK FALSE` stands where the system may rightly stop: all executions
are over, the canvas is walked, no event is left, a loop has been stopped, the
last delivery has ended, every call is done, or a bound on time or on slots is
reached.

Symmetry is used for what nothing distinguishes and with safety properties only:
the call slots in `Workflow_one`, the steps and workers in `FollowUp_safe`, the
calls, contacts and passes in `Contacts_safe`.

**Fairness.** `Workflow_live`: weak fairness of every call's next step (an `await`
returns or rejects, and the event loop runs what is ready), of each poll cycle
(the timer chain goes on: `ChainAlive`), and of the clock of a row.
`Dialpad_one`: of every job's next step except a wedged one, and in the web process
of its poll's next step (its timer goes on: `RecoveryTimer`; the question whether
Dialpad is enabled does not fail each time), of the five minutes after which that
answer is asked for again, and of the five minutes after which a stamp expires. Nobody
has to start the one-shot worker, to nudge a poller, or to have Dialpad enabled:
`EveryRowEnds` says that an event ends or finds Dialpad enabled for nobody, so that it
ends if from some time on somebody has it enabled. `Intake_retry`: of every delivery's next step;
waiting in line for the lock is a step that is enabled when the lock is free, and
PostgreSQL serves waiters in order. `Loops_safe`, scheduler: of the chain's steps
and timer, strongly of its listing and its retry write, because a database that
fails now and then does not fail each of them; for workers, the platform
invokes them again and again and the recovery of rows does not fail each time.
Google: a pass is started again and its queries end; a day goes by.
`Mirror_live`: of every call's next step, and the pass is started again, which is
what `SyncScheduler` is checked for; no event has to arrive. No action that stands
for a fault, a user, another system or a crash is fair.

## 4. What is proved

`tlapm` proves the following for every value of the constants that satisfies the
named assumptions of the modules: ranges are not empty where one of them is
picked, bounds are naturals, `None` is none of the rows, labels are not names.
TLC evaluates those on every run. A theorem that needs more names it as its own
hypothesis.

* **Engine** (`WorkflowEngine_proofs`). `TypeCorrect`, `SingleRunnerCorrect`,
  `GroupsCorrect`. `SingleRunner` and `GroupsRunOnceInOrder` are not inductive:
  that no call is added to a row rests on a parked row having no call
  (`ParkedIsFree`), and that a later call continues beyond the earlier one rests
  on the row's `currentStep` being at least what the log ends with whenever no
  call is there to know better (`RowCoversLog`) and on each call being at or
  beyond it while there is one (`RunCoversLog`). `IInv` is the conjunction; one
  lemma per kind of step (control step, row step, claim, crash) shows that the
  parts it can disturb survive, and the actions follow from the lemmas.
* **How an execution ends** (same module). `NoRevivalCorrect`: a step of
  a call touches its own row only, and a row that no call works on gets one only
  while it is suspended. `CancelCorrect`: `CancelStopsWithinOneGroup` becomes
  inductive (`CancelInv`) once it says that while a call has checked and not yet
  handed over, nothing was handed over since the cancel. `AnswerCorrect`: a stale
  row was scheduled, so no call executes it from its beginning, where there is no
  gate (`FreshInv`), and every way to a group then leads through the gate.
  `LifecycleCorrect`: the engine implements `ExecutionLifecycle`. Handing over,
  parking, claiming and creating a row are the abstract steps of those names; every
  other step leaves each row where it was or ends its execution, which `Finish`
  allows for any set of rows. Beside `IInv` it needs that whatever a list names was
  created (`ListsStarted`).
* **Step groups** (`StepGroups_proofs`). `OnlySelectedCorrect`, `NoSelectedLostCorrect`
  and `ResultsMatchCorrect`, for any number of steps, every graph whose edges lead
  upwards and all outcomes; `FailureStopsCorrect` (nothing behind a failed step runs
  unless a step of its group waits) besides, which no run states. What `Level` and the
  walk of `Reachable` compute is shown first: they are recursive functions, so each
  needs that a function with its equation exists. For `Level` that follows from a least
  counterexample (edges lead upwards), for the walk from the set of what a walk reached,
  which can only grow up to all steps. `SInv` says that in a gated run the steps behind
  it are those the walk reaches (`GatedRight`), that an ungated run has no edges or no
  condition to look at (`Ungated`), that what was done lies before what was not
  (`Upwards`), and that what was skipped was not selected (`SkippedUnselected`).
* **Loops** (`Loops_proofs`). *Recovery timer*: `AliveWhileOnCorrect`,
  `NudgeHonouredCorrect` and `Implementation` of `PollLoop`, for all delays; the
  invariant adds that a stopped loop has no timer and one never started is not in a
  tick. The key fact is that the delay chosen after a tick is within the two bounds,
  and the shortest if a nudge came meanwhile (`NextDelayBounds`). *Workflow poller*:
  `PollerChainAlive`, `PollerNudgeCorrect`, for any number of timers and polls; they
  are inductive together with the reference pointing at an armed timer (`PInv`): a
  callback that ends adds a timer and disarms none, a nudge disarms at most the
  one it replaces. *Scheduler*: `SyncAloneCorrect`. In one process the active set has
  the rows that are being synced and no others (`SActive`); a worker at work holds
  the lock unless a session was cut (`SLock`). That web and worker may still meet,
  and two workers after a cut session, is part of what it says.
* **Following up** (`FollowUp_proofs`). *Cron*: `OnTimeCorrect` and
  `CronImplementation` of `PollLoop`. Between ticks the armed timer is within the
  bound of every waiting task, and a task whose transaction is open had nudged it
  in time for its commit (`CIdle`); during a tick such a task has left the nudge that
  the tick will see, and once the claim came back empty no waiting task is overdue by
  more than nudges put it off (`CTicking`). *Cadence*: `EnrolledOnceCorrect`,
  `NoTaskLeftBehindCorrect` and `EndedStaysCorrect`, the last over any number of
  leads, steps and calls. `CadInv` says of every call what it knows: whose lead it
  works on and that a lead without a status belongs to the one call that creates it
  (`CadWho`); that of two calls' lists of steps without an archived one, one contains
  the other, because steps are only added (`CadRead`), so that two enrolments that
  overlap insert the same tasks and the unique index lets one of them in (`CadOnce`);
  that a pending task on a lead that is through has a hook on its way to it, or a
  reason (`CadStopped`).
* **Dialpad queue** (`DialpadEvents_proofs`). `PumpKeepsUpCorrect`,
  `CallLoggedOnceCorrect`, for any number of events, processes, attempts and slots
  and through every error, wedge, crash and expiry. `pump()` is called from many
  places; `PumpOK` says once that it starts as many jobs as there are waiting ones and
  free slots, in order, and leaves the rest. `JInv` adds that a queue holds exactly
  the waiting jobs of its process, each once (`Waits`), that as many run as the slots
  say (`Slots`), that a job has a living process (`Hosted`), and that who merges
  has found an activity, which stays (`Found`).
* **Mirror** (`HcpMirror_proofs`). `TypeCorrect`, and the action properties
  `ForwardCorrect` and `DoublesCorrect`, for any number of handlers, events, rows
  and failures. `MInv` says for each place of a call that what it read still stands
  or its `missed` names the table that changed since (`Knows`), which references it
  has there (`Placed`) and that they exist (`Refers`). A step of one call disturbs
  what the others know only by a change of a table, which every such step records.
* **Lead intake** (`LeadIntake_proofs`). `TypeCorrect` (every row reference a
  delivery holds is valid), then with the lock's sessions intact (`MaxLosses = 0`)
  `OneInsideCorrect`, `OneLeadCorrect` and `LedgerCorrect`, the implementation of
  `SubmissionLedger`. The invariant says for each delivery: who is inside holds the
  lock (`Held`); who is past the look-up of the receipt and has not signed a lead
  finds no lead with its key (`Unsigned`), which is stable because whoever could
  sign one is outside; who has signed refers to the lead that has it (`Signed`).
* **Contacts and follow-up work of the intake** (same module). Whatever
  sessions are cut and whoever takes no lock: `EffectsCorrect`, because no two
  deliveries hold a lead they created (`EInv`), and `NoteOncePerContactCorrect`,
  because the copy of the row a delivery holds knows no key of a note that the row
  does not know (`NInv`). With `MaxLosses = 0` and every submission sent by a caller
  that takes the lock (`TwoField = Submissions`): `EnrichmentCorrect`, since the copy
  is the row (`CInv`), and `AnsweredCorrect`, whose invariant `AInv` lists for each
  place what the steps before it have brought about (`Done`).
* **Who is one person** (same module, same hypotheses). `NoTwins` is not true of every
  instance: a delivery leaves its receipt on a contact before it merges its person
  into it, and if it ends in between, the retry follows the receipt past the matcher
  (`Intake_twins`, see 6). So there are two theorems. `TwinsOnlyByReceiptCorrect`: with
  any number of faults and crashes that is the only way, since of two contacts that
  agree in two fields one remembers a submission whose e-mail or phone the other has.
  `NoTwinsCorrect`: without interruptions (`MaxFaults = 0`, `MaxCrashes = 0`) there
  are none; the run has interruptions, but of persons for whom they do no harm. The
  invariant `WInv` says of a delivery on its way to a contact that the contact
  has its person's e-mail and phone already, that nobody else has either, or that a
  receipt brought it there (`Checked`). `NoteOnceCorrect`, of a property that no run
  states: a keyed note stands once in all contacts together, through every fault and
  crash, although it is written before the receipt. Who bears it is remembered or
  agrees with the person in two fields, so the retry is led to the same contact
  (`BearInv`).
* **Pulls** (`Contacts_proofs`), each on its own. *Facebook*: `NothingPassedCorrect`,
  from a page without a cursor on, if Facebook lists a lead within less than the
  overlap of two polls and the look-back of a poll without a cursor is positive
  (`FAssumption`; with a longer delay a lead can be missed by design).
  It excepts the leads of deleted forms and those at or before `horizon`, the latest
  time up to which a poll without a cursor did not look and yet wrote one. While a poll
  has no error, what is older than the overlap at its start and not excepted is
  reported, in a form it has yet to list or in hand, or was not yet looked for because
  the poll is a first one and its window begins later (`FCall`), so the cursor it writes
  passes nothing else; a cursor written by an overlapping poll is as safe as its own,
  and a disconnect only takes it away. *Inbox*:
  `NoMailForgottenCorrect`. Up to the checkpoint a pass began from, every mail is
  safe, and up to its listing safe, in hand or not in the answer, unless it met
  trouble and then writes no checkpoint (`MCall`); known IDs are filed ones. *Google*:
  `AutoDisputedOnceCorrect`, for any finite set of passes, none of them a clerk
  (`GAssumption`). The property says nothing of disputes on their way; `GCount` adds
  them: those filed and owed are paid for by the one stamp that stands or by one that
  was deleted. It needs that a pass owes a dispute only for its own row's lead
  (`GPlace`) and that no two passes are about to stamp the same row (`GApart`).
* **Bookings** (`Contacts_proofs`). `BookedTwiceCorrect`, `StaleOnlyCorrect`,
  `BookedIsScheduledCorrect`, `OneEstimateCorrect`, `AnnouncedCorrect`, for any number
  of calls, contacts, dates and people; assumed are that `None` is none of them
  (`NoneAssumption`) and that the dates watched are dates (`WatchedAssumption`).
  `BBase` says where a call has what and that any two active calls have met; each
  property then has a part of its own. Two calls that chose the same person of a slot
  have met from the choice on (`BTwice`). What a computation read of a date is as good
  as an entry, stored or not (`BFresh`). A booking on its way has marked its contact
  (`BMarked`), and a clear at work still has every booking to cancel that it did not
  meet. An estimate in Housecall Pro is in a row, or in the hand of its call, where the
  next one will find it (`BEstimates`). A status that was written and not announced has
  one call about to do it (`BAnnounced`). For each part one lemma says when a step
  leaves it alone, and the steps that do not are treated one by one.

Out of the prover's reach, and left to TLC: everything under fairness
(`DueIsPickedUp`, `RunsEnd`, `EveryRowEnds`, `EveryDeliveryEnds`, `DueHasItsTurn`,
`GoogleHasTheLastWord`, `CatchesUp`) and whatever needs ENABLED.

Model-checked only: `AloneAndOnce` of `MCLoops`, which speaks of three fixed instances
(two of the scheduler, one of the Dialpad queue); `SyncAloneCorrect`,
`CallLoggedOnceCorrect` and `PumpKeepsUpCorrect` prove its conjuncts of every instance.

## 5. What the models leave out

* *Engine*: a claim that throws drops the rest of its list (`ClaimFails`), and so does
  the end of a process. The poll reads at most 100 rows and recovery at most 500; there are
  fewer here. One estimate stands for all, and an answer is final. Steps are
  outcomes, so an action that goes on after its 30 s time-out is not seen.
* *Step groups*: a step that its handler passes over counts as run, as in the code.
  The saved graph is fixed while an execution lives; cycles, which have no root and
  no order, are not considered. Variables that earlier steps put into the context
  are not restored by a resume; no property is about them.
* *Dialpad*: calls only; SMS shares the queue but has a look-up of its own. Fewer
  rows than the poller's 100. Fewer wedged handlers than slots: with all slots
  wedged the queue stands still until the process is restarted. A stamp expires
  whenever its job is wedged, and a bounded number of times while it is only slow.
  While no contractor has Dialpad enabled the poller reads no row
  (`server/jobs/dialpad-event-poller.ts:152-156`): an accepted event whose job is lost
  then stays as it is, and the comment there ("there can be no dialpad webhook_events
  to recover") overlooks it. Health checks ask through the same cache
  (`server/services/dialpad-call-health.ts:194`, `324`) and may answer for the poller;
  that is not modelled, it only renews what the poller may remember for five minutes.
* *Timers*: time is counted in abstract units; a tick may take any time in
  `RecoveryTimer` and less than a unit in `SalesCron`; `start()` is called once, as
  at boot. In `SalesCron` there are fewer tasks than `BATCH_LIMIT`, a transaction is
  shorter than `MIN_SLEEP_MS`, and the bound of `OnTime` grows with every nudge,
  because each nudge replaces the armed timer.
* *Intake*: one contractor, the same payload in every delivery of a submission. All
  callers that send a submission ID use the two-field policy
  (`server/routes/webhooks/leads.ts:308`, `services/lead-capture-sync.ts:630`,
  `sync/facebook-leads.ts:195`, `routes/lead-capture.ts:206`); Google Local Services
  (`sync/google-local-services-leads.ts:238`) does neither and takes no lock. Not
  modelled: deletions and edits by users, aged leads, address, tracking and
  promotion columns, the push to Housecall Pro, the pool of coordination sessions.
* *Cadence*: one cadence of leads; estimates have twin functions of the same shape.
  Edits of the stop statuses are left out, and so is what follows a claim:
  `retryFailedTask` and `markTaskFailed` are never reached, because the cron throws
  first (`SalesCron_attempts`). `NoTaskLeftBehind` names the ways by which a pending
  task does stand on a lead that is through: it was inserted from reads that no
  longer held, the hook failed, two patches overlapped, or the cadence was off then.
  Also seen, and in no property: `deleteCadence` leaves pending tasks; a save accepts
  a deleted cadence; a late hook of a terminal status skips the tasks of a lead
  reopened since; a unique violation drops the remaining leads of a backfill. Two
  comments (`shared/schema/sales-process.ts:115`, "race-proof backstop";
  `storage/sales-process.ts:616-618`, "enrolls a given entity at most once") hold
  of equal steps only.
* *Scheduler*: intervals are waiting or due; a sync is its outcome. A sync that is
  skipped or disabled is stamped as done; the next time counts from the start of the
  pass; the stamp overwrites a user's rescheduling; a retry write that fails drops
  the rest of the pass; a timer armed after `stop()` fires and does nothing; the
  recovery of Gmail enables what a user had disabled.
* *Booking*: no working hours and no arithmetic of slots: a slot is a date with one
  appointment. Left out are the contact a public booking makes first and its
  roll-back, a calendar disconnected after an authorisation error, and the
  rescheduling half of the reconciliation
  (`server/sync/google-calendar-reconciliation.ts:125-151`). `StaleOnlyWithReason`
  names the reasons by which an entry is stale: a change in another process, a store
  after the invalidation, a call that failed after its rows, and a rescheduling that
  invalidates the new date only. Marks that overlap announce twice
  (`Booking_doublefire`), the Google event of a failed call stays, and a
  reconciliation leaves the contact "scheduled".
* *Google Local Services*: `last_poll_at` decides nothing about leads younger than 60
  days, because those are listed anyway, and is left out. A lead can be entered twice
  when the stamp of its ID fails or its process ends first (`EnteredOnce` in the
  module, which does not hold); a duplicate that is skipped is never stamped and
  enters again a day later; the marks of an automatic dispute go with the next poll,
  so a deleted lead comes back and is disputed again.
* *Inbox*: mails that arrive between the listing and the stamp, whose download fails,
  that are beyond a page of 100 or archived by then are passed over, which
  `NoMailForgotten` excepts; with those, what the admins were told of a retry
  (`lead-capture-sync.ts:194-197`, `PromisedIsRetried`) does not hold.
* *Facebook*: the pages of a form are one step; forms beyond the first 100 (of the
  manual sync: beyond the first page) are not listed; the webhook has answered before
  it enters the lead. A manual sync ends at its first ambiguous lead. Connecting
  stores no cursor and disconnecting takes it away; a poll without one looks back an
  hour from its own start (`server/sync/facebook-leads.ts:292-295`). So if the polls
  fail for longer than that after the page was connected, or it was disconnected for
  longer, the cursor that is written first passes what is older, and only a manual
  sync brings it in. `NothingPassed` excepts these leads (`horizon`) and those of
  forms deleted meanwhile, and no others.
* *Housecall Pro*: one estimate, one job, one customer, and a batch is one item. Left
  out: copied fields and `documentSentAt`, `copy_to_job` and option events, excluded
  and deleted customers, lead events (they mark the contact, see `Booking`),
  employees, calendar events, the push and the echo mark, which suppresses nothing
  that would change a row, and two passes at once, which overlap like a handler and
  a pass. Seen, and in no property: an estimate deleted in HCP stays open if that
  event is lost; a pass that runs out of time (`server/sync/hcp-estimates.ts:93-96`,
  `hcp-jobs.ts:51`) ends its pagination, and the next pass begins again with the newest
  page, so that `CatchesUp`, which is about one item, holds of the estimates and jobs on
  the pages a pass reaches in its time; a job converted here and the same job from HCP give two rows of
  different external IDs; approval by a linked job ignores that staff set the status.
  `server/sync/hcp-estimates.ts:6` ("automatically converted to a job") is not so when
  a webhook saw the approval first, or the row was inserted already approved.

### Not modelled

| Component | Why |
|---|---|
| Sessions, auth cache | who may use a token for how long is a matter for a security review |
| Users' own Gmail sync | a pass over a mailbox much like `InboxPull`'s |
| Push to Housecall Pro | detached calls after a row is written; what comes back of them is in `HcpMirror` |
| Health checks, incident alerts | a throttle row around an e-mail; the rest is counting and wording |
| Contacts: CRUD, merge, stages | single SQL statements with guards; what makes and enriches contacts at once is in `LeadIntake`, what marks them in `Booking` |
| Messaging providers, ring tree, AI agent | I/O and language models; what a step makes of them is an outcome in the engine |
| Reports, dashboards, WebSocket | read only, or best effort |
| Maintenance, retention | bulk deletes that repeat harmlessly |
| Boot, shutdown | one sequence; what it does to the loops is their `Start` and `Stop`, to running work a crash |
| Caches, rate limiting | maps with expiry; the one cache whose invalidation matters has its module |
| Connection pools | an intake holds a connection while it asks for more (`storage/contacts.ts:848`); the wait ends with a time-out and a failing query, which `LeadIntake` has, and how often is a matter of times |
| Browser client | user interface |

Three hazards are named in `PROJECT.json` with a note instead of a property: the
connection pools above, and two where the code does not keep what should hold:
the merged metadata of a call
(`Dialpad_enrich`) and the attempts of a task (`SalesCron_attempts`).

The map covers a small share of the repository's lines. Most of them are the
client, schemas, reports, providers' request and response formats and SQL of single
statements; the modules are about the handlers, loops and passes whose steps
interleave.

## 6. Where code and its comments disagree

Two runs end in a counterexample to a statement the repository makes:

* `Workflow_cancelled`: a cancel that arrives between the last read of the row and
  an unconditional write of the run is overwritten; a cancelled execution can be
  suspended again and run its remaining steps later.
* `StepGroups_resumed`: *If*; on true *A* then *B*; on false *a delay* then *C*.
  After a false result and the delay, *B* runs as well as *C*: the edge from *If* to
  *A* was saved with their rows only, both are out of the slice, so *A* has become
  a root.

The other configurations in this directory check one statement each that
the code does not keep either; the definitions they name say what was expected.

| Configuration | Statement | What happens instead |
|---|---|---|
| `Workflow_early` | a row is resumed only when due | a poll list from before the last resume wakes it early: the claim tests the status only |
| `Workflow_sweep` | an answered estimate has no pending stale execution | the sweep looks only at rows already due; the gate at resume still protects the customer |
| `Workflow_orphan` | recovery fails orphans only | it selects by `createdAt`, and an execution that waited for days is old while it is being resumed |
| `Dialpad_terminal` | failed and processed exclude each other | a success after the last failure leaves `failed_at` |
| `Dialpad_enrich` | an activity keeps every event's fields | of two handlers that merge at once the later write wins |
| `Dialpad_exit` | the worker exits with nothing left to do | a job in its back-off timer is not counted |
| `AdaptivePoller_stop` | no poll after `stop()` | a nudge during a poll leaves a timer nobody refers to |
| `SalesCron_attempts` | attempts are bounded | raw rows are read under the wrong names and every pass throws |
| `Intake_twins` | no two contacts agree in two fields | a receipt written before the merge lets the retry skip the ambiguity check |
| `Intake_unlocked` | enrichment only adds | a channel without the lock writes an array it read earlier |
| `Booking_doublefire` | a status change is announced "exactly once, with no possibility of a double-fire" (`services/contact-status.ts:12-14`, `148`) | the contact is read (84), written (105), and what was read decides on the announcement (117, 149): two marks that overlap both announce |
| `Mirror_manual` | the flag set by staff is respected by syncs and webhooks (`shared/schema/estimates.ts:87-89`) | a handler that had read the row before staff wrote it writes its own status over theirs, and the flag stays; so does the approval by a linked job |

## 7. Plan

Done: the engine with its lifecycle; step groups; Dialpad events, their queue and log;
the three timers, the cron and the scheduler with the job lock; lead intake with
its ledger, twins and notes; cadences; booking over the availability cache; the three
pulls; the Housecall Pro mirror. Every safety property that a run checks of a
component is proved of all its instances, with the hypotheses named in 4.

Next, in this order:

1. *Twins after an interruption*: model a retry that looks at the other contacts too, or
   a receipt written after the merge, and try `NoTwinsCorrect` without `MaxFaults = 0`
   and `MaxCrashes = 0`; `Checked` is where the two hypotheses enter.
2. *SMS* beside the calls of `DialpadEvents`: the same queue, with a look-up of its own.
3. *Estimate cadences*, once their twin functions are one.
4. *Reconciliation* that moves a booking, and `copy_to_job` of an estimate.
