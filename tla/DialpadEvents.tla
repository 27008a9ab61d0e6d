--------------------------- MODULE DialpadEvents ---------------------------
(***************************************************************************)
(* Dialpad call events: the webhook handler that writes a webhook_events   *)
(* row and acknowledges it, the in-memory queue that processes the row     *)
(* with bounded concurrency and retries (server/jobs/dialpad-event-        *)
(* worker.ts), the poller that feeds unprocessed rows back into the queue  *)
(* of its own process (dialpad-event-poller.ts), the handler that logs the *)
(* call as an activity or enriches the activity it finds                   *)
(* (routes/webhooks/dialpad-calls.ts), and the one-shot worker process     *)
(* that polls once, drains and exits (server/worker.ts).                   *)
(*                                                                         *)
(* Queue, jobs and in-flight stamps belong to one process and die with it. *)
(* A step ends where the code awaits the database or the Dialpad API.  The *)
(* fields an event carries are abstracted to the event itself: an activity *)
(* is the set of events whose fields it holds.                             *)
(***************************************************************************)
EXTENDS Integers, Sequences, FiniteSets, FiniteSetsExt, Functions

CONSTANTS NumEvents,    \* rows of webhook_events, numbered by createdAt
          CallOf,       \* the call of each event
          Stamp,        \* the event_timestamp of each event's payload
          Copies,       \* bound: QueuedJob objects of an event alive at a time
          Process,      \* OS processes
          OneShot,      \* those that are runs of server/worker.ts
          Concurrency,  \* MAX_CONCURRENCY
          MaxAttempts,  \* MAX_ATTEMPTS
          MaxFaults     \* bound: errors, wedged handlers, crashes and slow jobs

Event == 1..NumEvents
Job == Event \X (1..Copies)
EventOf(j) == j[1]

ASSUME ConstantsAssumption ==
  /\ NumEvents \in Nat /\ Copies \in Nat
  /\ Concurrency \in Nat \ {0} /\ MaxAttempts \in Nat \ {0}
  /\ Stamp \in [Event -> Nat]
  /\ DOMAIN CallOf = Event
  /\ OneShot \subseteq Process /\ "none" \notin Process

VARIABLES
  received,   \* events with a row
  processed,  \* rows with processed = true
  failed,     \* rows with failed_at
  meta,       \* per call, the events whose fields its activity holds; {} = no activity
  copies,     \* per call, the number of its activities
  arriving,   \* <<process, event>>: row inserted, job not yet enqueued
  job,        \* the QueuedJob objects, see JobState
  queue,      \* per process, the jobs waiting for pump()
  inFlight,   \* per process and event, the stamp: "none", "fresh" or "stale"
  enabled,    \* some contractor has Dialpad enabled
  gate,       \* per process, what it remembers of that: "yes", "no" or "unset"
  polling,    \* per process, its poll: "idle", or the answer underway to it
  scanned,    \* per process, the rows its poll has read and not yet enqueued
  faults

rowVars == <<received, processed, failed, meta, copies>>
pollVars == <<enabled, gate, polling, scanned>>
memVars == <<arriving, job, queue, inFlight>>
vars == <<rowVars, memVars, pollVars, faults>>

Call == {CallOf[e] : e \in Event}
(* The awaits of a running job: the look-up of the activity, its update or  *)
(* insert, the write of processed, the write of failed_at, or one that      *)
(* never returns.                                                           *)
Running == {"looking", "merging", "inserting", "recording", "failing", "wedged"}
JobState == [pc : {"idle", "queued", "backoff"} \cup Running,
             host : Process \cup {"none"}, attempt : 0..MaxAttempts, seen : SUBSET Event]
NoJob == [pc |-> "idle", host |-> "none", attempt |-> 0, seen |-> {}]

Of(p, jobs) == {j \in Job : jobs[j].host = p}
RunningOn(p, jobs) == {j \in Of(p, jobs) : jobs[j].pc \in Running}
Idle(e) == {k \in 1..Copies : job[<<e, k>>].pc = "idle"}
Ascending(s) == [i \in 1..Cardinality(s) |-> CHOOSE x \in s : Cardinality({y \in s : y < x}) = i - 1]
Newest(es) == IF es = {} THEN 0 ELSE Max({Stamp[e] : e \in es})

Init ==
  /\ received = {} /\ processed = {} /\ failed = {}
  /\ meta = [c \in Call |-> {}] /\ copies = [c \in Call |-> 0]
  /\ arriving = {} /\ job = [j \in Job |-> NoJob]
  /\ queue = [p \in Process |-> <<>>]
  /\ inFlight = [p \in Process |-> [e \in Event |-> "none"]]
  /\ enabled = TRUE /\ gate = [p \in Process |-> "unset"]
  /\ polling = [p \in Process |-> "idle"] /\ scanned = [p \in Process |-> {}]
  /\ faults = 0

-----------------------------------------------------------------------------
(* The queue. *)

(* A bug: the last slot is never used.                                      *)
PumpOffByOne(p, q, jobs, stamps) ==
  LET free == Concurrency - 1 - Cardinality(RunningOn(p, jobs))
      n == Max({0, Min({free, Len(q)})})
      started == {q[i] : i \in 1..n}
  IN /\ queue' = [queue EXCEPT ![p] = SubSeq(q, n + 1, Len(q))]
     /\ job' = [j \in Job |-> IF j \in started THEN [jobs[j] EXCEPT !.pc = "looking"]
                                               ELSE jobs[j]]
     /\ inFlight' = [inFlight EXCEPT ![p] =
          [e \in Event |-> IF \E j \in started : EventOf(j) = e THEN "fresh" ELSE stamps[e]]]

(* pump(): waiting jobs start, oldest first, while fewer than               *)
(* MAX_CONCURRENCY run.  A job that starts refreshes its event's stamp.     *)
Pump(p, q, jobs, stamps) ==
  LET free == Concurrency - Cardinality(RunningOn(p, jobs))
      n == Min({free, Len(q)})
      started == {q[i] : i \in 1..n}
  IN /\ queue' = [queue EXCEPT ![p] = SubSeq(q, n + 1, Len(q))]
     /\ job' = [j \in Job |-> IF j \in started THEN [jobs[j] EXCEPT !.pc = "looking"]
                                               ELSE jobs[j]]
     /\ inFlight' = [inFlight EXCEPT ![p] =
          [e \in Event |-> IF \E j \in started : EventOf(j) = e THEN "fresh" ELSE stamps[e]]]

(* enqueueDialpadEvent for a sequence of events: one new job for each.      *)
Enqueue(p, es) ==
  LET new == [i \in DOMAIN es |-> <<es[i], Min(Idle(es[i]))>>]
  IN /\ \A i \in DOMAIN es : Idle(es[i]) # {}
     /\ Pump(p, queue[p] \o new,
             [j \in Job |-> IF j \in Range(new)
                            THEN [NoJob EXCEPT !.pc = "queued", !.host = p, !.attempt = 1]
                            ELSE job[j]],
             [e \in Event |-> IF e \in Range(es) THEN "fresh" ELSE inFlight[p][e]])

(* The job's attempt is over: runJob clears or keeps the stamp, running--   *)
(* and pump().                                                              *)
Leave(j, next, stamp) ==
  LET p == job[j].host
  IN Pump(p, queue[p], [job EXCEPT ![j] = next], [inFlight[p] EXCEPT ![EventOf(j)] = stamp])

(* An await of the handler throws: back off and retry, or give up.          *)
Throw(j) ==
  IF job[j].attempt < MaxAttempts
  THEN Leave(j, [job[j] EXCEPT !.pc = "backoff", !.attempt = @ + 1, !.seen = {}], "fresh")
  ELSE /\ job' = [job EXCEPT ![j].pc = "failing", ![j].seen = {}]
       /\ UNCHANGED <<queue, inFlight>>

(* The setTimeout of schedule() fires.                                      *)
BackoffEnds(j) ==
  /\ job[j].pc = "backoff"
  /\ LET p == job[j].host
     IN Pump(p, Append(queue[p], j), [job EXCEPT ![j].pc = "queued"], inFlight[p])
  /\ UNCHANGED <<rowVars, arriving, pollVars, faults>>

-----------------------------------------------------------------------------
(* The webhook route: insert the row, acknowledge, enqueue. *)

Insert(p) ==
  \E e \in Event \ received :
    /\ \A d \in Event : d < e => d \in received
    /\ p \notin OneShot
    /\ received' = received \cup {e}
    /\ arriving' = arriving \cup {<<p, e>>}
    /\ UNCHANGED <<processed, failed, meta, copies, job, queue, inFlight, pollVars, faults>>

(* The handler then nudges its poller, which forgets what the gate said.    *)
Accept(p) ==
  \E e \in Event :
    /\ <<p, e>> \in arriving
    /\ arriving' = arriving \ {<<p, e>>}
    /\ Enqueue(p, <<e>>)
    /\ gate' = [gate EXCEPT ![p] = "unset"]
    /\ UNCHANGED <<rowVars, enabled, polling, scanned, faults>>

-----------------------------------------------------------------------------
(* The handler, processDialpadCallEvent, one await after another. *)

(* The look-up of the activity.  An event the handler ignores (state not    *)
(* terminal, no contact for the number) is only recorded as processed; so   *)
(* is one older than the activity it finds.                                 *)
Look(j) ==
  /\ job[j].pc = "looking"
  /\ LET e == EventOf(j)
         found == meta[CallOf[e]]
     IN \/ /\ found = {} \/ Stamp[e] < Newest(found)
           /\ job' = [job EXCEPT ![j].pc = "recording"]
        \/ /\ found = {}
           /\ job' = [job EXCEPT ![j].pc = "inserting"]
        \/ /\ found # {} /\ Stamp[e] >= Newest(found)
           /\ job' = [job EXCEPT ![j].pc = "merging", ![j].seen = found]
  /\ UNCHANGED <<rowVars, arriving, queue, inFlight, pollVars, faults>>

(* updateActivity with the metadata merged from the copy that was read.     *)
Merge(j) ==
  /\ job[j].pc = "merging"
  /\ meta' = [meta EXCEPT ![CallOf[EventOf(j)]] = job[j].seen \cup {EventOf(j)}]
  /\ job' = [job EXCEPT ![j].pc = "recording", ![j].seen = {}]
  /\ UNCHANGED <<received, processed, failed, copies, arriving, queue, inFlight, pollVars, faults>>

(* A bug: no unique index.                                                  *)
InsertableAlways(c) == TRUE

(* activities_unique_external_idx *)
Insertable(c) == copies[c] = 0

(* createActivity; the unique index refuses a second activity of the call.  *)
Create(j) ==
  /\ job[j].pc = "inserting"
  /\ LET c == CallOf[EventOf(j)]
     IN IF Insertable(c)
        THEN /\ meta' = [meta EXCEPT ![c] = {EventOf(j)}]
             /\ copies' = [copies EXCEPT ![c] = @ + 1]
             /\ job' = [job EXCEPT ![j].pc = "recording"]
             /\ UNCHANGED <<queue, inFlight>>
        ELSE Throw(j) /\ UNCHANGED <<meta, copies>>
  /\ UNCHANGED <<received, processed, failed, arriving, pollVars, faults>>

(* The write of processed by row id, the handler's last await.              *)
Record(j) ==
  /\ job[j].pc = "recording"
  /\ processed' = processed \cup {EventOf(j)}
  /\ Leave(j, NoJob, "none")
  /\ UNCHANGED <<received, failed, meta, copies, arriving, pollVars, faults>>

(* An await of the handler fails.                                           *)
Fail(j) ==
  /\ job[j].pc \in {"looking", "merging", "inserting", "recording"}
  /\ faults < MaxFaults
  /\ faults' = faults + 1
  /\ Throw(j)
  /\ UNCHANGED <<rowVars, arriving, pollVars>>

(* An await of the handler never returns, in fewer handlers than            *)
(* MAX_CONCURRENCY.                                                         *)
Wedge(j) ==
  /\ job[j].pc \in {"looking", "merging", "inserting", "recording"}
  /\ Cardinality({k \in Job : job[k].pc = "wedged"}) < Concurrency - 1
  /\ faults < MaxFaults
  /\ faults' = faults + 1
  /\ job' = [job EXCEPT ![j].pc = "wedged", ![j].seen = {}]
  /\ UNCHANGED <<rowVars, arriving, queue, inFlight, pollVars>>

(* The last attempt failed: processed = false and failed_at.                *)
MarkFailed(j) ==
  /\ job[j].pc = "failing"
  /\ processed' = processed \ {EventOf(j)}
  /\ failed' = failed \cup {EventOf(j)}
  /\ Leave(j, NoJob, "none")
  /\ UNCHANGED <<received, meta, copies, arriving, pollVars, faults>>

(* That write fails too: logged, the stamp is cleared all the same.         *)
MarkFailedError(j) ==
  /\ job[j].pc = "failing"
  /\ faults < MaxFaults
  /\ faults' = faults + 1
  /\ Leave(j, NoJob, "none")
  /\ UNCHANGED <<rowVars, arriving, pollVars>>

-----------------------------------------------------------------------------
(* The poller. *)

Unprocessed == received \ (processed \cup failed)

(* A poll first asks whether any contractor has Dialpad enabled, unless its *)
(* process remembers; when none has, it reads no row.                       *)
Ask(p) ==
  /\ polling[p] = "idle" /\ scanned[p] = {} /\ gate[p] = "unset"
  /\ polling' = [polling EXCEPT ![p] = IF enabled THEN "yes" ELSE "no"]
  /\ UNCHANGED <<rowVars, memVars, enabled, gate, scanned, faults>>

(* The answer is remembered, a nudge since the question notwithstanding.  A *)
(* run of the worker is over instead.                                       *)
Denied(p) ==
  /\ polling[p] = "no" /\ p \notin OneShot
  /\ gate' = [gate EXCEPT ![p] = "no"]
  /\ polling' = [polling EXCEPT ![p] = "idle"]
  /\ UNCHANGED <<rowVars, memVars, enabled, scanned, faults>>

(* The rows are read.  A run of the worker polls once, remembering nothing. *)
PollRead(p) ==
  /\ \/ polling[p] = "yes"
     \/ polling[p] = "idle" /\ scanned[p] = {} /\ gate[p] = "yes" /\ p \notin OneShot
  /\ gate' = [gate EXCEPT ![p] = "yes"]
  /\ polling' = [polling EXCEPT ![p] = "idle"]
  /\ scanned' = [scanned EXCEPT ![p] = Unprocessed]
  /\ UNCHANGED <<rowVars, memVars, enabled, faults>>

(* A bug: a stamp never expires.                                            *)
BusyEver(p, e) == inFlight[p][e] # "none"

(* isDialpadEventInFlight                                                   *)
Busy(p, e) == inFlight[p][e] = "fresh"

(* The loop over the rows read, which awaits nothing.                       *)
PollEnqueue(p) ==
  /\ scanned[p] # {}
  /\ Enqueue(p, Ascending({e \in scanned[p] : ~Busy(p, e)}))
  /\ scanned' = [scanned EXCEPT ![p] = {}]
  /\ UNCHANGED <<rowVars, arriving, enabled, gate, polling, faults>>

-----------------------------------------------------------------------------
(* Time and processes. *)

(* IN_FLIGHT_TTL_MS passes since the event was last stamped: because a job  *)
(* of it is wedged, or (bounded) because its jobs are slow.                 *)
Expire(p, e) ==
  /\ inFlight[p][e] = "fresh"
  /\ \/ /\ \E j \in Of(p, job) : EventOf(j) = e /\ job[j].pc = "wedged"
        /\ UNCHANGED faults
     \/ /\ faults < MaxFaults
        /\ faults' = faults + 1
  /\ inFlight' = [inFlight EXCEPT ![p][e] = "stale"]
  /\ UNCHANGED <<rowVars, arriving, job, queue, pollVars>>

(* DEFAULT_TTL_MS passes since the web process asked.                       *)
PresenceExpires(p) ==
  /\ p \notin OneShot /\ gate[p] # "unset"
  /\ gate' = [gate EXCEPT ![p] = "unset"]
  /\ UNCHANGED <<rowVars, memVars, enabled, polling, scanned, faults>>

(* Contractors enable and disable Dialpad; its webhook goes by the stored   *)
(* key and takes events in either case.                                     *)
EnableTenantIntegration ==
  /\ ~enabled /\ enabled' = TRUE
  /\ UNCHANGED <<rowVars, memVars, gate, polling, scanned, faults>>

DisableTenantIntegration ==
  /\ enabled /\ enabled' = FALSE
  /\ UNCHANGED <<rowVars, memVars, gate, polling, scanned, faults>>

(* The process ends and takes its memory along.                             *)
Lose(p) ==
  /\ arriving' = {a \in arriving : a[1] # p}
  /\ job' = [j \in Job |-> IF job[j].host = p THEN NoJob ELSE job[j]]
  /\ queue' = [queue EXCEPT ![p] = <<>>]
  /\ inFlight' = [inFlight EXCEPT ![p] = [e \in Event |-> "none"]]
  /\ gate' = [gate EXCEPT ![p] = "unset"] /\ polling' = [polling EXCEPT ![p] = "idle"]
  /\ scanned' = [scanned EXCEPT ![p] = {}]

Crash(p) ==
  /\ faults < MaxFaults
  /\ faults' = faults + 1
  /\ Lose(p)
  /\ UNCHANGED <<rowVars, enabled>>

(* waitForDialpadQueueDrain: nothing queued, nothing running.               *)
Drained(p) == queue[p] = <<>> /\ RunningOn(p, job) = {}

(* runDialpad returns once its queue is drained and the process exits.      *)
Exit(p) ==
  /\ p \in OneShot
  /\ polling[p] # "yes" /\ scanned[p] = {}
  /\ Drained(p)
  /\ Lose(p)
  /\ UNCHANGED <<rowVars, enabled, faults>>

-----------------------------------------------------------------------------
JobStep(j) == Look(j) \/ Merge(j) \/ Create(j) \/ Record(j) \/ MarkFailed(j) \/ BackoffEnds(j)
JobFault(j) == Fail(j) \/ Wedge(j) \/ MarkFailedError(j)
PollStep(p) == Ask(p) \/ Denied(p) \/ PollRead(p) \/ PollEnqueue(p)

Next ==
  \/ \E j \in Job : JobStep(j) \/ JobFault(j)
  \/ \E p \in Process : Insert(p) \/ Accept(p) \/ PollStep(p) \/ PresenceExpires(p) \/ Crash(p) \/ Exit(p)
  \/ \E p \in Process, e \in Event : Expire(p, e)
  \/ EnableTenantIntegration \/ DisableTenantIntegration

Spec == Init /\ [][Next]_vars

(* The event loop runs what it can, every await but a wedged one returns,   *)
(* the poller's timer keeps firing and the clock advances.  Nothing says    *)
(* that anybody starts the one-shot worker or keeps Dialpad enabled.        *)
Fairness ==
  /\ \A j \in Job : WF_job(JobStep(j))
  /\ \A p \in Process \ OneShot :
       /\ WF_pollVars(PollStep(p)) /\ WF_gate(PresenceExpires(p))
       /\ \A e \in Event : WF_inFlight(Expire(p, e))

FairSpec == Spec /\ Fairness

-----------------------------------------------------------------------------
(* Properties. *)

(* A job sits in exactly one place: in its process's queue, once, or in     *)
(* a timer, or among the running ones.                                      *)
QueuesOK ==
  \A p \in Process :
    /\ Range(queue[p]) = {j \in Of(p, job) : job[j].pc = "queued"}
    /\ Cardinality(Range(queue[p])) = Len(queue[p])

(* Every variable keeps its type, and the queues fit the jobs.              *)
TypeOK ==
  /\ received \subseteq Event /\ processed \subseteq received /\ failed \subseteq received
  /\ meta \in [Call -> SUBSET Event] /\ copies \in [Call -> Nat]
  /\ arriving \subseteq Process \X Event
  /\ job \in [Job -> JobState]
  /\ queue \in [Process -> Seq(Job)] /\ QueuesOK
  /\ inFlight \in [Process -> [Event -> {"none", "fresh", "stale"}]]
  /\ enabled \in BOOLEAN /\ gate \in [Process -> {"unset", "yes", "no"}]
  /\ polling \in [Process -> {"idle", "yes", "no"}] /\ scanned \in [Process -> SUBSET Event]
  /\ faults \in 0..MaxFaults

(* However many jobs, processes and events look the same call up at once,   *)
(* it is logged as one activity (the handler's look-up, then the insert).   *)
CallLoggedOnce == \A c \in Call : copies[c] = IF meta[c] = {} THEN 0 ELSE 1

(* pump() is called wherever it must be: a job never waits in the queue     *)
(* while a slot is free, and never more than MAX_CONCURRENCY run.           *)
PumpKeepsUp ==
  \A p \in Process :
    LET n == Cardinality(RunningOn(p, job))
    IN n <= Concurrency /\ (queue[p] # <<>> => n = Concurrency)

(* An in-flight stamp, which keeps the poller away from a row, is never     *)
(* left behind without a job that works on the row.                         *)
StampHasJob ==
  \A p \in Process, e \in Event :
    inFlight[p][e] # "none" => \E j \in Of(p, job) : EventOf(j) = e

(* An acknowledged event is eventually processed or given up, through       *)
(* crashes, errors and fewer wedged handlers than MAX_CONCURRENCY, or finds *)
(* Dialpad enabled for no contractor: the poller then reads no row, and one *)
(* whose job is lost stays as it is.  So every event ends if from some time *)
(* on some contractor has Dialpad enabled.                                  *)
EveryRowEnds ==
  \A e \in Event : e \in received ~> e \in processed \cup failed \/ ~enabled

(* What the code's comments promise and the runs refute. *)

(* "the terminal states stay mutually exclusive" (dialpad-event-worker.ts). *)
FailedExcludesProcessed == processed \cap failed = {}

(* Processing an event again, or two events of a call at a time, never      *)
(* takes the fields of another event out of the activity.                   *)
EnrichmentKept == [][\A c \in Call : meta[c] \subseteq meta'[c]]_vars

(* The worker waits for its queue "or the recovered work would be lost".    *)
ExitKeepsWork == [][\A p \in OneShot : Exit(p) => Of(p, job) = {}]_vars

=============================================================================
