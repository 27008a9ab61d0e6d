----------------------------- MODULE SalesCron -----------------------------
(***************************************************************************)
(* SalesProcessCron (server/services/sales-process-cron.ts) and the        *)
(* auto-mode task instances it claims: tasks are materialised in a         *)
(* transaction that nudges the cron before it commits, rescheduled by a    *)
(* rep, and claimed by the cron, by the one-shot worker or by /run-now.    *)
(*                                                                         *)
(* claimDueAutoTasks returns rows as the driver names them, attempt_count  *)
(* and step_id, where runDueAutoTasksOnce reads attemptCount and stepId:   *)
(* the step is not found, the attempt compares as neither below nor above  *)
(* the limit, the retry time is an invalid date and the write of it throws *)
(* twice, out of the pass.  So a pass that claims a row fails, and the row *)
(* stays pending and due.  That is what is modelled here.                  *)
(***************************************************************************)
EXTENDS Integers

CONSTANTS Task,         \* sales_process_task_instances in auto mode
          MinSleep,     \* MIN_SLEEP_MS
          MaxSleep,     \* MAX_SLEEP_MS
          CommitDelay,  \* bound: the longest time a materialising transaction stays open
          Delays,       \* the delays from materialisation or reschedule to dueAt
          MaxTime, MaxMoves, MaxAttemptCount  \* bounds

ASSUME ConstantsAssumption ==
  /\ MinSleep \in Nat \ {0} /\ MaxSleep \in Nat /\ MinSleep <= MaxSleep
  /\ CommitDelay \in 0..MinSleep - 1
  /\ Delays \subseteq Nat
  /\ MaxTime \in Nat /\ MaxMoves \in Nat /\ MaxAttemptCount \in Nat

VARIABLES
  running,   \* "new", "on" or "off": this.running, before and after start()
  timer,     \* when this.timer fires: {t}, or {} for no timer
  phase,     \* this.ticking: "idle", "claiming" or "asking" (getNextDueAutoTaskAt)
  nudged,    \* this.nudged
  now,
  state,     \* per task "none", "open" (in an uncommitted transaction) or "pending"
  dueAt, attemptCount,
  since,     \* when the task was inserted or rescheduled, or the cron started (history)
  claimed,   \* the tasks claimed since then (history)
  prompt,    \* the tasks nudged for, with no failed tick since (history)
  pushes,    \* per task, the nudges since then (history)
  moves      \* bound: reschedules so far

loopVars == <<running, timer, phase, nudged>>
taskVars == <<state, dueAt, attemptCount>>
histVars == <<since, claimed, prompt, pushes>>
vars == <<loopVars, now, taskVars, histVars, moves>>

Due == {t \in Task : state[t] = "pending" /\ dueAt[t] <= now}

Init ==
  /\ running = "new" /\ timer = {} /\ phase = "idle" /\ nudged = FALSE /\ now = 0
  /\ state = [t \in Task |-> "none"] /\ dueAt = [t \in Task |-> 0]
  /\ attemptCount = [t \in Task |-> 0] /\ since = [t \in Task |-> 0]
  /\ claimed = {} /\ prompt = {} /\ pushes = [t \in Task |-> 0] /\ moves = 0

(* A bug: the timer that was armed stays armed.                             *)
ScheduleBeside(delay) == timer' = IF running = "on" THEN timer \cup {now + delay} ELSE timer

(* schedule(): the timer that was armed is replaced.                        *)
Schedule(delay) == timer' = IF running = "on" THEN {now + delay} ELSE timer

Start ==
  /\ running = "new"
  /\ running' = "on"
  /\ timer' = {now + MinSleep}
  /\ since' = [t \in Task |-> now]
  /\ UNCHANGED <<phase, nudged, now, taskVars, claimed, prompt, pushes, moves>>

(* A bug: the timer stays armed.                                            *)
StopKeepsTimer ==
  /\ running = "on"
  /\ running' = "off"
  /\ UNCHANGED <<timer, phase, nudged, now, taskVars, histVars, moves>>

Stop ==
  /\ running = "on"
  /\ running' = "off"
  /\ timer' = {}
  /\ UNCHANGED <<phase, nudged, now, taskVars, histVars, moves>>

(* A bug: a nudge in the middle of a tick is ignored.                       *)
NudgeWhenIdle ==
  IF running = "on" /\ phase = "idle" THEN Schedule(MinSleep) /\ UNCHANGED nudged
  ELSE UNCHANGED <<timer, nudged>>

Nudge ==
  IF running # "on" THEN UNCHANGED <<timer, nudged>>
  ELSE IF phase # "idle" THEN nudged' = TRUE /\ UNCHANGED timer
  ELSE Schedule(MinSleep) /\ UNCHANGED nudged

(* materializeFor inserts the instance and nudges; the transaction of the   *)
(* lead is still open.                                                      *)
Materialize(t) ==
  /\ state[t] = "none"
  /\ state' = [state EXCEPT ![t] = "open"]
  /\ \E d \in Delays : dueAt' = [dueAt EXCEPT ![t] = now + d]
  /\ Nudge
  /\ since' = [since EXCEPT ![t] = now]
  /\ prompt' = IF running = "on" THEN prompt \cup {t} ELSE prompt
  /\ pushes' = [u \in Task |-> IF u = t THEN 0 ELSE pushes[u] + 1]
  /\ UNCHANGED <<running, phase, now, attemptCount, claimed, moves>>

Commit(t) ==
  /\ state[t] = "open"
  /\ state' = [state EXCEPT ![t] = "pending"]
  /\ UNCHANGED <<loopVars, now, dueAt, attemptCount, histVars, moves>>

(* rescheduleTask: a rep moves a pending task.  The cron is not told.       *)
Reschedule(t) ==
  /\ state[t] = "pending"
  /\ moves < MaxMoves
  /\ \E d \in Delays : dueAt' = [dueAt EXCEPT ![t] = now + d]
  /\ since' = [since EXCEPT ![t] = now]
  /\ claimed' = claimed \ {t}
  /\ prompt' = prompt \ {t}
  /\ pushes' = [pushes EXCEPT ![t] = 0]
  /\ moves' = moves + 1
  /\ UNCHANGED <<loopVars, now, state, attemptCount>>

-----------------------------------------------------------------------------
(* The cron. *)

TickBegin ==
  /\ \E t \in timer : t <= now
  /\ timer' = {}
  /\ IF running = "on" THEN phase' = "claiming" /\ nudged' = FALSE
                       ELSE UNCHANGED <<phase, nudged>>
  /\ UNCHANGED <<running, now, taskVars, histVars, moves>>

(* claimDueAutoTasks, with fewer tasks due than BATCH_LIMIT: the claim      *)
(* counts an attempt and leaves the rows pending.                           *)
ClaimDue ==
  /\ attemptCount' = [t \in Task |-> IF t \in Due /\ attemptCount[t] < MaxAttemptCount
                                     THEN attemptCount[t] + 1 ELSE attemptCount[t]]
  /\ claimed' = claimed \cup Due

(* The tick ends: the next one after delay, or soon if a nudge came.        *)
TickEnds(delay) ==
  /\ phase' = "idle"
  /\ nudged' = FALSE
  /\ Schedule(IF nudged THEN MinSleep ELSE delay)

(* runDueAutoTasksOnce claims rows and throws.                              *)
PassFails ==
  /\ phase = "claiming"
  /\ Due # {}
  /\ ClaimDue
  /\ TickEnds(MaxSleep)
  /\ prompt' = {}
  /\ UNCHANGED <<running, now, state, dueAt, since, pushes, moves>>

(* It claims nothing and returns.                                           *)
PassEmpty ==
  /\ phase = "claiming"
  /\ Due = {}
  /\ phase' = "asking"
  /\ UNCHANGED <<running, timer, nudged, now, taskVars, histVars, moves>>

(* computeSleepUntilNextDue *)
Sleep ==
  LET wait == {dueAt[t] - now : t \in {u \in Task : state[u] = "pending"}}
      IsNext(w) == w \in wait /\ \A v \in wait : w <= v
  IN IF wait = {} THEN MaxSleep
     ELSE LET w == CHOOSE x \in wait : IsNext(x)
          IN IF w < MinSleep THEN MinSleep ELSE IF w > MaxSleep THEN MaxSleep ELSE w

(* The query of the next due time returned; it may fail as well.            *)
Ask ==
  /\ phase = "asking"
  /\ TickEnds(Sleep)
  /\ UNCHANGED <<running, now, taskVars, histVars, moves>>

AskFails ==
  /\ phase = "asking"
  /\ TickEnds(MaxSleep)
  /\ prompt' = {}
  /\ UNCHANGED <<running, now, taskVars, since, claimed, pushes, moves>>

(* The same pass, run by the worker process or by /run-now.                 *)
OtherPass ==
  /\ Due # {}
  /\ ClaimDue
  /\ UNCHANGED <<loopVars, now, state, dueAt, since, prompt, pushes, moves>>

(* Time passes.  Timers fire when they are due, ticks and transactions are  *)
(* short.                                                                   *)
Advance ==
  /\ now < MaxTime
  /\ \A t \in timer : now < t
  /\ phase = "idle"
  /\ \A t \in Task : state[t] = "open" => now - since[t] < CommitDelay
  /\ now' = now + 1
  /\ UNCHANGED <<loopVars, taskVars, histVars, moves>>

Next ==
  \/ Start \/ Stop \/ TickBegin \/ PassFails \/ PassEmpty \/ Ask \/ AskFails \/ OtherPass \/ Advance
  \/ \E t \in Task : Materialize(t) \/ Commit(t) \/ Reschedule(t)

Spec == Init /\ [][Next]_vars

-----------------------------------------------------------------------------
(* Properties. *)

(* Every variable keeps its type.                                           *)
TypeOK ==
  /\ running \in {"new", "on", "off"}
  /\ timer \in SUBSET Nat /\ \A t, u \in timer : t = u
  /\ phase \in {"idle", "claiming", "asking"} /\ nudged \in BOOLEAN /\ now \in 0..MaxTime
  /\ state \in [Task -> {"none", "open", "pending"}]
  /\ dueAt \in [Task -> Nat] /\ attemptCount \in [Task -> 0..MaxAttemptCount]
  /\ since \in [Task -> Nat] /\ claimed \subseteq Task /\ prompt \subseteq Task
  /\ pushes \in [Task -> Nat] /\ moves \in 0..MaxMoves

(* Every task is claimed on time: once it is due and visible, within the    *)
(* shortest sleep if the cron was nudged for it and no tick failed since,   *)
(* within the longest sleep otherwise.  Each later nudge may put the timer  *)
(* off by one shortest sleep.                                               *)
OnTime ==
  \A t \in Task :
    running = "on" /\ state[t] = "pending" /\ t \notin claimed =>
      now <= (IF dueAt[t] < since[t] THEN since[t] ELSE dueAt[t])
             + (IF t \in prompt THEN MinSleep ELSE MaxSleep)
             + MinSleep * pushes[t]

PL == INSTANCE PollLoop WITH
        on <- running, armed <- IF timer = {} THEN 0 ELSE 1,
        bodies <- IF phase = "idle" THEN 0 ELSE 1

(* The cron implements the promise of a background loop.                    *)
ImplementsPollLoop == PL!Spec

(* "the spec's 5": a task is claimed at most five times before it is given  *)
(* up for good.                                                             *)
AttemptsBounded == \A t \in Task : attemptCount[t] <= 5
=============================================================================
