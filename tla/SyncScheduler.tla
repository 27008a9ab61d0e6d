--------------------------- MODULE SyncScheduler ---------------------------
(***************************************************************************)
(* SyncScheduler (server/sync-scheduler.ts): the sync_schedules rows of a  *)
(* contractor, the pass that syncs those that are due, and who makes one:  *)
(* the chain of ticks in the web process, the one-shot worker process      *)
(* (server/worker.ts) under its advisory lock (server/jobs/job-lock.ts).   *)
(* A user also syncs by hand in the web process.  There is no clock: a row *)
(* that waits becomes due, a timer fires.                                  *)
(***************************************************************************)
EXTENDS Integers

CONSTANTS Integration,
          Recoverable, \* the integrations recoverSchedules looks at
          InApp,       \* RUN_IN_APP_JOBS: the web process starts the scheduler
          Worker,      \* invocations of the worker process
          Nobody

VARIABLES
  isRunning,   \* "new", "on" or "off": this.isRunning, before and after start()
  timer,       \* whether _scheduleTimer is armed
  pc,          \* per runner, where it is
  list,        \* per runner, the due rows its pass has yet to take
  cur,         \* per runner, the row it is at
  activeSyncs, \* of the web process
  row,         \* sync_schedules: "none", "later" or "due"
  enabled,     \* the integrations that are enabled
  holder,      \* who holds the advisory lock worker:sync
  lost         \* whether a holder lost its database session (history)

vars == <<isRunning, timer, pc, list, cur, activeSyncs, row, enabled, holder, lost>>

(* Who syncs: the chain of ticks, the workers and the user.                 *)
Runner == {"web", "user"} \cup Worker
InWeb(r) == r \in {"web", "user"}

Init ==
  /\ isRunning = "new" /\ timer = FALSE
  /\ pc = [r \in Runner |-> "idle"] /\ list = [r \in Runner |-> {}]
  /\ cur = [r \in Runner |-> Nobody] /\ activeSyncs = {}
  /\ row = [i \in Integration |-> "none"] /\ enabled = {}
  /\ holder = Nobody /\ lost = FALSE

Goto(r, label) == pc' = [pc EXCEPT ![r] = label]

(* The pass is over, with all its rows or by an error: the chain goes on to *)
(* its next timer, the worker gives the lock back and exits.                *)
PassOver(r) ==
  /\ Goto(r, IF r = "web" THEN "ask" ELSE "idle")
  /\ list' = [list EXCEPT ![r] = {}]
  /\ cur' = [cur EXCEPT ![r] = Nobody]
  /\ holder' = IF holder = r THEN Nobody ELSE holder

(* The row is done with.                                                    *)
RowDone(r) ==
  /\ Goto(r, IF r = "user" THEN "idle" ELSE "next")
  /\ cur' = [cur EXCEPT ![r] = Nobody]

-----------------------------------------------------------------------------
(* Starting, stopping, enabling. *)

Start ==
  /\ InApp /\ isRunning = "new"
  /\ isRunning' = "on"
  /\ Goto("web", "recover")
  /\ UNCHANGED <<timer, list, cur, activeSyncs, row, enabled, holder, lost>>

Stop ==
  /\ isRunning = "on"
  /\ isRunning' = "off"
  /\ timer' = FALSE
  /\ UNCHANGED <<pc, list, cur, activeSyncs, row, enabled, holder, lost>>

(* withJobLock: a worker whose lock is taken exits at once.                 *)
WorkerBegins(w) ==
  /\ pc[w] = "idle"
  /\ holder = Nobody
  /\ holder' = w
  /\ Goto(w, "recover")
  /\ UNCHANGED <<isRunning, timer, list, cur, activeSyncs, row, enabled, lost>>

(* The watchdog, or the platform, ends the worker.                          *)
WorkerDies(w) ==
  /\ pc[w] # "idle"
  /\ PassOver(w)
  /\ UNCHANGED <<isRunning, timer, activeSyncs, row, enabled, lost>>

(* The connection that holds the lock breaks; the job goes on.              *)
LoseSession ==
  /\ holder # Nobody
  /\ holder' = Nobody
  /\ lost' = TRUE
  /\ UNCHANGED <<isRunning, timer, pc, list, cur, activeSyncs, row, enabled>>

(* The routes enable the integration and schedule it; the second may fail.  *)
Enable(i) ==
  /\ i \notin enabled
  /\ enabled' = enabled \cup {i}
  /\ row' \in {row, [row EXCEPT ![i] = "later"]}
  /\ UNCHANGED <<isRunning, timer, pc, list, cur, activeSyncs, holder, lost>>

Disable(i) ==
  /\ i \in enabled
  /\ enabled' = enabled \ {i}
  /\ row' \in {row, [row EXCEPT ![i] = "none"]}
  /\ UNCHANGED <<isRunning, timer, pc, list, cur, activeSyncs, holder, lost>>

(* A row's next_sync_at is reached.                                         *)
ComesDue(i) ==
  /\ row[i] = "later"
  /\ row' = [row EXCEPT ![i] = "due"]
  /\ UNCHANGED <<isRunning, timer, pc, list, cur, activeSyncs, enabled, holder, lost>>

-----------------------------------------------------------------------------
(* A pass. *)

(* A bug: the rows are not restored.                                        *)
RecoverNothing(r) ==
  /\ pc[r] = "recover"
  /\ Goto(r, "list")
  /\ UNCHANGED <<isRunning, timer, list, cur, activeSyncs, row, enabled, holder, lost>>

(* recoverSchedules, where every query succeeds.                            *)
Recover(r) ==
  /\ pc[r] = "recover"
  /\ Goto(r, "list")
  /\ row' = [i \in Integration |-> IF i \in Recoverable \cap enabled /\ row[i] = "none"
                                   THEN "later" ELSE row[i]]
  /\ UNCHANGED <<isRunning, timer, list, cur, activeSyncs, enabled, holder, lost>>

RecoverFails(r) ==
  /\ pc[r] = "recover"
  /\ Goto(r, "list")
  /\ UNCHANGED <<isRunning, timer, list, cur, activeSyncs, row, enabled, holder, lost>>

List(r) ==
  /\ pc[r] = "list"
  /\ list' = [list EXCEPT ![r] = {i \in Integration : row[i] = "due"}]
  /\ Goto(r, "next")
  /\ UNCHANGED <<isRunning, timer, cur, activeSyncs, row, enabled, holder, lost>>

ListFails(r) ==
  /\ pc[r] = "list"
  /\ PassOver(r)
  /\ UNCHANGED <<isRunning, timer, activeSyncs, row, enabled, lost>>

(* performSync up to its first await.                                       *)
Enter(r, i) ==
  /\ Goto(r, "check")
  /\ cur' = [cur EXCEPT ![r] = i]
  /\ activeSyncs' = IF InWeb(r) THEN activeSyncs \cup {i} ELSE activeSyncs

(* A bug: activeSyncs is not looked at.                                     *)
TakeAnyway(r, i) ==
  /\ pc[r] = "next" /\ i \in list[r]
  /\ list' = [list EXCEPT ![r] = @ \ {i}]
  /\ Enter(r, i)
  /\ UNCHANGED <<isRunning, timer, row, enabled, holder, lost>>

(* The next due row.  One that is being synced in this process is skipped,  *)
(* and stamped as if it had been synced.                                    *)
Take(r, i) ==
  /\ pc[r] = "next" /\ i \in list[r]
  /\ list' = [list EXCEPT ![r] = @ \ {i}]
  /\ IF InWeb(r) /\ i \in activeSyncs
     THEN /\ Goto(r, "stamp") /\ cur' = [cur EXCEPT ![r] = i]
          /\ UNCHANGED activeSyncs
     ELSE Enter(r, i)
  /\ UNCHANGED <<isRunning, timer, row, enabled, holder, lost>>

TakeNone(r) ==
  /\ pc[r] = "next" /\ list[r] = {}
  /\ PassOver(r)
  /\ UNCHANGED <<isRunning, timer, activeSyncs, row, enabled, lost>>

(* triggerSync                                                              *)
Trigger(i) ==
  /\ pc["user"] = "idle"
  /\ i \notin activeSyncs
  /\ Enter("user", i)
  /\ UNCHANGED <<isRunning, timer, list, row, enabled, holder, lost>>

(* The end of performSync, with or without an error: it leaves activeSyncs. *)
Leave(r, label) ==
  /\ activeSyncs' = IF InWeb(r) THEN activeSyncs \ {cur[r]} ELSE activeSyncs
  /\ IF r = "user" THEN RowDone(r) ELSE Goto(r, label) /\ UNCHANGED cur
  /\ UNCHANGED <<isRunning, timer, list, row, enabled, holder, lost>>

(* A disabled integration is skipped, and stamped as if synced.             *)
Check(r) ==
  /\ pc[r] = "check"
  /\ IF cur[r] \in enabled
     THEN Goto(r, "run") /\ UNCHANGED <<isRunning, timer, list, cur, activeSyncs, row, enabled, holder, lost>>
     ELSE Leave(r, "stamp")

Ran(r) == pc[r] = "run" /\ Leave(r, "stamp")

SyncFails(r) == pc[r] \in {"check", "run"} /\ Leave(r, "retry")

(* The row gets its next time, which a long pass has let pass by already.   *)
Stamp(r) ==
  /\ pc[r] = "stamp"
  /\ IF row[cur[r]] = "none" THEN UNCHANGED row
     ELSE \E next \in {"later", "due"} : row' = [row EXCEPT ![cur[r]] = next]
  /\ RowDone(r)
  /\ UNCHANGED <<isRunning, timer, list, activeSyncs, enabled, holder, lost>>

StampFails(r) ==
  /\ pc[r] = "stamp"
  /\ Goto(r, "retry")
  /\ UNCHANGED <<isRunning, timer, list, cur, activeSyncs, row, enabled, holder, lost>>

(* The time of the retry is written.                                        *)
Retry(r) ==
  /\ pc[r] = "retry"
  /\ row' = [row EXCEPT ![cur[r]] = IF @ = "none" THEN @ ELSE "later"]
  /\ RowDone(r)
  /\ UNCHANGED <<isRunning, timer, list, activeSyncs, enabled, holder, lost>>

(* An error here leaves checkDueSyncs: the rest of the pass is dropped.     *)
RetryFails(r) ==
  /\ pc[r] = "retry"
  /\ PassOver(r)
  /\ UNCHANGED <<isRunning, timer, activeSyncs, row, enabled, lost>>

-----------------------------------------------------------------------------
(* The chain of ticks. *)

(* A bug: a pass that ends without a due row arms no timer.                 *)
AskDropsChain ==
  /\ pc["web"] = "ask"
  /\ Goto("web", IF isRunning = "on" /\ \E i \in Integration : row[i] # "none"
                 THEN "arm" ELSE "idle")
  /\ UNCHANGED <<isRunning, timer, list, cur, activeSyncs, row, enabled, holder, lost>>

(* The pass has ended: a stopped scheduler leaves the chain.                *)
Ask ==
  /\ pc["web"] = "ask"
  /\ Goto("web", IF isRunning = "on" THEN "arm" ELSE "idle")
  /\ UNCHANGED <<isRunning, timer, list, cur, activeSyncs, row, enabled, holder, lost>>

(* The next due time is known, or the query failed: the timer is armed,     *)
(* also when stop() came in between.                                        *)
Arm ==
  /\ pc["web"] = "arm"
  /\ timer' = TRUE
  /\ Goto("web", "idle")
  /\ UNCHANGED <<isRunning, list, cur, activeSyncs, row, enabled, holder, lost>>

Fire ==
  /\ timer
  /\ timer' = FALSE
  /\ IF isRunning = "on" THEN Goto("web", "list") ELSE UNCHANGED pc
  /\ UNCHANGED <<isRunning, list, cur, activeSyncs, row, enabled, holder, lost>>

Step(r) ==
  \/ Recover(r) \/ RecoverFails(r) \/ List(r) \/ ListFails(r) \/ TakeNone(r)
  \/ \E i \in Integration : Take(r, i)
  \/ Check(r) \/ Ran(r) \/ SyncFails(r) \/ Stamp(r) \/ StampFails(r) \/ Retry(r) \/ RetryFails(r)

Next ==
  \/ Start \/ Stop \/ Ask \/ Arm \/ Fire \/ LoseSession
  \/ \E r \in Runner : Step(r)
  \/ \E w \in Worker : WorkerBegins(w) \/ WorkerDies(w)
  \/ \E i \in Integration : Enable(i) \/ Disable(i) \/ ComesDue(i) \/ Trigger(i)

(* The chain goes on: timers fire, queries and syncs end, and the database  *)
(* does not fail each listing of due rows or each write of a retry.         *)
ChainFairness ==
  /\ WF_vars(Ask) /\ WF_vars(Arm) /\ WF_vars(Fire) /\ WF_vars(Step("web"))
  /\ SF_vars(List("web")) /\ SF_vars(Retry("web"))

(* The platform invokes the worker again and again, lets it go on, and the  *)
(* database does not fail each recovery.                                    *)
WorkerFairness ==
  \A w \in Worker : WF_vars(WorkerBegins(w)) /\ SF_vars(Recover(w)) /\ WF_vars(Step(w))

Spec == Init /\ [][Next]_vars
LiveSpec == Spec /\ ChainFairness /\ WorkerFairness

-----------------------------------------------------------------------------
(* Properties. *)

(* One sync of a row at a time: two that run together are one in the web    *)
(* process and one in the worker, which activeSyncs does not see, or in two *)
(* workers of which one had lost its lock.                                  *)
SyncAlone ==
  \A r, s \in Runner :
    r # s /\ pc[r] = "run" /\ pc[s] = "run" /\ cur[r] = cur[s] =>
      (InWeb(r) <=> ~InWeb(s)) \/ lost

(* No due row is left behind: its turn comes in the chain of ticks, however *)
(* many passes were dropped before they reached it.                         *)
DueHasItsTurn ==
  \A i \in Integration :
    (row[i] = "due" /\ isRunning = "on")
      ~> (row[i] # "due" \/ isRunning = "off" \/ cur["web"] = i)

(* "ensure every active integration has a sync schedule row": one that has  *)
(* none gets it, for the integrations that recoverSchedules looks at.       *)
RowRestored ==
  \A i \in Recoverable : (i \in enabled /\ row[i] = "none") ~> (i \notin enabled \/ row[i] # "none")
=============================================================================
