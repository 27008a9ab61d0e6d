--------------------------- MODULE WorkflowEngine ---------------------------
(***************************************************************************)
(* The workflow engine of server/workflow-engine: execution rows in the    *)
(* database, the in-process runs of executeWorkflow and                    *)
(* resumeSuspendedWorkflow, the poll cycles that claim suspended rows, the *)
(* cancel endpoint, the estimate_stale schedule and its cancellation, and  *)
(* process crashes followed by recoverZombieExecutions.                    *)
(*                                                                         *)
(* Every await of the code that reads or writes the execution row is a     *)
(* step of its own.  What a workflow editor may change at any time (the    *)
(* active/approved flags and the list of steps, read through a 60 s cache) *)
(* is a choice made when a run reads it.  Time is abstract: a resumeAt is  *)
(* "future" until DueTime makes it "past", and createdAt is old or not.    *)
(***************************************************************************)
EXTENDS Integers, Sequences, FiniteSets

CONSTANTS Execution,   \* rows of workflow_executions
          Runner,      \* slots for calls of executeWorkflow / resumeSuspendedWorkflow
          Process,     \* OS processes: the web servers and the one-shot workers
          Server,      \* the processes that run recoverZombieExecutions at start
          Cycle,       \* poll cycles (an in-app timer chain, a worker's pollOnce)
          Host,        \* the process of each poll cycle
          MaxOrder,    \* the largest stepOrder
          MaxCrashes,  \* bound: number of crashes
          MaxErrors,   \* bound: number of failing storage calls
          None         \* no execution, no process

ASSUME ConstantsAssumption ==
  /\ MaxOrder \in Nat
  /\ Server \subseteq Process
  /\ Host \in [Cycle -> Process]
  /\ None \notin Execution
  /\ None \notin Process

Order == 0..MaxOrder
Terminal == {"completed", "failed", "cancelled", "deleted"}
Status == {"none", "pending", "running", "suspended"} \cup Terminal

VARIABLES
  status,       \* the row's status; "none" and "deleted": before and after its life
  currentStep,  \* the row's currentStep
  resumeAt,     \* the row's resumeAt, relative to now
  old,          \* createdAt lies more than 24 h in the past
  stale,        \* triggerData carries __staleCheck
  acted,        \* the estimate has been approved or rejected
  swept,        \* its stale executions were swept after that (history)
  log,          \* step orders whose group was handed to its handlers (history)
  cancelledAt,  \* Len(log) when the row last became cancelled (history)
  pc, exec, host, at, todo, outcome, caught,  \* the calls in flight, see below
  due,          \* rows a poll cycle has read and not yet tried to claim
  sweep,        \* rows cancelPendingStaleExecutions read and has yet to write
  recover,      \* rows recoverZombieExecutions read and has yet to write
  crashes, errors

rowVars == <<status, currentStep, resumeAt, old, stale>>
runVars == <<pc, exec, host, at, todo, outcome, caught>>
histVars == <<log, cancelledAt, swept>>
listVars == <<due, sweep, recover>>
boundVars == <<crashes, errors>>
vars == <<rowVars, acted, histVars, runVars, listVars, boundVars>>

-----------------------------------------------------------------------------
(* A call in run slot r stands at pc[r], works on row exec[r] in process     *)
(* host[r], has reached stepOrder at[r] and has the orders todo[r] still to  *)
(* run; outcome[r] is how it will end, caught[r] that it is in its catch.    *)

PC == {"idle", "load", "start", "resume", "reload", "gate", "restart",
       "check", "mark", "act", "park", "settle", "write", "bail"}
Outcome == {"none", "completed", "failed", "cancelled"}

Live(e) == \E r \in Runner : pc[r] # "idle" /\ exec[r] = e

At(r, label) == pc[r] = label

Goto(r, l) ==
  pc' = [pc EXCEPT ![r] = l] /\ UNCHANGED <<exec, host, at, todo, outcome, caught>>
Walk(r, l, o, t) ==
  /\ pc' = [pc EXCEPT ![r] = l]
  /\ at' = [at EXCEPT ![r] = o]
  /\ todo' = [todo EXCEPT ![r] = t]
  /\ UNCHANGED <<exec, host, outcome, caught>>
Conclude(r, l, k) ==
  /\ pc' = [pc EXCEPT ![r] = l]
  /\ outcome' = [outcome EXCEPT ![r] = k]
  /\ UNCHANGED <<exec, host, at, todo, caught>>
Settle(r, k) == Conclude(r, "settle", k)
Bail(r, k) == Conclude(r, "bail", k)

Call(r, e, p, l) ==
  /\ pc' = [pc EXCEPT ![r] = l]
  /\ exec' = [exec EXCEPT ![r] = e]
  /\ host' = [host EXCEPT ![r] = p]
  /\ UNCHANGED <<at, todo, outcome, caught>>

(* The calls of R are gone; their slots are as good as new. *)
Vacate(R) ==
  /\ pc' = [r \in Runner |-> IF r \in R THEN "idle" ELSE pc[r]]
  /\ exec' = [r \in Runner |-> IF r \in R THEN None ELSE exec[r]]
  /\ host' = [r \in Runner |-> IF r \in R THEN None ELSE host[r]]
  /\ at' = [r \in Runner |-> IF r \in R THEN -1 ELSE at[r]]
  /\ todo' = [r \in Runner |-> IF r \in R THEN {} ELSE todo[r]]
  /\ outcome' = [r \in Runner |-> IF r \in R THEN "none" ELSE outcome[r]]
  /\ caught' = [r \in Runner |-> IF r \in R THEN FALSE ELSE caught[r]]
End(r) == Vacate({r})

(* An UPDATE of a deleted row changes nothing. *)
SetStatus(e, s) ==
  IF status[e] = "deleted"
  THEN UNCHANGED <<status, cancelledAt>>
  ELSE /\ status' = [status EXCEPT ![e] = s]
       /\ cancelledAt' = IF s = "cancelled"
                         THEN [cancelledAt EXCEPT ![e] = Len(log[e])]
                         ELSE cancelledAt

Init ==
  /\ status = [e \in Execution |-> "none"]
  /\ currentStep = [e \in Execution |-> -1]
  /\ resumeAt = [e \in Execution |-> "null"]
  /\ old = [e \in Execution |-> FALSE]
  /\ stale = [e \in Execution |-> FALSE]
  /\ acted = FALSE
  /\ swept = FALSE
  /\ log = [e \in Execution |-> <<>>]
  /\ cancelledAt = [e \in Execution |-> 0]
  /\ pc = [r \in Runner |-> "idle"]
  /\ exec = [r \in Runner |-> None]
  /\ host = [r \in Runner |-> None]
  /\ at = [r \in Runner |-> -1]
  /\ todo = [r \in Runner |-> {}]
  /\ outcome = [r \in Runner |-> "none"]
  /\ caught = [r \in Runner |-> FALSE]
  /\ due = [c \in Cycle |-> {}]
  /\ sweep = [p \in Process |-> {}]
  /\ recover = [p \in Process |-> {}]
  /\ crashes = 0
  /\ errors = 0

-----------------------------------------------------------------------------
(* triggerWorkflowsForEvent and the manual execute endpoint: the row is      *)
(* inserted as pending and executeWorkflow is called in the same process.    *)
Trigger(e, r, p) ==
  /\ status[e] = "none"
  /\ At(r, "idle")
  /\ SetStatus(e, "pending")
  /\ Call(r, e, p, "load")
  /\ UNCHANGED <<currentStep, resumeAt, old, stale, acted, log, swept, listVars, boundVars>>

(* The insert failed; a best-effort second insert leaves a failed row.       *)
TriggerFails(e) ==
  /\ status[e] = "none"
  /\ errors < MaxErrors
  /\ errors' = errors + 1
  /\ SetStatus(e, "failed")
  /\ UNCHANGED <<currentStep, resumeAt, old, stale, acted, log, swept, runVars, listVars, crashes>>

(* scheduleStaleEstimateExecutions, on estimate_created: the estimate is     *)
(* new, so nobody has acted on it.                                           *)
ScheduleStale(e) ==
  /\ status[e] = "none"
  /\ ~acted
  /\ SetStatus(e, "suspended")
  /\ resumeAt' = [resumeAt EXCEPT ![e] = "future"]
  /\ stale' = [stale EXCEPT ![e] = TRUE]
  /\ UNCHANGED <<currentStep, old, acted, log, swept, runVars, listVars, boundVars>>

-----------------------------------------------------------------------------
(* executeWorkflow *)

(* It reads the workflow and its steps: missing, inactive or unapproved ends *)
(* as failed, no steps as completed, both by an unconditional write.         *)
Load(r) ==
  /\ At(r, "load")
  /\ \/ status[exec[r]] = "deleted" /\ End(r)
     \/ Bail(r, "failed")
     \/ Bail(r, "completed")
     \/ \E steps \in (SUBSET Order) \ {{}} : Walk(r, "start", at[r], steps)
  /\ UNCHANGED <<rowVars, acted, histVars, listVars, boundVars>>

Start(r) ==
  /\ At(r, "start")
  /\ SetStatus(exec[r], "running")
  /\ Goto(r, "check")
  /\ UNCHANGED <<currentStep, resumeAt, old, stale, acted, log, swept, listVars, boundVars>>

(* The three unconditional terminal writes: no usable workflow, no steps,    *)
(* the stale gate's cancellation.                                            *)
BailOut(r) ==
  /\ At(r, "bail")
  /\ SetStatus(exec[r], outcome[r])
  /\ End(r)
  /\ UNCHANGED <<currentStep, resumeAt, old, stale, acted, log, swept, listVars, boundVars>>

-----------------------------------------------------------------------------
(* resumeSuspendedWorkflow *)

(* It reads the row: anything but suspended or running is left alone.        *)
Resume(r) ==
  LET e == exec[r] IN
  /\ At(r, "resume")
  /\ IF status[e] \in {"suspended", "running"}
     THEN Walk(r, "reload", currentStep[e], todo[r])
     ELSE End(r)
  /\ UNCHANGED <<rowVars, acted, histVars, listVars, boundVars>>

(* Mutant: resumes at currentStep instead of after it. *)
ReloadFromCurrent(r) ==
  /\ At(r, "reload")
  /\ \E steps \in SUBSET Order :
       LET remaining == {o \in steps : o >= at[r]} IN
       /\ remaining # {}
       /\ Walk(r, IF stale[exec[r]] THEN "gate" ELSE "restart", at[r], remaining)
  /\ UNCHANGED <<rowVars, acted, histVars, listVars, boundVars>>

(* It reads the workflow and its steps and keeps those after currentStep.    *)
Reload(r) ==
  /\ At(r, "reload")
  /\ \/ Bail(r, "failed")
     \/ Bail(r, "completed")
     \/ \E steps \in SUBSET Order :
          LET remaining == {o \in steps : o >= at[r] + 1} IN
          /\ remaining # {}
          /\ Walk(r, IF stale[exec[r]] THEN "gate" ELSE "restart", at[r], remaining)
  /\ UNCHANGED <<rowVars, acted, histVars, listVars, boundVars>>

(* Mutant: does not look at the estimate. *)
GateOpen(r) ==
  /\ At(r, "gate")
  /\ Goto(r, "restart")
  /\ UNCHANGED <<rowVars, acted, histVars, listVars, boundVars>>

(* The stale gate re-reads the estimate.                                     *)
Gate(r) ==
  /\ At(r, "gate")
  /\ IF acted THEN Bail(r, "cancelled") ELSE Goto(r, "restart")
  /\ UNCHANGED <<rowVars, acted, histVars, listVars, boundVars>>

(* An error in the gate is logged and swallowed.                             *)
GateError(r) ==
  /\ At(r, "gate")
  /\ errors < MaxErrors
  /\ errors' = errors + 1
  /\ Goto(r, "restart")
  /\ UNCHANGED <<rowVars, acted, histVars, listVars, crashes>>

Restart(r) ==
  LET e == exec[r] IN
  /\ At(r, "restart")
  /\ SetStatus(e, "running")
  /\ resumeAt' = [resumeAt EXCEPT ![e] = "null"]
  /\ Goto(r, "check")
  /\ UNCHANGED <<currentStep, old, stale, acted, log, swept, listVars, boundVars>>

-----------------------------------------------------------------------------
(* runStepGroups *)

(* Mutant: the row is not re-read between groups. *)
CheckNothing(r) ==
  /\ At(r, "check")
  /\ \/ /\ todo[r] = {}
        /\ Settle(r, "completed")
     \/ \E o \in todo[r] :
          /\ \A q \in todo[r] : o <= q
          /\ Walk(r, "mark", o, todo[r] \ {o})
  /\ UNCHANGED <<rowVars, acted, histVars, listVars, boundVars>>

(* Before each group the row is re-read; with no group left the run settles. *)
Check(r) ==
  /\ At(r, "check")
  /\ \/ /\ todo[r] = {}
        /\ Settle(r, "completed")
     \/ /\ todo[r] # {}
        /\ status[exec[r]] = "cancelled"
        /\ End(r)
     \/ /\ status[exec[r]] # "cancelled"
        /\ \E o \in todo[r] :
             /\ \A q \in todo[r] : o <= q
             /\ Walk(r, "mark", o, todo[r] \ {o})
  /\ UNCHANGED <<rowVars, acted, histVars, listVars, boundVars>>

(* Mutant: stores the order of the next group. *)
MarkNext(r) ==
  /\ At(r, "mark")
  /\ currentStep' = [currentStep EXCEPT ![exec[r]] = at[r] + 1]
  /\ Goto(r, "act")
  /\ UNCHANGED <<status, resumeAt, old, stale, acted, histVars, listVars, boundVars>>

(* (The other columns of a deleted row are never read again.)                *)
Mark(r) ==
  /\ At(r, "mark")
  /\ currentStep' = [currentStep EXCEPT ![exec[r]] = at[r]]
  /\ Goto(r, "act")
  /\ UNCHANGED <<status, resumeAt, old, stale, acted, histVars, listVars, boundVars>>

(* The group's handlers run in parallel, each raced against 30 s.  A delay   *)
(* in the group parks the run, a failure or a timeout fails it.              *)
Act(r) ==
  LET e == exec[r] IN
  /\ At(r, "act")
  /\ log' = [log EXCEPT ![e] = Append(@, at[r])]
  /\ \/ Goto(r, "check")
     \/ Goto(r, "park")
     \/ Settle(r, "failed")
  /\ UNCHANGED <<rowVars, acted, cancelledAt, swept, listVars, boundVars>>

-----------------------------------------------------------------------------
(* How both entry points end *)

(* The suspended outcome is written whatever the row's status is by now;     *)
(* a short delay may already have elapsed.                                   *)
Park(r) ==
  LET e == exec[r] IN
  /\ At(r, "park")
  /\ SetStatus(e, "suspended")
  /\ currentStep' = [currentStep EXCEPT ![e] = at[r]]
  /\ \E t \in {"future", "past"} : resumeAt' = [resumeAt EXCEPT ![e] = t]
  /\ End(r)
  /\ UNCHANGED <<old, stale, acted, log, swept, listVars, boundVars>>

(* Mutant: waits for the row to leave cancelled. *)
SettleWaits(r) ==
  /\ At(r, "settle")
  /\ status[exec[r]] \notin {"cancelled", "deleted"}
  /\ Goto(r, "write")
  /\ UNCHANGED <<rowVars, acted, histVars, listVars, boundVars>>

(* updateExecutionStatusIfNotCancelled: a read, then a write.                *)
SettleRead(r) ==
  /\ At(r, "settle")
  /\ IF status[exec[r]] \in {"cancelled", "deleted"}
     THEN End(r)
     ELSE Goto(r, "write")
  /\ UNCHANGED <<rowVars, acted, histVars, listVars, boundVars>>

SettleWrite(r) ==
  /\ At(r, "write")
  /\ SetStatus(exec[r], outcome[r])
  /\ End(r)
  /\ UNCHANGED <<currentStep, resumeAt, old, stale, acted, log, swept, listVars, boundVars>>

(* A storage call throws: the catch block settles as failed, and a second    *)
(* throw inside it leaves the row as it is.                                  *)
StorageError(r) ==
  /\ pc[r] \notin {"idle", "act", "gate"}
  /\ errors < MaxErrors
  /\ errors' = errors + 1
  /\ IF caught[r]
     THEN End(r)
     ELSE /\ pc' = [pc EXCEPT ![r] = "settle"]
          /\ outcome' = [outcome EXCEPT ![r] = "failed"]
          /\ caught' = [caught EXCEPT ![r] = TRUE]
          /\ UNCHANGED <<exec, host, at, todo>>
  /\ UNCHANGED <<rowVars, acted, histVars, listVars, crashes>>

-----------------------------------------------------------------------------
(* The poller: getSuspendedExecutions, then claimSuspendedExecution one row  *)
(* after the other.                                                          *)

(* Mutant: compares resumeAt the wrong way round. *)
PollEarly(c) ==
  LET rows == {e \in Execution : status[e] = "suspended" /\ resumeAt[e] = "future"} IN
  /\ due[c] = {}
  /\ rows # {}
  /\ due' = [due EXCEPT ![c] = rows]
  /\ UNCHANGED <<rowVars, acted, histVars, runVars, sweep, recover, boundVars>>

Poll(c) ==
  LET rows == {e \in Execution : status[e] = "suspended" /\ resumeAt[e] = "past"} IN
  /\ due[c] = {}
  /\ rows # {}
  /\ due' = [due EXCEPT ![c] = rows]
  /\ UNCHANGED <<rowVars, acted, histVars, runVars, sweep, recover, boundVars>>

(* Mutant: the UPDATE without its condition on the status. *)
ClaimableAlways(e) == status[e] # "none"

Claimable(e) == status[e] = "suspended"

Claim(c, e, r) ==
  /\ e \in due[c]
  /\ Claimable(e)
  /\ At(r, "idle")
  /\ SetStatus(e, "running")
  /\ Call(r, e, Host[c], "resume")
  /\ due' = [due EXCEPT ![c] = @ \ {e}]
  /\ UNCHANGED <<currentStep, resumeAt, old, stale, acted, log, swept, sweep, recover, boundVars>>

ClaimLost(c, e) ==
  /\ e \in due[c]
  /\ ~Claimable(e)
  /\ due' = [due EXCEPT ![c] = @ \ {e}]
  /\ UNCHANGED <<rowVars, acted, histVars, runVars, sweep, recover, boundVars>>

(* A claim that throws leaves the rest of the list to the next poll.         *)
ClaimFails(c) ==
  /\ due[c] # {} /\ errors < MaxErrors
  /\ errors' = errors + 1
  /\ due' = [due EXCEPT ![c] = {}]
  /\ UNCHANGED <<rowVars, acted, histVars, runVars, sweep, recover, crashes>>

-----------------------------------------------------------------------------
(* POST /api/workflow-executions/:id/cancel *)
CancelExecution(e) ==
  /\ status[e] \in {"running", "suspended", "pending"}
  /\ SetStatus(e, "cancelled")
  /\ resumeAt' = [resumeAt EXCEPT ![e] = "null"]
  /\ UNCHANGED <<currentStep, old, stale, acted, log, swept, runVars, listVars, boundVars>>

(* Deleting a workflow deletes its executions with it (ON DELETE CASCADE).   *)
DeleteWorkflow(e) ==
  /\ status[e] \notin {"none", "deleted"}
  /\ SetStatus(e, "deleted")
  /\ UNCHANGED <<currentStep, resumeAt, old, stale, acted, log, swept, runVars, listVars, boundVars>>

(* The customer answers the estimate: its row becomes approved or rejected.  *)
Answer ==
  /\ ~acted
  /\ acted' = TRUE
  /\ UNCHANGED <<rowVars, histVars, runVars, listVars, boundVars>>

(* estimate_option_approved / _rejected, which an option's answer also fires *)
(* while the estimate as a whole is still open: cancelPendingStaleExecutions *)
(* reads the suspended rows that are due, then writes the stale ones.        *)
SweepRead(p) ==
  /\ sweep[p] = {}
  /\ sweep' = [sweep EXCEPT ![p] =
       {e \in Execution : status[e] = "suspended" /\ resumeAt[e] = "past" /\ stale[e]}]
  /\ swept' = acted
  /\ UNCHANGED <<rowVars, acted, log, cancelledAt, runVars, due, recover, boundVars>>

SweepOne(p, e) ==
  /\ e \in sweep[p]
  /\ SetStatus(e, "cancelled")
  /\ sweep' = [sweep EXCEPT ![p] = @ \ {e}]
  /\ UNCHANGED <<currentStep, resumeAt, old, stale, acted, log, swept, runVars, due, recover, boundVars>>

-----------------------------------------------------------------------------
(* Time, crashes and recovery *)

DueTime(e) ==
  /\ status[e] = "suspended"
  /\ resumeAt[e] = "future"
  /\ resumeAt' = [resumeAt EXCEPT ![e] = "past"]
  /\ UNCHANGED <<status, currentStep, old, stale, acted, histVars, runVars, listVars, boundVars>>

(* A call lasts minutes: a day passes over a row nothing works on.           *)
GrowOld(e) ==
  /\ status[e] # "none"
  /\ ~Live(e)
  /\ ~old[e]
  /\ old' = [old EXCEPT ![e] = TRUE]
  /\ UNCHANGED <<status, currentStep, resumeAt, stale, acted, histVars, runVars, listVars, boundVars>>

(* A process dies with everything it was doing and comes back; a server      *)
(* then reads the running rows older than 24 h.                              *)
Crash(p) ==
  /\ crashes < MaxCrashes
  /\ crashes' = crashes + 1
  /\ Vacate({r \in Runner : host[r] = p})
  /\ due' = [c \in Cycle |-> IF Host[c] = p THEN {} ELSE due[c]]
  /\ sweep' = [sweep EXCEPT ![p] = {}]
  /\ recover' = [recover EXCEPT ![p] =
       IF p \in Server THEN {e \in Execution : status[e] = "running" /\ old[e]} ELSE {}]
  /\ UNCHANGED <<rowVars, acted, histVars, errors>>

RecoverOne(p, e) ==
  /\ e \in recover[p]
  /\ SetStatus(e, "failed")
  /\ recover' = [recover EXCEPT ![p] = @ \ {e}]
  /\ UNCHANGED <<currentStep, resumeAt, old, stale, acted, log, swept, runVars, due, sweep, boundVars>>

-----------------------------------------------------------------------------
RunStep(r) ==
  \/ Load(r) \/ Start(r) \/ BailOut(r)
  \/ Resume(r) \/ Reload(r) \/ Gate(r) \/ Restart(r)
  \/ Check(r) \/ Mark(r) \/ Act(r)
  \/ Park(r) \/ SettleRead(r) \/ SettleWrite(r)

RunError(r) == GateError(r) \/ StorageError(r)

ProcessStep(p) ==
  \/ Crash(p) \/ SweepRead(p)
  \/ \E e \in Execution : SweepOne(p, e) \/ RecoverOne(p, e)
  \/ \E e \in Execution, r \in Runner : Trigger(e, r, p)

RowStep(e) ==
  \/ TriggerFails(e) \/ ScheduleStale(e) \/ CancelExecution(e)
  \/ DeleteWorkflow(e)
  \/ DueTime(e) \/ GrowOld(e)

PollStep(c) ==
  \/ Poll(c)
  \/ \E e \in Execution : ClaimLost(c, e) \/ \E r \in Runner : Claim(c, e, r)

Next ==
  \/ Answer
  \/ \E r \in Runner : RunStep(r) \/ RunError(r)
  \/ \E p \in Process : ProcessStep(p)
  \/ \E e \in Execution : RowStep(e)
  \/ \E c \in Cycle : PollStep(c) \/ ClaimFails(c)

Spec == Init /\ [][Next]_vars

(* The event loop runs every pending continuation, the timer chain polls     *)
(* forever, and clocks advance.                                              *)
FairSpec ==
  /\ Spec
  /\ \A r \in Runner : WF_vars(RunStep(r))
  /\ \A c \in Cycle : WF_vars(PollStep(c))
  /\ \A e \in Execution : WF_vars(DueTime(e))

-----------------------------------------------------------------------------
(* Every variable keeps its type.                                            *)
RowTypeOK ==
  /\ status \in [Execution -> Status]
  /\ currentStep \in [Execution -> -1..MaxOrder]
  /\ resumeAt \in [Execution -> {"null", "future", "past"}]
  /\ old \in [Execution -> BOOLEAN]
  /\ stale \in [Execution -> BOOLEAN]

RunTypeOK ==
  /\ pc \in [Runner -> PC]
  /\ exec \in [Runner -> Execution \cup {None}]
  /\ host \in [Runner -> Process \cup {None}]
  /\ at \in [Runner -> -1..MaxOrder]
  /\ todo \in [Runner -> SUBSET Order]
  /\ outcome \in [Runner -> Outcome]
  /\ caught \in [Runner -> BOOLEAN]

LogTypeOK ==
  /\ log \in [Execution -> Seq(Order)]
  /\ cancelledAt \in [Execution -> Nat]

ListTypeOK ==
  /\ due \in [Cycle -> SUBSET Execution]
  /\ sweep \in [Process -> SUBSET Execution]
  /\ recover \in [Process -> SUBSET Execution]

FlagTypeOK ==
  /\ acted \in BOOLEAN
  /\ swept \in BOOLEAN
  /\ crashes \in Nat
  /\ errors \in Nat

TypeOK == RowTypeOK /\ RunTypeOK /\ LogTypeOK /\ ListTypeOK /\ FlagTypeOK

(* No two calls ever work on one execution: the promise of                   *)
(* claimSuspendedExecution, for every interleaving of overlapping pollers,   *)
(* cancels, crashes and recovery.                                            *)
SingleRunner ==
  \A r, q \in Runner :
    /\ pc[r] # "idle"
    /\ pc[q] # "idle"
    /\ exec[r] = exec[q]
    => r = q

(* Over the whole life of an execution, suspends and crashes included, its   *)
(* step groups are handed over in increasing order and none a second time:   *)
(* no customer gets the same step's message twice.                           *)
GroupsRunOnceInOrder ==
  \A e \in Execution : \A i, j \in 1..Len(log[e]) :
    i < j => log[e][i] < log[e][j]

(* While a row stays cancelled its run hands over at most the one group that *)
(* it had already checked for (runStepGroups re-reads before each group).    *)
CancelStopsWithinOneGroup ==
  \A e \in Execution :
    status[e] = "cancelled" => Len(log[e]) <= cancelledAt[e] + 1

(* An execution in a terminal status that no call works on.                  *)
Over(e) == status[e] \in Terminal /\ ~Live(e)

(* An execution that is over stays over and runs no further step: no poll    *)
(* list, sweep or recovery list read earlier brings it back.                 *)
NoRevival ==
  [][\A e \in Execution : Over(e) => Over(e)' /\ log'[e] = log[e]]_vars

(* The engine implements the abstract lifecycle: a row is live while a call  *)
(* works on it, parked while it is suspended, and over otherwise, whatever   *)
(* its status says (a pending or running row whose call was lost in a crash  *)
(* never runs again).                                                        *)
stage == [e \in Execution |->
  CASE status[e] = "none" -> "none"
    [] status[e] # "none" /\ Live(e) -> "live"
    [] status[e] = "suspended" /\ ~Live(e) -> "parked"
    [] OTHER -> "over"]

Lifecycle == INSTANCE ExecutionLifecycle WITH done <- log

ImplementsLifecycle == Lifecycle!Spec

(* A stale execution whose estimate was answered and that no run has taken   *)
(* past the stale gate.                                                      *)
PastGate == {"restart", "check", "mark", "act", "park"}
Answered(e) ==
  /\ acted
  /\ stale[e]
  /\ ~\E r \in Runner : exec[r] = e /\ pc[r] \in PastGate

(* After the customer's answer a parked stale execution never reaches        *)
(* another step, whichever poll list, sweep or claim it was in at that time  *)
(* (as long as the gate's own read of the estimate does not fail).           *)
NoStepAfterAnswer ==
  [][\A e \in Execution : Answered(e) =>
       /\ Answered(e)' \/ \E r \in Runner : exec[r] = e /\ GateError(r)
       /\ log'[e] = log[e]]_vars

(* A suspended row whose time has come leaves suspended.                     *)
DueIsPickedUp ==
  \A e \in Execution :
    (status[e] = "suspended" /\ resumeAt[e] = "past") ~> (status[e] # "suspended")

(* A call that was made returns.                                             *)
RunsEnd == \A r \in Runner : (pc[r] # "idle") ~> (pc[r] = "idle")

(* A comment of updateExecutionStatusIfNotCancelled speaks of guarding the   *)
(* cancelled terminal state: a cancelled row keeps its status.               *)
CancelledIsFinal ==
  [][\A e \in Execution : status[e] = "cancelled" => status'[e] = "cancelled"]_vars

(* The poller resumes an execution only when its resumeAt has passed.        *)
ResumedOnlyWhenDue ==
  [][\A e \in Execution :
       (status[e] = "suspended" /\ status'[e] = "running") => resumeAt[e] = "past"]_vars

(* Once an answered estimate was swept and the sweep has written, no stale   *)
(* execution of it is pending any more.                                      *)
SweptLeavesNoPendingStale ==
  swept /\ (\A p \in Process : sweep[p] = {})
    => \A e \in Execution : ~(stale[e] /\ status[e] = "suspended" /\ currentStep[e] = -1)

(* Recovery marks as failed only executions whose run was lost.              *)
RecoversOnlyOrphans ==
  [][\A p \in Process, e \in Execution : RecoverOne(p, e) => ~Live(e)]_vars
=============================================================================
