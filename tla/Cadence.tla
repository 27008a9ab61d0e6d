------------------------------ MODULE Cadence ------------------------------
(***************************************************************************)
(* One lead cadence and its task instances                                 *)
(* (server/services/sales-process.ts, server/storage/sales-process.ts):    *)
(* leads are enrolled when they are created, by the detached hook of a     *)
(* status change and by the backfill that follows a save; the hook of a    *)
(* status that ends the cadence, and the removal of a step, skip pending   *)
(* tasks; reps and logged activities complete them.  Everything reads the  *)
(* database before it writes, in queries of their own.                     *)
(***************************************************************************)
EXTENDS Integers, FiniteSets

CONSTANTS Lead, Step, Worker, None,
          Status, Terminal,  \* lead statuses, TERMINAL_LEAD_STATUSES
          Stops,             \* the cadence's stopStatuses
          Targets            \* the targetStatus it may have; None is the trigger lead_created

Stopping == Terminal \cup Stops

VARIABLES
  target,           \* the cadence's targetStatus
  active, deleted,  \* of the cadence
  live, gone,       \* its steps, and those archived
  status,           \* per lead; None before the lead exists
  task,             \* per lead and step: "none", "pending", "completed", "skipped"
  job,              \* per worker, what it is doing and has read
  stale,            \* tasks inserted from reads that no longer held (history)
  enrolled,         \* per lead, the enrollments that inserted tasks (history)
  unswept           \* leads whose last change of status swept no tasks (history)

cadence == <<target, active, deleted, live, gone>>
vars == <<cadence, status, task, job, stale, enrolled, unswept>>

Idle == [at |-> "idle", for |-> "nothing", lead |-> None, was |-> None, read |-> None,
         steps |-> {}, todo |-> {}]

Init ==
  /\ target \in Targets /\ active = FALSE /\ deleted = FALSE /\ live = {} /\ gone = {}
  /\ status = [l \in Lead |-> None]
  /\ task = [p \in Lead \X Step |-> "none"]
  /\ job = [w \in Worker |-> Idle]
  /\ stale = {} /\ enrolled = [l \in Lead |-> 0] /\ unswept = {}

At(w, label) == job[w].at = label
Goto(w, label) == job' = [job EXCEPT ![w].at = label]
Done(w) == job' = [job EXCEPT ![w] = Idle]

Skip(S) == task' = [p \in Lead \X Step |->
                      IF p \in S /\ task[p] = "pending" THEN "skipped" ELSE task[p]]

-----------------------------------------------------------------------------
(* A lead is created, or its status changes. *)

(* The transaction of createLead: nobody sees the lead before it commits.   *)
Create(w, l, s) ==
  /\ At(w, "idle") /\ status[l] = None
  /\ \A v \in Worker : job[v].lead # l
  /\ job' = [job EXCEPT ![w] = [Idle EXCEPT !.at = "match", !.for = "create", !.lead = l, !.read = s]]
  /\ UNCHANGED <<cadence, status, task, stale, enrolled, unswept>>

(* updateLead reads the status before it writes the new one.                *)
Patch(w, l, s) ==
  /\ At(w, "idle") /\ status[l] # None
  /\ job' = [job EXCEPT ![w] = [Idle EXCEPT !.at = "write", !.for = s, !.lead = l, !.was = status[l]]]
  /\ UNCHANGED <<cadence, status, task, stale, enrolled, unswept>>

(* The hook is for a status that is not the one read before.                *)
Write(w) ==
  LET j == job[w] IN
  /\ At(w, "write")
  /\ status' = [status EXCEPT ![j.lead] = j.for]
  /\ IF j.was = j.for
     THEN /\ Done(w)
          /\ unswept' = IF status[j.lead] = j.for THEN unswept ELSE unswept \cup {j.lead}
     ELSE /\ job' = [job EXCEPT ![w].at = "hook", ![w].was = None]
          /\ UNCHANGED unswept
  /\ UNCHANGED <<cadence, task, stale, enrolled>>

(* onLeadStatusChanged: a terminal status ends all tasks of the lead, a     *)
(* stop status those of the cadences that are on.                           *)
Hook(w) ==
  LET j == job[w] IN
  /\ At(w, "hook")
  /\ Goto(w, IF j.for \in Terminal THEN "sweep"
             ELSE IF j.for \in Stops /\ active /\ ~deleted THEN "stop" ELSE "look")
  /\ unswept' = IF j.for \in Stops \ Terminal /\ (~active \/ deleted)
                THEN unswept \cup {j.lead} ELSE unswept
  /\ UNCHANGED <<cadence, status, task, stale, enrolled>>

(* skipPendingTasksForLead.  After a terminal status nothing else is done.  *)
Sweep(w) ==
  LET j == job[w] IN
  /\ At(w, "sweep") \/ At(w, "stop")
  /\ Skip({j.lead} \X Step)
  /\ IF j.at = "sweep" THEN Done(w) ELSE Goto(w, "look")
  /\ unswept' = unswept \ {j.lead}
  /\ UNCHANGED <<cadence, status, stale, enrolled>>

-----------------------------------------------------------------------------
(* Enrollment: enrollLead, materializeForLead, materializeForEntity. *)

(* This lead is done with: the creating transaction commits, a backfill     *)
(* goes on.                                                                 *)
LeadDone(w) ==
  LET j == job[w] IN
  /\ IF j.for = "backfill" THEN job' = [job EXCEPT ![w].at = "next", ![w].lead = None, ![w].read = None]
                           ELSE Done(w)
  /\ status' = IF j.for = "create" THEN [status EXCEPT ![j.lead] = j.read] ELSE status

(* The hook reads the lead again.                                           *)
Look(w) ==
  /\ At(w, "look")
  /\ IF status[job[w].lead] \in Terminal THEN Done(w)
     ELSE job' = [job EXCEPT ![w].at = "match", ![w].read = status[job[w].lead]]
  /\ UNCHANGED <<cadence, status, task, stale, enrolled, unswept>>

(* A bug: the status the hook is for is taken for the lead's.               *)
MatchByEvent(w) ==
  LET j == job[w] IN
  /\ At(w, "match")
  /\ IF /\ active /\ ~deleted
        /\ target = IF j.for = "create" THEN None ELSE j.for
        /\ (IF j.for = "create" THEN j.read ELSE j.for) \notin Stopping
     THEN Goto(w, "steps") /\ UNCHANGED status
     ELSE LeadDone(w)
  /\ UNCHANGED <<cadence, task, stale, enrolled, unswept>>

(* The cadence is on, its trigger is the event, the lead's status does not  *)
(* stop it.                                                                 *)
Match(w) ==
  LET j == job[w] IN
  /\ At(w, "match")
  /\ IF /\ active /\ ~deleted
        /\ target = IF j.for = "create" THEN None ELSE j.for
        /\ j.read \notin Stopping
     THEN Goto(w, "steps") /\ UNCHANGED status
     ELSE LeadDone(w)
  /\ UNCHANGED <<cadence, task, stale, enrolled, unswept>>

ReadSteps(w) ==
  /\ At(w, "steps")
  /\ IF live = {} THEN LeadDone(w)
     ELSE job' = [job EXCEPT ![w].at = "count", ![w].steps = live] /\ UNCHANGED status
  /\ UNCHANGED <<cadence, task, stale, enrolled, unswept>>

(* A bug: tasks on archived steps are not counted.                          *)
CountLive(w) ==
  /\ At(w, "count")
  /\ IF \E s \in live : task[<<job[w].lead, s>>] # "none" THEN LeadDone(w)
     ELSE Goto(w, "insert") /\ UNCHANGED status
  /\ UNCHANGED <<cadence, task, stale, enrolled, unswept>>

(* countTaskInstancesForEntity: a lead that has tasks, on any step the      *)
(* cadence has had, is enrolled.                                            *)
Count(w) ==
  /\ At(w, "count")
  /\ IF \E s \in Step : task[<<job[w].lead, s>>] # "none" THEN LeadDone(w)
     ELSE Goto(w, "insert") /\ UNCHANGED status
  /\ UNCHANGED <<cadence, task, stale, enrolled, unswept>>

(* One insert of all rows.  The unique index on step and lead refuses it    *)
(* when one of them exists: the hook, or the whole backfill, ends there.    *)
Insert(w) ==
  LET j == job[w]
      rows == {j.lead} \X j.steps
  IN /\ At(w, "insert")
     /\ IF \E p \in rows : task[p] # "none"
        THEN Done(w) /\ UNCHANGED <<status, task, stale, enrolled>>
        ELSE /\ task' = [p \in Lead \X Step |-> IF p \in rows THEN "pending" ELSE task[p]]
             /\ stale' = stale \cup {p \in rows : p[2] \notin live
                                                  \/ (j.for # "create" /\ status[j.lead] # j.read)}
             /\ enrolled' = [enrolled EXCEPT ![j.lead] = @ + 1]
             /\ LeadDone(w)
     /\ UNCHANGED <<cadence, unswept>>

-----------------------------------------------------------------------------
(* The cadence is saved, deleted. *)

(* A save that turns the cadence on, or gives it its first steps, is        *)
(* followed by the backfill.                                                *)
Saved(w, on, steps) ==
  /\ active' = on /\ live' = steps /\ gone' = gone \cup (live \ steps)
  /\ job' = IF on /\ (~active \/ (live = {} /\ steps # {}))
            THEN [job EXCEPT ![w] = [Idle EXCEPT !.at = "saved", !.for = "backfill"]] ELSE job
  /\ UNCHANGED <<target, deleted, status, stale, enrolled, unswept>>

(* A bug: the tasks of a removed step stay.                                 *)
SaveStepsOnly(w, on, steps) ==
  /\ At(w, "idle") /\ steps \cap gone = {}
  /\ Saved(w, on, steps)
  /\ UNCHANGED task

(* upsertCadence, one transaction; it saves a deleted cadence as well.      *)
Save(w, on, steps) ==
  /\ At(w, "idle") /\ steps \cap gone = {}
  /\ Saved(w, on, steps)
  /\ Skip(Lead \X (live \ steps))

(* deleteCadence: steps and pending tasks stay.                             *)
Delete ==
  /\ ~deleted
  /\ deleted' = TRUE /\ active' = FALSE
  /\ UNCHANGED <<target, live, gone, status, task, job, stale, enrolled, unswept>>

(* backfillForCadence reads the cadence and its steps ...                   *)
BackfillReads(w) ==
  /\ At(w, "saved")
  /\ IF deleted \/ ~active \/ live = {} THEN Done(w)
     ELSE job' = [job EXCEPT ![w].at = "leads", ![w].steps = live]
  /\ UNCHANGED <<cadence, status, task, stale, enrolled, unswept>>

(* ... and then the leads it applies to.                                    *)
BackfillLists(w) ==
  /\ At(w, "leads")
  /\ job' = [job EXCEPT ![w].at = "next",
               ![w].todo = {p \in Lead \X (Status \ Stopping) :
                              status[p[1]] = p[2] /\ target \in {None, p[2]}}]
  /\ UNCHANGED <<cadence, status, task, stale, enrolled, unswept>>

BackfillNext(w) ==
  LET j == job[w] IN
  /\ At(w, "next")
  /\ IF j.todo = {} THEN Done(w)
     ELSE \E p \in j.todo :
            job' = [job EXCEPT ![w] = [j EXCEPT !.at = "count", !.lead = p[1], !.read = p[2],
                                                !.todo = @ \ {p}]]
  /\ UNCHANGED <<cadence, status, task, stale, enrolled, unswept>>

-----------------------------------------------------------------------------
(* Tasks end. *)

(* onActivityCreated picks a pending task of an open lead ...               *)
Activity(w, l, s) ==
  /\ At(w, "idle")
  /\ status[l] \notin Terminal \cup {None} /\ task[<<l, s>>] = "pending"
  /\ job' = [job EXCEPT ![w] = [Idle EXCEPT !.at = "mark", !.for = "activity", !.lead = l, !.steps = {s}]]
  /\ UNCHANGED <<cadence, status, task, stale, enrolled, unswept>>

(* A bug: the task is marked whatever it has become.                        *)
ActivityMarksAnyway(w) ==
  /\ At(w, "mark")
  /\ task' = [p \in Lead \X Step |-> IF p \in {job[w].lead} \X job[w].steps THEN "completed" ELSE task[p]]
  /\ Done(w)
  /\ UNCHANGED <<cadence, status, stale, enrolled, unswept>>

(* ... and marks it, if it is still pending.                                *)
ActivityMarks(w) ==
  /\ At(w, "mark")
  /\ task' = [p \in Lead \X Step |-> IF p \in {job[w].lead} \X job[w].steps /\ task[p] = "pending"
                                     THEN "completed" ELSE task[p]]
  /\ Done(w)
  /\ UNCHANGED <<cadence, status, stale, enrolled, unswept>>

(* A rep completes or skips a task.                                         *)
RepEnds(l, s) ==
  /\ task[<<l, s>>] = "pending"
  /\ \E end \in {"completed", "skipped"} : task' = [task EXCEPT ![<<l, s>>] = end]
  /\ UNCHANGED <<cadence, status, job, stale, enrolled, unswept>>

(* A query fails or the process exits: the rest is not done.                *)
Abandon(w) ==
  /\ ~At(w, "idle")
  /\ Done(w)
  /\ unswept' = IF job[w].at \in {"hook", "sweep", "stop"} THEN unswept \cup {job[w].lead} ELSE unswept
  /\ UNCHANGED <<cadence, status, task, stale, enrolled>>

Next ==
  \/ Delete
  \/ \E w \in Worker :
       \/ Write(w) \/ Hook(w) \/ Sweep(w) \/ Look(w) \/ Match(w) \/ ReadSteps(w) \/ Count(w) \/ Insert(w)
       \/ BackfillReads(w) \/ BackfillLists(w) \/ BackfillNext(w) \/ ActivityMarks(w) \/ Abandon(w)
       \/ \E on \in BOOLEAN, steps \in SUBSET Step : Save(w, on, steps)
       \/ \E l \in Lead, s \in Status : Create(w, l, s) \/ Patch(w, l, s)
       \/ \E l \in Lead, s \in Step : Activity(w, l, s)
  \/ \E l \in Lead, s \in Step : RepEnds(l, s)

Spec == Init /\ [][Next]_vars

-----------------------------------------------------------------------------
(* Properties. *)

(* A lead in a status that ends the cadence has no pending task once its    *)
(* hooks are through, except tasks inserted for the status it had before,   *)
(* and a lead whose change of status swept none: the hook failed, two       *)
(* patches overlapped, or the cadence was off at the time.                  *)
StoppedHasNoTask ==
  \A p \in Lead \X Step :
    task[p] = "pending" /\ status[p[1]] \in Stopping =>
      \/ p \in stale \/ p[1] \in unswept
      \/ \E w \in Worker : job[w].lead = p[1] /\ job[w].at \in {"hook", "sweep", "stop"}

(* An archived step has no pending task, except one inserted by an          *)
(* enrollment that had read the steps before.                               *)
ArchivedHasNoTask ==
  \A p \in Lead \X Step : task[p] = "pending" /\ p[2] \in gone => p \in stale

(* "one cadence enrolls a given entity at most once": twice only if the     *)
(* steps or the lead changed in the middle of an enrollment.                *)
EnrolledOnce == \A l \in Lead : enrolled[l] > 1 => \E s \in Step : <<l, s>> \in stale

(* A task that has ended stays as it ended, whoever else had picked it.     *)
EndedStays ==
  [][\A p \in Lead \X Step : task[p] \in {"completed", "skipped"} => task'[p] = task[p]]_vars
=============================================================================
