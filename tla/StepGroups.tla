----------------------------- MODULE StepGroups -----------------------------
(***************************************************************************)
(* How one execution of a workflow walks its graph of steps: the runner of *)
(* server/workflow-engine/step-runner.ts with the slice it is handed at    *)
(* first and at every resume (index.ts), over the rows the workflow        *)
(* builder saves (client WorkflowBuilder.tsx).                             *)
(*                                                                         *)
(* Node 0 is the trigger and 1..N are the steps, numbered so that edges    *)
(* lead upwards.  A step has a kind; what an action of a step does is its  *)
(* outcome.  An edge that leaves a condition carries the handle of its     *)
(* branch.  Cancels, crashes and storage errors are WorkflowEngine's.      *)
(***************************************************************************)
EXTENDS Integers, FiniteSets, FiniteSetsExt

CONSTANTS
  N,           \* the number of steps of a workflow
  Workflows    \* the workflows considered, as records of kinds and edges

Step == 1..N
Node == 0..N
Kind == {"condition", "delay", "action"}
Branch == {"true", "false"}
Edge == [source : Node, target : Step, handle : Branch \cup {"any"}]

(* The builder's canvas: the trigger accepts no edge, and only a condition   *)
(* has the two branch handles.                                               *)
Drawable(w) ==
  /\ w.kind \in [Step -> Kind]
  /\ \A e \in w.edges :
       /\ e \in Edge /\ e.source < e.target
       /\ e.handle \in Branch <=> e.source \in Step /\ w.kind[e.source] = "condition"

ASSUME WorkflowsAssumption == N \in Nat \ {0} /\ \A w \in Workflows : Drawable(w)

VARIABLES
  workflow,    \* the saved workflow, which nobody edits meanwhile
  stepOrder,   \* the column of that name of every step
  whole,       \* every row carries all edges, not only those that touch it
  phase,       \* status of the execution
  slice,       \* the step rows runStepGroups was called with
  left,        \* the orders of the groups it has yet to run
  gating,      \* gatingActive
  results,     \* conditionalResults, in memory
  currentStep, \* the column of the same name
  log,         \* executionLog: how each step ended
  resumed      \* the execution has been resumed at least once

graph == <<workflow, stepOrder, whole>>

vars == <<graph, phase, slice, left, gating, results, currentStep, log, resumed>>

Phase == {"pending", "running", "suspended", "completed", "failed"}
Outcome == {"true", "false", "done", "failed", "suspended"}
Unrun == {"none", "skipped"}

(* The builder saves a step's longest distance from a root as its stepOrder, *)
(* and a root, like the trigger, as -1.                                      *)
Level(w) ==
  LET Parents(n) == {e.source : e \in {f \in w.edges : f.target = n}}
      level[n \in Node] ==
        IF Parents(n) = {} THEN -1 ELSE 1 + Max({level[p] : p \in Parents(n)})
  IN  level

(* The graph parsed from the rows of S.                                      *)
SavedIn(S) ==
  IF whole THEN workflow.edges
  ELSE {e \in workflow.edges : e.source \in S \/ e.target \in S}

Conditionals(S) ==
  {e.source : e \in {f \in SavedIn(S) : f.handle \in Branch}}
    \cup {n \in S : workflow.kind[n] = "condition"}

(* An edge is followed unless it is the branch a known result did not take.  *)
Open(e, S, known) ==
  \/ e.source \notin Conditionals(S)
  \/ known[e.source] = "unknown"
  \/ e.handle \notin Branch
  \/ e.handle = known[e.source]

(* Which nodes the walk from the roots of S's graph finds.                   *)
Reachable(S, known) ==
  LET Into(n) == {e \in SavedIn(S) : e.target = n}
      reach[n \in Node] ==
        \/ Into(n) = {}
        \/ \E e \in Into(n) : reach[e.source] /\ Open(e, S, known)
  IN  {n \in Node : reach[n]}

(* Faults: failed conditions left unknown; the end copied as it is.          *)
RebuildSuccesses(ends) ==
  [n \in Node |-> IF n # 0 /\ workflow.kind[n] = "condition" /\ ends[n] \in Branch
                  THEN ends[n] ELSE "unknown"]

RebuildVerbatim(ends) ==
  [n \in Node |-> IF n # 0 /\ workflow.kind[n] = "condition" /\ ends[n] \notin Unrun
                  THEN ends[n] ELSE "unknown"]

(* Results of earlier calls, out of the log; a failed condition is false.    *)
Rebuild(ends) ==
  [n \in Node |-> IF n = 0 \/ workflow.kind[n] # "condition" THEN "unknown"
                  ELSE IF ends[n] = "failed" THEN "false"
                  ELSE IF ends[n] \in Branch THEN ends[n]
                  ELSE "unknown"]

Unknown == [n \in Node |-> "unknown"]

Gated(S, ends) ==
  /\ SavedIn(S) # {}
  /\ Conditionals(S) # {} \/ Rebuild(ends) # Unknown

(* What a step that is run can end with.                                     *)
Outcomes(n) ==
  IF workflow.kind[n] = "condition" THEN {"true", "false", "failed"}
  ELSE IF workflow.kind[n] = "delay" THEN {"suspended", "done", "failed"}
  ELSE {"done", "failed"}

Init ==
  /\ workflow \in Workflows
  /\ stepOrder = Level(workflow)
  /\ whole \in BOOLEAN
  /\ phase = "pending"
  /\ slice = {} /\ left = {}
  /\ gating = FALSE
  /\ results = Unknown
  /\ currentStep = -1
  /\ log = [n \in Step |-> "none"]
  /\ resumed = FALSE

(* A call of runStepGroups with the rows S.                                  *)
Enter(S) ==
  /\ phase' = "running"
  /\ slice' = S
  /\ left' = {stepOrder[n] : n \in S}
  /\ gating' = Gated(S, log)
  /\ results' = IF gating' THEN Rebuild(log) ELSE Unknown
  /\ UNCHANGED <<graph, currentStep, log>>

Begin ==
  /\ phase = "pending"
  /\ Enter(Step)
  /\ UNCHANGED resumed

(* The next group runs; a step the walk does not reach is logged as skipped. *)
Group == {n \in slice : stepOrder[n] = Min(left)}

Ends ==
  LET live == IF gating THEN Group \cap Reachable(slice, results) ELSE Group
  IN  {end \in [Group -> Outcome \cup {"skipped"}] :
         \A n \in Group : IF n \in live THEN end[n] \in Outcomes(n) ELSE end[n] = "skipped"}

Log(end) ==
  /\ currentStep' = Min(left)
  /\ log' = [n \in Step |-> IF n \in Group THEN end[n] ELSE log[n]]
  /\ UNCHANGED <<graph, slice, gating, resumed>>

Ended(end, how) == \E n \in Group : end[n] = how

(* The first thing looked at is whether a step asks to wait...               *)
Suspend(end) ==
  /\ Ended(end, "suspended")
  /\ phase' = "suspended"
  /\ UNCHANGED <<results, left>>

(* ... then whether one failed ...                                           *)
Fail(end) ==
  /\ ~Ended(end, "suspended") /\ Ended(end, "failed")
  /\ phase' = "failed"
  /\ UNCHANGED <<results, left>>

(* Faults: the results are not kept; a failure in the group is not noticed.  *)
KeepNothing(end) ==
  /\ ~Ended(end, "suspended") /\ ~Ended(end, "failed")
  /\ left' = left \ {Min(left)}
  /\ phase' = IF left' = {} THEN "completed" ELSE "running"
  /\ UNCHANGED results

ProceedPastFailures(end) ==
  /\ ~Ended(end, "suspended")
  /\ results' = [n \in Node |-> IF gating /\ n \in Group /\ end[n] \in Branch
                                THEN end[n] ELSE results[n]]
  /\ left' = left \ {Min(left)}
  /\ phase' = IF left' = {} THEN "completed" ELSE "running"

(* ... and only then are the results of the conditions kept.                 *)
Proceed(end) ==
  /\ ~Ended(end, "suspended") /\ ~Ended(end, "failed")
  /\ results' = [n \in Node |-> IF gating /\ n \in Group /\ end[n] \in Branch
                                THEN end[n] ELSE results[n]]
  /\ left' = left \ {Min(left)}
  /\ phase' = IF left' = {} THEN "completed" ELSE "running"

RunGroup ==
  /\ phase = "running"
  /\ \E end \in Ends : Log(end) /\ (Suspend(end) \/ Fail(end) \/ Proceed(end))

(* Fault: one order too far.                                                 *)
RemainingAfterNext == {n \in Step : stepOrder[n] > currentStep + 1}

(* A resume takes the rows after currentStep, and completes if none is left. *)
Remaining == {n \in Step : stepOrder[n] >= currentStep + 1}

Resume ==
  /\ phase = "suspended"
  /\ Remaining # {}
  /\ Enter(Remaining)
  /\ resumed' = TRUE

ResumeAtEnd ==
  /\ phase = "suspended"
  /\ Remaining = {}
  /\ phase' = "completed"
  /\ resumed' = TRUE
  /\ UNCHANGED <<graph, slice, left, gating, results, currentStep, log>>

Next == Begin \/ RunGroup \/ Resume \/ ResumeAtEnd

Spec == Init /\ [][Next]_vars

-----------------------------------------------------------------------------
(* What the picture on the canvas says: an edge is taken when its source ran *)
(* and, at a condition, chose its branch.                                    *)
Chosen(n) == IF log[n] = "failed" THEN "false" ELSE log[n]

Taken(e) ==
  \/ e.source = 0
  \/ log[e.source] \notin Unrun /\ (e.handle \notin Branch \/ e.handle = Chosen(e.source))

EdgesInto(n) == {e \in workflow.edges : e.target = n}

Selected(n) == EdgesInto(n) = {} \/ \E e \in EdgesInto(n) : Taken(e)

TypeOK ==
  /\ Drawable(workflow) /\ stepOrder \in [Node -> -1..N] /\ whole \in BOOLEAN
  /\ phase \in Phase
  /\ slice \subseteq Step
  /\ left \subseteq {stepOrder[n] : n \in slice}
  /\ gating \in BOOLEAN /\ resumed \in BOOLEAN
  /\ results \in [Node -> Branch \cup {"unknown"}]
  /\ currentStep \in -1..N
  /\ log \in [Step -> Outcome \cup Unrun]
  /\ phase = "running" => left # {}

(* A step of a branch no condition selected is never run, across any number  *)
(* of waits, as long as the rows carry the whole graph or the run was not    *)
(* resumed: the gate of computeReachableNodeIds.                             *)
OnlySelectedStepsRun ==
  whole \/ ~resumed => \A n \in Step : log[n] \notin Unrun => Selected(n)

(* The same of the rows the builder really saves: "gating decisions made     *)
(* before the suspend point continue to apply on resume - even when the      *)
(* conditional step row is no longer in the slice" (step-runner.ts:180).     *)
GatingOutlivesSuspend == \A n \in Step : log[n] \notin Unrun => Selected(n)

(* No step of a selected path is skipped, and a run is only completed when   *)
(* every selected step has been run, wherever it waited in between.          *)
NoSelectedStepIsLost ==
  \A n \in Step : log[n] = "skipped" \/ (phase = "completed" /\ log[n] = "none") => ~Selected(n)

(* What a call remembers of the conditions is what a resume would rebuild    *)
(* from the log, so that a wait changes no decision.                         *)
ResultsMatchLog == phase = "running" /\ gating => results = Rebuild(log)

(* Only a step that waits in the same group lets a run continue past a       *)
(* failed step; otherwise nothing later is run.                              *)
FailureStopsLaterGroups ==
  \A f, n \in Step :
    log[f] = "failed" /\ log[n] # "none" /\ stepOrder[n] > stepOrder[f] =>
      \E d \in Step : stepOrder[d] = stepOrder[f] /\ log[d] = "suspended"
=============================================================================
