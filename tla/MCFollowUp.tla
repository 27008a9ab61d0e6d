----------------------------- MODULE MCFollowUp -----------------------------
(***************************************************************************)
(* The two halves of following up a lead, each on a small instance of its  *)
(* own: the cadence that makes the tasks, and the cron that claims those   *)
(* in auto mode.  A behaviour is one of one half; the other stays as it is.*)
(***************************************************************************)
EXTENDS SalesCron, TLC

CONSTANTS None, Lead, Step, Worker, Status, Terminal, Stops, Targets

ASSUME CadenceAssumption ==
  /\ None \notin Lead /\ None \notin Status
  /\ Status \cap {"nothing", "create", "backfill", "activity"} = {}

VARIABLES
  part,
  target, active, deleted, live, gone, status, task, job, stale, enrolled, unswept

cadenceVars == <<target, active, deleted, live, gone, status, task, job, stale, enrolled, unswept>>

C == INSTANCE Cadence

Symmetry == Permutations(Step) \cup Permutations(Worker)

FollowUpInit == part \in {"cadence", "cron"} /\ Init /\ C!Init /\ (part = "cron" => target = None)

FollowUpNext ==
  \/ part = "cadence" /\ C!Next /\ UNCHANGED <<part, vars>>
  \/ part = "cron" /\ Next /\ UNCHANGED <<part, cadenceVars>>

FollowUpSpec == FollowUpInit /\ [][FollowUpNext]_<<part, vars, cadenceVars>>

(* No pending task for a lead whose status ends the cadence, and none on an *)
(* archived step.                                                           *)
NoTaskLeftBehind == C!StoppedHasNoTask /\ C!ArchivedHasNoTask

(* One enrollment per lead and cadence.                                     *)
EnrolledOnce == C!EnrolledOnce

(* The end of a task is final.                                              *)
EndedStays == C!EndedStays
=============================================================================
