------------------------- MODULE ExecutionLifecycle -------------------------
(***************************************************************************)
(* What the workflow engine promises about an execution, without rows,     *)
(* polls or claims: it is worked on by at most one call at a time (it is   *)
(* live or it is not), it may park and wake any number of times, it hands  *)
(* over its step groups in increasing order and each at most once, and     *)
(* once it is over it never moves again.                                   *)
(***************************************************************************)
EXTENDS Integers, Sequences

CONSTANTS Execution, MaxOrder

VARIABLES
  stage,   \* none, parked (suspended, nothing works on it), live, or over
  done     \* the step orders handed over so far

lifecycleVars == <<stage, done>>

Stage == {"none", "parked", "live", "over"}

Init ==
  /\ stage = [e \in Execution |-> "none"]
  /\ done = [e \in Execution |-> <<>>]

Move(e, from, to) ==
  /\ stage[e] = from
  /\ stage' = [stage EXCEPT ![e] = to]
  /\ UNCHANGED done

(* An event or a user starts it, an event schedules it, or its creation      *)
(* fails and only the failure is recorded.                                   *)
Begin(e) == Move(e, "none", "live")
Schedule(e) == Move(e, "none", "parked")
Discard(e) == Move(e, "none", "over")

Park(e) == Move(e, "live", "parked")
Wake(e) == Move(e, "parked", "live")

RunGroup(e, o) ==
  /\ stage[e] = "live"
  /\ \A i \in 1..Len(done[e]) : done[e][i] < o
  /\ done' = [done EXCEPT ![e] = Append(@, o)]
  /\ UNCHANGED stage

(* It completes, fails or is cancelled; a crash ends several at once.        *)
Finish ==
  /\ \E S \in SUBSET {e \in Execution : stage[e] \in {"live", "parked"}} :
       stage' = [e \in Execution |-> IF e \in S THEN "over" ELSE stage[e]]
  /\ UNCHANGED done

Next ==
  \/ Finish
  \/ \E e \in Execution :
       \/ Begin(e) \/ Schedule(e) \/ Discard(e) \/ Park(e) \/ Wake(e)
       \/ \E o \in 0..MaxOrder : RunGroup(e, o)

Spec == Init /\ [][Next]_lifecycleVars
=============================================================================
