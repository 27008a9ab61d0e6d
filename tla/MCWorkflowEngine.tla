--------------------------- MODULE MCWorkflowEngine ---------------------------
(* Instances of WorkflowEngine for TLC. *)
EXTENDS WorkflowEngine, TLC

CONSTANTS e1, e2, r1, r2, web, job, tick, cron

OneExecution == {e1}
TwoExecutions == {e1, e2}
Runners == {r1, r2}
Processes == {web, job}
Servers == {web}
Cycles == {tick, cron}
OneProcess == {web}
OneRunner == {r1}
OneCycle == {tick}
AllOnWeb == tick :> web
HostOf == (tick :> web) @@ (cron :> job)

RunnersAlike == Permutations(Runners)
AllAlike == Permutations(Runners) \cup Permutations(TwoExecutions)
=============================================================================
