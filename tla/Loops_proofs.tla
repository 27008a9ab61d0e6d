---------------------------- MODULE Loops_proofs ----------------------------
(***************************************************************************)
(* Proofs about the background loops: the timer of DialpadEventPoller      *)
(* (RecoveryTimer), the timers of SuspendedExecutionPoller                 *)
(* (AdaptivePoller, as P), and the SyncScheduler with its one-shot worker. *)
(* Each theorem is about one of the modules, on its own; no two that are   *)
(* given the same variables are ever used together.                        *)
(***************************************************************************)
EXTENDS MCLoops, TLAPS

CONSTANTS Integration, Recoverable, InApp, Worker, Nobody

VARIABLES pc, list, cur, activeSyncs, enabled, holder, lost

S == INSTANCE SyncScheduler

-----------------------------------------------------------------------------
(* RecoveryTimer. *)

(* The inductive invariant: outside its life the timer is not armed, a tick *)
(* only runs after start(), and the history does not lie in the future.     *)
Inv ==
  /\ TypeOK
  /\ AliveWhileOn
  /\ NudgeHonoured
  /\ running # "on" => timer = {}
  /\ running = "new" => ticking = FALSE
  /\ quiet <= now

(* The delay after a tick lies between the two bounds, and is MIN_POLL_MS   *)
(* if a nudge came during the tick.                                         *)
LEMMA NextDelayBounds ==
  ASSUME TypeOK, NEW f \in BOOLEAN
  PROVE  /\ NextDelay(f) \in MinPoll..MaxPoll
         /\ nudged => NextDelay(f) = MinPoll
BY ConstantsAssumption DEF TypeOK, NextDelay

LEMMA InvInit == Init => Inv
<1> SUFFICES ASSUME Init PROVE Inv
  OBVIOUS
<1>1. MinPoll \in MinPoll..MaxPoll
  BY ConstantsAssumption
<1>2. TypeOK
  BY <1>1 DEF Init, TypeOK
<1>3. AliveWhileOn /\ NudgeHonoured
  BY DEF Init, AliveWhileOn, NudgeHonoured
<1>4. QED
  BY <1>2, <1>3 DEF Init, Inv

LEMMA InvNext == Inv /\ [Next]_vars => Inv'
<1> SUFFICES ASSUME Inv, [Next]_vars PROVE Inv'
  OBVIOUS
<1> USE ConstantsAssumption
<1>1. CASE Start
  BY <1>1 DEF Inv, TypeOK, AliveWhileOn, NudgeHonoured, Start, Schedule
<1>2. CASE Stop
  BY <1>2 DEF Inv, TypeOK, AliveWhileOn, NudgeHonoured, Stop
<1>3. CASE Nudge
  <2>1. CASE ticking
    <3>1. /\ nudged' = TRUE /\ ticking' = ticking /\ running' = running /\ running = "on"
          /\ timer' = timer /\ currentDelay' = MinPoll /\ asked' = {now}
          /\ now' = now /\ quiet' = quiet
      BY <1>3, <2>1 DEF Nudge
    <3>2. TypeOK'
      BY <3>1 DEF Inv, TypeOK
    <3>3. AliveWhileOn'
      BY <3>1 DEF Inv, AliveWhileOn
    <3>4. NudgeHonoured'
      BY <2>1, <3>1 DEF NudgeHonoured
    <3>5. QED
      BY <3>1, <3>2, <3>3, <3>4 DEF Inv
  <2>2. CASE ~ticking
    <3>1. /\ nudged' = nudged /\ ticking' = ticking /\ running' = running /\ running = "on"
          /\ timer' = {now + MinPoll} /\ currentDelay' = MinPoll /\ asked' = {now}
          /\ now' = now /\ quiet' = quiet
      BY <1>3, <2>2 DEF Nudge, Schedule
    <3>2. TypeOK'
      BY <3>1 DEF Inv, TypeOK
    <3>3. AliveWhileOn'
      BY <2>2, <3>1 DEF Inv, TypeOK, AliveWhileOn
    <3>4. NudgeHonoured'
      BY <2>2, <3>1 DEF Inv, TypeOK, NudgeHonoured
    <3>5. QED
      BY <3>1, <3>2, <3>3, <3>4 DEF Inv
  <2>3. QED
    BY <2>1, <2>2
<1>4. CASE TickBegin
  BY <1>4 DEF Inv, TypeOK, AliveWhileOn, NudgeHonoured, TickBegin
<1>5. CASE Advance
  BY <1>5 DEF Inv, TypeOK, AliveWhileOn, NudgeHonoured, Advance
<1>6. ASSUME NEW f \in BOOLEAN, TickEnd(f)
      PROVE  Inv'
  <2> DEFINE d == NextDelay(f)
  <2>1. d \in MinPoll..MaxPoll /\ (nudged => d = MinPoll)
    BY NextDelayBounds DEF Inv
  <2>2. /\ ticking /\ ticking' = FALSE /\ nudged' = FALSE
        /\ currentDelay' = d /\ running' = running
        /\ timer' = IF running = "on" THEN {now + d} ELSE timer
        /\ quiet' = now /\ now' = now /\ asked' = asked
    BY <1>6 DEF TickEnd, Schedule
  <2> HIDE DEF d
  <2>3. d \in Nat /\ now + d \in Nat
    BY <2>1 DEF Inv, TypeOK
  <2>4. CASE running = "on"
    <3>1. timer' = {now + d}
      BY <2>2, <2>4
    <3>2. TypeOK'
      BY <2>1, <2>2, <2>3, <3>1 DEF Inv, TypeOK
    <3>3. AliveWhileOn'
      BY <2>1, <2>2, <2>3, <3>1 DEF Inv, TypeOK, AliveWhileOn
    <3>4. NudgeHonoured'
      BY <2>1, <2>2, <2>3, <2>4, <3>1 DEF Inv, TypeOK, NudgeHonoured
    <3>5. QED
      BY <2>2, <2>4, <3>2, <3>3, <3>4 DEF Inv, TypeOK
  <2>5. CASE running # "on"
    <3>1. timer' = timer
      BY <2>2, <2>5
    <3>2. TypeOK'
      BY <2>1, <2>2, <3>1 DEF Inv, TypeOK
    <3>3. QED
      BY <2>2, <2>5, <3>1, <3>2 DEF Inv, TypeOK, AliveWhileOn, NudgeHonoured
  <2>6. QED
    BY <2>4, <2>5
<1>7. CASE UNCHANGED vars
  BY <1>7 DEF Inv, TypeOK, AliveWhileOn, NudgeHonoured, vars
<1>8. QED
  BY <1>1, <1>2, <1>3, <1>4, <1>5, <1>6, <1>7 DEF Next

LEMMA Invariance == Spec => []Inv
<1>1. Init => Inv
  BY InvInit
<1>2. Inv /\ [Next]_vars => Inv'
  BY InvNext
<1>3. QED
  BY <1>1, <1>2, PTL DEF Spec

(* While the poller is on, its next tick is in progress or armed, never     *)
(* both, and at most MAX_POLL_MS away, for all its constants (tick() and    *)
(* schedule() of dialpad-event-poller.ts).                                  *)
THEOREM AliveWhileOnCorrect == Spec => []AliveWhileOn
<1>1. Inv => AliveWhileOn
  BY DEF Inv
<1>2. QED
  BY <1>1, Invariance, PTL

(* A nudge is honoured also when it falls into a tick (nudge() and the      *)
(* finally block of tick()).                                                *)
THEOREM NudgeHonouredCorrect == Spec => []NudgeHonoured
<1>1. Inv => NudgeHonoured
  BY DEF Inv
<1>2. QED
  BY <1>1, Invariance, PTL

(* The poller implements the promise of a background loop: one tick at a    *)
(* time, the next one scheduled while it is on, none begun after stop().    *)
THEOREM Implementation == Spec => ImplementsPollLoop
<1> USE DEF PL!Init, PL!Next, PL!vars, PL!Start, PL!Stop, PL!Begin, PL!End
<1>1. Init => PL!Init
  BY DEF Init
<1>2. Inv /\ [Next]_vars => [PL!Next]_(PL!vars)
  <2> SUFFICES ASSUME Inv, [Next]_vars PROVE [PL!Next]_(PL!vars)
    OBVIOUS
  <2> USE DEF Inv, TypeOK, AliveWhileOn
  <2>1. CASE Start
    BY <2>1 DEF Start, Schedule
  <2>2. CASE Stop
    BY <2>2 DEF Stop
  <2>3. CASE Nudge
    BY <2>3 DEF Nudge, Schedule
  <2>4. CASE TickBegin
    BY <2>4 DEF TickBegin
  <2>5. CASE Advance
    BY <2>5 DEF Advance
  <2>6. ASSUME NEW f \in BOOLEAN, TickEnd(f)
        PROVE  [PL!Next]_(PL!vars)
    BY <2>6 DEF TickEnd, Schedule
  <2>7. CASE UNCHANGED vars
    BY <2>7 DEF vars
  <2>8. QED
    BY <2>1, <2>2, <2>3, <2>4, <2>5, <2>6, <2>7 DEF Next
<1>3. QED
  BY <1>1, <1>2, Invariance, PTL DEF Spec, ImplementsPollLoop, PL!Spec
-----------------------------------------------------------------------------
(* AdaptivePoller. *)

(* Inductive as they stand, together: the reference refers to an armed      *)
(* timer, so clearing it disarms at most that one, and a nudge arms another *)
(* at once; a callback that ends arms one more and never replaces any.      *)
PInv == P!TypeOK /\ P!ChainAlive /\ P!ReferenceArmed /\ P!NudgeHonoured

LEMMA PInvNext ==
  ASSUME Backoffs \in Nat, MaxPolls \in Nat, PInv, [P!Next]_(P!vars)
  PROVE  PInv'
<1> USE DEF PInv, P!TypeOK, P!ChainAlive, P!ReferenceArmed, P!NudgeHonoured, P!Armed
<1>1. CASE P!Start
  BY <1>1 DEF P!Start, P!SchedulePoll
<1>2. CASE P!Stop
  BY <1>2 DEF P!Stop, P!Cleared
<1>3. CASE P!Nudge
  BY <1>3 DEF P!Nudge, P!SchedulePoll, P!Cleared
<1>4. ASSUME NEW t \in Timer, P!Fire(t) PROVE PInv'
  <2>1. /\ polls \in Nat /\ polls < MaxPolls /\ polls' = polls + 1 /\ nudge' = FALSE
        /\ pollerTimer' = Nothing /\ delay' = [delay EXCEPT ![t] = -1]
        /\ isRunning' = isRunning /\ backoff' = backoff
    BY <1>4 DEF P!Fire
  <2>2. delay' \in [Timer -> -1..Backoffs] /\ polls' \in 0..MaxPolls /\ polls' > 0
    BY <2>1
  <2> QED
    BY <2>1, <2>2
<1>5. ASSUME NEW f \in BOOLEAN, P!PollEnd(f) PROVE PInv'
  <2>1. backoff' \in 0..Backoffs /\ polls' \in 0..MaxPolls
    BY <1>5 DEF P!PollEnd, P!NextBackoff
  <2>2. CASE isRunning = "on"
    <3>1. PICK t \in Timer : /\ delay[t] = -1 /\ pollerTimer' = t
                             /\ delay' = [delay EXCEPT ![t] = backoff']
      BY <1>5, <2>2 DEF P!PollEnd, P!SchedulePoll
    <3>2. isRunning' = isRunning /\ nudge' = nudge
      BY <1>5 DEF P!PollEnd
    <3>3. delay' \in [Timer -> -1..Backoffs] /\ t \in P!Armed'
      BY <2>1, <3>1
    <3>4. \A u \in P!Armed : u \in P!Armed' /\ delay'[u] = delay[u]
      BY <3>1
    <3> QED
      BY <2>1, <2>2, <3>1, <3>2, <3>3, <3>4
  <2>3. CASE isRunning # "on"
    BY <1>5, <2>1, <2>3 DEF P!PollEnd
  <2> QED
    BY <2>2, <2>3
<1>6. CASE UNCHANGED P!vars
  BY <1>6 DEF P!vars
<1> QED
  BY <1>1, <1>2, <1>3, <1>4, <1>5, <1>6 DEF P!Next

LEMMA PInvariance ==
  ASSUME Backoffs \in Nat, MaxPolls \in Nat
  PROVE  P!Spec => []PInv
<1>1. P!Init => PInv
  <2> SUFFICES ASSUME P!Init PROVE PInv
    OBVIOUS
  <2>1. 0 \in 0..Backoffs /\ 0 \in 0..MaxPolls /\ -1 \in -1..Backoffs
    OBVIOUS
  <2> QED
    BY <2>1 DEF P!Init, PInv, P!TypeOK, P!ChainAlive, P!ReferenceArmed, P!NudgeHonoured, P!Armed
<1>2. PInv /\ [P!Next]_(P!vars) => PInv'
  BY PInvNext
<1> QED
  BY <1>1, <1>2, PTL DEF P!Spec

(* For every number of timers, polls and back-off steps: while the workflow *)
(* poller is on, a timer is armed or a poll is in flight, whatever nudges   *)
(* and polls overlap (_schedulePoll and nudge of workflow-engine/poller.ts).*)
THEOREM PollerChainAlive ==
  ASSUME Backoffs \in Nat, MaxPolls \in Nat
  PROVE  P!Spec => []ChainAlive
<1>1. PInv => ChainAlive
  BY DEF PInv, ChainAlive
<1> QED
  BY <1>1, PInvariance, PTL

(* A nudge of the workflow poller is not lost: until a poll begins a timer  *)
(* with the shortest delay stays armed, also past polls that end meanwhile. *)
THEOREM PollerNudgeCorrect ==
  ASSUME Backoffs \in Nat, MaxPolls \in Nat
  PROVE  P!Spec => []PollerNudgeHonoured
<1>1. PInv => PollerNudgeHonoured
  BY DEF PInv, PollerNudgeHonoured
<1> QED
  BY <1>1, PInvariance, PTL

-----------------------------------------------------------------------------
(* SyncScheduler. *)

Label == {"idle", "recover", "list", "next", "check", "run", "stamp", "retry", "ask", "arm"}

Syncing(r) == pc[r] \in {"check", "run"}

STypeOK ==
  /\ pc \in [S!Runner -> Label]
  /\ cur \in [S!Runner -> Integration \cup {Nobody}]
  /\ holder \in Worker \cup {Nobody}

(* Within the web process activeSyncs knows both syncs, and neither takes a *)
(* row it knows.                                                            *)
SActive ==
  /\ \A r \in {"web", "user"} : Syncing(r) => cur[r] \in activeSyncs
  /\ Syncing("web") /\ Syncing("user") => cur["web"] # cur["user"]

(* A worker that is at work holds the lock, or a session was cut.           *)
SLock == \A w \in Worker : pc[w] # "idle" => holder = w \/ lost

SInv == STypeOK /\ SActive /\ SLock

SAssumption == "web" \notin Worker /\ "user" \notin Worker /\ Nobody \notin S!Runner

(* A runner goes from one label to another, with another row or the same.   *)
SMove(r, l, c) ==
  /\ l \in Label /\ c \in Integration \cup {Nobody}
  /\ pc' = [pc EXCEPT ![r] = l]
  /\ cur' = [cur EXCEPT ![r] = c]
  /\ lost' = lost

(* activeSyncs stays as it is unless a sync begins or ends in this process. *)
LEMMA SActiveStep ==
  ASSUME STypeOK, SActive, NEW r \in S!Runner, NEW l, NEW c, SMove(r, l, c),
         \/ l \notin {"check", "run"} /\ activeSyncs' = activeSyncs
         \/ l \in {"check", "run"} /\ activeSyncs' = activeSyncs /\ Syncing(r) /\ c = cur[r]
         \/ ~S!InWeb(r) /\ activeSyncs' = activeSyncs
         \/ S!InWeb(r) /\ Syncing(r) /\ l \notin {"check", "run"}
            /\ activeSyncs' = activeSyncs \ {cur[r]}
         \/ S!InWeb(r) /\ c \notin activeSyncs /\ activeSyncs' = activeSyncs \cup {c}
  PROVE  SActive'
<1> USE DEF STypeOK, SActive, SMove, Syncing, S!InWeb, S!Runner
<1>1. CASE r = "web"
  BY <1>1
<1>2. CASE r = "user"
  BY <1>2
<1>3. CASE r \notin {"web", "user"}
  BY <1>3
<1> QED
  BY <1>1, <1>2, <1>3

(* The lock stays where it is while its worker is at work.                  *)
LEMMA SLockStep ==
  ASSUME SAssumption, STypeOK, SLock, NEW r \in S!Runner, NEW l, NEW c, SMove(r, l, c),
         \/ holder' = holder /\ (r \in Worker => pc[r] # "idle")
         \/ holder' = (IF holder = r THEN Nobody ELSE holder) /\ (r \in Worker => l = "idle")
  PROVE  holder' \in Worker \cup {Nobody} /\ SLock'
BY DEF SAssumption, STypeOK, SLock, SMove, S!Runner

LEMMA SInvStep ==
  ASSUME SAssumption, SInv, NEW r \in S!Runner, S!Step(r)
  PROVE  SInv'
<1> USE DEF S!Goto, Label
<1>0. /\ cur[r] \in Integration \cup {Nobody} /\ cur = [cur EXCEPT ![r] = cur[r]]
      /\ Nobody \in Integration \cup {Nobody} /\ S!Step(r)
  BY DEF SInv, STypeOK
<1>1. ASSUME NEW l, NEW c, SMove(r, l, c), SActive', SLock', holder' \in Worker \cup {Nobody}
      PROVE  SInv'
  BY <1>1 DEF SInv, STypeOK, SMove
<1>2. CASE S!Recover(r) \/ S!RecoverFails(r) \/ S!List(r) \/ S!StampFails(r)
  <2>1. \E l \in {"list", "next", "retry"} : SMove(r, l, cur[r]) /\ pc[r] # "idle"
    BY <1>0, <1>2 DEF SMove, S!Recover, S!RecoverFails, S!List, S!StampFails
  <2>2. holder' = holder /\ activeSyncs' = activeSyncs
    BY <1>2 DEF S!Recover, S!RecoverFails, S!List, S!StampFails
  <2> QED
    BY <1>1, <2>1, <2>2, SActiveStep, SLockStep DEF SInv
<1>3. CASE S!ListFails(r) \/ S!TakeNone(r) \/ S!RetryFails(r)
  <2>1. \E l \in {"ask", "idle"} : SMove(r, l, Nobody) /\ (r \in Worker => l = "idle")
    BY <1>0, <1>3 DEF SMove, SAssumption, S!ListFails, S!TakeNone, S!RetryFails, S!PassOver
  <2>2. holder' = (IF holder = r THEN Nobody ELSE holder) /\ activeSyncs' = activeSyncs
    BY <1>3 DEF S!ListFails, S!TakeNone, S!RetryFails, S!PassOver
  <2> QED
    BY <1>1, <2>1, <2>2, SActiveStep, SLockStep DEF SInv
<1>4. ASSUME NEW i \in Integration, S!Take(r, i) PROVE SInv'
  <2>1. pc[r] # "idle" /\ holder' = holder
    BY <1>4 DEF S!Take
  <2>2. CASE S!InWeb(r) /\ i \in activeSyncs
    <3>1. SMove(r, "stamp", i) /\ activeSyncs' = activeSyncs
      BY <1>4, <2>2 DEF SMove, S!Take
    <3> QED
      BY <1>1, <2>1, <3>1, SActiveStep, SLockStep DEF SInv
  <2>3. CASE ~(S!InWeb(r) /\ i \in activeSyncs)
    <3>1. /\ SMove(r, "check", i)
          /\ activeSyncs' = IF S!InWeb(r) THEN activeSyncs \cup {i} ELSE activeSyncs
      BY <1>4, <2>3 DEF SMove, S!Take, S!Enter
    <3>2. SActive'
      BY <2>3, <3>1, SActiveStep DEF SInv
    <3> QED
      BY <1>1, <2>1, <3>1, <3>2, SLockStep DEF SInv
  <2> QED
    BY <2>2, <2>3
<1>5. CASE S!Check(r) /\ cur[r] \in enabled
  <2>1. SMove(r, "run", cur[r]) /\ Syncing(r) /\ pc[r] # "idle"
    BY <1>0, <1>5 DEF SMove, Syncing, S!Check
  <2>2. holder' = holder /\ activeSyncs' = activeSyncs
    BY <1>5 DEF S!Check
  <2> QED
    BY <1>1, <2>1, <2>2, SActiveStep, SLockStep DEF SInv
<1>6. ASSUME NEW l \in {"stamp", "retry"}, S!Leave(r, l), pc[r] \in {"check", "run"} PROVE SInv'
  <2>1. PICK m \in {"idle", "stamp", "retry"}, c \in {cur[r], Nobody} : SMove(r, m, c)
    BY <1>0, <1>6 DEF SMove, S!Leave, S!RowDone
  <2>2. /\ holder' = holder /\ pc[r] # "idle" /\ Syncing(r)
        /\ activeSyncs' = IF S!InWeb(r) THEN activeSyncs \ {cur[r]} ELSE activeSyncs
    BY <1>6 DEF S!Leave, Syncing
  <2>3. SActive'
    BY <2>1, <2>2, SActiveStep DEF SInv
  <2> QED
    BY <1>1, <2>1, <2>2, <2>3, SLockStep DEF SInv
<1>7. CASE S!Stamp(r) \/ S!Retry(r)
  <2>1. \E l \in {"next", "idle"} : SMove(r, l, Nobody) /\ pc[r] # "idle"
    BY <1>0, <1>7 DEF SMove, S!Stamp, S!Retry, S!RowDone
  <2>2. holder' = holder /\ activeSyncs' = activeSyncs
    BY <1>7 DEF S!Stamp, S!Retry
  <2> QED
    BY <1>1, <2>1, <2>2, SActiveStep, SLockStep DEF SInv
<1> QED
  BY <1>0, <1>2, <1>3, <1>4, <1>5, <1>6, <1>7 DEF S!Step, S!Check, S!Ran, S!SyncFails

LEMMA SInvNext ==
  ASSUME SAssumption, SInv, [S!Next]_(S!vars)
  PROVE  SInv'
<1> USE DEF S!Goto, S!Runner, Label
<1>1. CASE S!Start \/ S!Ask \/ S!Arm \/ (S!Fire /\ isRunning = "on")
  <2>1. /\ \E l \in {"recover", "arm", "idle", "list"} : SMove("web", l, cur["web"])
        /\ holder' = holder /\ activeSyncs' = activeSyncs
    BY <1>1 DEF SInv, STypeOK, SMove, S!Start, S!Ask, S!Arm, S!Fire
  <2>2. SActive' /\ SLock'
    BY <2>1, SActiveStep, SLockStep DEF SInv, SAssumption
  <2> QED
    BY <2>1, <2>2 DEF SInv, STypeOK, SMove
<1>2. CASE S!Stop \/ S!LoseSession \/ (S!Fire /\ isRunning # "on")
  BY <1>2 DEF S!Stop, S!LoseSession, S!Fire, SInv, STypeOK, SActive, SLock, Syncing
<1>3. ASSUME NEW w \in Worker, S!WorkerBegins(w) PROVE SInv'
  <2>1. /\ SMove(w, "recover", cur[w]) /\ activeSyncs' = activeSyncs
        /\ holder = Nobody /\ holder' = w
    BY <1>3 DEF SInv, STypeOK, SMove, S!WorkerBegins
  <2>2. SActive'
    BY <2>1, SActiveStep DEF SInv
  <2>3. SLock'
    BY <2>1 DEF SInv, SLock, SMove, STypeOK, SAssumption
  <2> QED
    BY <2>1, <2>2, <2>3 DEF SInv, STypeOK, SMove
<1>4. ASSUME NEW w \in Worker, S!WorkerDies(w) PROVE SInv'
  <2>1. /\ SMove(w, "idle", Nobody) /\ activeSyncs' = activeSyncs
        /\ holder' = IF holder = w THEN Nobody ELSE holder
    BY <1>4 DEF SAssumption, SMove, S!WorkerDies, S!PassOver
  <2>2. SActive' /\ SLock' /\ holder' \in Worker \cup {Nobody}
    BY <2>1, SActiveStep, SLockStep DEF SInv
  <2> QED
    BY <2>1, <2>2 DEF SInv, STypeOK, SMove
<1>5. ASSUME NEW i \in Integration, S!Enable(i) \/ S!Disable(i) \/ S!ComesDue(i) PROVE SInv'
  BY <1>5 DEF S!Enable, S!Disable, S!ComesDue, SInv, STypeOK, SActive, SLock, Syncing
<1>6. ASSUME NEW i \in Integration, S!Trigger(i) PROVE SInv'
  <2>1. /\ SMove("user", "check", i) /\ holder' = holder
        /\ i \notin activeSyncs /\ activeSyncs' = activeSyncs \cup {i}
    BY <1>6 DEF SMove, S!Trigger, S!Enter, S!InWeb
  <2>2. SActive' /\ SLock'
    BY <2>1, SActiveStep, SLockStep DEF SInv, SAssumption, S!InWeb
  <2> QED
    BY <2>1, <2>2 DEF SInv, STypeOK, SMove
<1>7. CASE UNCHANGED S!vars
  BY <1>7 DEF S!vars, SInv, STypeOK, SActive, SLock, Syncing
<1> QED
  BY <1>1, <1>2, <1>3, <1>4, <1>5, <1>6, <1>7, SInvStep DEF S!Next

(* For every set of integrations and workers: one sync of a row at a time,  *)
(* in the web process by activeSyncs and across workers by the advisory     *)
(* lock; only the web process and a worker overlap, or two workers of which *)
(* one had lost its session (performSync, triggerSync, withJobLock).        *)
THEOREM SyncAloneCorrect ==
  ASSUME SAssumption
  PROVE  S!Spec => []S!SyncAlone
<1>1. S!Init => SInv
  BY DEF S!Init, SInv, STypeOK, SActive, SLock, Label, Syncing, S!Runner
<1>2. SInv /\ [S!Next]_(S!vars) => SInv'
  BY SInvNext
<1>3. SInv => S!SyncAlone
  BY DEF SAssumption, SInv, STypeOK, SActive, SLock, Syncing, S!SyncAlone, S!Runner, S!InWeb
<1> QED
  BY <1>1, <1>2, <1>3, PTL DEF S!Spec
=============================================================================
