--------------------------- MODULE FollowUp_proofs ---------------------------
(***************************************************************************)
(* Proofs about following up leads: the SalesProcessCron with the tasks it *)
(* claims (SalesCron), and the cadence that makes the tasks (Cadence).     *)
(***************************************************************************)
EXTENDS MCFollowUp, WellFoundedInduction, TLAPS

-----------------------------------------------------------------------------
(* SalesCron. *)

(* By when t is due, counting the nudges that put the timer off since, and  *)
(* by when it is claimed.                                                   *)
Later(m, n) == IF m < n THEN n ELSE m
PutOff(t) == MinSleep * pushes[t]
CDue(t) == Later(dueAt[t], since[t]) + PutOff(t)
CLatest(t) == CDue(t) + (IF t \in prompt THEN MinSleep ELSE MaxSleep)
CWaits(t) == state[t] \in {"open", "pending"} /\ t \notin claimed

(* Between two ticks the timer fires soon enough for every task that waits, *)
(* and not before an open transaction has ended.                            *)
CIdle ==
  \A x \in timer :
    /\ now <= x /\ x <= now + MaxSleep
    /\ \A t \in Task :
         /\ state[t] = "open" => since[t] + MinSleep <= x /\ now <= since[t] + CommitDelay
         /\ CWaits(t) => x <= CLatest(t)

(* During a tick a task whose transaction is open has nudged it; once the   *)
(* claim found nothing, no task that waits has been due for longer than     *)
(* nudges put it off.                                                       *)
CTicking ==
  \A t \in Task :
    /\ state[t] = "open" => since[t] = now /\ nudged
    /\ CWaits(t) => now <= CLatest(t)
    /\ phase = "asking" /\ CWaits(t) => now <= CDue(t)

CInv ==
  /\ TypeOK
  /\ \A t \in Task : since[t] <= now
  /\ running = "new" => phase = "idle"
  /\ running # "on" => timer = {}
  /\ running = "on" => (timer = {} <=> phase # "idle")
  /\ running = "on" /\ phase = "idle" => CIdle
  /\ running = "on" /\ phase # "idle" => CTicking

LEMMA PutOffSteps ==
  ASSUME TypeOK, NEW t \in Task
  PROVE  /\ PutOff(t) \in Nat
         /\ pushes'[t] = pushes[t] => PutOff(t)' = PutOff(t)
         /\ pushes'[t] = pushes[t] + 1 => PutOff(t)' = PutOff(t) + MinSleep
         /\ pushes'[t] = 0 => PutOff(t)' = 0
BY ConstantsAssumption DEF TypeOK, PutOff

(* Whoever waits keeps its times while its columns stay.                    *)
LEMMA LatestStays ==
  ASSUME NEW t \in Task, dueAt'[t] = dueAt[t], since'[t] = since[t], pushes'[t] = pushes[t],
         t \in prompt' <=> t \in prompt
  PROVE  CDue(t)' = CDue(t) /\ CLatest(t)' = CLatest(t)
BY DEF CDue, CLatest, PutOff, Later

LEMMA CTypes ==
  ASSUME TypeOK, NEW t \in Task
  PROVE  /\ CDue(t) \in Nat /\ CLatest(t) \in Nat
         /\ dueAt[t] <= CDue(t) /\ since[t] <= CDue(t)
         /\ CDue(t) + MinSleep <= CLatest(t) /\ CLatest(t) <= CDue(t) + MaxSleep
         /\ t \notin prompt => CLatest(t) = CDue(t) + MaxSleep
BY ConstantsAssumption, PutOffSteps DEF TypeOK, CDue, CLatest, Later

LEMMA LeastNatural ==
  ASSUME NEW T \in SUBSET Nat, T # {}
  PROVE  \E m \in T : \A n \in T : m <= n
<1>1. PICK m \in T : \A n \in T : <<n, m>> \notin OpToRel(<, Nat)
  BY WFMin, NatLessThanWellFounded, Zenon
<1>2. \A n \in T : ~(n < m)
  BY <1>1, Zenon DEF OpToRel
<1> QED
  BY <1>2

(* computeSleepUntilNextDue stays within its bounds and never sleeps past a *)
(* task that is pending.                                                    *)
LEMMA SleepBounds ==
  ASSUME TypeOK
  PROVE  /\ Sleep \in MinSleep..MaxSleep
         /\ \A t \in Task : state[t] = "pending" => Sleep <= Later(MinSleep, dueAt[t] - now)
<1> DEFINE open == {u \in Task : state[u] = "pending"}
           wait == {dueAt[t] - now : t \in open}
           due == {dueAt[t] : t \in open}
           IsNext(w) == w \in wait /\ \A v \in wait : w <= v
           next == CHOOSE x \in wait : IsNext(x)
<1>1. Sleep = IF wait = {} THEN MaxSleep
                ELSE IF next < MinSleep THEN MinSleep ELSE IF next > MaxSleep THEN MaxSleep ELSE next
  BY Zenon DEF Sleep
<1>2. now \in Nat /\ due \subseteq Nat
  BY ConstantsAssumption DEF TypeOK
<1>3. CASE wait = {}
  <2>1. \A t \in Task : state[t] # "pending"
    BY <1>3
  <2> QED
    BY ConstantsAssumption, <1>1, <1>3, <2>1
<1>4. CASE wait # {}
  <2>1. due # {}
    BY <1>4
  <2>2. PICK m \in due : \A n \in due : m <= n
    BY <1>2, <2>1, LeastNatural
  <2>3. m - now \in wait /\ \A v \in wait : m - now <= v
    <3>1. \E t \in open : m = dueAt[t]
      BY <2>2
    <3>2. ASSUME NEW v \in wait PROVE m - now <= v
      <4>1. PICK t \in open : v = dueAt[t] - now
        BY <3>2
      <4>2. dueAt[t] \in Nat /\ m \in Nat /\ m <= dueAt[t]
        BY <1>2, <2>2
      <4> QED
        BY <1>2, <4>1, <4>2
    <3> QED
      BY <3>1, <3>2
  <2>4. next \in wait /\ IsNext(next)
    BY <2>3, Zenon
  <2> HIDE DEF next
  <2>5. PICK t \in open : next = dueAt[t] - now
    BY <2>4
  <2>6. \A u \in open : dueAt[u] \in Nat /\ next <= dueAt[u] - now
    BY <2>4 DEF TypeOK
  <2>7. next \in Int
    BY <1>2, <2>5, <2>6
  <2>8. /\ Sleep \in MinSleep..MaxSleep
        /\ Sleep <= MinSleep \/ Sleep <= next
    BY ConstantsAssumption, <1>1, <1>4, <2>7
  <2>9. ASSUME NEW u \in Task, state[u] = "pending"
        PROVE  Sleep <= Later(MinSleep, dueAt[u] - now)
    BY ConstantsAssumption, <1>2, <2>6, <2>7, <2>8, <2>9 DEF Later
  <2> QED
    BY <2>8, <2>9
<1> QED
  BY <1>3, <1>4

LEMMA CTypeStep ==
  ASSUME CInv, [Next]_(vars)
  PROVE  TypeOK' /\ \A t \in Task : since'[t] <= now'
<1> USE ConstantsAssumption DEF CInv, TypeOK, loopVars, taskVars, histVars
<1>1. ASSUME NEW d \in Nat, Schedule(d)
      PROVE  timer' \in SUBSET Nat /\ \A t, u \in timer' : t = u
  <2>1. now + d \in Nat
    OBVIOUS
  <2> QED
    BY <1>1, <2>1 DEF Schedule
<1>2. CASE Stop \/ TickBegin \/ PassEmpty
  BY <1>2 DEF Stop, TickBegin, PassEmpty
<1>3. CASE Start
  <2>1. now \in Nat /\ now + MinSleep \in Nat
    OBVIOUS
  <2> QED
    BY <1>3, <2>1 DEF Start
<1>4. CASE Advance
  <2>1. now \in Nat /\ now' \in 0..MaxTime /\ now <= now'
    BY <1>4 DEF Advance
  <2>2. since' = since /\ \A t \in Task : since[t] \in Nat
    BY <1>4 DEF Advance
  <2> QED
    BY <1>4, <2>1, <2>2 DEF Advance
<1>5. ASSUME NEW d \in Nat, TickEnds(d)
      PROVE  /\ timer' \in SUBSET Nat /\ \A t, u \in timer' : t = u
             /\ phase' = "idle" /\ nudged' \in BOOLEAN
  <2>1. (IF nudged THEN MinSleep ELSE d) \in Nat
    OBVIOUS
  <2> QED
    BY <1>1, <1>5, <2>1 DEF TickEnds
<1>6. ASSUME ClaimDue
      PROVE  attemptCount' \in [Task -> 0..MaxAttemptCount] /\ claimed' \subseteq Task
  BY <1>6 DEF ClaimDue, Due
<1>7. CASE PassFails
  BY <1>5, <1>6, <1>7 DEF PassFails
<1>8. CASE OtherPass
  BY <1>6, <1>8 DEF OtherPass
<1>9. CASE Ask \/ AskFails
  BY <1>5, <1>9, SleepBounds DEF Ask, AskFails
<1>10. ASSUME NEW t \in Task, Materialize(t) PROVE TypeOK' /\ \A u \in Task : since'[u] <= now'
  <2>1. /\ timer' \in SUBSET Nat /\ \A u, v \in timer' : u = v
        /\ nudged' \in BOOLEAN
    BY <1>1, <1>10 DEF Materialize, Nudge
  <2>2. pushes' \in [Task -> Nat] /\ dueAt' \in [Task -> Nat]
    <3>1. PICK d \in Delays : dueAt' = [dueAt EXCEPT ![t] = now + d]
      BY <1>10 DEF Materialize
    <3>2. now + d \in Nat /\ \A u \in Task : pushes[u] + 1 \in Nat
      OBVIOUS
    <3> QED
      BY <1>10, <3>1, <3>2 DEF Materialize
  <2> QED
    BY <1>10, <2>1, <2>2 DEF Materialize
<1>11. ASSUME NEW t \in Task, Commit(t)
      PROVE  TypeOK' /\ \A u \in Task : since'[u] <= now'
  BY <1>11 DEF Commit
<1>12. ASSUME NEW t \in Task, Reschedule(t)
       PROVE  TypeOK' /\ \A u \in Task : since'[u] <= now'
  <2>1. PICK d \in Delays : dueAt' = [dueAt EXCEPT ![t] = now + d]
    BY <1>12 DEF Reschedule
  <2>2. now \in Nat /\ now + d \in Nat /\ moves' \in 0..MaxMoves
    BY <1>12 DEF Reschedule
  <2> QED
    BY <1>12, <2>1, <2>2 DEF Reschedule
<1>13. CASE UNCHANGED vars
  BY <1>13 DEF vars
<1> QED
  BY <1>2, <1>3, <1>4, <1>7, <1>8, <1>9, <1>10, <1>11, <1>12, <1>13 DEF Next

(* A tick that ends arms the timer soon enough for whoever still waits.     *)
LEMMA CTickEnded ==
  ASSUME CInv, phase # "idle", NEW d \in MinSleep..MaxSleep,
         TickEnds(d), running' = running, now' = now, state' = state, since' = since,
         \A t \in Task : CWaits(t)' /\ running = "on" =>
           now + (IF nudged THEN MinSleep ELSE d) <= CLatest(t)'
  PROVE  /\ running' # "on" => timer' = {}
         /\ running' = "on" => timer' # {} /\ CIdle'
         /\ phase' = "idle"
<1>1. CASE running # "on"
  BY <1>1 DEF CInv, TickEnds, Schedule
<1>2. CASE running = "on"
  <2> DEFINE x == now + (IF nudged THEN MinSleep ELSE d)
  <2>1. timer' = {x} /\ phase' = "idle" /\ now + MinSleep <= x /\ x <= now + MaxSleep
        /\ now <= x /\ now \in Nat /\ x \in Nat
    BY ConstantsAssumption, <1>2 DEF TickEnds, Schedule, CInv, TypeOK
  <2>2. \A t \in Task : state[t] = "open" => since[t] = now
    BY <1>2 DEF CInv, CTicking
  <2>3. \A t \in Task : CWaits(t)' => x <= CLatest(t)'
    BY <1>2
  <2> HIDE DEF x
  <2>4. CIdle'
    BY ConstantsAssumption, <2>1, <2>2, <2>3 DEF CIdle
  <2> QED
    BY <1>2, <2>1, <2>4
<1> QED
  BY <1>1, <1>2

(* The columns of t, and whether t waits and was nudged for, stay.          *)
Keeps(t) ==
  /\ state'[t] = state[t] /\ dueAt'[t] = dueAt[t] /\ since'[t] = since[t] /\ pushes'[t] = pushes[t]
  /\ t \in prompt' <=> t \in prompt
  /\ t \in claimed => t \in claimed'

(* A task that only loses its claim to a pass, or only has its transaction  *)
(* committed, changes nothing of what the timer owes the others.            *)
LEMMA COthersStay ==
  ASSUME CInv, TypeOK', running' = running, phase' = phase, timer' = timer,
         nudged' = nudged, now' = now,
         \A t \in Task :
           \/ Keeps(t)
           \/ /\ state'[t] = "pending" /\ (CWaits(t)' => CWaits(t))
              /\ CDue(t)' = CDue(t) /\ CLatest(t)' = CLatest(t)
           \/ /\ state'[t] = "pending" /\ now + MaxSleep <= CLatest(t)' /\ now <= CDue(t)'
  PROVE  /\ running' = "on" /\ phase' = "idle" => CIdle'
         /\ running' = "on" /\ phase' # "idle" => CTicking'
<1>1. \A t \in Task : Keeps(t) => CDue(t)' = CDue(t) /\ CLatest(t)' = CLatest(t)
  BY LatestStays DEF Keeps
<1>2. now \in Nat /\ \A t \in Task : CLatest(t)' \in Nat /\ CDue(t)' \in Nat
  <2>1. \A t \in Task : PutOff(t)' \in Nat
    BY ConstantsAssumption DEF TypeOK, PutOff
  <2> QED
    BY ConstantsAssumption, <2>1 DEF CInv, TypeOK, CDue, CLatest, Later
<1>3. ASSUME running = "on", phase = "idle" PROVE CIdle'
  <2>0. \A x \in timer' : now' <= x /\ x <= now' + MaxSleep
    BY <1>3 DEF CInv, CIdle
  <2> SUFFICES ASSUME NEW x \in timer', NEW t \in Task
               PROVE  /\ state'[t] = "open" => since'[t] + MinSleep <= x /\ now' <= since'[t] + CommitDelay
                      /\ CWaits(t)' => x <= CLatest(t)'
    BY <2>0 DEF CIdle
  <2>1. /\ now <= x /\ x <= now + MaxSleep /\ x \in Nat
        /\ state[t] = "open" => since[t] + MinSleep <= x /\ now <= since[t] + CommitDelay
        /\ CWaits(t) => x <= CLatest(t)
    BY <1>3 DEF CInv, CIdle, TypeOK
  <2>2. CASE Keeps(t)
    BY <1>1, <2>1, <2>2 DEF Keeps, CWaits
  <2>3. CASE now + MaxSleep <= CLatest(t)' /\ state'[t] = "pending"
    BY ConstantsAssumption, <1>2, <2>1, <2>3
  <2>4. CASE state'[t] = "pending" /\ (CWaits(t)' => CWaits(t)) /\ CLatest(t)' = CLatest(t)
    BY <2>1, <2>4
  <2> QED
    BY <2>2, <2>3, <2>4
<1>4. ASSUME running = "on", phase # "idle" PROVE CTicking'
  <2> SUFFICES ASSUME NEW t \in Task
               PROVE  /\ state'[t] = "open" => since'[t] = now' /\ nudged'
                      /\ CWaits(t)' => now' <= CLatest(t)'
                      /\ phase' = "asking" /\ CWaits(t)' => now' <= CDue(t)'
    BY DEF CTicking
  <2>1. /\ state[t] = "open" => since[t] = now /\ nudged
        /\ CWaits(t) => now <= CLatest(t)
        /\ phase = "asking" /\ CWaits(t) => now <= CDue(t)
    BY <1>4 DEF CInv, CTicking
  <2>2. CASE Keeps(t)
    BY <1>1, <2>1, <2>2 DEF Keeps, CWaits
  <2>3. CASE now + MaxSleep <= CLatest(t)' /\ now <= CDue(t)' /\ state'[t] = "pending"
    BY ConstantsAssumption, <1>2, <2>1, <2>3
  <2>4. CASE /\ state'[t] = "pending" /\ (CWaits(t)' => CWaits(t))
             /\ CDue(t)' = CDue(t) /\ CLatest(t)' = CLatest(t)
    BY <2>1, <2>4
  <2> QED
    BY <2>2, <2>3, <2>4
<1> QED
  BY <1>3, <1>4

LEMMA CInvTasks ==
  ASSUME CInv, NEW t \in Task, Commit(t) \/ Reschedule(t)
  PROVE  CInv'
<1>1. TypeOK' /\ \A u \in Task : since'[u] <= now'
  BY CTypeStep DEF Next
<1>2. /\ running' = running /\ phase' = phase /\ timer' = timer /\ nudged' = nudged /\ now' = now
      /\ \A u \in Task : u # t => Keeps(u)
  BY DEF Commit, Reschedule, loopVars, histVars, Keeps, CInv, TypeOK
<1>3. CASE Commit(t)
  <2>1. state'[t] = "pending" /\ (CWaits(t)' => CWaits(t))
        /\ CDue(t)' = CDue(t) /\ CLatest(t)' = CLatest(t)
    BY <1>3 DEF Commit, histVars, CWaits, CDue, CLatest, PutOff, Later, CInv, TypeOK
  <2> QED
    BY <1>1, <1>2, <2>1, COthersStay DEF CInv
<1>4. CASE Reschedule(t)
  <2>1. PICK d \in Delays : dueAt' = [dueAt EXCEPT ![t] = now + d]
    BY <1>4 DEF Reschedule
  <2>2. /\ state'[t] = "pending" /\ dueAt'[t] = now + d /\ since'[t] = now /\ pushes'[t] = 0
        /\ t \notin prompt'
    BY <1>4, <2>1 DEF Reschedule, CInv, TypeOK
  <2>3. now + MaxSleep <= CLatest(t)' /\ now <= CDue(t)'
    <3>1. PutOff(t)' = 0
      BY <2>2, PutOffSteps DEF CInv
    <3>2. d \in Nat /\ now \in Nat
      BY ConstantsAssumption DEF CInv, TypeOK
    <3> QED
      BY ConstantsAssumption, <2>2, <3>1, <3>2 DEF CDue, CLatest, Later
  <2> QED
    BY <1>1, <1>2, <2>2, <2>3, COthersStay DEF CInv
<1> QED
  BY <1>3, <1>4

LEMMA CInvMaterialize ==
  ASSUME CInv, NEW t \in Task, Materialize(t)
  PROVE  CInv'
<1>1. TypeOK' /\ \A u \in Task : since'[u] <= now'
  BY CTypeStep DEF Next
<1>2. /\ running' = running /\ phase' = phase /\ now' = now /\ claimed' = claimed
      /\ \A u \in Task : u # t =>
           /\ state'[u] = state[u] /\ dueAt'[u] = dueAt[u]
           /\ since'[u] = since[u] /\ pushes'[u] = pushes[u] + 1
           /\ u \in prompt' <=> u \in prompt
  BY DEF Materialize, CInv, TypeOK
<1>3. ASSUME NEW u \in Task, u # t
      PROVE  CDue(u)' = CDue(u) + MinSleep /\ CLatest(u)' = CLatest(u) + MinSleep
  <2>1. /\ dueAt'[u] = dueAt[u] /\ since'[u] = since[u] /\ pushes'[u] = pushes[u] + 1
        /\ u \in prompt' <=> u \in prompt
    BY <1>2, <1>3
  <2>2. PutOff(u)' = PutOff(u) + MinSleep /\ PutOff(u) \in Nat
    BY <2>1, PutOffSteps DEF CInv
  <2>3. dueAt[u] \in Nat /\ since[u] \in Nat /\ MinSleep \in Nat /\ MaxSleep \in Nat
    BY ConstantsAssumption DEF CInv, TypeOK
  <2>4. CDue(u)' = CDue(u) + MinSleep /\ CDue(u) \in Nat
    BY <2>1, <2>2, <2>3 DEF CDue, Later
  <2> QED
    BY <2>1, <2>3, <2>4 DEF CLatest
<1>4. /\ state'[t] = "open" /\ since'[t] = now /\ dueAt'[t] \in Nat /\ PutOff(t)' = 0
  <2>1. pushes'[t] = 0
    BY DEF Materialize, CInv, TypeOK
  <2>2. PutOff(t)' = 0
    BY <2>1, PutOffSteps DEF CInv
  <2> QED
    BY <1>1, <2>2 DEF Materialize, CInv, TypeOK
<1>5. now \in Nat /\ now <= CDue(t)' /\ now + MinSleep <= CLatest(t)' /\ now <= CLatest(t)'
  BY ConstantsAssumption, <1>4 DEF CInv, TypeOK, CDue, CLatest, Later
<1>6. \A u \in Task : CDue(u) \in Nat /\ CLatest(u) \in Nat
  BY CTypes DEF CInv
<1>7. CASE running # "on"
  BY <1>1, <1>2, <1>7 DEF CInv, Materialize, Nudge
<1>8. CASE running = "on" /\ phase = "idle"
  <2>1. timer' = {now + MinSleep}
    BY <1>8 DEF Materialize, Nudge, Schedule
  <2>2. PICK x \in timer : x \in Nat /\ now <= x
    BY <1>8 DEF CInv, CIdle, TypeOK
  <2>3. \A u \in Task : u # t /\ CWaits(u)' => now + MinSleep <= CLatest(u)'
    BY ConstantsAssumption, <1>2, <1>3, <1>5, <1>6, <1>8, <2>2 DEF CInv, CIdle, CWaits
  <2>4. \A u \in Task : since'[u] <= now /\ since'[u] \in Nat
    BY <1>1, <1>2 DEF TypeOK
  <2>5. \A u \in Task : state'[u] = "open" => now <= since'[u] + CommitDelay
    BY ConstantsAssumption, <1>2, <1>4, <1>5, <1>8, <2>2 DEF CInv, CIdle
  <2>6. CIdle'
    BY ConstantsAssumption, <1>2, <1>5, <2>1, <2>3, <2>4, <2>5 DEF CIdle
  <2> QED
    BY <1>1, <1>2, <1>8, <2>1, <2>6 DEF CInv
<1>9. CASE running = "on" /\ phase # "idle"
  <2>1. nudged' = TRUE /\ timer' = timer
    BY <1>9 DEF Materialize, Nudge
  <2>2. \A u \in Task : state'[u] = "open" => since'[u] = now
    BY <1>2, <1>4, <1>9 DEF CInv, CTicking
  <2>3. \A u \in Task : u # t =>
          /\ CWaits(u)' => now <= CLatest(u)'
          /\ phase = "asking" /\ CWaits(u)' => now <= CDue(u)'
    BY ConstantsAssumption, <1>2, <1>3, <1>5, <1>6, <1>9 DEF CInv, CTicking, CWaits
  <2>4. CTicking'
    BY <1>2, <1>5, <2>1, <2>2, <2>3 DEF CTicking
  <2> QED
    BY <1>1, <1>2, <1>9, <2>1, <2>4 DEF CInv
<1> QED
  BY <1>7, <1>8, <1>9

(* The cron's own steps. *)
LEMMA CInvLoop ==
  ASSUME CInv,
         Start \/ Stop \/ TickBegin \/ PassEmpty \/ Advance \/ OtherPass
  PROVE  CInv'
<1>1. TypeOK' /\ \A u \in Task : since'[u] <= now'
  BY CTypeStep DEF Next
<1>2. CASE Start
  <2>1. /\ timer' = {now + MinSleep} /\ running' = "on" /\ phase' = "idle" /\ now' = now
        /\ \A t \in Task : since'[t] = now
    BY <1>2 DEF Start, CInv
  <2>2. \A t \in Task : now + MinSleep <= CLatest(t)'
    <3>1. \A t \in Task : PutOff(t)' \in Nat
      BY ConstantsAssumption, <1>1 DEF TypeOK, PutOff
    <3> QED
      BY ConstantsAssumption, <1>1, <2>1, <3>1 DEF TypeOK, CLatest, CDue, Later
  <2>3. CIdle'
    BY ConstantsAssumption, <1>1, <2>1, <2>2 DEF CIdle, TypeOK
  <2> QED
    BY <1>1, <2>1, <2>3 DEF CInv
<1>3. CASE Stop
  BY <1>1, <1>3 DEF Stop, CInv
<1>4. CASE TickBegin
  <2>1. PICK x \in timer : x <= now
    BY <1>4 DEF TickBegin
  <2>2. running = "on" /\ phase = "idle" /\ timer' = {} /\ phase' = "claiming" /\ running' = running
    BY <1>4, <2>1 DEF TickBegin, CInv
  <2>3. x = now /\ now \in Nat
    BY ConstantsAssumption, <2>1, <2>2 DEF CInv, CIdle, TypeOK
  <2>4. \A t \in Task : state[t] # "open"
    BY ConstantsAssumption, <2>2, <2>3 DEF CInv, CIdle, TypeOK
  <2>5. \A t \in Task : /\ CWaits(t) => now <= CLatest(t)
                        /\ CWaits(t)' <=> CWaits(t)
                        /\ CLatest(t)' = CLatest(t)
    BY <1>4, <2>2, <2>3, LatestStays
    DEF CInv, CIdle, TickBegin, taskVars, histVars, CWaits
  <2>6. CTicking'
    BY <1>4, <2>2, <2>4, <2>5 DEF TickBegin, taskVars, CTicking
  <2> QED
    BY <1>1, <2>2, <2>6 DEF CInv
<1>5. CASE PassEmpty
  <2>1. /\ phase = "claiming" /\ phase' = "asking" /\ \A t \in Task : Keeps(t)
        /\ running' = running /\ timer' = timer /\ nudged' = nudged /\ now' = now
        /\ claimed' = claimed
    BY <1>5 DEF PassEmpty, taskVars, histVars, Keeps
  <2>2. \A t \in Task : CWaits(t) /\ running = "on" => now <= CDue(t)
    <3> SUFFICES ASSUME NEW t \in Task, CWaits(t), running = "on" PROVE now <= CDue(t)
      OBVIOUS
    <3>1. now \in Nat /\ dueAt[t] \in Nat /\ since[t] \in Nat /\ CDue(t) \in Nat
          /\ dueAt[t] <= CDue(t) /\ since[t] <= CDue(t)
      BY ConstantsAssumption, CTypes DEF CInv, TypeOK
    <3>2. CASE state[t] = "pending"
      BY <1>5, <3>1, <3>2 DEF PassEmpty, Due
    <3>3. CASE state[t] = "open"
      BY <2>1, <3>1, <3>3 DEF CInv, CTicking
    <3> QED
      BY <3>2, <3>3 DEF CWaits
  <2>3. \A t \in Task : CDue(t)' = CDue(t) /\ CLatest(t)' = CLatest(t) /\ (CWaits(t)' <=> CWaits(t))
    BY <2>1, LatestStays DEF Keeps, CWaits
  <2>4. running = "on" => CTicking'
    BY <2>1, <2>2, <2>3 DEF CInv, CTicking, Keeps
  <2> QED
    BY <1>1, <2>1, <2>4 DEF CInv
<1>6. CASE Advance
  <2>1. /\ phase = "idle" /\ phase' = phase /\ running' = running /\ timer' = timer /\ now' = now + 1
        /\ now \in Nat /\ \A x \in timer : now < x /\ x \in Nat
        /\ \A t \in Task : Keeps(t) /\ claimed' = claimed /\ since[t] \in Nat
        /\ \A t \in Task : state[t] = "open" => now - since[t] < CommitDelay
    BY ConstantsAssumption, <1>6 DEF Advance, loopVars, taskVars, histVars, Keeps, CInv, TypeOK
  <2>2. \A t \in Task : CLatest(t)' = CLatest(t) /\ (CWaits(t)' <=> CWaits(t))
    BY <2>1, LatestStays DEF Keeps, CWaits
  <2>3. running = "on" => CIdle'
    BY ConstantsAssumption, <2>1, <2>2 DEF CInv, CIdle, Keeps
  <2> QED
    BY <1>1, <2>1, <2>3 DEF CInv
<1>7. CASE OtherPass
  <2>1. /\ running' = running /\ phase' = phase /\ timer' = timer /\ nudged' = nudged /\ now' = now
        /\ \A t \in Task : Keeps(t)
    BY <1>7 DEF OtherPass, ClaimDue, loopVars, Keeps
  <2> QED
    BY <1>1, <2>1, COthersStay DEF CInv
<1> QED
  BY <1>2, <1>3, <1>4, <1>5, <1>6, <1>7

(* A pass that fails claims what is due and takes the prompt away from the  *)
(* rest; a query that returns lets the cron sleep until the next due time.  *)
LEMMA CInvTick ==
  ASSUME CInv, PassFails \/ Ask \/ AskFails
  PROVE  CInv'
<1>1. TypeOK' /\ \A u \in Task : since'[u] <= now'
  BY CTypeStep DEF Next
<1>2. /\ phase # "idle" /\ running' = running /\ now' = now /\ state' = state /\ since' = since
      /\ dueAt' = dueAt /\ pushes' = pushes
      /\ MinSleep \in MinSleep..MaxSleep /\ MaxSleep \in MinSleep..MaxSleep
  BY ConstantsAssumption DEF PassFails, Ask, AskFails, taskVars, histVars
<1>3. ASSUME NEW d \in MinSleep..MaxSleep, TickEnds(d),
             \A t \in Task : CWaits(t)' /\ running = "on" =>
               now + (IF nudged THEN MinSleep ELSE d) <= CLatest(t)'
      PROVE  CInv'
  <2>1. /\ running' # "on" => timer' = {}
        /\ running' = "on" => timer' # {} /\ CIdle'
        /\ phase' = "idle"
    BY <1>2, <1>3, CTickEnded
  <2> QED
    BY <1>1, <2>1 DEF CInv
<1>4. \A t \in Task : CDue(t)' = CDue(t) /\ CDue(t) \in Nat /\ now \in Nat
                      /\ dueAt[t] \in Nat /\ since[t] \in Nat
                      /\ dueAt[t] <= CDue(t) /\ since[t] <= CDue(t)
  BY ConstantsAssumption, <1>2, CTypes DEF CDue, PutOff, Later, CInv, TypeOK
<1>5. CASE PassFails \/ AskFails
  <2>1. TickEnds(MaxSleep) /\ prompt' = {}
    BY <1>5 DEF PassFails, AskFails
  <2>2. ASSUME NEW t \in Task, CWaits(t)', running = "on" PROVE now <= CDue(t)
    <3>1. CASE PassFails /\ state[t] = "pending"
      BY <1>2, <1>4, <2>2, <3>1 DEF PassFails, ClaimDue, Due, CWaits
    <3>2. CASE state[t] = "open"
      BY <1>2, <1>4, <2>2, <3>2 DEF CInv, CTicking
    <3>3. CASE AskFails
      BY <1>2, <1>4, <2>2, <3>3 DEF AskFails, CWaits, CInv, CTicking
    <3> QED
      BY <1>2, <1>5, <2>2, <3>1, <3>2, <3>3 DEF CWaits
  <2>3. \A t \in Task : CLatest(t)' = CDue(t) + MaxSleep
    BY <1>4, <2>1 DEF CLatest
  <2>4. \A t \in Task : CWaits(t)' /\ running = "on" =>
          now + (IF nudged THEN MinSleep ELSE MaxSleep) <= CLatest(t)'
    BY ConstantsAssumption, <1>4, <2>2, <2>3
  <2> QED
    BY <1>2, <1>3, <2>1, <2>4
<1>6. CASE Ask
  <2>1. /\ TickEnds(Sleep) /\ Sleep \in MinSleep..MaxSleep /\ phase = "asking"
        /\ \A t \in Task : state[t] = "pending" => Sleep <= Later(MinSleep, dueAt[t] - now)
    BY <1>6, SleepBounds DEF Ask, CInv
  <2>2. \A t \in Task : CWaits(t)' = CWaits(t) /\ CLatest(t)' = CLatest(t)
    BY <1>6 DEF Ask, taskVars, histVars, CWaits, CLatest, CDue, PutOff, Later
  <2>3. ASSUME NEW t \in Task, CWaits(t), running = "on"
        PROVE  now + (IF nudged THEN MinSleep ELSE Sleep) <= CLatest(t)
    <3>1. now <= CDue(t) /\ CDue(t) + MinSleep <= CLatest(t) /\ CLatest(t) \in Nat
      BY <2>1, <2>3, CTypes DEF CInv, CTicking
    <3>2. CASE nudged
      BY ConstantsAssumption, <1>4, <3>1, <3>2
    <3>3. CASE ~nudged
      <4>1. state[t] = "pending"
        BY <1>2, <2>3, <3>3 DEF CInv, CTicking, CWaits
      <4>2. Sleep <= Later(MinSleep, dueAt[t] - now)
        BY <2>1, <4>1
      <4> QED
        BY ConstantsAssumption, <1>4, <2>1, <3>1, <3>3, <4>2 DEF Later
    <3> QED
      BY <3>2, <3>3
  <2> QED
    BY <1>3, <2>1, <2>2, <2>3
<1> QED
  BY <1>5, <1>6

LEMMA CInvariance ==
  Spec => []CInv
<1>1. Init => CInv
  <2> SUFFICES ASSUME Init PROVE CInv
    OBVIOUS
  <2>1. 0 \in Nat /\ 0 \in 0..MaxTime /\ 0 \in 0..MaxMoves /\ 0 \in 0..MaxAttemptCount
    BY ConstantsAssumption
  <2>2. TypeOK
    BY <2>1 DEF Init, TypeOK
  <2>3. ASSUME NEW t \in Task PROVE since[t] <= now
    <3>1. now = 0 /\ since[t] = 0
      BY DEF Init
    <3> QED
      BY <3>1
  <2> QED
    BY <2>2, <2>3 DEF Init, CInv
<1>2. CInv /\ [Next]_(vars) => CInv'
  <2> SUFFICES ASSUME CInv, [Next]_(vars) PROVE CInv'
    OBVIOUS
  <2>1. CASE UNCHANGED vars
    BY <2>1 DEF vars, loopVars, taskVars, histVars, CInv, TypeOK, CIdle, CTicking,
                CWaits, CLatest, CDue, PutOff, Later
  <2> QED
    BY <2>1, CInvTasks, CInvMaterialize, CInvLoop, CInvTick DEF Next
<1> QED
  BY <1>1, <1>2, PTL DEF Spec

(* For all delays and every number of tasks: while the cron is on, a task   *)
(* that is due and visible has been claimed within MIN_SLEEP_MS if the cron *)
(* was nudged for it and no tick failed since, within MAX_SLEEP_MS          *)
(* otherwise, and later only by MIN_SLEEP_MS for every nudge that put the   *)
(* timer off (schedule, nudge, tick of sales-process-cron.ts).              *)
THEOREM OnTimeCorrect ==
  Spec => []OnTime
<1>1. CInv => OnTime
  <2> SUFFICES ASSUME CInv, NEW t \in Task, running = "on", state[t] = "pending", t \notin claimed
               PROVE  now <= CLatest(t)
    BY ConstantsAssumption, CTypes DEF OnTime, CInv, TypeOK, CLatest, CDue, Later, PutOff
  <2>1. CASE phase = "idle"
    <3>1. PICK x \in timer : now <= x /\ x <= CLatest(t) /\ x \in Nat
      BY <2>1 DEF CInv, CIdle, TypeOK, CWaits
    <3> QED
      BY ConstantsAssumption, <3>1, CTypes DEF CInv, TypeOK
  <2>2. CASE phase # "idle"
    BY <2>2 DEF CInv, CTicking, CWaits
  <2> QED
    BY <2>1, <2>2
<1> QED
  BY <1>1, CInvariance, PTL

(* The cron implements the promise of a background loop: one tick at a      *)
(* time, the next one scheduled while it is on, none begun after stop().    *)
THEOREM CronImplementation ==
  Spec => ImplementsPollLoop
<1> USE DEF PL!Init, PL!Next, PL!vars, PL!Start, PL!Stop, PL!Begin, PL!End
<1>1. Init => PL!Init
  BY DEF Init
<1>2. CInv /\ [Next]_(vars) => [PL!Next]_(PL!vars)
  <2> SUFFICES ASSUME CInv, [Next]_(vars) PROVE [PL!Next]_(PL!vars)
    OBVIOUS
  <2> USE DEF CInv, TypeOK
  <2>1. CASE Start \/ Stop
    BY <2>1 DEF Start, Stop
  <2>2. CASE TickBegin
    BY <2>2 DEF TickBegin
  <2>3. CASE PassFails \/ Ask \/ AskFails
    BY <2>3 DEF PassFails, Ask, AskFails, TickEnds, Schedule
  <2>4. CASE PassEmpty \/ OtherPass \/ Advance
    BY <2>4 DEF PassEmpty, OtherPass, Advance, loopVars
  <2>5. ASSUME NEW t \in Task, Materialize(t) PROVE [PL!Next]_(PL!vars)
    BY <2>5 DEF Materialize, Nudge, Schedule
  <2>6. ASSUME NEW t \in Task, Commit(t) \/ Reschedule(t) PROVE [PL!Next]_(PL!vars)
    BY <2>6 DEF Commit, Reschedule, loopVars
  <2>7. CASE UNCHANGED vars
    BY <2>7 DEF vars, loopVars
  <2> QED
    BY <2>1, <2>2, <2>3, <2>4, <2>5, <2>6, <2>7 DEF Next
<1> QED
  BY <1>1, <1>2, CInvariance, PTL DEF Spec, ImplementsPollLoop, PL!Spec
-----------------------------------------------------------------------------
(* Cadence: what a job may be. *)

Label == {"idle", "match", "write", "hook", "sweep", "stop", "look", "steps", "count", "insert",
          "saved", "leads", "next", "mark"}
Purpose == Status \cup {"nothing", "create", "backfill", "activity"}
Job == [at : Label, for : Purpose, lead : Lead \cup {None}, was : Status \cup {None},
        read : Status \cup {None}, steps : SUBSET Step, todo : SUBSET (Lead \X (Status \ C!Stopping))]

HasLead == {"match", "write", "hook", "sweep", "stop", "look", "steps", "count", "insert", "mark"}
HasSteps == {"count", "insert", "leads", "next"}

(* What the labels say of a job: which lead it is about, what it has read.  *)
Shape(j) ==
  /\ j.at \in HasLead => j.lead \in Lead
  /\ j.at = "write" => j.for \in Status
  /\ j.for = "create" => j.at \in {"match", "steps", "count", "insert"} /\ j.read \in Status
  /\ j.for = "backfill" => j.at \in {"saved", "leads", "next", "count", "insert"}
  /\ j.at = "saved" => j.lead = None
  /\ j.at \in {"steps", "count", "insert"} => j.read \notin C!Stopping
  /\ j.at \in HasSteps => j.steps # {}

CadType ==
  /\ live \subseteq Step /\ gone \subseteq Step /\ live \cap gone = {}
  /\ status \in [Lead -> Status \cup {None}]
  /\ task \in [Lead \X Step -> {"none", "pending", "completed", "skipped"}]
  /\ enrolled \in [Lead -> Nat]
  /\ job \in [Worker -> Job]
  /\ \A w \in Worker : Shape(job[w])

(* What w is doing and has read after a step; the others go on.             *)
Into(w, at, for, lead, read, steps, todo) ==
  /\ job' \in [Worker -> Job]
  /\ \A v \in Worker \ {w} : job'[v] = job[v]
  /\ job'[w].at = at /\ job'[w].for = for /\ job'[w].lead = lead /\ job'[w].read = read
  /\ job'[w].steps = steps /\ job'[w].todo = todo

Freed(w) == Into(w, "idle", "nothing", None, None, {}, {})
On(w, at) == Into(w, at, job[w].for, job[w].lead, job[w].read, job[w].steps, job[w].todo)

LEMMA IdleIsJob == C!Idle \in Job
BY DEF C!Idle, Job, Label, Purpose

LEMMA DoneFrees ==
  ASSUME CadType, NEW w \in Worker, C!Done(w)
  PROVE  Freed(w)
<1>1. C!Idle \in Job
  BY IdleIsJob
<1>2. /\ C!Idle.at = "idle" /\ C!Idle.for = "nothing" /\ C!Idle.lead = None /\ C!Idle.read = None
      /\ C!Idle.steps = {} /\ C!Idle.todo = {}
  BY DEF C!Idle
<1> QED
  BY <1>1, <1>2 DEF CadType, C!Done, Freed, Into

LEMMA GotoMoves ==
  ASSUME CadType, NEW w \in Worker, NEW label \in Label, C!Goto(w, label)
  PROVE  On(w, label)
BY DEF CadType, C!Goto, On, Into, Job

LEMMA ReadMoves ==
  ASSUME CadType, NEW w \in Worker, NEW label \in Label, NEW r \in Status \cup {None},
         job' = [job EXCEPT ![w].at = label, ![w].read = r]
  PROVE  Into(w, label, job[w].for, job[w].lead, r, job[w].steps, job[w].todo)
BY DEF CadType, Into, Job

LEMMA StepsMove ==
  ASSUME CadType, NEW w \in Worker, NEW label \in Label,
         job' = [job EXCEPT ![w].at = label, ![w].steps = live]
  PROVE  Into(w, label, job[w].for, job[w].lead, job[w].read, live, job[w].todo)
BY DEF CadType, Into, Job

LEMMA TodoMoves ==
  ASSUME CadType, NEW w \in Worker, NEW label \in Label,
         NEW T \in SUBSET (Lead \X (Status \ C!Stopping)),
         job' = [job EXCEPT ![w].at = label, ![w].todo = T]
  PROVE  Into(w, label, job[w].for, job[w].lead, job[w].read, job[w].steps, T)
BY DEF CadType, Into, Job

LEMMA WasMoves ==
  ASSUME CadType, NEW w \in Worker, NEW label \in Label,
         job' = [job EXCEPT ![w].at = label, ![w].was = None]
  PROVE  On(w, label)
BY DEF CadType, On, Into, Job

LEMMA LeadMoves ==
  ASSUME CadType, NEW w \in Worker, NEW label \in Label,
         job' = [job EXCEPT ![w].at = label, ![w].lead = None, ![w].read = None]
  PROVE  Into(w, label, job[w].for, None, None, job[w].steps, job[w].todo)
<1>1. PICK r \in Job : r = job[w]
  BY DEF CadType
<1>2. /\ job' = [job EXCEPT ![w] = [r EXCEPT !.at = label, !.lead = None, !.read = None]]
  BY <1>1
<1>3. PICK n : n = [r EXCEPT !.at = label, !.lead = None, !.read = None]
  OBVIOUS
<1>4. /\ n \in Job /\ n.at = label /\ n.for = r.for /\ n.lead = None /\ n.read = None
      /\ n.steps = r.steps /\ n.todo = r.todo
  BY <1>3 DEF Job
<1> QED
  BY <1>1, <1>2, <1>3, <1>4 DEF CadType, Into

(* A lead is done with: the job ends, or the backfill goes on.              *)
LeadLeft(w) == Freed(w) \/ Into(w, "next", "backfill", None, None, job[w].steps, job[w].todo)

LEMMA LeadDoneMoves ==
  ASSUME CadType, NEW w \in Worker, C!LeadDone(w)
  PROVE  /\ job[w].for # "backfill" => Freed(w)
         /\ job[w].for = "backfill" => Into(w, "next", "backfill", None, None, job[w].steps, job[w].todo)
<1>1. CASE job[w].for # "backfill"
  BY <1>1, DoneFrees DEF C!LeadDone
<1>2. CASE job[w].for = "backfill"
  <2>1. job' = [job EXCEPT ![w].at = "next", ![w].lead = None, ![w].read = None]
    BY <1>2 DEF C!LeadDone
  <2> QED
    BY <1>2, <2>1, LeadMoves DEF Label
<1> QED
  BY <1>1, <1>2

(* The steps of a worker, each as what becomes of its job. *)
LEMMA HookSteps ==
  ASSUME CadType, NEW w \in Worker
  PROVE  /\ C!Write(w) => IF job[w].was = job[w].for THEN Freed(w) ELSE On(w, "hook")
         /\ C!Hook(w) => On(w, IF job[w].for \in Terminal THEN "sweep"
                               ELSE IF job[w].for \in Stops /\ active /\ ~deleted THEN "stop" ELSE "look")
         /\ C!Sweep(w) => IF job[w].at = "sweep" THEN Freed(w) ELSE On(w, "look")
         /\ C!Look(w) => IF status[job[w].lead] \in Terminal THEN Freed(w)
                         ELSE Into(w, "match", job[w].for, job[w].lead, status[job[w].lead],
                                   job[w].steps, job[w].todo)
<1>1. ASSUME C!Write(w) PROVE IF job[w].was = job[w].for THEN Freed(w) ELSE On(w, "hook")
  <2>1. CASE job[w].was = job[w].for
    BY <1>1, <2>1, DoneFrees DEF C!Write
  <2>2. CASE job[w].was # job[w].for
    <3>1. job' = [job EXCEPT ![w].at = "hook", ![w].was = None]
      BY <1>1, <2>2 DEF C!Write
    <3> QED
      BY <2>2, <3>1, WasMoves DEF Label
  <2> QED
    BY <2>1, <2>2
<1>2. ASSUME C!Hook(w)
      PROVE  On(w, IF job[w].for \in Terminal THEN "sweep"
                   ELSE IF job[w].for \in Stops /\ active /\ ~deleted THEN "stop" ELSE "look")
  <2>1. C!Goto(w, "sweep") \/ C!Goto(w, "stop") \/ C!Goto(w, "look")
    BY <1>2 DEF C!Hook
  <2> QED
    BY <1>2, GotoMoves DEF C!Hook, Label
<1>3. C!Sweep(w) => IF job[w].at = "sweep" THEN Freed(w) ELSE On(w, "look")
  BY DoneFrees, GotoMoves DEF C!Sweep, Label
<1>4. ASSUME C!Look(w)
      PROVE  IF status[job[w].lead] \in Terminal THEN Freed(w)
             ELSE Into(w, "match", job[w].for, job[w].lead, status[job[w].lead], job[w].steps, job[w].todo)
  <2>1. status[job[w].lead] \in Status \cup {None}
    BY <1>4 DEF CadType, C!Look, C!At, Shape, HasLead
  <2>2. CASE status[job[w].lead] \in Terminal
    BY <1>4, <2>2, DoneFrees DEF C!Look
  <2>3. CASE status[job[w].lead] \notin Terminal
    BY <1>4, <2>1, <2>3, ReadMoves DEF C!Look, Label
  <2> QED
    BY <2>2, <2>3
<1> QED
  BY <1>1, <1>2, <1>3, <1>4

LEMMA EnrollSteps ==
  ASSUME CadType, NEW w \in Worker
  PROVE  /\ C!Match(w) => \/ On(w, "steps") /\ job[w].read \notin C!Stopping
                          \/ Freed(w)
         /\ C!ReadSteps(w) => \/ Into(w, "count", job[w].for, job[w].lead, job[w].read, live, job[w].todo)
                                 /\ live # {}
                              \/ Freed(w)
         /\ C!Count(w) => On(w, "insert") \/ LeadLeft(w)
         /\ C!Insert(w) => LeadLeft(w)
<1>1. C!LeadDone(w) => LeadLeft(w)
  BY LeadDoneMoves DEF LeadLeft
<1>2. job[w].at \in {"match", "steps"} /\ C!LeadDone(w) => Freed(w)
  BY LeadDoneMoves DEF CadType, Shape
<1>3. C!Match(w) => \/ On(w, "steps") /\ job[w].read \notin C!Stopping
                    \/ Freed(w)
  BY <1>2, GotoMoves DEF C!Match, C!At, Label
<1>4. C!ReadSteps(w) => \/ Into(w, "count", job[w].for, job[w].lead, job[w].read, live, job[w].todo)
                           /\ live # {}
                        \/ Freed(w)
  BY <1>2, StepsMove DEF C!ReadSteps, C!At, Label
<1>5. C!Count(w) => On(w, "insert") \/ LeadLeft(w)
  BY <1>1, GotoMoves DEF C!Count, Label
<1>6. C!Insert(w) => LeadLeft(w)
  BY <1>1, DoneFrees DEF C!Insert, LeadLeft
<1> QED
  BY <1>3, <1>4, <1>5, <1>6

LEMMA BackfillSteps ==
  ASSUME CadType, NEW w \in Worker
  PROVE  /\ C!BackfillReads(w) => \/ Into(w, "leads", job[w].for, job[w].lead, job[w].read, live, job[w].todo)
                                     /\ live # {}
                                  \/ Freed(w)
         /\ C!BackfillLists(w) =>
              \E T \in SUBSET (Lead \X (Status \ C!Stopping)) :
                /\ Into(w, "next", job[w].for, job[w].lead, job[w].read, job[w].steps, T)
                /\ \A p \in T : status[p[1]] = p[2]
         /\ C!BackfillNext(w) =>
              \/ Freed(w)
              \/ \E p \in job[w].todo :
                   Into(w, "count", job[w].for, p[1], p[2], job[w].steps, job[w].todo \ {p})
<1>1. C!BackfillReads(w) => \/ Into(w, "leads", job[w].for, job[w].lead, job[w].read, live, job[w].todo)
                               /\ live # {}
                            \/ Freed(w)
  BY DoneFrees, StepsMove DEF C!BackfillReads, Label
<1>2. ASSUME C!BackfillLists(w)
      PROVE  \E T \in SUBSET (Lead \X (Status \ C!Stopping)) :
                /\ Into(w, "next", job[w].for, job[w].lead, job[w].read, job[w].steps, T)
                /\ \A p \in T : status[p[1]] = p[2]
  <2>1. PICK T : T = {p \in Lead \X (Status \ C!Stopping) : status[p[1]] = p[2] /\ target \in {None, p[2]}}
    OBVIOUS
  <2>2. job' = [job EXCEPT ![w].at = "next", ![w].todo = T]
    BY <1>2, <2>1, Zenon DEF C!BackfillLists
  <2>3. T \in SUBSET (Lead \X (Status \ C!Stopping)) /\ \A p \in T : status[p[1]] = p[2]
    BY <2>1
  <2> QED
    BY <2>2, <2>3, TodoMoves DEF Label
<1>3. ASSUME C!BackfillNext(w), job[w].todo # {}
      PROVE  \E p \in job[w].todo :
               Into(w, "count", job[w].for, p[1], p[2], job[w].steps, job[w].todo \ {p})
  <2>1. PICK r \in Job : r = job[w]
    BY DEF CadType
  <2>2. PICK p \in r.todo :
          job' = [job EXCEPT ![w] = [r EXCEPT !.at = "count", !.lead = p[1], !.read = p[2],
                                              !.todo = r.todo \ {p}]]
    BY <1>3, <2>1, Zenon DEF C!BackfillNext
  <2>3. p[1] \in Lead /\ p[2] \in Status /\ r.todo \in SUBSET (Lead \X (Status \ C!Stopping))
    BY DEF Job
  <2>4. PICK n : n = [r EXCEPT !.at = "count", !.lead = p[1], !.read = p[2], !.todo = r.todo \ {p}]
    OBVIOUS
  <2>5. /\ n \in Job /\ n.at = "count" /\ n.for = r.for /\ n.lead = p[1] /\ n.read = p[2]
        /\ n.steps = r.steps /\ n.todo = r.todo \ {p}
    BY <2>3, <2>4 DEF Job, Label
  <2> QED
    BY <2>1, <2>2, <2>4, <2>5 DEF CadType, Into
<1> QED
  BY <1>1, <1>2, <1>3, DoneFrees DEF C!BackfillNext

LEMMA OtherSteps ==
  ASSUME CadType, NEW w \in Worker
  PROVE  /\ C!ActivityMarks(w) \/ C!Abandon(w) => Freed(w)
         /\ \A l \in Lead, s \in Status : C!Create(w, l, s) => Into(w, "match", "create", l, s, {}, {})
         /\ \A l \in Lead, s \in Status : C!Patch(w, l, s) => Into(w, "write", s, l, None, {}, {})
         /\ \A l \in Lead, s \in Step : C!Activity(w, l, s) => Into(w, "mark", "activity", l, None, {s}, {})
         /\ \A on \in BOOLEAN, S \in SUBSET Step :
              C!Save(w, on, S) => job' = job \/ Into(w, "saved", "backfill", None, None, {}, {})
<1>1. C!ActivityMarks(w) \/ C!Abandon(w) => Freed(w)
  BY DoneFrees DEF C!ActivityMarks, C!Abandon
<1>2. ASSUME NEW n \in Job, job' = [job EXCEPT ![w] = n]
      PROVE  Into(w, n.at, n.for, n.lead, n.read, n.steps, n.todo)
  BY <1>2 DEF CadType, Into
<1>3. ASSUME NEW l \in Lead, NEW s \in Status, C!Create(w, l, s)
      PROVE  Into(w, "match", "create", l, s, {}, {})
  <2>1. PICK n : n = [C!Idle EXCEPT !.at = "match", !.for = "create", !.lead = l, !.read = s]
    OBVIOUS
  <2>2. /\ n \in Job /\ n.at = "match" /\ n.for = "create" /\ n.lead = l /\ n.read = s
        /\ n.steps = {} /\ n.todo = {}
    BY <2>1 DEF C!Idle, Job, Label, Purpose
  <2>3. job' = [job EXCEPT ![w] = n]
    BY <1>3, <2>1 DEF C!Create
  <2> QED
    BY <1>2, <2>2, <2>3
<1>4. ASSUME NEW l \in Lead, NEW s \in Status, C!Patch(w, l, s)
      PROVE  Into(w, "write", s, l, None, {}, {})
  <2>1. PICK n : n = [C!Idle EXCEPT !.at = "write", !.for = s, !.lead = l, !.was = status[l]]
    OBVIOUS
  <2>2. /\ n \in Job /\ n.at = "write" /\ n.for = s /\ n.lead = l /\ n.read = None
        /\ n.steps = {} /\ n.todo = {}
    BY <2>1 DEF CadType, C!Idle, Job, Label, Purpose
  <2>3. job' = [job EXCEPT ![w] = n]
    BY <1>4, <2>1 DEF C!Patch
  <2> QED
    BY <1>2, <2>2, <2>3
<1>5. ASSUME NEW l \in Lead, NEW s \in Step, C!Activity(w, l, s)
      PROVE  Into(w, "mark", "activity", l, None, {s}, {})
  <2>1. PICK n : n = [C!Idle EXCEPT !.at = "mark", !.for = "activity", !.lead = l, !.steps = {s}]
    OBVIOUS
  <2>2. /\ n \in Job /\ n.at = "mark" /\ n.for = "activity" /\ n.lead = l /\ n.read = None
        /\ n.steps = {s} /\ n.todo = {}
    BY <2>1 DEF C!Idle, Job, Label, Purpose
  <2>3. job' = [job EXCEPT ![w] = n]
    BY <1>5, <2>1 DEF C!Activity
  <2> QED
    BY <1>2, <2>2, <2>3
<1>6. ASSUME NEW on \in BOOLEAN, NEW S \in SUBSET Step, C!Save(w, on, S)
      PROVE  job' = job \/ Into(w, "saved", "backfill", None, None, {}, {})
  <2>1. PICK n : n = [C!Idle EXCEPT !.at = "saved", !.for = "backfill"]
    OBVIOUS
  <2>2. /\ n \in Job /\ n.at = "saved" /\ n.for = "backfill" /\ n.lead = None /\ n.read = None
        /\ n.steps = {} /\ n.todo = {}
    BY <2>1 DEF C!Idle, Job, Label, Purpose
  <2>3. job' = job \/ job' = [job EXCEPT ![w] = n]
    BY <1>6, <2>1 DEF C!Save, C!Saved
  <2> QED
    BY <1>2, <2>2, <2>3
<1> QED
  BY <1>1, <1>3, <1>4, <1>5, <1>6

LEMMA ShapeNext ==
  ASSUME CadType, [C!Next]_(C!vars)
  PROVE  job' \in [Worker -> Job] /\ \A w \in Worker : Shape(job'[w])
<1> USE CadenceAssumption
<1> DEFINE Goal == job' \in [Worker -> Job] /\ \A w \in Worker : Shape(job'[w])
<1>1. CASE job' = job
  BY <1>1 DEF CadType
<1>2. ASSUME NEW w \in Worker, NEW at, NEW f, NEW l, NEW x, NEW S, NEW T, Into(w, at, f, l, x, S, T),
             /\ at \in HasLead => l \in Lead
             /\ at = "write" => f \in Status
             /\ f = "create" => at \in {"match", "steps", "count", "insert"} /\ x \in Status
             /\ f = "backfill" => at \in {"saved", "leads", "next", "count", "insert"}
             /\ at = "saved" => l = None
             /\ at \in {"steps", "count", "insert"} => x \notin C!Stopping
             /\ at \in HasSteps => S # {}
      PROVE  Goal
  BY <1>2 DEF CadType, Into, Shape
<1> HIDE DEF Goal
<1>3. ASSUME NEW w \in Worker, Freed(w) PROVE Goal
  BY <1>2, <1>3 DEF Freed, HasLead, HasSteps
<1>4. ASSUME NEW w \in Worker, job[w].at \in {"count", "insert"}, LeadLeft(w) PROVE Goal
  <2>1. job[w].steps # {}
    BY <1>4 DEF CadType, Shape, HasSteps
  <2> QED
    BY <1>2, <1>3, <1>4, <2>1 DEF LeadLeft, HasLead
<1>5. ASSUME NEW w \in Worker, C!Write(w) \/ C!Hook(w) \/ C!Sweep(w) \/ C!Look(w) PROVE Goal
  <2>1. job[w].at \in {"write", "hook", "sweep", "stop", "look"} /\ Shape(job[w])
    BY <1>5 DEF CadType, C!Write, C!Hook, C!Sweep, C!Look, C!At
  <2>2. job[w].lead \in Lead /\ job[w].for \notin {"create", "backfill"}
    BY <2>1 DEF Shape, HasLead
  <2>3. ASSUME NEW label \in {"hook", "sweep", "stop", "look"}, On(w, label) PROVE Goal
    BY <1>2, <2>2, <2>3 DEF On, HasSteps
  <2>4. ASSUME NEW x, Into(w, "match", job[w].for, job[w].lead, x, job[w].steps, job[w].todo) PROVE Goal
    BY <1>2, <2>2, <2>4 DEF HasSteps
  <2> QED
    BY <1>3, <1>5, <2>3, <2>4, HookSteps
<1>6. ASSUME NEW w \in Worker, C!Match(w) \/ C!ReadSteps(w) \/ C!Count(w) \/ C!Insert(w) PROVE Goal
  <2>1. job[w].at \in {"match", "steps", "count", "insert"} /\ Shape(job[w])
    BY <1>6 DEF CadType, C!Match, C!ReadSteps, C!Count, C!Insert, C!At
  <2>2. CASE C!Match(w)
    <3>1. job[w].at = "match"
      BY <2>2 DEF C!Match, C!At
    <3>2. job[w].lead \in Lead /\ job[w].for # "backfill" /\ (job[w].for = "create" => job[w].read \in Status)
      BY <2>1, <3>1 DEF Shape, HasLead
    <3>3. CASE On(w, "steps") /\ job[w].read \notin C!Stopping
      BY <1>2, <3>2, <3>3 DEF On, HasSteps
    <3> QED
      BY <1>3, <2>2, <3>3, EnrollSteps
  <2>3. CASE C!ReadSteps(w)
    <3>1. job[w].at = "steps"
      BY <2>3 DEF C!ReadSteps, C!At
    <3>2. /\ job[w].lead \in Lead /\ job[w].for # "backfill" /\ job[w].read \notin C!Stopping
          /\ (job[w].for = "create" => job[w].read \in Status)
      BY <2>1, <3>1 DEF Shape, HasLead
    <3>3. CASE Into(w, "count", job[w].for, job[w].lead, job[w].read, live, job[w].todo) /\ live # {}
      BY <1>2, <3>2, <3>3
    <3> QED
      BY <1>3, <2>3, <3>3, EnrollSteps
  <2>4. CASE C!Count(w)
    <3>1. job[w].at = "count"
      BY <2>4 DEF C!Count, C!At
    <3>2. /\ job[w].lead \in Lead /\ job[w].read \notin C!Stopping /\ job[w].steps # {}
          /\ (job[w].for = "create" => job[w].read \in Status)
      BY <2>1, <3>1 DEF Shape, HasLead, HasSteps
    <3>3. CASE On(w, "insert")
      BY <1>2, <3>2, <3>3 DEF On
    <3> QED
      BY <1>4, <2>4, <3>1, <3>3, EnrollSteps
  <2>5. CASE C!Insert(w)
    BY <1>4, <2>5, EnrollSteps DEF C!Insert, C!At
  <2> QED
    BY <1>6, <2>2, <2>3, <2>4, <2>5
<1>7. ASSUME NEW w \in Worker, C!BackfillReads(w) \/ C!BackfillLists(w) \/ C!BackfillNext(w) PROVE Goal
  <2>1. job[w].at \in {"saved", "leads", "next"} /\ Shape(job[w]) /\ job[w] \in Job
    BY <1>7 DEF CadType, C!BackfillReads, C!BackfillLists, C!BackfillNext, C!At
  <2>2. job[w].for # "create"
    BY <2>1 DEF Shape
  <2>3. CASE Into(w, "leads", job[w].for, job[w].lead, job[w].read, live, job[w].todo) /\ live # {}
    BY <1>2, <2>2, <2>3 DEF HasLead
  <2>4. ASSUME NEW T, job[w].at = "leads",
               Into(w, "next", job[w].for, job[w].lead, job[w].read, job[w].steps, T)
        PROVE  Goal
    <3>1. job[w].steps # {}
      BY <2>1, <2>4 DEF Shape, HasSteps
    <3> QED
      BY <1>2, <2>2, <2>4, <3>1 DEF HasLead
  <2>5. ASSUME NEW p \in job[w].todo, job[w].at = "next",
               Into(w, "count", job[w].for, p[1], p[2], job[w].steps, job[w].todo \ {p})
        PROVE  Goal
    <3>1. job[w].steps # {}
      BY <2>1, <2>5 DEF Shape, HasSteps
    <3>2. p[1] \in Lead /\ p[2] \notin C!Stopping
      BY <2>1 DEF Job
    <3> QED
      BY <1>2, <2>2, <2>5, <3>1, <3>2
  <2>6. /\ C!BackfillLists(w) => job[w].at = "leads"
        /\ C!BackfillNext(w) => job[w].at = "next"
    BY DEF C!BackfillLists, C!BackfillNext, C!At
  <2> QED
    BY <1>3, <1>7, <2>3, <2>4, <2>5, <2>6, BackfillSteps
<1>8. ASSUME NEW w \in Worker, C!ActivityMarks(w) \/ C!Abandon(w) PROVE Goal
  BY <1>3, <1>8, OtherSteps
<1>9. ASSUME NEW w \in Worker, NEW l \in Lead, NEW s \in Status, C!Create(w, l, s) \/ C!Patch(w, l, s)
      PROVE  Goal
  <2>1. CASE Into(w, "match", "create", l, s, {}, {})
    BY <1>2, <2>1 DEF HasSteps
  <2>2. CASE Into(w, "write", s, l, None, {}, {})
    <3>1. s # "create" /\ s # "backfill"
      OBVIOUS
    <3> QED
      BY <1>2, <2>2, <3>1 DEF HasSteps
  <2> QED
    BY <1>9, <2>1, <2>2, OtherSteps
<1>10. ASSUME NEW w \in Worker, NEW l \in Lead, NEW s \in Step, C!Activity(w, l, s) PROVE Goal
  <2>1. Into(w, "mark", "activity", l, None, {s}, {})
    BY <1>10, OtherSteps
  <2> QED
    BY <1>2, <2>1
<1>11. ASSUME NEW w \in Worker, NEW on \in BOOLEAN, NEW S \in SUBSET Step, C!Save(w, on, S) PROVE Goal
  <2>1. CASE Into(w, "saved", "backfill", None, None, {}, {})
    BY <1>2, <2>1 DEF HasLead, HasSteps
  <2>2. CASE job' = job
    BY <1>1, <2>2 DEF Goal
  <2> QED
    BY <1>11, <2>1, <2>2, OtherSteps
<1>12. C!Delete \/ UNCHANGED C!vars \/ (\E l \in Lead, s \in Step : C!RepEnds(l, s)) => job' = job
  BY DEF C!Delete, C!vars, C!RepEnds
<1>13. Goal
  BY <1>1, <1>5, <1>6, <1>7, <1>8, <1>9, <1>10, <1>11, <1>12 DEF C!Next, Goal
<1> QED
  BY <1>13 DEF Goal

(* What a step does to the leads: the status of one that is being created,  *)
(* as its transaction commits, or of one that is patched.                   *)
Commits(w) == /\ job[w].for = "create" /\ job[w].at \in {"match", "steps", "count", "insert"}
              /\ status' = [status EXCEPT ![job[w].lead] = job[w].read]
              /\ Freed(w)

LEMMA StatusStep ==
  ASSUME CadType, [C!Next]_(C!vars)
  PROVE  \/ status' = status
         \/ \E w \in Worker : Commits(w)
         \/ \E w \in Worker : C!Write(w)
<1>1. ASSUME NEW w \in Worker, C!LeadDone(w), job[w].at \in {"match", "steps", "count", "insert"}
      PROVE  status' = status \/ Commits(w)
  BY <1>1, DoneFrees DEF C!LeadDone, Commits
<1>2. ASSUME NEW w \in Worker, C!Match(w) \/ C!ReadSteps(w) \/ C!Count(w) \/ C!Insert(w)
      PROVE  status' = status \/ Commits(w)
  BY <1>1, <1>2 DEF C!Match, C!ReadSteps, C!Count, C!Insert, C!At
<1>3. ASSUME NEW w \in Worker,
             C!Hook(w) \/ C!Sweep(w) \/ C!Look(w) \/ C!BackfillReads(w) \/ C!BackfillLists(w)
             \/ C!BackfillNext(w) \/ C!ActivityMarks(w) \/ C!Abandon(w)
      PROVE  status' = status
  BY <1>3 DEF C!Hook, C!Sweep, C!Look, C!BackfillReads, C!BackfillLists, C!BackfillNext,
              C!ActivityMarks, C!Abandon
<1>4. ASSUME NEW w \in Worker, NEW l \in Lead,
             (\E s \in Status : C!Create(w, l, s) \/ C!Patch(w, l, s)) \/ (\E s \in Step : C!Activity(w, l, s))
             \/ (\E s \in Step : C!RepEnds(l, s))
      PROVE  status' = status
  BY <1>4 DEF C!Create, C!Patch, C!Activity, C!RepEnds
<1>5. ASSUME NEW w \in Worker, NEW on \in BOOLEAN, NEW S \in SUBSET Step, C!Save(w, on, S)
      PROVE  status' = status
  BY <1>5 DEF C!Save, C!Saved
<1>6. C!Delete \/ UNCHANGED C!vars => status' = status
  BY DEF C!Delete, C!vars
<1>7. (\E l \in Lead, s \in Step : C!RepEnds(l, s)) => status' = status
  BY DEF C!RepEnds
<1> QED
  BY <1>2, <1>3, <1>4, <1>5, <1>6, <1>7 DEF C!Next

(* What a step does to the tasks: those of one enrollment are inserted, all *)
(* at once and none of them there before, or some that are pending end.     *)
Inserts(w) ==
  /\ job[w].at = "insert" /\ C!LeadDone(w) /\ UNCHANGED <<live, gone, unswept>>
  /\ \A s \in job[w].steps : task[<<job[w].lead, s>>] = "none"
  /\ task' = [p \in Lead \X Step |-> IF p[1] = job[w].lead /\ p[2] \in job[w].steps
                                     THEN "pending" ELSE task[p]]
  /\ stale' = stale \cup {p \in {job[w].lead} \X job[w].steps :
                            p[2] \notin live \/ (job[w].for # "create" /\ status[job[w].lead] # job[w].read)}
  /\ enrolled' = [enrolled EXCEPT ![job[w].lead] = @ + 1]

TasksEnd ==
  /\ task' \in [Lead \X Step -> {"none", "pending", "completed", "skipped"}]
  /\ \A p \in Lead \X Step :
       task'[p] = task[p] \/ (task[p] = "pending" /\ task'[p] \in {"completed", "skipped"})
  /\ stale' = stale /\ enrolled' = enrolled

LEMMA InsertInserts ==
  ASSUME CadType, NEW w \in Worker, C!Insert(w)
  PROVE  \/ Inserts(w)
         \/ /\ UNCHANGED <<status, task, stale, enrolled, live, gone, unswept>>
            /\ Freed(w)
<1> DEFINE rows == {job[w].lead} \X job[w].steps
<1>1. job[w].lead \in Lead /\ job[w].steps \subseteq Step /\ job[w].at = "insert"
  BY DEF CadType, Shape, HasLead, C!Insert, C!At, Job
<1>2. \A p \in Lead \X Step : p \in rows <=> p[1] = job[w].lead /\ p[2] \in job[w].steps
  BY <1>1
<1>3. CASE \E p \in rows : task[p] # "none"
  BY <1>3, DoneFrees DEF C!Insert, C!cadence
<1>4. CASE ~ \E p \in rows : task[p] # "none"
  <2>1. \A s \in job[w].steps : task[<<job[w].lead, s>>] = "none"
    BY <1>4
  <2>2. /\ task' = [p \in Lead \X Step |-> IF p \in rows THEN "pending" ELSE task[p]]
        /\ stale' = stale \cup {p \in rows : p[2] \notin live
                                       \/ (job[w].for # "create" /\ status[job[w].lead] # job[w].read)}
        /\ enrolled' = [enrolled EXCEPT ![job[w].lead] = @ + 1]
        /\ C!LeadDone(w) /\ UNCHANGED <<live, gone, unswept>>
    BY <1>4, Zenon DEF C!Insert, C!cadence
  <2>3. task' = [p \in Lead \X Step |-> IF p[1] = job[w].lead /\ p[2] \in job[w].steps
                                        THEN "pending" ELSE task[p]]
    BY <1>2, <2>2
  <2> QED
    BY <1>1, <2>1, <2>2, <2>3 DEF Inserts
<1> QED
  BY <1>3, <1>4

LEMMA TaskStep ==
  ASSUME CadType, [C!Next]_(C!vars)
  PROVE  TasksEnd \/ \E w \in Worker : Inserts(w)
<1>1. ASSUME UNCHANGED <<task, stale, enrolled>> PROVE TasksEnd
  BY <1>1 DEF CadType, TasksEnd
<1>2. ASSUME NEW S, C!Skip(S), UNCHANGED <<stale, enrolled>> PROVE TasksEnd
  BY <1>2 DEF CadType, TasksEnd, C!Skip
<1>3. ASSUME NEW w \in Worker, C!Insert(w) PROVE TasksEnd \/ Inserts(w)
  BY <1>1, <1>3, InsertInserts
<1>4. ASSUME NEW w \in Worker,
             C!Write(w) \/ C!Hook(w) \/ C!Look(w) \/ C!Match(w) \/ C!ReadSteps(w) \/ C!Count(w)
             \/ C!BackfillReads(w) \/ C!BackfillLists(w) \/ C!BackfillNext(w) \/ C!Abandon(w)
      PROVE  TasksEnd
  <2>1. UNCHANGED <<task, stale, enrolled>>
    BY <1>4 DEF C!Write, C!Hook, C!Look, C!Match, C!ReadSteps, C!Count,
                C!BackfillReads, C!BackfillLists, C!BackfillNext, C!Abandon
  <2> QED
    BY <1>1, <2>1
<1>5. ASSUME NEW w \in Worker, C!Sweep(w) PROVE TasksEnd
  BY <1>2, <1>5 DEF C!Sweep
<1>6. ASSUME NEW w \in Worker, C!ActivityMarks(w) PROVE TasksEnd
  BY <1>6 DEF CadType, TasksEnd, C!ActivityMarks
<1>7. ASSUME NEW l \in Lead, NEW s \in Step, C!RepEnds(l, s) PROVE TasksEnd
  BY <1>7 DEF CadType, TasksEnd, C!RepEnds
<1>8. ASSUME NEW w \in Worker, NEW on \in BOOLEAN, NEW S \in SUBSET Step, C!Save(w, on, S)
      PROVE  TasksEnd
  BY <1>2, <1>8 DEF C!Save, C!Saved
<1>9. ASSUME NEW w \in Worker, NEW l \in Lead,
             (\E s \in Status : C!Create(w, l, s) \/ C!Patch(w, l, s)) \/ (\E s \in Step : C!Activity(w, l, s))
      PROVE  TasksEnd
  <2>1. UNCHANGED <<task, stale, enrolled>>
    BY <1>9 DEF C!Create, C!Patch, C!Activity
  <2> QED
    BY <1>1, <2>1
<1>10. C!Delete \/ UNCHANGED C!vars => TasksEnd
  BY <1>1 DEF C!Delete, C!vars
<1> QED
  BY <1>3, <1>4, <1>5, <1>6, <1>7, <1>8, <1>9, <1>10 DEF C!Next

(* Only a save changes the steps of the cadence.                            *)
LEMMA StepsStay ==
  ASSUME [C!Next]_(C!vars)
  PROVE  \/ UNCHANGED <<live, gone>>
         \/ \E w \in Worker, on \in BOOLEAN, S \in SUBSET Step : C!Save(w, on, S)
<1>1. ASSUME NEW w \in Worker,
             C!Write(w) \/ C!Hook(w) \/ C!Sweep(w) \/ C!Look(w) \/ C!Match(w) \/ C!ReadSteps(w) \/ C!Count(w)
             \/ C!Insert(w) \/ C!BackfillReads(w) \/ C!BackfillLists(w) \/ C!BackfillNext(w)
             \/ C!ActivityMarks(w) \/ C!Abandon(w)
      PROVE  UNCHANGED <<live, gone>>
  BY <1>1 DEF C!Write, C!Hook, C!Sweep, C!Look, C!Match, C!ReadSteps, C!Count, C!Insert,
              C!BackfillReads, C!BackfillLists, C!BackfillNext, C!ActivityMarks, C!Abandon, C!cadence
<1>2. ASSUME NEW w \in Worker, NEW l \in Lead,
             (\E s \in Status : C!Create(w, l, s) \/ C!Patch(w, l, s))
             \/ (\E s \in Step : C!Activity(w, l, s) \/ C!RepEnds(l, s))
      PROVE  UNCHANGED <<live, gone>>
  BY <1>2 DEF C!Create, C!Patch, C!Activity, C!RepEnds, C!cadence
<1>3. (\E l \in Lead, s \in Step : C!RepEnds(l, s)) => UNCHANGED <<live, gone>>
  BY DEF C!RepEnds, C!cadence
<1>4. C!Delete \/ UNCHANGED C!vars => UNCHANGED <<live, gone>>
  BY DEF C!Delete, C!vars, C!cadence
<1> QED
  BY <1>1, <1>2, <1>3, <1>4 DEF C!Next

LEMMA CadTypeInit == C!Init => CadType
<1> SUFFICES ASSUME C!Init PROVE CadType
  OBVIOUS
<1>1. job = [w \in Worker |-> C!Idle]
  BY DEF C!Init
<1>2. Shape(C!Idle)
  BY DEF C!Idle, Shape, HasLead, HasSteps
<1>3. job \in [Worker -> Job] /\ \A w \in Worker : Shape(job[w])
  BY <1>1, <1>2, IdleIsJob
<1> QED
  BY <1>3 DEF C!Init, CadType

LEMMA CadTypeNext == CadType /\ [C!Next]_(C!vars) => CadType'
<1> SUFFICES ASSUME CadType, [C!Next]_(C!vars) PROVE CadType'
  OBVIOUS
<1>1. job' \in [Worker -> Job] /\ \A w \in Worker : Shape(job'[w])
  BY ShapeNext
<1>2. status' \in [Lead -> Status \cup {None}]
  <2>1. ASSUME NEW w \in Worker, Commits(w) PROVE status' \in [Lead -> Status \cup {None}]
    BY <2>1 DEF Commits, CadType, Shape
  <2>2. ASSUME NEW w \in Worker, C!Write(w) PROVE status' \in [Lead -> Status \cup {None}]
    BY <2>2 DEF C!Write, C!At, CadType, Shape
  <2> QED
    BY <2>1, <2>2, StatusStep DEF CadType
<1>3. task' \in [Lead \X Step -> {"none", "pending", "completed", "skipped"}] /\ enrolled' \in [Lead -> Nat]
  <2>1. CASE TasksEnd
    BY <2>1 DEF TasksEnd, CadType
  <2>2. ASSUME NEW w \in Worker, Inserts(w)
        PROVE  /\ task' \in [Lead \X Step -> {"none", "pending", "completed", "skipped"}]
               /\ enrolled' \in [Lead -> Nat]
    <3>1. PICK l \in Lead : l = job[w].lead
      BY <2>2 DEF Inserts, CadType, Shape, HasLead
    <3>2. enrolled' = [enrolled EXCEPT ![l] = enrolled[l] + 1] /\ enrolled[l] + 1 \in Nat
      BY <2>2, <3>1 DEF Inserts, CadType
    <3>3. task' \in [Lead \X Step -> {"none", "pending", "completed", "skipped"}]
      BY <2>2 DEF Inserts, CadType
    <3> QED
      BY <3>2, <3>3 DEF CadType
  <2> QED
    BY <2>1, <2>2, TaskStep
<1>4. live' \subseteq Step /\ gone' \subseteq Step /\ live' \cap gone' = {}
  <2>1. CASE UNCHANGED <<live, gone>>
    BY <2>1 DEF CadType
  <2>2. ASSUME NEW w \in Worker, NEW on \in BOOLEAN, NEW S \in SUBSET Step, C!Save(w, on, S)
        PROVE  live' \subseteq Step /\ gone' \subseteq Step /\ live' \cap gone' = {}
    BY <2>2 DEF CadType, C!Save, C!Saved
  <2> QED
    BY <2>1, <2>2, StepsStay
<1> QED
  BY <1>1, <1>2, <1>3, <1>4 DEF CadType

(* A task that has ended stays as it ended, whoever else had picked it: a   *)
(* sweep, a rep and an activity write only what is still pending.           *)
THEOREM EndedStaysCorrect == C!Spec => C!EndedStays
<1>1. CadType /\ [C!Next]_(C!vars) =>
        [\A p \in Lead \X Step : task[p] \in {"completed", "skipped"} => task'[p] = task[p]]_(C!vars)
  <2> SUFFICES ASSUME CadType, [C!Next]_(C!vars), NEW p \in Lead \X Step, task[p] \in {"completed", "skipped"}
               PROVE  task'[p] = task[p]
    OBVIOUS
  <2>1. CASE TasksEnd
    BY <2>1 DEF TasksEnd
  <2>2. ASSUME NEW w \in Worker, Inserts(w) PROVE task'[p] = task[p]
    <3>1. p[1] = job[w].lead /\ p[2] \in job[w].steps => task[<<job[w].lead, p[2]>>] = "none"
      BY <2>2 DEF Inserts
    <3>2. p = <<p[1], p[2]>>
      OBVIOUS
    <3>3. ~(p[1] = job[w].lead /\ p[2] \in job[w].steps)
      BY <3>1, <3>2
    <3> QED
      BY <2>2, <3>3 DEF Inserts
  <2> QED
    BY <2>1, <2>2, TaskStep
<1> QED
  BY <1>1, CadTypeInit, CadTypeNext, PTL DEF C!Spec, C!EndedStays

-----------------------------------------------------------------------------
(* Cadence: who works on a lead.  A lead that does not exist yet is known   *)
(* to the one transaction that creates it, and has no tasks.                *)
CadWho ==
  /\ \A w \in Worker : job[w].lead \in Lead => (status[job[w].lead] = None <=> job[w].for = "create")
  /\ \A w \in Worker : \A p \in job[w].todo : status[p[1]] # None
  /\ \A v, w \in Worker : v # w /\ job[v].for = "create" => job[v].lead # job[w].lead
  /\ \A l \in Lead : status[l] = None => \A s \in Step : task[<<l, s>>] = "none"

SameLead(v) == job'[v].lead = job[v].lead /\ job'[v].for = job[v].for
NoLead(v) == job'[v].lead = None /\ job'[v].for # "create"
OldLead(v) == job'[v].lead \in Lead /\ job'[v].for # "create" /\ status[job'[v].lead] # None
NewLead(v) == /\ job'[v].lead \in Lead /\ job'[v].for = "create" /\ status[job'[v].lead] = None
              /\ \A u \in Worker : job[u].lead # job'[v].lead
              /\ \A u \in Worker \ {v} : job'[u] = job[u]
LeadKnown(v) ==
  /\ SameLead(v) \/ NoLead(v) \/ OldLead(v) \/ NewLead(v)
  /\ \A p \in job'[v].todo : p \in job[v].todo \/ status[p[1]] # None

LEMMA LeadStep ==
  ASSUME CadType, CadWho, [C!Next]_(C!vars)
  PROVE  \A v \in Worker : LeadKnown(v)
<1> USE CadenceAssumption DEF LeadKnown
<1>1. CASE job' = job
  BY <1>1 DEF SameLead
<1>2. ASSUME NEW w \in Worker, NEW at, NEW f, NEW l, NEW x, NEW S, NEW T, Into(w, at, f, l, x, S, T),
             LeadKnown(w)
      PROVE  \A v \in Worker : LeadKnown(v)
  BY <1>2 DEF Into, SameLead
<1>3. ASSUME NEW w \in Worker, Freed(w) PROVE \A v \in Worker : LeadKnown(v)
  BY <1>2, <1>3 DEF Freed, Into, NoLead
<1>4. ASSUME NEW w \in Worker, NEW label, On(w, label) PROVE \A v \in Worker : LeadKnown(v)
  BY <1>2, <1>4 DEF On, Into, SameLead
<1>5. ASSUME NEW w \in Worker, LeadLeft(w) PROVE \A v \in Worker : LeadKnown(v)
  BY <1>2, <1>3, <1>5 DEF LeadLeft, Into, NoLead
<1>6. ASSUME NEW w \in Worker, NEW label, NEW x, NEW S,
             Into(w, label, job[w].for, job[w].lead, x, S, job[w].todo)
      PROVE  \A v \in Worker : LeadKnown(v)
  BY <1>2, <1>6 DEF Into, SameLead
<1>7. ASSUME NEW w \in Worker, C!Write(w) \/ C!Hook(w) \/ C!Sweep(w) \/ C!Look(w)
      PROVE  \A v \in Worker : LeadKnown(v)
  BY <1>3, <1>4, <1>6, <1>7, HookSteps
<1>8. ASSUME NEW w \in Worker, C!Match(w) \/ C!ReadSteps(w) \/ C!Count(w) \/ C!Insert(w)
      PROVE  \A v \in Worker : LeadKnown(v)
  BY <1>3, <1>4, <1>5, <1>6, <1>8, EnrollSteps
<1>9. ASSUME NEW w \in Worker, C!BackfillReads(w) \/ C!BackfillLists(w) \/ C!BackfillNext(w)
      PROVE  \A v \in Worker : LeadKnown(v)
  <2>1. ASSUME NEW T \in SUBSET (Lead \X (Status \ C!Stopping)), \A p \in T : status[p[1]] = p[2],
               Into(w, "next", job[w].for, job[w].lead, job[w].read, job[w].steps, T)
        PROVE  \A v \in Worker : LeadKnown(v)
    <3>1. \A p \in T : status[p[1]] # None
      BY <2>1
    <3> QED
      BY <1>2, <2>1, <3>1 DEF Into, SameLead
  <2>2. ASSUME NEW p \in job[w].todo, C!BackfillNext(w),
               Into(w, "count", job[w].for, p[1], p[2], job[w].steps, job[w].todo \ {p})
        PROVE  \A v \in Worker : LeadKnown(v)
    <3>1. job[w].at = "next" /\ Shape(job[w]) /\ job[w] \in Job
      BY <2>2 DEF C!BackfillNext, C!At, CadType
    <3>2. job[w].for # "create"
      BY <3>1 DEF Shape
    <3>3. p[1] \in Lead /\ status[p[1]] # None
      BY <3>1 DEF Job, CadWho
    <3> QED
      BY <1>2, <2>2, <3>2, <3>3 DEF Into, OldLead
  <2> QED
    BY <1>3, <1>6, <1>9, <2>1, <2>2, BackfillSteps
<1>10. ASSUME NEW w \in Worker, C!ActivityMarks(w) \/ C!Abandon(w) PROVE \A v \in Worker : LeadKnown(v)
  BY <1>3, <1>10, OtherSteps
<1>11. ASSUME NEW w \in Worker, NEW l \in Lead, NEW s \in Status, C!Create(w, l, s)
       PROVE  \A v \in Worker : LeadKnown(v)
  <2>1. Into(w, "match", "create", l, s, {}, {})
    BY <1>11, OtherSteps
  <2>2. status[l] = None /\ \A u \in Worker : job[u].lead # l
    BY <1>11 DEF C!Create
  <2> QED
    BY <1>2, <2>1, <2>2 DEF Into, NewLead
<1>12. ASSUME NEW w \in Worker, NEW l \in Lead, NEW s \in Status, C!Patch(w, l, s)
       PROVE  \A v \in Worker : LeadKnown(v)
  <2>1. Into(w, "write", s, l, None, {}, {}) /\ s # "create"
    BY <1>12, OtherSteps
  <2>2. status[l] # None
    BY <1>12 DEF C!Patch
  <2> QED
    BY <1>2, <2>1, <2>2 DEF Into, OldLead
<1>13. ASSUME NEW w \in Worker, NEW l \in Lead, NEW s \in Step, C!Activity(w, l, s)
       PROVE  \A v \in Worker : LeadKnown(v)
  <2>1. Into(w, "mark", "activity", l, None, {s}, {})
    BY <1>13, OtherSteps
  <2>2. status[l] # None
    BY <1>13 DEF C!Activity
  <2> QED
    BY <1>2, <2>1, <2>2 DEF Into, OldLead
<1>14. ASSUME NEW w \in Worker, NEW on \in BOOLEAN, NEW S \in SUBSET Step, C!Save(w, on, S)
       PROVE  \A v \in Worker : LeadKnown(v)
  <2>1. CASE Into(w, "saved", "backfill", None, None, {}, {})
    BY <1>2, <2>1 DEF Into, NoLead
  <2> QED
    BY <1>1, <1>14, <2>1, OtherSteps
<1>15. C!Delete \/ UNCHANGED C!vars \/ (\E l \in Lead, s \in Step : C!RepEnds(l, s)) => job' = job
  BY DEF C!Delete, C!vars, C!RepEnds
<1> HIDE DEF LeadKnown
<1> QED
  BY <1>1, <1>7, <1>8, <1>9, <1>10, <1>11, <1>12, <1>13, <1>14, <1>15 DEF C!Next

LEMMA CadWhoNext ==
  ASSUME CadType, CadType', CadWho, [C!Next]_(C!vars)
  PROVE  CadWho'
<1> USE CadenceAssumption
<1>1. \A v \in Worker : LeadKnown(v)
  BY LeadStep
<1>2. ASSUME NEW w \in Worker, Commits(w)
      PROVE  /\ job[w].lead \in Lead /\ job[w].for = "create" /\ status[job[w].lead] = None
             /\ status'[job[w].lead] # None
             /\ \A l \in Lead : l # job[w].lead => status'[l] = status[l]
             /\ \A v \in Worker \ {w} : job'[v] = job[v] /\ job[v].lead # job[w].lead
             /\ job'[w].lead = None
  <2>1. job[w].lead \in Lead /\ job[w].read \in Status /\ job[w].for = "create"
    BY <1>2 DEF Commits, CadType, Shape, HasLead
  <2>2. /\ status'[job[w].lead] = job[w].read
        /\ \A l \in Lead : l # job[w].lead => status'[l] = status[l]
    BY <1>2, <2>1 DEF Commits, CadType
  <2>3. job'[w].lead = None /\ \A v \in Worker \ {w} : job'[v] = job[v]
    BY <1>2 DEF Commits, Freed, Into
  <2> QED
    BY <2>1, <2>2, <2>3 DEF CadWho
<1>3. ASSUME NEW w \in Worker, C!Write(w), NEW l \in Lead PROVE status[l] = None <=> status'[l] = None
  <2>1. job[w].lead \in Lead /\ job[w].for \in Status /\ job[w].for # "create"
    BY <1>3 DEF C!Write, C!At, CadType, Shape, HasLead
  <2>2. status[job[w].lead] # None
    BY <2>1 DEF CadWho
  <2>3. status' = [status EXCEPT ![job[w].lead] = job[w].for]
    BY <1>3 DEF C!Write
  <2> QED
    BY <2>1, <2>2, <2>3 DEF CadType
<1>4. \A l \in Lead : status[l] # None => status'[l] # None
  BY <1>2, <1>3, StatusStep
<1>5. ASSUME NEW l \in Lead, status[l] = None, status'[l] # None
      PROVE  \E w \in Worker : Commits(w) /\ job[w].lead = l
  BY <1>2, <1>3, <1>5, StatusStep
<1>6. ASSUME NEW v \in Worker, job'[v].lead \in Lead
      PROVE  status'[job'[v].lead] = None <=> job'[v].for = "create"
  <2>1. CASE \E w \in Worker : Commits(w) /\ job[w].lead = job'[v].lead
    BY <1>2, <1>6, <2>1
  <2>2. CASE ~ \E w \in Worker : Commits(w) /\ job[w].lead = job'[v].lead
    <3>1. status'[job'[v].lead] = None <=> status[job'[v].lead] = None
      BY <1>4, <1>5, <1>6, <2>2
    <3> QED
      BY <1>1, <1>6, <3>1 DEF LeadKnown, SameLead, NoLead, OldLead, NewLead, CadWho
  <2> QED
    BY <2>1, <2>2
<1>7. ASSUME NEW v \in Worker, NEW p \in job'[v].todo PROVE status'[p[1]] # None
  <2>1. p[1] \in Lead /\ status[p[1]] # None
    BY <1>1, <1>7 DEF LeadKnown, CadWho, CadType, Job
  <2> QED
    BY <1>4, <2>1
<1>8. ASSUME NEW v \in Worker, NEW w \in Worker, v # w, job'[v].for = "create"
      PROVE  job'[v].lead # job'[w].lead
  <2>1. job'[v].lead \in Lead
    BY <1>8 DEF CadType, Shape, HasLead
  <2>2. CASE SameLead(v)
    <3>1. job[v].for = "create" /\ status[job'[v].lead] = None /\ job[v].lead # job[w].lead
      BY <1>8, <2>1, <2>2 DEF SameLead, CadWho
    <3> QED
      BY <1>1, <2>1, <2>2, <3>1 DEF LeadKnown, SameLead, NoLead, OldLead, NewLead
  <2>3. CASE NewLead(v)
    BY <1>8, <2>3 DEF NewLead
  <2> QED
    BY <1>1, <1>8, <2>2, <2>3 DEF LeadKnown, NoLead, OldLead
<1>9. ASSUME NEW l \in Lead, status'[l] = None, NEW s \in Step PROVE task'[<<l, s>>] = "none"
  <2>1. status[l] = None /\ task[<<l, s>>] = "none"
    BY <1>4, <1>9 DEF CadWho
  <2>2. CASE TasksEnd
    BY <2>1, <2>2 DEF TasksEnd
  <2>3. ASSUME NEW w \in Worker, Inserts(w) PROVE task'[<<l, s>>] = "none"
    <3>1. job[w].lead \in Lead
      BY <2>3 DEF Inserts, CadType, Shape, HasLead
    <3>2. CASE job[w].lead # l
      BY <2>1, <2>3, <3>2 DEF Inserts
    <3>3. CASE job[w].lead = l
      <4>1. job[w].for = "create"
        BY <2>1, <3>3 DEF CadWho
      <4>2. status'[l] = job[w].read /\ job[w].read \in Status
        BY <2>3, <3>1, <3>3, <4>1 DEF Inserts, C!LeadDone, CadType, Shape
      <4> QED
        BY <1>9, <4>2
    <3> QED
      BY <3>2, <3>3
  <2> QED
    BY <2>2, <2>3, TaskStep
<1> QED
  BY <1>6, <1>7, <1>8, <1>9 DEF CadWho

-----------------------------------------------------------------------------
(* Cadence: what an enrollment has read of the steps.                       *)

HoldsSteps(w) == job[w].at \in HasSteps
Disjoint(S, T) == \A s \in S : s \notin T

(* All that was read are steps the cadence has or had.  Two that both read  *)
(* no step since archived read the same cadence at two times, and it only   *)
(* grew in between.                                                         *)
CadRead ==
  /\ \A w \in Worker : HoldsSteps(w) => \A s \in job[w].steps : s \in live \/ s \in gone
  /\ \A v, w \in Worker :
       /\ HoldsSteps(v) /\ HoldsSteps(w)
       /\ Disjoint(job[v].steps, gone) /\ Disjoint(job[w].steps, gone)
       => job[v].steps \subseteq job[w].steps \/ job[w].steps \subseteq job[v].steps

KeepsSteps(v) == HoldsSteps(v) /\ job'[v].steps = job[v].steps
ReadsSteps(v) ==
  /\ job'[v].steps = live /\ UNCHANGED <<live, gone>>
  /\ \A u \in Worker \ {v} : job'[u] = job[u]
StepsKnown(v) == HoldsSteps(v)' => KeepsSteps(v) \/ ReadsSteps(v)

(* To the point of inserting, a job comes by counting no tasks.             *)
AtInsert(v) ==
  job'[v].at = "insert" =>
    \/ job'[v] = job[v]
    \/ /\ job'[v].lead \in Lead /\ UNCHANGED task
       /\ \A s \in Step : task[<<job'[v].lead, s>>] = "none"

LEMMA ReadStep ==
  ASSUME CadType, [C!Next]_(C!vars)
  PROVE  \A v \in Worker : StepsKnown(v) /\ AtInsert(v)
<1> USE DEF AtInsert, HoldsSteps, HasSteps
<1> DEFINE Goal == \A v \in Worker : StepsKnown(v) /\ AtInsert(v)
<1>1. ASSUME job' = job PROVE Goal
  BY <1>1 DEF StepsKnown, KeepsSteps
<1>2. ASSUME NEW w \in Worker, NEW at, NEW f, NEW l, NEW x, NEW S, NEW T, Into(w, at, f, l, x, S, T),
             at # "insert",
             at \in HasSteps => (S = live /\ UNCHANGED <<live, gone>>) \/ (HoldsSteps(w) /\ S = job[w].steps)
      PROVE  Goal
  BY <1>2 DEF Into, StepsKnown, KeepsSteps, ReadsSteps
<1> HIDE DEF Goal
<1>3. ASSUME NEW w \in Worker, Freed(w) PROVE Goal
  BY <1>2, <1>3 DEF Freed
<1>4. ASSUME NEW w \in Worker, NEW label \in {"hook", "sweep", "stop", "look", "steps"}, On(w, label) PROVE Goal
  BY <1>2, <1>4 DEF On
<1>5. ASSUME NEW w \in Worker, HoldsSteps(w), LeadLeft(w) PROVE Goal
  BY <1>2, <1>3, <1>5 DEF LeadLeft
<1>6. ASSUME NEW w \in Worker, C!Write(w) \/ C!Hook(w) \/ C!Sweep(w) \/ C!Look(w) PROVE Goal
  <2>1. ASSUME NEW x, Into(w, "match", job[w].for, job[w].lead, x, job[w].steps, job[w].todo) PROVE Goal
    BY <1>2, <2>1
  <2> QED
    BY <1>3, <1>4, <1>6, <2>1, HookSteps
<1>7. ASSUME NEW w \in Worker, C!Match(w) PROVE Goal
  BY <1>3, <1>4, <1>7, EnrollSteps
<1>8. ASSUME NEW w \in Worker, C!ReadSteps(w) PROVE Goal
  <2>1. UNCHANGED <<live, gone>>
    BY <1>8 DEF C!ReadSteps, C!cadence
  <2>2. CASE Into(w, "count", job[w].for, job[w].lead, job[w].read, live, job[w].todo)
    BY <1>2, <2>1, <2>2
  <2> QED
    BY <1>3, <1>8, <2>2, EnrollSteps
<1>9. ASSUME NEW w \in Worker, C!Count(w) PROVE Goal
  <2>1. HoldsSteps(w) /\ UNCHANGED task /\ job[w].lead \in Lead
    BY <1>9 DEF C!Count, C!At, CadType, Shape, HasLead
  <2>2. CASE \E s \in Step : task[<<job[w].lead, s>>] # "none"
    <3>1. LeadLeft(w)
      BY <1>9, <2>2, LeadDoneMoves DEF C!Count, LeadLeft
    <3> QED
      BY <1>5, <2>1, <3>1
  <2>3. CASE ~ \E s \in Step : task[<<job[w].lead, s>>] # "none"
    <3>1. On(w, "insert")
      BY <1>9, <2>3, GotoMoves DEF C!Count, Label
    <3>2. StepsKnown(w) /\ AtInsert(w)
      BY <2>1, <2>3, <3>1 DEF On, Into, StepsKnown, KeepsSteps
    <3>3. \A v \in Worker \ {w} : StepsKnown(v) /\ AtInsert(v)
      BY <3>1 DEF On, Into, StepsKnown, KeepsSteps
    <3> QED
      BY <3>2, <3>3 DEF Goal
  <2> QED
    BY <2>2, <2>3
<1>10. ASSUME NEW w \in Worker, C!Insert(w) PROVE Goal
  <2>1. HoldsSteps(w)
    BY <1>10 DEF C!Insert, C!At
  <2> QED
    BY <1>5, <1>10, <2>1, EnrollSteps
<1>11. ASSUME NEW w \in Worker, C!BackfillReads(w) PROVE Goal
  <2>1. UNCHANGED <<live, gone>>
    BY <1>11 DEF C!BackfillReads, C!cadence
  <2>2. CASE Into(w, "leads", job[w].for, job[w].lead, job[w].read, live, job[w].todo)
    BY <1>2, <2>1, <2>2
  <2> QED
    BY <1>3, <1>11, <2>2, BackfillSteps
<1>12. ASSUME NEW w \in Worker, C!BackfillLists(w) \/ C!BackfillNext(w) PROVE Goal
  <2>1. HoldsSteps(w)
    BY <1>12 DEF C!BackfillLists, C!BackfillNext, C!At
  <2>2. ASSUME NEW T, Into(w, "next", job[w].for, job[w].lead, job[w].read, job[w].steps, T) PROVE Goal
    BY <1>2, <2>1, <2>2
  <2>3. ASSUME NEW p, Into(w, "count", job[w].for, p[1], p[2], job[w].steps, job[w].todo \ {p}) PROVE Goal
    BY <1>2, <2>1, <2>3
  <2> QED
    BY <1>3, <1>12, <2>2, <2>3, BackfillSteps
<1>13. ASSUME NEW w \in Worker, C!ActivityMarks(w) \/ C!Abandon(w) PROVE Goal
  BY <1>3, <1>13, OtherSteps
<1>14. ASSUME NEW w \in Worker, NEW l \in Lead, NEW s \in Status, C!Create(w, l, s) \/ C!Patch(w, l, s)
       PROVE  Goal
  <2>1. CASE Into(w, "match", "create", l, s, {}, {})
    BY <1>2, <2>1
  <2>2. CASE Into(w, "write", s, l, None, {}, {})
    BY <1>2, <2>2
  <2> QED
    BY <1>14, <2>1, <2>2, OtherSteps
<1>15. ASSUME NEW w \in Worker, NEW l \in Lead, NEW s \in Step, C!Activity(w, l, s) PROVE Goal
  <2>1. Into(w, "mark", "activity", l, None, {s}, {})
    BY <1>15, OtherSteps
  <2> QED
    BY <1>2, <2>1
<1>16. ASSUME NEW w \in Worker, NEW on \in BOOLEAN, NEW S \in SUBSET Step, C!Save(w, on, S) PROVE Goal
  <2>1. CASE Into(w, "saved", "backfill", None, None, {}, {})
    BY <1>2, <2>1
  <2> QED
    BY <1>1, <1>16, <2>1, OtherSteps
<1>17. C!Delete \/ UNCHANGED C!vars \/ (\E l \in Lead, s \in Step : C!RepEnds(l, s)) => job' = job
  BY DEF C!Delete, C!vars, C!RepEnds
<1>18. Goal
  BY <1>1, <1>6, <1>7, <1>8, <1>9, <1>10, <1>11, <1>12, <1>13, <1>14, <1>15, <1>16, <1>17 DEF C!Next
<1> QED
  BY <1>18 DEF Goal

LEMMA StepsGrow ==
  ASSUME CadType, [C!Next]_(C!vars)
  PROVE  /\ \A s \in gone : s \in gone'
         /\ \A s \in live : s \in live' \/ s \in gone'
<1>1. ASSUME NEW w \in Worker, NEW on \in BOOLEAN, NEW S \in SUBSET Step, C!Save(w, on, S)
      PROVE  /\ \A s \in gone : s \in gone'
             /\ \A s \in live : s \in live' \/ s \in gone'
  BY <1>1 DEF C!Save, C!Saved
<1> QED
  BY <1>1, StepsStay

LEMMA CadReadNext ==
  ASSUME CadType, CadRead, [C!Next]_(C!vars)
  PROVE  CadRead'
<1>1. \A v \in Worker : StepsKnown(v)
  BY ReadStep
<1>2. /\ \A s \in gone : s \in gone'
      /\ \A s \in live : s \in live' \/ s \in gone'
  BY StepsGrow
<1>3. ASSUME NEW v \in Worker, HoldsSteps(v)', NEW s \in job'[v].steps PROVE s \in live' \/ s \in gone'
  BY <1>1, <1>2, <1>3 DEF StepsKnown, KeepsSteps, ReadsSteps, CadRead
<1>4. ASSUME NEW v \in Worker, NEW w \in Worker, HoldsSteps(v)', HoldsSteps(w)',
             Disjoint(job'[v].steps, gone'), Disjoint(job'[w].steps, gone')
      PROVE  job'[v].steps \subseteq job'[w].steps \/ job'[w].steps \subseteq job'[v].steps
  <2>1. Disjoint(job'[v].steps, gone) /\ Disjoint(job'[w].steps, gone)
    BY <1>2, <1>4 DEF Disjoint
  <2>2. CASE KeepsSteps(v) /\ KeepsSteps(w)
    BY <2>1, <2>2 DEF KeepsSteps, CadRead
  <2>3. ASSUME NEW x \in Worker, NEW y \in Worker, ReadsSteps(x), x # y, HoldsSteps(y)',
               Disjoint(job'[y].steps, gone)
        PROVE  job'[y].steps \subseteq job'[x].steps
    <3>1. HoldsSteps(y) /\ job'[y].steps = job[y].steps /\ job'[x].steps = live
      BY <2>3 DEF ReadsSteps, HoldsSteps
    <3> QED
      BY <2>3, <3>1 DEF Disjoint, CadRead
  <2> QED
    BY <1>1, <1>4, <2>1, <2>2, <2>3 DEF StepsKnown
<1> QED
  BY <1>3, <1>4 DEF CadRead

(* One enrollment finds another: it counted no tasks, or those there are    *)
(* are on steps it read itself, or it read a step since archived, or the    *)
(* other one had.                                                           *)
CadOnce ==
  /\ \A w \in Worker : job[w].at = "insert" =>
       \/ \A s \in Step : task[<<job[w].lead, s>>] = "none"
       \/ \E s \in job[w].steps : task[<<job[w].lead, s>>] # "none"
       \/ ~Disjoint(job[w].steps, gone)
       \/ \E s \in Step : <<job[w].lead, s>> \in stale
  /\ \A l \in Lead : enrolled[l] > 0 => \E s \in Step : task[<<l, s>>] # "none"
  /\ C!EnrolledOnce

LEMMA CadOnceNext ==
  ASSUME CadType, CadRead, CadOnce, [C!Next]_(C!vars)
  PROVE  CadOnce'
<1> DEFINE E(w) ==
      \/ \A s \in Step : task[<<job[w].lead, s>>] = "none"
      \/ \E s \in job[w].steps : task[<<job[w].lead, s>>] # "none"
      \/ ~Disjoint(job[w].steps, gone)
      \/ \E s \in Step : <<job[w].lead, s>> \in stale
<1>1. \A v \in Worker : AtInsert(v)
  BY ReadStep
<1>2. \A s \in gone : s \in gone'
  BY StepsGrow
<1>3. \A w \in Worker : job[w].at = "insert" =>
        job[w].lead \in Lead /\ job[w].steps \subseteq Step /\ job[w].steps # {} /\ E(w)
  BY DEF CadType, Shape, HasLead, HasSteps, Job, CadOnce
<1>4. ASSUME NEW w \in Worker, Inserts(w)
      PROVE  /\ job[w].at = "insert" /\ job'[w].at # "insert"
             /\ \A s \in job[w].steps : task'[<<job[w].lead, s>>] = "pending"
             /\ \A s \in job[w].steps : s \notin live => <<job[w].lead, s>> \in stale'
             /\ \A l \in Lead, s \in Step : l # job[w].lead => task'[<<l, s>>] = task[<<l, s>>]
             /\ stale \subseteq stale' /\ gone' = gone
             /\ \A l \in Lead : l # job[w].lead => enrolled'[l] = enrolled[l]
             /\ enrolled'[job[w].lead] = enrolled[job[w].lead] + 1
  <2>1. job[w].at = "insert" /\ job[w].lead \in Lead /\ job[w].steps \subseteq Step
    BY <1>3, <1>4 DEF Inserts
  <2>2. job'[w].at # "insert"
    <3>1. LeadLeft(w)
      BY <1>4, LeadDoneMoves DEF Inserts, LeadLeft
    <3> QED
      BY <3>1 DEF LeadLeft, Freed, Into
  <2>3. /\ \A s \in job[w].steps : task'[<<job[w].lead, s>>] = "pending"
        /\ \A l \in Lead, s \in Step : l # job[w].lead => task'[<<l, s>>] = task[<<l, s>>]
    BY <1>4, <2>1 DEF Inserts
  <2>4. /\ \A s \in job[w].steps : s \notin live => <<job[w].lead, s>> \in stale'
        /\ stale \subseteq stale' /\ gone' = gone
    BY <1>4, <2>1 DEF Inserts
  <2>5. /\ \A l \in Lead : l # job[w].lead => enrolled'[l] = enrolled[l]
        /\ enrolled'[job[w].lead] = enrolled[job[w].lead] + 1
    BY <1>4, <2>1 DEF Inserts, CadType
  <2> QED
    BY <2>1, <2>2, <2>3, <2>4, <2>5
<1>5. ASSUME TasksEnd
      PROVE  /\ \A l \in Lead, s \in Step : task'[<<l, s>>] = "none" <=> task[<<l, s>>] = "none"
             /\ stale' = stale /\ enrolled' = enrolled
  BY <1>5 DEF TasksEnd
<1>6. ASSUME NEW v \in Worker, job'[v].at = "insert" PROVE E(v)'
  <2>1. CASE /\ job'[v].lead \in Lead /\ UNCHANGED task
             /\ \A s \in Step : task[<<job'[v].lead, s>>] = "none"
    BY <2>1
  <2>2. CASE job'[v] = job[v]
    <3>1. job[v].at = "insert" /\ job[v].lead \in Lead /\ job[v].steps \subseteq Step /\ job[v].steps # {} /\ E(v)
      BY <1>3, <1>6, <2>2
    <3>2. CASE TasksEnd
      BY <1>2, <1>5, <2>2, <3>1, <3>2 DEF Disjoint
    <3>3. ASSUME NEW w \in Worker, Inserts(w) PROVE E(v)'
      <4>1. CASE job[w].lead # job[v].lead
        BY <1>4, <2>2, <3>1, <3>3, <4>1
      <4>2. CASE job[w].lead = job[v].lead
        <5>1. job[w].at = "insert" /\ job[w].steps # {} /\ job[w].steps \subseteq Step
          BY <1>3, <1>4, <3>3
        <5>2. CASE ~Disjoint(job[w].steps, gone)
          <6>1. PICK s \in job[w].steps : s \in gone
            BY <5>2 DEF Disjoint
          <6>2. s \notin live /\ s \in Step
            BY <5>1, <6>1 DEF CadType
          <6>3. <<job[w].lead, s>> \in stale'
            BY <1>4, <3>3, <6>2
          <6> QED
            BY <2>2, <4>2, <6>2, <6>3
        <5>3. CASE ~Disjoint(job[v].steps, gone)
          BY <1>2, <2>2, <5>3 DEF Disjoint
        <5>4. CASE Disjoint(job[v].steps, gone) /\ Disjoint(job[w].steps, gone)
          <6>1. job[v].steps \subseteq job[w].steps \/ job[w].steps \subseteq job[v].steps
            BY <3>1, <5>1, <5>4 DEF CadRead, HoldsSteps, HasSteps
          <6>2. PICK s : s \in job[v].steps /\ s \in job[w].steps
            BY <3>1, <5>1, <6>1
          <6>3. task'[<<job[v].lead, s>>] = "pending"
            BY <1>4, <3>3, <4>2, <6>2
          <6> QED
            BY <2>2, <6>2, <6>3
        <5> QED
          BY <5>2, <5>3, <5>4
      <4> QED
        BY <4>1, <4>2
    <3> QED
      BY <3>2, <3>3, TaskStep
  <2> QED
    BY <1>1, <1>6, <2>1, <2>2 DEF AtInsert
<1>7. ASSUME NEW l \in Lead, enrolled'[l] > 0 PROVE \E s \in Step : task'[<<l, s>>] # "none"
  <2>1. CASE TasksEnd
    BY <1>5, <1>7, <2>1 DEF CadOnce
  <2>2. ASSUME NEW w \in Worker, Inserts(w) PROVE \E s \in Step : task'[<<l, s>>] # "none"
    <3>1. CASE l # job[w].lead
      BY <1>4, <1>7, <2>2, <3>1 DEF CadOnce
    <3>2. CASE l = job[w].lead
      <4>1. PICK s \in job[w].steps : s \in Step
        BY <1>3, <1>4, <2>2
      <4>2. task'[<<l, s>>] = "pending"
        BY <1>4, <2>2, <3>2
      <4> QED
        BY <4>1, <4>2
    <3> QED
      BY <3>1, <3>2
  <2> QED
    BY <2>1, <2>2, TaskStep
<1>8. ASSUME NEW l \in Lead, enrolled'[l] > 1 PROVE \E s \in Step : <<l, s>> \in stale'
  <2>1. CASE TasksEnd
    BY <1>5, <1>8, <2>1 DEF CadOnce, C!EnrolledOnce
  <2>2. ASSUME NEW w \in Worker, Inserts(w) PROVE \E s \in Step : <<l, s>> \in stale'
    <3>1. CASE l # job[w].lead
      BY <1>4, <1>8, <2>2, <3>1 DEF CadOnce, C!EnrolledOnce
    <3>2. CASE l = job[w].lead
      <4>1. enrolled[l] > 0
        BY <1>4, <1>8, <2>2, <3>2 DEF CadType
      <4>2. \E s \in Step : task[<<l, s>>] # "none"
        BY <4>1 DEF CadOnce
      <4>3. E(w) /\ job[w].steps \subseteq Step
        BY <1>3, <1>4, <2>2
      <4>4. \A s \in job[w].steps : task[<<job[w].lead, s>>] = "none"
        BY <2>2 DEF Inserts
      <4>5. CASE ~Disjoint(job[w].steps, gone)
        <5>1. PICK s \in job[w].steps : s \in gone
          BY <4>5 DEF Disjoint
        <5>2. s \notin live
          BY <5>1 DEF CadType
        <5> QED
          BY <1>4, <2>2, <3>2, <4>3, <5>1, <5>2
      <4>6. CASE \E s \in Step : <<job[w].lead, s>> \in stale
        BY <1>4, <2>2, <3>2, <4>6
      <4> QED
        BY <3>2, <4>2, <4>3, <4>4, <4>5, <4>6
    <3> QED
      BY <3>1, <3>2
  <2> QED
    BY <2>1, <2>2, TaskStep
<1> QED
  BY <1>6, <1>7, <1>8 DEF CadOnce, C!EnrolledOnce

-----------------------------------------------------------------------------
(* Cadence: the tasks that are left.                                        *)

LEMMA ArchivedNext ==
  ASSUME CadType, C!ArchivedHasNoTask, [C!Next]_(C!vars)
  PROVE  C!ArchivedHasNoTask'
<1> SUFFICES ASSUME NEW p \in Lead \X Step, task'[p] = "pending", p[2] \in gone'
             PROVE  p \in stale'
  BY DEF C!ArchivedHasNoTask
<1>1. ASSUME UNCHANGED <<live, gone>> PROVE p \in stale'
  <2>1. CASE TasksEnd
    BY <1>1, <2>1 DEF TasksEnd, C!ArchivedHasNoTask
  <2>2. ASSUME NEW w \in Worker, Inserts(w) PROVE p \in stale'
    <3>1. CASE p[1] = job[w].lead /\ p[2] \in job[w].steps
      <4>1. p \in {job[w].lead} \X job[w].steps /\ p[2] \notin live
        BY <1>1, <3>1 DEF CadType
      <4> QED
        BY <2>2, <4>1 DEF Inserts
    <3>2. CASE ~(p[1] = job[w].lead /\ p[2] \in job[w].steps)
      BY <1>1, <2>2, <3>2 DEF Inserts, C!ArchivedHasNoTask
    <3> QED
      BY <3>1, <3>2
  <2> QED
    BY <2>1, <2>2, TaskStep
<1>2. ASSUME NEW w \in Worker, NEW on \in BOOLEAN, NEW S \in SUBSET Step, C!Save(w, on, S)
      PROVE  p \in stale'
  BY <1>2 DEF C!Save, C!Saved, C!Skip, C!ArchivedHasNoTask
<1> QED
  BY <1>1, <1>2, StepsStay

(* A hook is on its way that will end the tasks of the lead, or say that it *)
(* does not.                                                                *)
Ending(w, l) ==
  /\ job[w].lead = l
  /\ job[w].at \in {"sweep", "stop"} \/ (job[w].at = "hook" /\ job[w].for \in C!Stopping)

CadStopped ==
  \A p \in Lead \X Step :
    task[p] = "pending" /\ status[p[1]] \in C!Stopping =>
      p \in stale \/ p[1] \in unswept \/ \E w \in Worker : Ending(w, p[1])

(* A step that is none of a hook's and no write of a status.                *)
LEMMA StoppedElsewhere ==
  ASSUME CadType, CadWho, CadStopped, [C!Next]_(C!vars), UNCHANGED unswept,
         ~ \E w \in Worker : C!Write(w),
         \A w \in Worker : job[w].at \in {"hook", "sweep", "stop"} => job'[w] = job[w]
  PROVE  CadStopped'
<1> SUFFICES ASSUME NEW p \in Lead \X Step, task'[p] = "pending", status'[p[1]] \in C!Stopping
             PROVE  p \in stale' \/ p[1] \in unswept' \/ \E w \in Worker : Ending(w, p[1])'
  BY DEF CadStopped
<1> USE CadenceAssumption
<1>1. p[1] \in Lead /\ p[2] \in Step /\ p = <<p[1], p[2]>>
  OBVIOUS
<1>2. \A w \in Worker : \A l : Ending(w, l) => Ending(w, l)'
  BY DEF Ending
<1>3. ASSUME status'[p[1]] = status[p[1]], task[p] = "pending", stale \subseteq stale'
      PROVE  p \in stale' \/ p[1] \in unswept' \/ \E w \in Worker : Ending(w, p[1])'
  BY <1>2, <1>3 DEF CadStopped
<1>4. ASSUME NEW w \in Worker, Inserts(w), p[1] = job[w].lead, p[2] \in job[w].steps
      PROVE  p \in stale'
  <2>1. job[w].lead \in Lead /\ job[w].read \notin C!Stopping
    BY <1>4 DEF Inserts, CadType, Shape, HasLead
  <2>2. CASE job[w].for = "create"
    <3>1. status'[p[1]] = job[w].read
      BY <1>1, <1>4, <2>2 DEF Inserts, C!LeadDone, CadType
    <3> QED
      BY <2>1, <3>1
  <2>3. CASE job[w].for # "create"
    <3>1. status' = status
      BY <1>4, <2>3 DEF Inserts, C!LeadDone
    <3>2. status[job[w].lead] # job[w].read
      BY <1>4, <2>1, <3>1
    <3>3. p \in {job[w].lead} \X job[w].steps
      BY <1>1, <1>4
    <3> QED
      BY <1>4, <2>3, <3>2, <3>3 DEF Inserts
  <2> QED
    BY <2>2, <2>3
<1>5. CASE \E w \in Worker : Commits(w) /\ job[w].lead = p[1]
  <2>1. PICK w \in Worker : Commits(w) /\ job[w].lead = p[1]
    BY <1>5
  <2>2. job[w].for = "create" /\ task[p] = "none"
    BY <1>1, <2>1 DEF Commits, CadWho
  <2>3. CASE TasksEnd
    BY <2>2, <2>3 DEF TasksEnd
  <2>4. ASSUME NEW u \in Worker, Inserts(u) PROVE p \in stale'
    BY <1>4, <2>2, <2>4 DEF Inserts
  <2> QED
    BY <2>3, <2>4, TaskStep
<1>6. CASE ~ \E w \in Worker : Commits(w) /\ job[w].lead = p[1]
  <2>1. status'[p[1]] = status[p[1]]
    <3>1. ASSUME NEW w \in Worker, Commits(w) PROVE status'[p[1]] = status[p[1]]
      BY <1>1, <1>6, <3>1 DEF Commits, CadType
    <3> QED
      BY <3>1, StatusStep
  <2>2. CASE TasksEnd
    BY <1>3, <2>1, <2>2 DEF TasksEnd
  <2>3. ASSUME NEW u \in Worker, Inserts(u)
        PROVE  p \in stale' \/ p[1] \in unswept' \/ \E w \in Worker : Ending(w, p[1])'
    <3>1. CASE p[1] = job[u].lead /\ p[2] \in job[u].steps
      BY <1>4, <2>3, <3>1
    <3>2. CASE ~(p[1] = job[u].lead /\ p[2] \in job[u].steps)
      <4>1. task[p] = "pending" /\ stale \subseteq stale'
        BY <2>3, <3>2 DEF Inserts
      <4> QED
        BY <1>3, <2>1, <4>1
    <3> QED
      BY <3>1, <3>2
  <2> QED
    BY <2>2, <2>3, TaskStep
<1> QED
  BY <1>5, <1>6

(* The write of a status, its hook and its sweep, and a job that is given   *)
(* up.                                                                      *)
LEMMA StoppedHook ==
  ASSUME CadType, CadStopped, NEW w \in Worker,
         C!Write(w) \/ C!Hook(w) \/ C!Sweep(w) \/ C!Abandon(w)
  PROVE  CadStopped'
<1> SUFFICES ASSUME NEW p \in Lead \X Step, task'[p] = "pending", status'[p[1]] \in C!Stopping
             PROVE  p \in stale' \/ p[1] \in unswept' \/ \E v \in Worker : Ending(v, p[1])'
  BY DEF CadStopped
<1>1. p[1] \in Lead /\ p[2] \in Step
  OBVIOUS
<1>2. ASSUME task[p] = "pending", status[p[1]] \in C!Stopping, stale' = stale,
             p[1] \in unswept => p[1] \in unswept',
             \A v \in Worker \ {w} : job'[v] = job[v],
             Ending(w, p[1]) => p[1] \in unswept' \/ Ending(w, p[1])'
      PROVE  p \in stale' \/ p[1] \in unswept' \/ \E v \in Worker : Ending(v, p[1])'
  BY <1>2 DEF CadStopped, Ending
<1>3. CASE C!Write(w)
  <2>1. /\ job[w].at = "write" /\ job[w].lead \in Lead /\ task' = task /\ stale' = stale
        /\ status' = [status EXCEPT ![job[w].lead] = job[w].for]
    BY <1>3 DEF C!Write, C!At, CadType, Shape, HasLead
  <2>2. \A v \in Worker \ {w} : job'[v] = job[v]
    BY <1>3, HookSteps DEF Freed, On, Into
  <2>3. ~Ending(w, p[1])
    BY <2>1 DEF Ending
  <2>4. CASE p[1] # job[w].lead
    <3>1. status'[p[1]] = status[p[1]] /\ (p[1] \in unswept => p[1] \in unswept')
      BY <1>1, <1>3, <2>1, <2>4 DEF CadType, C!Write
    <3> QED
      BY <1>2, <2>1, <2>2, <2>3, <3>1
  <2>5. CASE p[1] = job[w].lead /\ job[w].was = job[w].for
    <3>1. status'[p[1]] = job[w].for
      BY <2>1, <2>5 DEF CadType
    <3>2. CASE status[p[1]] = job[w].for
      <4>1. unswept' = unswept
        BY <1>3, <2>5, <3>2 DEF C!Write
      <4> QED
        BY <1>2, <2>1, <2>2, <2>3, <3>1, <3>2, <4>1
    <3>3. CASE status[p[1]] # job[w].for
      BY <1>3, <2>5, <3>3 DEF C!Write
    <3> QED
      BY <3>2, <3>3
  <2>6. CASE p[1] = job[w].lead /\ job[w].was # job[w].for
    <3>1. status'[p[1]] = job[w].for
      BY <2>1, <2>6 DEF CadType
    <3>2. On(w, "hook")
      BY <1>3, <2>6, HookSteps
    <3>3. Ending(w, p[1])'
      BY <2>6, <3>1, <3>2 DEF On, Into, Ending
    <3> QED
      BY <3>3
  <2> QED
    BY <2>4, <2>5, <2>6
<1>4. CASE C!Hook(w)
  <2> DEFINE label == IF job[w].for \in Terminal THEN "sweep"
                      ELSE IF job[w].for \in Stops /\ active /\ ~deleted THEN "stop" ELSE "look"
  <2>1. job[w].at = "hook" /\ task' = task /\ stale' = stale /\ status' = status
    BY <1>4 DEF C!Hook, C!At
  <2>2. On(w, label)
    BY <1>4, HookSteps
  <2>3. unswept' = IF job[w].for \in Stops \ Terminal /\ (~active \/ deleted)
                   THEN unswept \cup {job[w].lead} ELSE unswept
    BY <1>4 DEF C!Hook
  <2>4. Ending(w, p[1]) => p[1] \in unswept' \/ Ending(w, p[1])'
    <3> SUFFICES ASSUME Ending(w, p[1]) PROVE p[1] \in unswept' \/ Ending(w, p[1])'
      OBVIOUS
    <3>1. job[w].for \in Terminal \cup Stops /\ job[w].lead = p[1]
      BY <2>1 DEF Ending, C!Stopping
    <3>2. CASE label = "look"
      <4>1. job[w].for \in Stops \ Terminal /\ (~active \/ deleted)
        BY <3>1, <3>2
      <4> QED
        BY <2>3, <3>1, <4>1
    <3>3. CASE label \in {"sweep", "stop"}
      BY <2>2, <3>1, <3>3 DEF On, Into, Ending
    <3> QED
      BY <3>2, <3>3
  <2>5. \A v \in Worker \ {w} : job'[v] = job[v]
    BY <2>2 DEF On, Into
  <2> QED
    BY <1>2, <2>1, <2>3, <2>4, <2>5
<1>5. CASE C!Sweep(w)
  <2>1. p[1] # job[w].lead
    BY <1>1, <1>5 DEF C!Sweep, C!Skip
  <2>2. /\ task[p] = "pending" /\ stale' = stale /\ status' = status
        /\ unswept' = unswept \ {job[w].lead}
    BY <1>5, <2>1 DEF C!Sweep, C!Skip
  <2>3. \A v \in Worker \ {w} : job'[v] = job[v]
    BY <1>5, HookSteps DEF Freed, On, Into
  <2> QED
    BY <1>2, <2>1, <2>2, <2>3 DEF Ending
<1>6. CASE C!Abandon(w)
  <2>1. /\ task' = task /\ stale' = stale /\ status' = status
        /\ unswept' = IF job[w].at \in {"hook", "sweep", "stop"} THEN unswept \cup {job[w].lead} ELSE unswept
    BY <1>6 DEF C!Abandon
  <2>2. \A v \in Worker \ {w} : job'[v] = job[v]
    BY <1>6, OtherSteps DEF Freed, Into
  <2> QED
    BY <1>2, <2>1, <2>2 DEF Ending
<1> QED
  BY <1>3, <1>4, <1>5, <1>6

LEMMA CadStoppedNext ==
  ASSUME CadType, CadWho, CadStopped, [C!Next]_(C!vars)
  PROVE  CadStopped'
<1>1. CASE \E w \in Worker : C!Write(w) \/ C!Hook(w) \/ C!Sweep(w) \/ C!Abandon(w)
  BY <1>1, StoppedHook
<1>2. ASSUME ~ \E w \in Worker : C!Write(w) \/ C!Hook(w) \/ C!Sweep(w) \/ C!Abandon(w)
      PROVE  CadStopped'
  <2> DEFINE Quiet == /\ UNCHANGED unswept
                      /\ \A v \in Worker : job[v].at \in {"hook", "sweep", "stop"} => job'[v] = job[v]
  <2>1. ASSUME NEW w \in Worker, NEW at, NEW f, NEW l, NEW x, NEW S, NEW T, Into(w, at, f, l, x, S, T),
               job[w].at \notin {"hook", "sweep", "stop"}, UNCHANGED unswept
        PROVE  Quiet
    BY <2>1 DEF Into
  <2>2. ASSUME job' = job, UNCHANGED unswept PROVE Quiet
    BY <2>2
  <2> HIDE DEF Quiet
  <2>3. ASSUME NEW w \in Worker,
               C!Look(w) \/ C!Match(w) \/ C!ReadSteps(w) \/ C!Count(w) \/ C!Insert(w)
               \/ C!BackfillReads(w) \/ C!BackfillLists(w) \/ C!BackfillNext(w) \/ C!ActivityMarks(w)
        PROVE  /\ job[w].at \notin {"hook", "sweep", "stop"} /\ UNCHANGED unswept
    BY <2>3 DEF C!Look, C!Match, C!ReadSteps, C!Count, C!Insert, C!BackfillReads, C!BackfillLists,
                C!BackfillNext, C!ActivityMarks, C!At
  <2>4. ASSUME NEW w \in Worker, C!Look(w) \/ C!Match(w) \/ C!ReadSteps(w) PROVE Quiet
    BY <2>1, <2>3, <2>4, HookSteps, EnrollSteps DEF Freed, On
  <2>5. ASSUME NEW w \in Worker, C!Count(w) \/ C!Insert(w) PROVE Quiet
    BY <2>1, <2>3, <2>5, EnrollSteps DEF Freed, On, LeadLeft
  <2>6. ASSUME NEW w \in Worker, C!BackfillReads(w) \/ C!BackfillLists(w) \/ C!BackfillNext(w) PROVE Quiet
    BY <2>1, <2>3, <2>6, BackfillSteps DEF Freed
  <2>7. ASSUME NEW w \in Worker, C!ActivityMarks(w) PROVE Quiet
    BY <2>1, <2>3, <2>7, OtherSteps DEF Freed
  <2>8. ASSUME NEW w \in Worker, NEW l \in Lead,
               (\E s \in Status : C!Create(w, l, s) \/ C!Patch(w, l, s)) \/ \E s \in Step : C!Activity(w, l, s)
        PROVE  Quiet
    <3>1. job[w].at = "idle" /\ UNCHANGED unswept
      BY <2>8 DEF C!Create, C!Patch, C!Activity, C!At
    <3> QED
      BY <2>1, <2>8, <3>1, OtherSteps
  <2>9. ASSUME NEW w \in Worker, NEW on \in BOOLEAN, NEW S \in SUBSET Step, C!Save(w, on, S) PROVE Quiet
    <3>1. job[w].at = "idle" /\ UNCHANGED unswept
      BY <2>9 DEF C!Save, C!Saved, C!At
    <3> QED
      BY <2>1, <2>2, <2>9, <3>1, OtherSteps
  <2>10. C!Delete \/ UNCHANGED C!vars \/ (\E l \in Lead, s \in Step : C!RepEnds(l, s)) => Quiet
    BY <2>2 DEF C!Delete, C!vars, C!RepEnds
  <2>11. Quiet
    BY <1>2, <2>4, <2>5, <2>6, <2>7, <2>8, <2>9, <2>10 DEF C!Next
  <2> QED
    BY <1>2, <2>11, StoppedElsewhere DEF Quiet
<1> QED
  BY <1>1, <1>2

-----------------------------------------------------------------------------
(* Cadence: the theorems.                                                   *)

CadInv == CadType /\ CadWho /\ CadRead /\ CadOnce /\ C!ArchivedHasNoTask /\ CadStopped

LEMMA CadInvariance == C!Spec => []CadInv
<1>1. C!Init => CadInv
  <2> SUFFICES ASSUME C!Init PROVE CadInv
    OBVIOUS
  <2>1. CadType
    BY CadTypeInit
  <2>2. /\ \A w \in Worker : job[w].at = "idle" /\ job[w].for = "nothing" /\ job[w].lead = None /\ job[w].todo = {}
        /\ \A p \in Lead \X Step : task[p] = "none"
        /\ \A l \in Lead : enrolled[l] = 0
    BY DEF C!Init, C!Idle
  <2>3. CadWho /\ CadRead
    BY CadenceAssumption, <2>2 DEF CadWho, CadRead, HoldsSteps, HasSteps
  <2>4. CadOnce
    <3>1. \A l \in Lead : ~(enrolled[l] > 0) /\ ~(enrolled[l] > 1)
      BY <2>2
    <3> QED
      BY <2>2, <3>1 DEF CadOnce, C!EnrolledOnce
  <2>5. C!ArchivedHasNoTask /\ CadStopped
    BY <2>2 DEF C!ArchivedHasNoTask, CadStopped
  <2> QED
    BY <2>1, <2>3, <2>4, <2>5 DEF CadInv
<1>2. CadInv /\ [C!Next]_(C!vars) => CadInv'
  BY CadTypeNext, CadWhoNext, CadReadNext, CadOnceNext, ArchivedNext, CadStoppedNext DEF CadInv
<1> QED
  BY <1>1, <1>2, PTL DEF C!Spec

(* For all leads, steps, statuses and workers: a lead is enrolled at most   *)
(* once, unless the steps or the lead changed in the middle of an           *)
(* enrollment (countTaskInstancesForEntity and the unique index of          *)
(* sales_process_task_instances).                                           *)
THEOREM EnrolledOnceCorrect == C!Spec => []EnrolledOnce
<1>1. CadInv => EnrolledOnce
  BY DEF CadInv, CadOnce, EnrolledOnce
<1> QED
  BY <1>1, CadInvariance, PTL

(* For all leads, steps, statuses and workers: no pending task of a lead    *)
(* whose status ends the cadence once its hooks are through, and none on an *)
(* archived step, but for the cases the two properties name                 *)
(* (onLeadStatusChanged, upsertCadence).                                    *)
THEOREM NoTaskLeftBehindCorrect == C!Spec => []NoTaskLeftBehind
<1>1. CadInv => NoTaskLeftBehind
  BY DEF CadInv, CadStopped, Ending, NoTaskLeftBehind, C!StoppedHasNoTask
<1> QED
  BY <1>1, CadInvariance, PTL

=============================================================================
