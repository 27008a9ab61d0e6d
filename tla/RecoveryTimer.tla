--------------------------- MODULE RecoveryTimer ---------------------------
(***************************************************************************)
(* The timer of DialpadEventPoller (server/jobs/dialpad-event-poller.ts):  *)
(* one setTimeout that polls every MIN_POLL_MS while it finds work, backs  *)
(* off geometrically to MAX_POLL_MS while it does not, and is brought back *)
(* to MIN_POLL_MS by nudge(), which the webhook routes call for every      *)
(* event they accept.  The clock counts units of MIN_POLL_MS or less.      *)
(***************************************************************************)
EXTENDS Integers

CONSTANTS MinPoll,  \* MIN_POLL_MS
          MaxPoll,  \* MAX_POLL_MS
          First,    \* RUN_IMMEDIATELY_AFTER_MS
          MaxTime   \* bound: the clock's last value

ASSUME ConstantsAssumption ==
  /\ First \in Nat /\ MinPoll \in Nat \ {0} /\ MaxPoll \in Nat /\ MaxTime \in Nat
  /\ First <= MinPoll /\ MinPoll <= MaxPoll

VARIABLES
  running,       \* "new", "on" or "off": this.running, before and after start()
  timer,         \* when this.timer fires: {t}, or {} for no timer
  ticking,       \* this.ticking: a tick() awaits its runOnce()
  nudged,        \* this.nudged
  currentDelay,  \* this.currentDelay
  now,
  asked,         \* the last nudge, {t}, if no tick has begun since (history)
  quiet          \* since when no tick has been in progress (history)

vars == <<running, timer, ticking, nudged, currentDelay, now, asked, quiet>>

Init ==
  /\ running = "new" /\ timer = {} /\ ticking = FALSE /\ nudged = FALSE
  /\ currentDelay = MinPoll /\ now = 0 /\ asked = {} /\ quiet = 0

(* schedule(): the timer that was armed is replaced.                        *)
Schedule(delay) == timer' = IF running' = "on" THEN {now + delay} ELSE timer

Start ==
  /\ running = "new"
  /\ running' = "on"
  /\ currentDelay' = MinPoll
  /\ Schedule(First)
  /\ quiet' = now
  /\ UNCHANGED <<ticking, nudged, now, asked>>

(* A bug: the timer stays armed.                                            *)
StopKeepsTimer ==
  /\ running = "on"
  /\ running' = "off"
  /\ UNCHANGED <<timer, ticking, nudged, currentDelay, now, asked, quiet>>

Stop ==
  /\ running = "on"
  /\ running' = "off"
  /\ timer' = {}
  /\ UNCHANGED <<ticking, nudged, currentDelay, now, asked, quiet>>

(* A bug: the timer is armed although a tick is in progress.                *)
NudgeArms ==
  /\ running = "on"
  /\ currentDelay' = MinPoll
  /\ running' = running
  /\ Schedule(MinPoll) /\ UNCHANGED nudged
  /\ asked' = {now}
  /\ UNCHANGED <<ticking, now, quiet>>

Nudge ==
  /\ running = "on"
  /\ currentDelay' = MinPoll
  /\ running' = running
  /\ IF ticking THEN nudged' = TRUE /\ UNCHANGED timer
                ELSE Schedule(MinPoll) /\ UNCHANGED nudged
  /\ asked' = {now}
  /\ UNCHANGED <<ticking, now, quiet>>

(* The timer fires: tick() up to its first await.                           *)
TickBegin ==
  /\ \E t \in timer : t <= now
  /\ timer' = {}
  /\ IF running = "on" THEN ticking' = TRUE /\ nudged' = FALSE /\ asked' = {}
                       ELSE UNCHANGED <<ticking, nudged, asked>>
  /\ UNCHANGED <<running, currentDelay, now, quiet>>

(* Bugs: a nudge that came during the tick only resets the back-off; the    *)
(* back-off has no cap.                                                     *)
NextDelayDeaf(foundWork) ==
  IF foundWork THEN MinPoll
  ELSE IF currentDelay * 2 < MaxPoll THEN currentDelay * 2 ELSE MaxPoll

NextDelayUncapped(foundWork) == IF nudged \/ foundWork THEN MinPoll ELSE currentDelay * 2

NextDelay(foundWork) ==
  IF nudged \/ foundWork THEN MinPoll
  ELSE IF currentDelay * 2 < MaxPoll THEN currentDelay * 2 ELSE MaxPoll

(* The rest of tick(): runOnce found rows, found none, or failed.           *)
TickEnd(foundWork) ==
  /\ ticking
  /\ ticking' = FALSE
  /\ nudged' = FALSE
  /\ currentDelay' = NextDelay(foundWork)
  /\ running' = running
  /\ Schedule(NextDelay(foundWork))
  /\ quiet' = now
  /\ UNCHANGED <<now, asked>>

(* Time passes.  Timers fire when they are due.                             *)
Advance ==
  /\ now < MaxTime
  /\ \A t \in timer : now < t
  /\ now' = now + 1
  /\ UNCHANGED <<running, timer, ticking, nudged, currentDelay, asked, quiet>>

Next ==
  \/ Start \/ Stop \/ Nudge \/ TickBegin \/ Advance
  \/ \E foundWork \in BOOLEAN : TickEnd(foundWork)

Spec == Init /\ [][Next]_vars

-----------------------------------------------------------------------------
(* Properties. *)

(* Every variable keeps its type.                                           *)
TypeOK ==
  /\ running \in {"new", "on", "off"}
  /\ timer \in SUBSET Nat /\ \A t, u \in timer : t = u
  /\ ticking \in BOOLEAN /\ nudged \in BOOLEAN
  /\ currentDelay \in MinPoll..MaxPoll /\ now \in Nat
  /\ asked \in SUBSET Nat /\ quiet \in Nat

(* The loop stays alive and prompt: while it is on it is either in a tick   *)
(* or armed no further than MAX_POLL_MS ahead, never both and never neither.*)
AliveWhileOn ==
  running = "on" =>
    /\ ticking <=> timer = {}
    /\ \A t \in timer : t <= now + MaxPoll

(* A nudge is honoured whenever it comes, also in the middle of a tick: the *)
(* next tick begins at most MIN_POLL_MS after it, or after the tick it      *)
(* fell into, that is unless another nudge follows.                         *)
NudgeHonoured ==
  running = "on" =>
    \A a \in asked :
      IF ticking THEN nudged
      ELSE \E t \in timer : t <= (IF a < quiet THEN quiet ELSE a) + MinPoll

PL == INSTANCE PollLoop WITH
        on <- running, armed <- IF timer = {} THEN 0 ELSE 1,
        bodies <- IF ticking THEN 1 ELSE 0

(* The timer implements the promise of a background loop: one tick at a     *)
(* time, the next always scheduled, none begun after stop().                *)
ImplementsPollLoop == PL!Spec

(* What dialpad-event-poller.ts promises of nudge(): recovery "stays        *)
(* prompt".  A row waits for a tick at most MAX_POLL_MS.                     *)
RecoveryPrompt == running = "on" /\ ~ticking => now <= quiet + MaxPoll
=============================================================================
