--------------------------- MODULE AdaptivePoller ---------------------------
(***************************************************************************)
(* The timer of SuspendedExecutionPoller (server/workflow-engine/          *)
(* poller.ts), which wakes suspended workflow executions.  Unlike the      *)
(* other loops it neither knows that a poll is in flight nor clears the    *)
(* timer it replaces: every poll callback arms a timer at its end, a nudge *)
(* during a poll arms one more, and only the timer armed last, or none, is *)
(* in _pollerTimer.                                                        *)
(***************************************************************************)
EXTENDS Integers, FiniteSets

CONSTANTS Timer,      \* bound: timers armed at a time
          Backoffs,   \* POLLER_MIN_MS doubled so often that POLLER_MAX_MS is reached
          MaxPolls,   \* bound: poll callbacks in flight at a time
          Nothing     \* the null of _pollerTimer

VARIABLES
  isRunning,     \* "new", "on" or "off": _isRunning, before and after start()
  pollerTimer,   \* _pollerTimer
  delay,         \* per timer, the delay it was armed with, or -1: not armed
  backoff,       \* _pollerBackoffMs: how often it was doubled
  polls,         \* poll callbacks that await the database
  asked          \* a nudge came and no poll has begun since (history)

vars == <<isRunning, pollerTimer, delay, backoff, polls, asked>>

Armed == {t \in Timer : delay[t] >= 0}

Init ==
  /\ isRunning = "new" /\ pollerTimer = Nothing /\ delay = [t \in Timer |-> -1]
  /\ backoff = 0 /\ polls = 0 /\ asked = FALSE

(* _schedulePoll, with the timers d that are armed before it: the new timer *)
(* takes the place of the old one in _pollerTimer; the old one stays armed. *)
SchedulePoll(d, ref, b) ==
  \E t \in Timer :
    /\ d[t] = -1
    /\ delay' = [d EXCEPT ![t] = b]
    /\ pollerTimer' = t

Cleared == IF pollerTimer = Nothing THEN delay ELSE [delay EXCEPT ![pollerTimer] = -1]

Start ==
  /\ isRunning = "new"
  /\ isRunning' = "on"
  /\ backoff' = 0
  /\ SchedulePoll(delay, pollerTimer, 0)
  /\ UNCHANGED <<polls, asked>>

Stop ==
  /\ isRunning = "on"
  /\ isRunning' = "off"
  /\ delay' = Cleared
  /\ pollerTimer' = Nothing
  /\ UNCHANGED <<backoff, polls, asked>>

(* A bug: the nudge clears the timer and leaves the next poll to others.    *)
NudgeOnlyClears ==
  /\ isRunning = "on"
  /\ backoff' = 0
  /\ delay' = Cleared
  /\ pollerTimer' = Nothing
  /\ asked' = TRUE
  /\ UNCHANGED <<isRunning, polls>>

Nudge ==
  /\ isRunning = "on"
  /\ backoff' = 0
  /\ SchedulePoll(Cleared, Nothing, 0)
  /\ asked' = TRUE
  /\ UNCHANGED <<isRunning, polls>>

(* A bug: the callback does not reset _pollerTimer.                         *)
FireKeepsReference(t) ==
  /\ t \in Armed
  /\ polls < MaxPolls
  /\ delay' = [delay EXCEPT ![t] = -1]
  /\ polls' = polls + 1
  /\ asked' = FALSE
  /\ UNCHANGED <<isRunning, pollerTimer, backoff>>

(* A timer fires.  The callback forgets _pollerTimer, whichever timer it    *)
(* refers to, and asks no question about _isRunning.                        *)
Fire(t) ==
  /\ t \in Armed
  /\ polls < MaxPolls
  /\ delay' = [delay EXCEPT ![t] = -1]
  /\ pollerTimer' = Nothing
  /\ polls' = polls + 1
  /\ asked' = FALSE
  /\ UNCHANGED <<isRunning, backoff>>

(* A bug: the back-off has no cap.                                          *)
NextBackoffUncapped(foundDue) == IF foundDue THEN 0 ELSE backoff + 1

NextBackoff(foundDue) == IF foundDue THEN 0 ELSE IF backoff < Backoffs THEN backoff + 1 ELSE Backoffs

(* A bug: the end of a poll replaces the timer that a nudge armed.          *)
PollEndReplaces(foundDue) ==
  /\ polls > 0
  /\ polls' = polls - 1
  /\ backoff' = NextBackoff(foundDue)
  /\ IF isRunning = "on" THEN SchedulePoll(Cleared, Nothing, backoff')
                         ELSE UNCHANGED <<delay, pollerTimer>>
  /\ UNCHANGED <<isRunning, asked>>

(* The poll's queries returned or failed; the callback re-schedules.        *)
PollEnd(foundDue) ==
  /\ polls > 0
  /\ polls' = polls - 1
  /\ backoff' = NextBackoff(foundDue)
  /\ IF isRunning = "on" THEN SchedulePoll(delay, pollerTimer, backoff')
                         ELSE UNCHANGED <<delay, pollerTimer>>
  /\ UNCHANGED <<isRunning, asked>>

Next ==
  \/ Start \/ Stop \/ Nudge
  \/ \E t \in Timer : Fire(t)
  \/ \E foundDue \in BOOLEAN : PollEnd(foundDue)

Spec == Init /\ [][Next]_vars

-----------------------------------------------------------------------------
(* Properties. *)

(* Every variable keeps its type.                                           *)
TypeOK ==
  /\ isRunning \in {"new", "on", "off"}
  /\ pollerTimer \in Timer \cup {Nothing}
  /\ delay \in [Timer -> -1..Backoffs]
  /\ backoff \in 0..Backoffs /\ polls \in 0..MaxPolls /\ asked \in BOOLEAN

(* The chain of polls never breaks while the poller is on.                  *)
ChainAlive == isRunning = "on" => Armed # {} \/ polls > 0

(* Clearing _pollerTimer clears a timer that is armed: it never refers to   *)
(* one that has fired.                                                      *)
ReferenceArmed == pollerTimer # Nothing => pollerTimer \in Armed

(* A nudge is never lost: until the next poll begins a timer is armed with  *)
(* the shortest delay, whatever polls in flight do to the back-off when     *)
(* they end.                                                                *)
NudgeHonoured == isRunning = "on" /\ asked => \E t \in Armed : delay[t] = 0

(* "Stop the poller definitively": no poll begins after stop().             *)
NoPollAfterStop == [][isRunning = "off" => polls' <= polls]_vars
=============================================================================
