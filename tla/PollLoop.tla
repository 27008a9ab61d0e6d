------------------------------ MODULE PollLoop ------------------------------
(***************************************************************************)
(* What every in-process background loop of the server promises: it runs   *)
(* one body at a time, the next body is always scheduled while the loop is *)
(* on, and once it is stopped no body begins.  The implementations are     *)
(* DialpadEventPoller (RecoveryTimer) and SalesProcessCron (SalesCron).    *)
(***************************************************************************)
EXTENDS Integers

VARIABLES on,     \* "new" before start(), then "on", then "off" after stop()
          armed,  \* timers waiting to fire
          bodies  \* bodies running

vars == <<on, armed, bodies>>

Init == on = "new" /\ armed = 0 /\ bodies = 0

Start == on = "new" /\ on' = "on" /\ armed' = 1 /\ UNCHANGED bodies

Stop == on = "on" /\ on' = "off" /\ armed' = 0 /\ UNCHANGED bodies

Begin == on = "on" /\ armed = 1 /\ bodies = 0 /\ armed' = 0 /\ bodies' = 1 /\ UNCHANGED on

End ==
  /\ bodies = 1
  /\ bodies' = 0
  /\ armed' = IF on = "on" THEN 1 ELSE 0
  /\ UNCHANGED on

Next == Start \/ Stop \/ Begin \/ End

Spec == Init /\ [][Next]_vars
=============================================================================
