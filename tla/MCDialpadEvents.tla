-------------------------- MODULE MCDialpadEvents --------------------------
(* Instances of DialpadEvents for TLC. *)
EXTENDS DialpadEvents

CONSTANTS web, worker

Both == {web, worker}
Web == {web}
Worker == {worker}
Nowhere == {}

(* Three events of one call, in the order of their timestamps.              *)
ThreeOfOneCall == <<"c1", "c1", "c1">>
InOrder == <<1, 2, 3>>
(* Two events of one call, delivered in the wrong order.                    *)
TwoOfOneCall == <<"c1", "c1">>
Reversed == <<2, 1>>
OneEvent == <<"c1">>
OneStamp == <<1>>
=============================================================================
