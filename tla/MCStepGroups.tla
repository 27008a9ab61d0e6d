---------------------------- MODULE MCStepGroups ----------------------------
(* The workflows of four steps whose first step is a condition, whose last   *)
(* is not, and in which a step has one edge into it at most; the last may    *)
(* have two, so that branches can join again.                                *)
EXTENDS StepGroups

Kinds ==
  {k \in [1..4 -> Kind] : k[1] = "condition" /\ k[4] # "condition"}

Handles(k, s) == IF s > 0 /\ k[s] = "condition" THEN Branch ELSE {"any"}

Into(k, n) ==
  LET edges == UNION {[source : {s}, target : {n}, handle : Handles(k, s)] : s \in 0..(n - 1)}
  IN  {{}} \cup {{e} : e \in edges} \cup IF n = 4 THEN {{e, f} : e \in edges, f \in edges} ELSE {}

Canvases ==
  UNION {{[kind |-> k, edges |-> a \cup b \cup c \cup d] :
            a \in Into(k, 1), b \in Into(k, 2), c \in Into(k, 3), d \in Into(k, 4)} : k \in Kinds}
=============================================================================
