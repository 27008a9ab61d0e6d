------------------------- MODULE StepGroups_proofs -------------------------
(***************************************************************************)
(* Proofs about StepGroups, for every number of steps and every graph the  *)
(* builder's canvas accepts.  Level and the walk of Reachable are          *)
(* recursive functions: that they have the values their definitions ask    *)
(* for is shown first, the one because edges lead upwards, the other       *)
(* because a walk only grows with what it has reached.                     *)
(***************************************************************************)
EXTENDS StepGroups, FiniteSetTheorems, WellFoundedInduction, TLAPS

(* Induction over numbers, as a least element.                              *)
LEMMA Least ==
  ASSUME NEW T \in SUBSET Nat, T # {}
  PROVE  \E m \in T : \A k \in T : m <= k
<1> DEFINE Up == {0..k : k \in T}
<1>1. Up \subseteq FiniteSubsetsOf(Nat) /\ Up # {}
  <2>1. \A k \in T : 0..k \in FiniteSubsetsOf(Nat)
    BY FS_Interval DEF FiniteSubsetsOf
  <2> QED
    BY <2>1
<1>2. IsWellFoundedOn(StrictSubsetOrdering(Nat), FiniteSubsetsOf(Nat))
  BY FS_StrictSubsetOrderingWellFounded
<1>3. \E u \in Up : \A v \in Up : ~(<<v, u>> \in StrictSubsetOrdering(Nat))
  <2> HIDE DEF Up
  <2> QED
    BY <1>1, <1>2, WFMin
<1>4. PICK m \in T : \A v \in Up : ~(<<v, 0..m>> \in StrictSubsetOrdering(Nat))
  BY <1>3
<1>5. ASSUME NEW k \in T, k < m
      PROVE  FALSE
  <2>1. 0..k \in Up
    OBVIOUS
  <2>2. 0..k \subseteq Nat /\ 0..m \subseteq Nat /\ 0..k \subseteq 0..m /\ 0..k # 0..m
    <3>1. m \in 0..m /\ m \notin 0..k
      BY <1>5
    <3> QED
      BY <1>5, <3>1
  <2> QED
    BY <1>4, <2>1, <2>2 DEF StrictSubsetOrdering
<1> QED
  BY <1>5

LEMMA MaxOf ==
  ASSUME NEW b \in Int, NEW T \in SUBSET Int, T # {}, \A x \in T : x <= b
  PROVE  Max(T) \in T /\ \A x \in T : x <= Max(T)
<1> DEFINE U == {b - x : x \in T}
<1>1. U \in SUBSET Nat /\ U # {}
  <2>1. \A x \in T : b - x \in Nat
    OBVIOUS
  <2>2. \E x \in T : TRUE
    OBVIOUS
  <2> QED
    BY <2>1, <2>2
<1>2. PICK u \in U : \A v \in U : u <= v
  <2> HIDE DEF U
  <2> QED
    BY <1>1, Least
<1>3. PICK x \in T : u = b - x
  BY <1>2
<1>4. \A y \in T : x >= y
  BY <1>2, <1>3
<1> QED
  BY <1>4 DEF Max

LEMMA MinOf ==
  ASSUME NEW b \in Int, NEW T \in SUBSET Int, T # {}, \A x \in T : b <= x
  PROVE  Min(T) \in T /\ \A x \in T : Min(T) <= x
<1> DEFINE U == {x - b : x \in T}
<1>1. U \in SUBSET Nat /\ U # {}
  <2>1. \A x \in T : x - b \in Nat
    OBVIOUS
  <2>2. \E x \in T : TRUE
    OBVIOUS
  <2> QED
    BY <2>1, <2>2
<1>2. PICK u \in U : \A v \in U : u <= v
  <2> HIDE DEF U
  <2> QED
    BY <1>1, Least
<1>3. PICK x \in T : u = x - b
  BY <1>2
<1>4. \A y \in T : x <= y
  BY <1>2, <1>3
<1> QED
  BY <1>4 DEF Min

-----------------------------------------------------------------------------
(* The levels of a drawable graph. *)

Parents(w, n) == {e.source : e \in {f \in w.edges : f.target = n}}

LevelsTo(f, w, k) ==
  f = [n \in 0..k |-> IF Parents(w, n) = {} THEN -1 ELSE 1 + Max({f[p] : p \in Parents(w, n)})]

LEMMA ParentsBelow ==
  ASSUME NEW w, Drawable(w), NEW n
  PROVE  \A p \in Parents(w, n) : p \in Node /\ n \in Node /\ p < n
BY WorkflowsAssumption DEF Parents, Drawable, Edge, Node, Step

LEMMA LevelsExist ==
  ASSUME NEW w, Drawable(w), NEW k \in Nat
  PROVE  \E f : LevelsTo(f, w, k)
<1> DEFINE Bad == {j \in Nat : ~\E f : LevelsTo(f, w, j)}
<1> SUFFICES ASSUME Bad # {} PROVE FALSE
  OBVIOUS
<1>1. PICK j \in Bad : \A i \in Bad : j <= i
  BY Least
<1>2. CASE j = 0
  <2>1. Parents(w, 0) = {}
    BY ParentsBelow DEF Node
  <2> DEFINE f == [n \in 0..0 |-> -1]
  <2>2. LevelsTo(f, w, 0)
    BY <2>1 DEF LevelsTo
  <2> QED
    BY <1>1, <1>2, <2>2
<1>3. CASE j # 0
  <2>1. j - 1 \in Nat /\ j - 1 \notin Bad
    BY <1>1, <1>3
  <2>2. PICK f : LevelsTo(f, w, j - 1)
    BY <2>1
  <2> DEFINE val(n) == IF Parents(w, n) = {} THEN -1 ELSE 1 + Max({f[p] : p \in Parents(w, n)})
             g == [n \in 0..j |-> val(n)]
  <2>3. \A n \in 0..(j - 1) : f[n] = val(n)
    BY <2>1, <2>2 DEF LevelsTo
  <2>4. \A n \in 0..(j - 1) : g[n] = f[n]
    <3> HIDE DEF val
    <3> QED
      BY <2>1, <2>3
  <2>5. ASSUME NEW n \in 0..j
        PROVE  {g[p] : p \in Parents(w, n)} = {f[p] : p \in Parents(w, n)}
    <3>1. \A p \in Parents(w, n) : p \in 0..(j - 1)
      BY <2>1, ParentsBelow DEF Node
    <3> HIDE DEF g
    <3> QED
      BY <2>4, <3>1
  <2>6. LevelsTo(g, w, j)
    BY <2>5 DEF LevelsTo
  <2> QED
    BY <1>1, <2>6
<1> QED
  BY <1>2, <1>3

LEMMA LevelIsLevel ==
  ASSUME NEW w, Drawable(w)
  PROVE  LevelsTo(Level(w), w, N)
<1>1. \E f : LevelsTo(f, w, N)
  BY LevelsExist, WorkflowsAssumption
<1>2. Level(w) = CHOOSE f : LevelsTo(f, w, N)
  BY Zenon DEF Level, LevelsTo, Parents, Node
<1> QED
  BY <1>1, <1>2

(* Levels rise along every edge.                                            *)
LEMMA LevelFacts ==
  ASSUME NEW w, Drawable(w)
  PROVE  /\ Level(w) \in [Node -> -1..N]
         /\ \A e \in w.edges : Level(w)[e.source] < Level(w)[e.target]
<1> DEFINE f == Level(w)
<1>1. N \in Nat
  BY WorkflowsAssumption
<1>2. f = [n \in Node |-> IF Parents(w, n) = {} THEN -1 ELSE 1 + Max({f[p] : p \in Parents(w, n)})]
  BY LevelIsLevel DEF LevelsTo, Node
<1>3. \A n \in Node : f[n] = IF Parents(w, n) = {} THEN -1 ELSE 1 + Max({f[p] : p \in Parents(w, n)})
  <2> HIDE DEF f
  <2> QED
    BY <1>2
<1> HIDE DEF f
<1>4. ASSUME NEW n \in Node, \A p \in Parents(w, n) : f[p] \in -1..p, Parents(w, n) # {}
      PROVE  /\ f[n] \in -1..n
             /\ \A p \in Parents(w, n) : f[p] < f[n]
  <2> DEFINE T == {f[p] : p \in Parents(w, n)}
  <2>1. T \in SUBSET Int /\ T # {} /\ (\A x \in T : x <= n - 1) /\ \A x \in T : -1 <= x
    BY <1>1, <1>4, ParentsBelow DEF Node
  <2>2. n \in Int /\ n - 1 \in Int
    BY <1>1 DEF Node
  <2>3. f[n] = 1 + Max(T)
    BY <1>3, <1>4
  <2>4. \A p \in Parents(w, n) : f[p] \in T
    OBVIOUS
  <2> HIDE DEF T
  <2>5. Max(T) \in T /\ \A x \in T : x <= Max(T)
    BY <2>1, <2>2, MaxOf
  <2> QED
    <3>1. Max(T) \in Int /\ -1 <= Max(T) /\ Max(T) <= n - 1
      BY <2>1, <2>5
    <3>2. f[n] \in -1..n
      BY <2>3, <2>2, <3>1
    <3>3. ASSUME NEW p \in Parents(w, n) PROVE f[p] < f[n]
      <4>1. f[p] \in Int /\ f[p] <= Max(T)
        BY <2>1, <2>4, <2>5
      <4> QED
        BY <2>3, <3>1, <4>1
    <3> QED
      BY <3>2, <3>3
<1>5. \A n \in Node : f[n] \in -1..n
  <2> DEFINE Bad == {n \in Node : f[n] \notin -1..n}
  <2> SUFFICES ASSUME Bad # {} PROVE FALSE
    OBVIOUS
  <2>1. PICK n \in Bad : \A m \in Bad : n <= m
    <3>1. Bad \in SUBSET Nat
      BY <1>1 DEF Node
    <3> QED
      BY <3>1, Least
  <2>2. \A p \in Parents(w, n) : f[p] \in -1..p
    BY <1>1, <2>1, ParentsBelow DEF Node
  <2>3. CASE Parents(w, n) = {}
    <3>1. n \in Node /\ f[n] = -1 /\ f[n] \notin -1..n
      BY <1>3, <2>1, <2>3
    <3>2. n \in Int /\ 0 <= n
      BY <1>1, <3>1 DEF Node
    <3> QED
      BY <3>1, <3>2
  <2>4. CASE Parents(w, n) # {}
    BY <1>4, <2>1, <2>2, <2>4
  <2> QED
    BY <2>3, <2>4
<1>6. f \in [Node -> -1..N]
  BY <1>1, <1>2, <1>5 DEF Node
<1>7. ASSUME NEW e \in w.edges
      PROVE  f[e.source] < f[e.target]
  <2>1. e.source \in Parents(w, e.target) /\ e.target \in Node
    BY ParentsBelow DEF Parents
  <2> QED
    BY <1>4, <1>5, <2>1, ParentsBelow
<1> QED
  BY <1>6, <1>7 DEF f

-----------------------------------------------------------------------------
(* The walk over a saved graph. *)

Into(S, n) == {e \in SavedIn(S) : e.target = n}

Walked(f, S, known) ==
  f = [n \in Node |-> Into(S, n) = {} \/ \E e \in Into(S, n) : f[e.source] /\ Open(e, S, known)]

(* Found by what is in C, in one step.                                      *)
StepFrom(C, S, known, n) ==
  Into(S, n) = {} \/ \E e \in Into(S, n) : e.source \in C /\ Open(e, S, known)

LEMMA SavedEdges ==
  ASSUME Drawable(workflow), NEW S, NEW e \in SavedIn(S)
  PROVE  e \in workflow.edges /\ e \in Edge /\ e.source \in Node /\ e.target \in Step
BY DEF SavedIn, Drawable, Edge

(* What every set that is closed under steps has in common is such a walk.  *)
LEMMA WalkExists ==
  ASSUME Drawable(workflow), NEW S, NEW known
  PROVE  \E f : Walked(f, S, known)
<1> DEFINE Closed(C) == \A n \in Node : StepFrom(C, S, known, n) => n \in C
           L == {n \in Node : \A C \in SUBSET Node : Closed(C) => n \in C}
           M == {n \in L : StepFrom(L, S, known, n)}
           f == [n \in Node |-> n \in L]
<1>1. ASSUME NEW C, NEW D, C \subseteq D, NEW n, StepFrom(C, S, known, n)
      PROVE  StepFrom(D, S, known, n)
  BY <1>1 DEF StepFrom
<1>2. ASSUME NEW n \in Node, StepFrom(L, S, known, n)
      PROVE  n \in L
  <2> SUFFICES ASSUME NEW C \in SUBSET Node, Closed(C) PROVE n \in C
    OBVIOUS
  <2>1. L \subseteq C
    OBVIOUS
  <2>2. StepFrom(C, S, known, n)
    <3> HIDE DEF L
    <3> QED
      BY <1>1, <1>2, <2>1
  <2> QED
    BY <2>2
<1>3. M \in SUBSET Node /\ Closed(M)
  <2>1. M \in SUBSET Node /\ M \subseteq L
    OBVIOUS
  <2>2. ASSUME NEW n \in Node, StepFrom(M, S, known, n)
        PROVE  n \in M
    <3>1. StepFrom(L, S, known, n)
      <4> HIDE DEF L, M
      <4> QED
        BY <1>1, <2>1, <2>2
    <3>2. n \in L
      <4> HIDE DEF L
      <4> QED
        BY <1>2, <3>1
    <3> HIDE DEF L
    <3> QED
      BY <3>1, <3>2
  <2> QED
    BY <2>1, <2>2
<1>4. L \subseteq M
  <2> HIDE DEF M, Closed
  <2> QED
    BY <1>3
<1>5. ASSUME NEW n \in Node
      PROVE  f[n] <=> StepFrom(L, S, known, n)
  <2> HIDE DEF L
  <2> QED
    BY <1>2, <1>4
<1>6. ASSUME NEW n \in Node
      PROVE  f[n] = (Into(S, n) = {} \/ \E e \in Into(S, n) : f[e.source] /\ Open(e, S, known))
  <2>1. \A e \in Into(S, n) : e.source \in Node
    BY SavedEdges DEF Into
  <2>2. \A e \in Into(S, n) : f[e.source] <=> e.source \in L
    <3> HIDE DEF L
    <3> QED
      BY <2>1
  <2>3. f[n] \in BOOLEAN
    OBVIOUS
  <2> HIDE DEF f, L
  <2> QED
    BY <1>5, <2>2, <2>3 DEF StepFrom
<1>7. f = [n \in Node |-> Into(S, n) = {} \/ \E e \in Into(S, n) : f[e.source] /\ Open(e, S, known)]
  <2>1. f = [n \in Node |-> f[n]]
    OBVIOUS
  <2> HIDE DEF f
  <2> QED
    BY <1>6, <2>1
<1> QED
  BY <1>7 DEF Walked

LEMMA ReachableStep ==
  ASSUME Drawable(workflow), NEW S, NEW known, NEW n \in Node
  PROVE  n \in Reachable(S, known) <=> StepFrom(Reachable(S, known), S, known, n)
<1> DEFINE f == CHOOSE g : Walked(g, S, known)
<1>1. Walked(f, S, known)
  BY WalkExists
<1>2. Reachable(S, known) = {m \in Node : f[m]}
  BY Zenon DEF Reachable, Walked, Into
<1>3. \A m \in Node : f[m] <=> Into(S, m) = {} \/ \E e \in Into(S, m) : f[e.source] /\ Open(e, S, known)
  <2> HIDE DEF f
  <2> QED
    BY <1>1 DEF Walked
<1>4. \A e \in Into(S, n) : e.source \in Node
  BY SavedEdges DEF Into
<1> HIDE DEF f
<1> QED
  BY <1>2, <1>3, <1>4 DEF StepFrom

-----------------------------------------------------------------------------
(* What decides whether a step is found: results at lower levels only.      *)

Rises == \A e \in workflow.edges : stepOrder[e.source] < stepOrder[e.target]
Graph == Drawable(workflow) /\ stepOrder \in [Node -> -1..N] /\ Rises

LEMMA OpenAtTrigger ==
  ASSUME Graph, NEW S, NEW known, NEW e \in SavedIn(S), e.source = 0
  PROVE  Open(e, S, known)
BY SavedEdges DEF Open, Graph, Drawable, Step

LEMMA SameBefore ==
  ASSUME Graph, NEW S, NEW k1, NEW k2, NEW o \in Int,
         \A m \in Step : stepOrder[m] < o => k1[m] = k2[m]
  PROVE  \A n \in Node : stepOrder[n] <= o => (n \in Reachable(S, k1) <=> n \in Reachable(S, k2))
<1> DEFINE Bad == {n \in Node : stepOrder[n] <= o /\ ~(n \in Reachable(S, k1) <=> n \in Reachable(S, k2))}
<1> SUFFICES ASSUME Bad # {} PROVE FALSE
  OBVIOUS
<1>1. PICK n \in Bad : \A m \in Bad : n <= m
  <2>1. Bad \in SUBSET Nat
    BY DEF Node
  <2> HIDE DEF Bad
  <2> QED
    BY <2>1, Least
<1>2. n \in Node /\ stepOrder[n] <= o /\ stepOrder[n] \in Int
  BY DEF Graph
<1>3. ASSUME NEW e \in Into(S, n)
      PROVE  /\ e.source \in Reachable(S, k1) <=> e.source \in Reachable(S, k2)
             /\ Open(e, S, k1) <=> Open(e, S, k2)
  <2>1. /\ e \in SavedIn(S) /\ e \in workflow.edges /\ e.source \in Node /\ e.target = n
        /\ e.source < e.target /\ stepOrder[e.source] < stepOrder[n]
    BY SavedEdges DEF Into, Graph, Drawable, Rises
  <2>2. stepOrder[e.source] \in Int
    BY <2>1 DEF Graph
  <2>3. e.source \notin Bad
    BY <1>1, <2>1 DEF Node
  <2>4. e.source \in Reachable(S, k1) <=> e.source \in Reachable(S, k2)
    BY <1>2, <2>1, <2>2, <2>3
  <2>5. CASE e.source = 0
    BY <2>1, <2>4, <2>5, OpenAtTrigger
  <2>6. CASE e.source # 0
    <3>1. e.source \in Step /\ stepOrder[e.source] < o
      BY <1>2, <2>1, <2>2, <2>6 DEF Node, Step
    <3> QED
      BY <2>4, <3>1 DEF Open
  <2> QED
    BY <2>5, <2>6
<1>4. StepFrom(Reachable(S, k1), S, k1, n) <=> StepFrom(Reachable(S, k2), S, k2, n)
  BY <1>3 DEF StepFrom
<1>5. n \in Reachable(S, k1) <=> n \in Reachable(S, k2)
  BY <1>2, <1>4, ReachableStep DEF Graph
<1> QED
  BY <1>1, <1>5

-----------------------------------------------------------------------------
(* The invariant. *)

Ran(n) == log[n] \notin Unrun
Undone == {n \in Step : log[n] = "none"}

SType ==
  /\ Graph /\ whole \in BOOLEAN /\ phase \in Phase /\ slice \subseteq Step
  /\ left \subseteq {stepOrder[n] : n \in slice}
  /\ gating \in BOOLEAN /\ resumed \in BOOLEAN
  /\ results \in [Node -> Branch \cup {"unknown"}]
  /\ currentStep \in -1..N
  /\ log \in [Step -> Outcome \cup Unrun]
  /\ \A n \in Step : log[n] \in Outcomes(n) \cup Unrun

(* Groups are dealt with from the lowest order to the highest, and a slice  *)
(* has all of what is left.                                                 *)
Upwards ==
  /\ \A m, n \in Step : log[m] = "none" /\ log[n] # "none" => stepOrder[n] < stepOrder[m]
  /\ phase = "pending" => Undone = Step /\ ~resumed
  /\ phase = "running" =>
       /\ left = {stepOrder[n] : n \in Undone} /\ left # {} /\ Undone \subseteq slice
       /\ ~resumed => slice = Step
       /\ \A n \in slice, m \in Step : stepOrder[n] <= stepOrder[m] => m \in slice
  /\ phase = "suspended" => Undone = Remaining
  /\ phase = "completed" => Undone = {}

(* The walk of a call that gates finds, among the steps dealt with, those   *)
(* that ran; a call that does not gate sees no branch.                      *)
GatedRight ==
  phase = "running" /\ gating =>
    /\ results = Rebuild(log)
    /\ \A n \in Step \ Undone : n \in slice \/ whole => (Ran(n) <=> n \in Reachable(slice, results))
Ungated == phase = "running" /\ ~gating => SavedIn(slice) = {} \/ Conditionals(slice) = {}

SkippedUnselected == \A n \in Step : log[n] = "skipped" => ~Selected(n)

SInv == SType /\ Upwards /\ GatedRight /\ Ungated /\ SkippedUnselected /\ OnlySelectedStepsRun

(* At a step that ran, the walk follows the edges the canvas takes.         *)
LEMMA OpenIsTaken ==
  ASSUME SType, NEW S, NEW e \in SavedIn(S), e.source \in Step, Ran(e.source)
  PROVE  Open(e, S, Rebuild(log)) <=> Taken(e)
<1>1. /\ e \in workflow.edges /\ e.source # 0
      /\ e.handle \in Branch <=> workflow.kind[e.source] = "condition"
  BY SavedEdges DEF SType, Graph, Drawable, Step
<1>2. CASE e.handle \notin Branch
  BY <1>2 DEF Open, Taken, Ran
<1>3. CASE e.handle \in Branch
  <2>1. log[e.source] \in {"true", "false", "failed"}
    BY <1>1, <1>3 DEF SType, Ran, Outcomes
  <2>2. e.source \in Conditionals(S)
    BY <1>3 DEF Conditionals
  <2>3. Rebuild(log)[e.source] = Chosen(e.source) /\ Chosen(e.source) \in Branch
    BY <1>1, <1>3, <2>1 DEF Rebuild, Chosen, Branch, Step, Node
  <2> QED
    BY <1>1, <1>3, <2>2, <2>3 DEF Open, Taken, Ran, Branch
<1> QED
  BY <1>2, <1>3

LEMMA TriggerReached ==
  ASSUME Graph, NEW S, NEW known
  PROVE  0 \in Reachable(S, known)
<1>1. Into(S, 0) = {} /\ 0 \in Node
  BY SavedEdges, WorkflowsAssumption DEF Into, Graph, Step, Node
<1> QED
  BY <1>1, ReachableStep DEF StepFrom, Graph

(* Over all edges the walk finds, of what was dealt with, the selected.     *)
LEMMA WholeWalk ==
  ASSUME SInv, whole, NEW S
  PROVE  \A n \in Step \ Undone : Ran(n) <=> n \in Reachable(S, Rebuild(log))
<1> DEFINE R == Reachable(S, Rebuild(log))
           Bad == {n \in Step \ Undone : ~(Ran(n) <=> n \in R)}
<1> SUFFICES ASSUME Bad # {} PROVE FALSE
  OBVIOUS
<1>1. PICK n \in Bad : \A m \in Bad : n <= m
  <2>1. Bad \in SUBSET Nat
    BY DEF Step
  <2> HIDE DEF Bad
  <2> QED
    BY <2>1, Least
<1>2. n \in Step /\ log[n] # "none" /\ n \in Node /\ stepOrder[n] \in Int
  BY DEF Undone, Step, Node, SInv, SType, Graph
<1>3. Ran(n) <=> Selected(n)
  BY <1>2 DEF SInv, SkippedUnselected, OnlySelectedStepsRun, Ran, Unrun
<1>4. Into(S, n) = EdgesInto(n)
  BY DEF Into, EdgesInto, SavedIn
<1>5. ASSUME NEW e \in EdgesInto(n)
      PROVE  e.source \in R /\ Open(e, S, Rebuild(log)) <=> Taken(e)
  <2>1. e \in SavedIn(S) /\ e \in workflow.edges /\ e.target = n
    BY DEF EdgesInto, SavedIn
  <2>2. e.source \in Node /\ e.source < n /\ stepOrder[e.source] < stepOrder[n]
    BY <2>1 DEF SInv, SType, Graph, Drawable, Edge, Rises
  <2>3. CASE e.source = 0
    BY <2>1, <2>3, TriggerReached, OpenAtTrigger DEF Taken, SInv, SType
  <2>4. CASE e.source # 0
    <3>1. e.source \in Step /\ stepOrder[e.source] \in Int
      BY <2>2, <2>4 DEF Step, Node, SInv, SType, Graph
    <3>2. log[e.source] # "none"
      BY <1>2, <2>2, <3>1 DEF SInv, Upwards
    <3>3. e.source \notin Bad
      BY <1>1, <1>2, <2>2, <3>1 DEF Step
    <3>4. Ran(e.source) <=> e.source \in R
      BY <3>1, <3>2, <3>3 DEF Undone
    <3>5. CASE Ran(e.source)
      BY <2>1, <3>1, <3>4, <3>5, OpenIsTaken DEF SInv
    <3>6. CASE ~Ran(e.source)
      BY <2>4, <3>4, <3>6 DEF Taken, Ran
    <3> QED
      BY <3>5, <3>6
  <2> QED
    BY <2>3, <2>4
<1>6. n \in R <=> Selected(n)
  <2>1. n \in R <=> StepFrom(R, S, Rebuild(log), n)
    BY <1>2, ReachableStep DEF SInv, SType, Graph
  <2> HIDE DEF R
  <2> QED
    BY <1>4, <1>5, <2>1 DEF StepFrom, Selected
<1> QED
  BY <1>1, <1>3, <1>6

(* What the group that runs next is.                                        *)
LEMMA GroupFacts ==
  ASSUME SInv, phase = "running"
  PROVE  /\ Min(left) \in left /\ Min(left) \in -1..N
         /\ Group = {n \in Undone : stepOrder[n] = Min(left)}
         /\ \A n \in Undone : Min(left) <= stepOrder[n]
         /\ \A n \in Step \ Undone : stepOrder[n] < Min(left)
<1>1. left \subseteq -1..N /\ left # {} /\ left = {stepOrder[n] : n \in Undone} /\ Undone \subseteq slice
      /\ slice \subseteq Step /\ N \in Nat
  BY WorkflowsAssumption DEF SInv, SType, Upwards, Graph, Step, Node, Undone
<1>2. -1 \in Int /\ left \in SUBSET Int /\ \A x \in left : -1 <= x
  BY <1>1
<1>3. Min(left) \in left /\ \A x \in left : Min(left) <= x
  BY <1>1, <1>2, MinOf, Zenon
<1>4. PICK m \in Undone : stepOrder[m] = Min(left)
  BY <1>1, <1>3
<1>5. \A n \in Step \ Undone : stepOrder[n] < Min(left)
  BY <1>4 DEF SInv, Upwards, Undone
<1>6. \A n \in Step : stepOrder[n] \in Int
  BY DEF SInv, SType, Graph, Step, Node
<1>7. Group = {n \in Undone : stepOrder[n] = Min(left)}
  BY <1>1, <1>3, <1>5, <1>6 DEF Group
<1> QED
  BY <1>1, <1>3, <1>5, <1>7

-----------------------------------------------------------------------------
(* One group. *)

(* The sources of a step's edges have been dealt with before its group.     *)
LEMMA SourcesFirst ==
  ASSUME SInv, phase = "running", NEW n \in Step, stepOrder[n] <= Min(left),
         NEW e \in EdgesInto(n)
  PROVE  /\ e \in workflow.edges /\ e.target = n /\ e.source \in Node
         /\ e.source # 0 => e.source \in Step \ Undone /\ stepOrder[e.source] < Min(left)
                            /\ stepOrder[e.source] < stepOrder[n]
<1>1. e \in workflow.edges /\ e.target = n /\ e.source \in Node /\ stepOrder[e.source] < stepOrder[n]
  BY DEF EdgesInto, SInv, SType, Graph, Drawable, Edge, Rises
<1>2. stepOrder[e.source] \in Int /\ stepOrder[n] \in Int /\ Min(left) \in Int
      /\ \A m \in Undone : Min(left) <= stepOrder[m]
  BY <1>1, GroupFacts DEF SInv, SType, Graph, Step, Node
<1>3. e.source # 0 => e.source \in Step
  BY <1>1 DEF Step, Node
<1> QED
  BY <1>1, <1>2, <1>3

(* A call of upward orders sees every edge into its own steps.              *)
LEMMA IntoSlice ==
  ASSUME NEW n \in slice
  PROVE  Into(slice, n) = EdgesInto(n)
BY DEF Into, EdgesInto, SavedIn

(* A step of an earlier call is a root of a later call's graph.             *)
LEMMA EarlierIsReached ==
  ASSUME SInv, phase = "running", gating, NEW m \in Step \ Undone, Ran(m)
  PROVE  m \in Reachable(slice, results)
<1>1. CASE m \in slice \/ whole
  BY <1>1 DEF SInv, GatedRight
<1>2. CASE m \notin slice /\ ~whole
  <2>1. Into(slice, m) = {}
    <3> SUFFICES ASSUME NEW e \in Into(slice, m) PROVE FALSE
      OBVIOUS
    <3>1. e \in workflow.edges /\ e.target = m /\ e.source \in slice
      BY <1>2 DEF Into, SavedIn
    <3>2. stepOrder[e.source] < stepOrder[m] /\ stepOrder[e.source] \in Int /\ stepOrder[m] \in Int
      BY <3>1 DEF SInv, SType, Graph, Rises, Step, Node, Drawable, Edge
    <3> QED
      BY <1>2, <3>1, <3>2 DEF SInv, Upwards
  <2>2. m \in Node
    BY DEF Step, Node
  <2> QED
    BY <2>1, <2>2, ReachableStep DEF StepFrom, SInv, SType, Graph
<1> QED
  BY <1>1, <1>2

(* A step the walk does not find is on no selected path.                    *)
LEMMA UnreachedUnselected ==
  ASSUME SInv, phase = "running", gating, NEW n \in Group, n \notin Reachable(slice, results)
  PROVE  ~Selected(n)
<1> SUFFICES ASSUME Selected(n) PROVE FALSE
  OBVIOUS
<1>1. n \in slice /\ n \in Step /\ n \in Node /\ stepOrder[n] <= Min(left)
  BY GroupFacts DEF Group, SInv, SType, Graph, Step, Node
<1>2. Into(slice, n) = EdgesInto(n)
  BY <1>1, IntoSlice
<1>3. ~StepFrom(Reachable(slice, results), slice, results, n)
  BY <1>1, ReachableStep DEF SInv, SType, Graph
<1>4. PICK e \in EdgesInto(n) : Taken(e)
  BY <1>2, <1>3 DEF StepFrom, Selected
<1>5. e \in SavedIn(slice)
  BY <1>2, <1>4 DEF Into
<1>6. CASE e.source = 0
  BY <1>2, <1>3, <1>4, <1>5, <1>6, TriggerReached, OpenAtTrigger DEF StepFrom, SInv, SType
<1>7. CASE e.source # 0
  <2>1. e.source \in Step \ Undone
    BY <1>1, <1>4, <1>7, SourcesFirst
  <2>2. Ran(e.source)
    BY <1>4, <1>7 DEF Taken, Ran
  <2>3. e.source \in Reachable(slice, results)
    BY <2>1, <2>2, EarlierIsReached
  <2>4. results = Rebuild(log)
    BY DEF SInv, GatedRight
  <2>5. Open(e, slice, results)
    BY <1>4, <1>5, <2>1, <2>2, <2>4, OpenIsTaken DEF SInv
  <2> QED
    BY <1>2, <1>3, <1>4, <2>3, <2>5 DEF StepFrom
<1> QED
  BY <1>6, <1>7

(* A step the walk finds is on a selected one, if the rows carry the edges. *)
LEMMA ReachedSelected ==
  ASSUME SInv, phase = "running", gating, whole \/ ~resumed,
         NEW n \in Group, n \in Reachable(slice, results)
  PROVE  Selected(n)
<1>1. n \in slice /\ n \in Step /\ n \in Node /\ stepOrder[n] <= Min(left)
  BY GroupFacts DEF Group, SInv, SType, Graph, Step, Node
<1>2. Into(slice, n) = EdgesInto(n)
  BY <1>1, IntoSlice
<1>3. StepFrom(Reachable(slice, results), slice, results, n)
  BY <1>1, ReachableStep DEF SInv, SType, Graph
<1>4. SUFFICES ASSUME NEW e \in EdgesInto(n), e.source \in Reachable(slice, results),
                      Open(e, slice, results)
               PROVE  Taken(e)
  BY <1>2, <1>3 DEF StepFrom, Selected
<1>5. CASE e.source = 0
  BY <1>5 DEF Taken
<1>6. CASE e.source # 0
  <2>1. e.source \in Step \ Undone
    BY <1>1, <1>6, SourcesFirst
  <2>2. e.source \in slice \/ whole
    BY <2>1 DEF SInv, Upwards
  <2>3. results = Rebuild(log) /\ Ran(e.source)
    BY <1>4, <2>1, <2>2 DEF SInv, GatedRight
  <2>4. e \in SavedIn(slice)
    BY <1>2 DEF Into
  <2> QED
    BY <1>4, <2>1, <2>3, <2>4, OpenIsTaken DEF SInv
<1> QED
  BY <1>5, <1>6

(* Where no edge is a branch, nothing has been skipped.                     *)
LEMMA NoneSkipped ==
  ASSUME SInv, \A e \in workflow.edges : e.handle \notin Branch
  PROVE  \A n \in Step : log[n] # "skipped"
<1> DEFINE Bad == {n \in Step : log[n] = "skipped"}
<1> SUFFICES ASSUME Bad # {} PROVE FALSE
  OBVIOUS
<1>1. PICK n \in Bad : \A m \in Bad : n <= m
  <2>1. Bad \in SUBSET Nat
    BY DEF Step
  <2> HIDE DEF Bad
  <2> QED
    BY <2>1, Least
<1>2. n \in Step /\ log[n] = "skipped" /\ ~Selected(n)
  BY DEF SInv, SkippedUnselected
<1>3. PICK e \in EdgesInto(n) : ~Taken(e)
  BY <1>2 DEF Selected
<1>4. /\ e \in workflow.edges /\ e.source \in Node /\ e.source < n
      /\ stepOrder[e.source] < stepOrder[n] /\ e.source # 0
  BY <1>3 DEF EdgesInto, SInv, SType, Graph, Drawable, Edge, Rises, Taken
<1>5. e.source \in Step /\ stepOrder[e.source] \in Int /\ stepOrder[n] \in Int
  BY <1>2, <1>4 DEF Step, Node, SInv, SType, Graph
<1>6. log[e.source] # "none"
  BY <1>2, <1>4, <1>5 DEF SInv, Upwards
<1>7. log[e.source] # "skipped"
  BY <1>1, <1>2, <1>4, <1>5 DEF Step
<1> QED
  BY <1>3, <1>4, <1>6, <1>7 DEF Taken, Unrun

(* A call that does not gate has no branch to respect.                      *)
LEMMA UngatedSelected ==
  ASSUME SInv, phase = "running", ~gating, whole \/ ~resumed, NEW n \in Group
  PROVE  Selected(n)
<1>1. n \in slice /\ n \in Step /\ stepOrder[n] <= Min(left)
  BY GroupFacts DEF Group, SInv, SType, Graph, Step, Node
<1>2. SavedIn(slice) = workflow.edges
  BY DEF SavedIn, SInv, SType, Graph, Drawable, Edge, Upwards
<1>3. CASE SavedIn(slice) = {}
  BY <1>2, <1>3 DEF Selected, EdgesInto
<1>4. CASE Conditionals(slice) = {}
  <2>1. \A e \in workflow.edges : e.handle \notin Branch
    BY <1>2, <1>4 DEF Conditionals
  <2>2. SUFFICES ASSUME NEW e \in EdgesInto(n) PROVE Taken(e)
    BY DEF Selected
  <2>3. e \in workflow.edges
    BY DEF EdgesInto
  <2>4. e.source # 0 => log[e.source] \notin Unrun
    BY <1>1, <2>1, SourcesFirst, NoneSkipped DEF Undone, Unrun
  <2> QED
    BY <2>1, <2>3, <2>4 DEF Taken
<1> QED
  BY <1>3, <1>4 DEF SInv, Ungated

(* What the log says after a group has run.                                 *)
LEMMA LogStep ==
  ASSUME SInv, phase = "running", NEW end \in Ends, Log(end)
  PROVE  /\ log' \in [Step -> Outcome \cup Unrun]
         /\ \A n \in Step : log'[n] = IF n \in Group THEN end[n] ELSE log[n]
         /\ \A n \in Step : log'[n] \in Outcomes(n) \cup Unrun
         /\ \A n \in Group : n \in Step /\ end[n] # "none"
         /\ \A n \in Group : end[n] \notin Unrun <=> (gating => n \in Reachable(slice, results))
         /\ \A n \in Group : end[n] \in Unrun \/ end[n] \in Outcomes(n)
<1>1. \A n \in Group : n \in Step
  BY DEF Group, SInv, SType
<1>2. \A n \in Group : IF (gating => n \in Reachable(slice, results)) THEN end[n] \in Outcomes(n)
                       ELSE end[n] = "skipped"
  BY DEF Ends
<1>3. \A n \in Group : end[n] \in Outcome \cup {"skipped"}
  BY DEF Ends
<1>4. \A n \in Step : log'[n] = IF n \in Group THEN end[n] ELSE log[n]
  BY DEF Log
<1>5. \A n \in Step : log[n] \in Outcomes(n) \cup Unrun /\ log[n] \in Outcome \cup Unrun
  BY DEF SInv, SType
<1>6. \A n \in Group : end[n] # "none" /\ (end[n] \in Unrun <=> end[n] = "skipped")
  BY <1>3 DEF Outcome, Unrun
<1>7. \A n \in Group : Outcomes(n) \cap Unrun = {}
  BY DEF Outcomes, Unrun
<1>8. \A n \in Group : end[n] \in Unrun \/ end[n] \in Outcomes(n)
  BY <1>2, <1>6
<1>9. \A n \in Group : end[n] \notin Unrun <=> (gating => n \in Reachable(slice, results))
  BY <1>2, <1>6, <1>7
<1>10. log' \in [Step -> Outcome \cup Unrun]
  BY <1>3, <1>5 DEF Log, Unrun
<1>11. \A n \in Step : log'[n] \in Outcomes(n) \cup Unrun
  BY <1>4, <1>5, <1>8
<1> QED
  BY <1>1, <1>4, <1>6, <1>8, <1>9, <1>10, <1>11

(* What is left to deal with, and in which order.                           *)
LEMMA GroupDone ==
  ASSUME SInv, phase = "running", NEW end \in Ends, Log(end)
  PROVE  /\ Undone' = {n \in Undone : stepOrder[n] # Min(left)}
         /\ Undone' = {n \in Step : stepOrder[n] > Min(left)}
         /\ \A m, n \in Step : log'[m] = "none" /\ log'[n] # "none" => stepOrder[n] < stepOrder[m]
         /\ left \ {Min(left)} = {stepOrder[n] : n \in Undone'}
<1>1. /\ Min(left) \in -1..N /\ Min(left) \in left
      /\ Group = {n \in Undone : stepOrder[n] = Min(left)}
      /\ \A n \in Undone : Min(left) <= stepOrder[n]
      /\ \A n \in Step \ Undone : stepOrder[n] < Min(left)
  BY GroupFacts
<1>2. \A n \in Step : log'[n] = "none" <=> n \in Undone /\ n \notin Group
  BY LogStep DEF Undone
<1>3. \A n \in Step : stepOrder[n] \in Int
  BY DEF SInv, SType, Graph, Step, Node
<1>4. Undone' = {n \in Undone : stepOrder[n] # Min(left)}
  BY <1>1, <1>2 DEF Undone
<1>5. \A n \in Undone : n \in Step
  BY DEF Undone
<1>6. \A n \in Step : n \in Undone /\ n \notin Group <=> stepOrder[n] > Min(left)
  BY <1>1, <1>3
<1>7. Undone' = {n \in Step : stepOrder[n] > Min(left)}
  BY <1>2, <1>6 DEF Undone
<1>8. \A m, n \in Step : log'[m] = "none" /\ log'[n] # "none" => stepOrder[n] < stepOrder[m]
  BY <1>1, <1>2, <1>3, <1>6
<1>9. left = {stepOrder[n] : n \in Undone}
  BY DEF SInv, Upwards
<1>10. left \ {Min(left)} = {stepOrder[n] : n \in Undone'}
  BY <1>4, <1>9
<1> QED
  BY <1>4, <1>7, <1>8, <1>10

(* A group that runs runs what is selected, and skips only what is not.     *)
LEMMA GroupSelects ==
  ASSUME SInv, phase = "running", NEW end \in Ends, Log(end)
  PROVE  SkippedUnselected' /\ OnlySelectedStepsRun'
<1>1. workflow' = workflow /\ whole' = whole /\ resumed' = resumed
  BY DEF Log, graph
<1>2. ASSUME NEW n \in Step, n \in Group \/ log[n] # "none"
      PROVE  Selected(n)' <=> Selected(n)
  <2>1. stepOrder[n] <= Min(left)
    <3>1. stepOrder[n] \in Int /\ Min(left) \in Int
      BY GroupFacts DEF SInv, SType, Graph, Step, Node
    <3>2. n \in Group \/ n \notin Undone
      BY <1>2 DEF Undone
    <3> QED
      BY <3>1, <3>2, GroupFacts
  <2>2. EdgesInto(n)' = EdgesInto(n)
    BY <1>1 DEF EdgesInto
  <2>3. ASSUME NEW e \in EdgesInto(n)
        PROVE  Taken(e)' <=> Taken(e)
    <3>1. CASE e.source = 0
      BY <3>1 DEF Taken
    <3>2. CASE e.source # 0
      <4>1. e.source \in Step /\ e.source \notin Group
        BY <2>1, <3>2, SourcesFirst, GroupFacts
      <4>2. log'[e.source] = log[e.source]
        BY <4>1, LogStep
      <4> QED
        BY <4>2 DEF Taken, Chosen
    <3> QED
      BY <3>1, <3>2
  <2> QED
    BY <2>2, <2>3 DEF Selected
<1>3. ASSUME NEW n \in Step, log'[n] = "skipped"
      PROVE  ~Selected(n)'
  <2>1. CASE n \in Group
    <3>1. gating /\ n \notin Reachable(slice, results)
      BY <1>3, <2>1, LogStep DEF Unrun
    <3> QED
      BY <1>2, <2>1, <3>1, UnreachedUnselected
  <2>2. CASE n \notin Group
    <3>1. log[n] = "skipped"
      BY <1>3, <2>2, LogStep
    <3> QED
      BY <1>2, <3>1 DEF SInv, SkippedUnselected
  <2> QED
    BY <2>1, <2>2
<1>4. ASSUME whole \/ ~resumed, NEW n \in Step, log'[n] \notin Unrun
      PROVE  Selected(n)'
  <2>1. CASE n \in Group
    <3>1. gating => n \in Reachable(slice, results)
      BY <1>4, <2>1, LogStep
    <3> QED
      BY <1>2, <1>4, <2>1, <3>1, ReachedSelected, UngatedSelected
  <2>2. CASE n \notin Group
    <3>1. log[n] \notin Unrun
      BY <1>4, <2>2, LogStep
    <3> QED
      BY <1>2, <1>4, <3>1 DEF SInv, OnlySelectedStepsRun, Unrun
  <2> QED
    BY <2>1, <2>2
<1>5. SkippedUnselected'
  BY <1>3 DEF SkippedUnselected
<1>6. OnlySelectedStepsRun'
  BY <1>1, <1>4 DEF OnlySelectedStepsRun
<1> QED
  BY <1>5, <1>6

(* The walk depends on the rows and on what is handed to it.                *)
Found(w, all, S, known) ==
  LET edges == IF all THEN w.edges ELSE {e \in w.edges : e.source \in S \/ e.target \in S}
      deciding == {e.source : e \in {f \in edges : f.handle \in Branch}}
                    \cup {n \in S : w.kind[n] = "condition"}
      follows(e) == \/ e.source \notin deciding
                    \/ known[e.source] = "unknown"
                    \/ e.handle \notin Branch
                    \/ e.handle = known[e.source]
      before(n) == {e \in edges : e.target = n}
      reach[n \in Node] ==
        \/ before(n) = {}
        \/ \E e \in before(n) : reach[e.source] /\ follows(e)
  IN  {n \in Node : reach[n]}

LEMMA ReachableKept ==
  ASSUME workflow' = workflow, whole' = whole
  PROVE  Reachable(slice, results)' = Reachable(slice', results')
<1>1. Reachable(slice, results)' = Found(workflow', whole', slice', results')
  BY Zenon DEF Reachable, SavedIn, Open, Conditionals, Found
<1>2. Reachable(slice', results') = Found(workflow, whole, slice', results')
  BY Zenon DEF Reachable, SavedIn, Open, Conditionals, Found
<1> QED
  BY <1>1, <1>2

(* A step that changes neither rows nor log rebuilds what was known.        *)
LEMMA RebuildKept ==
  ASSUME workflow' = workflow, log' = log
  PROVE  Rebuild(log)' = Rebuild(log)
BY DEF Rebuild

LEMMA SuspendKeeps ==
  ASSUME SInv, phase = "running", NEW end \in Ends, Log(end), Suspend(end)
  PROVE  SInv'
<1>1. SType'
  <2>1. \A n \in Step : Outcomes(n)' = Outcomes(n)
    BY DEF Log, graph, Outcomes
  <2>2. Min(left) \in -1..N
    BY GroupFacts
  <2> QED
    BY <2>1, <2>2, LogStep DEF SInv, SType, Log, Suspend, graph, Graph, Rises, Phase
<1>2. Upwards'
  <2>1. \A m, n \in Step : log'[m] = "none" /\ log'[n] # "none" => stepOrder'[n] < stepOrder'[m]
    BY GroupDone DEF Log, graph
  <2>2. Undone' = Remaining'
    <3>1. \A n \in Step : stepOrder[n] \in Int /\ Min(left) \in Int
      BY GroupFacts DEF SInv, SType, Graph, Step, Node
    <3> QED
      BY <3>1, GroupDone DEF Remaining, Log, graph
  <2>3. phase' = "suspended"
    BY DEF Suspend
  <2> QED
    BY <2>1, <2>2, <2>3 DEF Upwards
<1>3. GatedRight' /\ Ungated'
  BY DEF GatedRight, Ungated, Suspend
<1> QED
  BY <1>1, <1>2, <1>3, GroupSelects DEF SInv

LEMMA FailKeeps ==
  ASSUME SInv, phase = "running", NEW end \in Ends, Log(end), Fail(end)
  PROVE  SInv'
<1>1. SType'
  <2>1. \A n \in Step : Outcomes(n)' = Outcomes(n)
    BY DEF Log, graph, Outcomes
  <2>2. Min(left) \in -1..N
    BY GroupFacts
  <2> QED
    BY <2>1, <2>2, LogStep DEF SInv, SType, Log, Fail, graph, Graph, Rises, Phase
<1>2. Upwards'
  BY GroupDone DEF Upwards, Log, Fail, graph
<1>3. GatedRight' /\ Ungated'
  BY DEF GatedRight, Ungated, Fail
<1> QED
  BY <1>1, <1>2, <1>3, GroupSelects DEF SInv

(* The results kept in memory are those the log would give back.            *)
LEMMA ResultsFollow ==
  ASSUME SInv, phase = "running", gating, NEW end \in Ends, Log(end), Proceed(end)
  PROVE  results' = Rebuild(log)'
<1>1. results = Rebuild(log) /\ workflow' = workflow
  BY DEF SInv, GatedRight, Log, graph
<1>2. ASSUME NEW n \in Node
      PROVE  (IF n \in Group /\ end[n] \in Branch THEN end[n] ELSE Rebuild(log)[n])
               = (IF n = 0 \/ workflow.kind[n] # "condition" THEN "unknown"
                  ELSE IF log'[n] = "failed" THEN "false"
                  ELSE IF log'[n] \in Branch THEN log'[n] ELSE "unknown")
  <2>1. CASE n = 0
    BY <2>1, LogStep DEF Rebuild, Step
  <2>2. CASE n # 0 /\ n \notin Group
    <3>1. n \in Step
      BY <2>2 DEF Step, Node
    <3> QED
      BY <2>2, <3>1, LogStep DEF Rebuild
  <2>3. CASE n \in Group
    <3>1. n \in Step /\ n # 0 /\ log[n] = "none" /\ log'[n] = end[n]
      BY <2>3, LogStep, GroupFacts DEF Undone, Step
    <3>2. end[n] # "failed"
      BY <2>3 DEF Proceed, Ended
    <3>3. workflow.kind[n] # "condition" => end[n] \notin Branch
      BY <2>3, LogStep DEF Outcomes, Branch, Unrun
    <3> QED
      BY <2>3, <3>1, <3>2, <3>3 DEF Rebuild, Branch
  <2> QED
    BY <2>1, <2>2, <2>3
<1>3. results' = [n \in Node |-> IF n \in Group /\ end[n] \in Branch THEN end[n] ELSE Rebuild(log)[n]]
  BY <1>1 DEF Proceed
<1> QED
  BY <1>1, <1>2, <1>3 DEF Rebuild

LEMMA ProceedKeeps ==
  ASSUME SInv, phase = "running", NEW end \in Ends, Log(end), Proceed(end)
  PROVE  SInv'
<1>1. /\ workflow' = workflow /\ whole' = whole /\ stepOrder' = stepOrder /\ slice' = slice
      /\ gating' = gating /\ resumed' = resumed
  BY DEF Log, graph
<1>2. SType'
  <2>1. \A n \in Step : Outcomes(n)' = Outcomes(n)
    BY DEF Log, graph, Outcomes
  <2>2. Min(left) \in -1..N
    BY GroupFacts
  <2>3. results' \in [Node -> Branch \cup {"unknown"}]
    BY DEF Proceed, SInv, SType
  <2>4. phase' \in Phase /\ left' \subseteq left
    BY DEF Proceed, Phase
  <2> QED
    BY <1>1, <2>1, <2>2, <2>3, <2>4, LogStep DEF SInv, SType, Log, Graph, Rises
<1>3. Upwards'
  <2>1. \A m, n \in Step : log'[m] = "none" /\ log'[n] # "none" => stepOrder'[n] < stepOrder'[m]
    BY <1>1, GroupDone
  <2>2. left' = {stepOrder'[n] : n \in Undone'} /\ Undone' \subseteq Undone
    BY <1>1, GroupDone DEF Proceed
  <2>3. phase' = IF left' = {} THEN "completed" ELSE "running"
    BY DEF Proceed
  <2>4. left' = {} => Undone' = {}
    BY <2>2
  <2> QED
    BY <1>1, <2>1, <2>2, <2>3, <2>4 DEF Upwards, SInv
<1>4. GatedRight'
  <2> SUFFICES ASSUME gating PROVE results' = Rebuild(log)' /\
        \A n \in Step \ Undone' : n \in slice \/ whole => (Ran(n)' <=> n \in Reachable(slice, results)')
    BY <1>1 DEF GatedRight
  <2>1. results' = Rebuild(log)'
    BY ResultsFollow
  <2>2. \A n \in Node : stepOrder[n] <= Min(left) =>
          (n \in Reachable(slice, results) <=> n \in Reachable(slice, results'))
    <3>1. \A m \in Step : stepOrder[m] < Min(left) => results[m] = results'[m]
      BY GroupFacts DEF Group, Proceed, Step, Node, SInv, SType, Graph
    <3>2. Min(left) \in Int
      BY GroupFacts
    <3> QED
      BY <3>1, <3>2, SameBefore DEF SInv, SType
  <2>3. Reachable(slice, results)' = Reachable(slice, results')
    BY <1>1, ReachableKept
  <2>4. ASSUME NEW n \in Step \ Undone', n \in slice \/ whole
        PROVE  Ran(n)' <=> n \in Reachable(slice, results)
    <3>1. n \in Group \/ n \in Step \ Undone
      BY GroupDone, GroupFacts
    <3>2. CASE n \in Group
      BY <3>2, LogStep DEF Ran
    <3>3. CASE n \notin Group
      BY <2>4, <3>1, <3>3, LogStep DEF Ran, SInv, GatedRight
    <3> QED
      BY <3>2, <3>3
  <2>5. \A n \in Step \ Undone' : n \in Node /\ stepOrder[n] <= Min(left)
    BY GroupDone, GroupFacts DEF Step, Node, SInv, SType, Graph
  <2> QED
    BY <2>1, <2>2, <2>3, <2>4, <2>5
<1>5. Ungated'
  BY <1>1 DEF Ungated, SavedIn, Conditionals, SInv
<1> QED
  BY <1>2, <1>3, <1>4, <1>5, GroupSelects DEF SInv

-----------------------------------------------------------------------------
(* A call. *)

LEMMA EnterKeeps ==
  ASSUME SInv, NEW S \in SUBSET Step, S # {}, Enter(S), Undone \subseteq S,
         \A n \in S, m \in Step : stepOrder[n] <= stepOrder[m] => m \in S,
         \A n \in S : log[n] = "none",
         resumed' \in BOOLEAN, ~resumed' => S = Step, resumed => resumed'
  PROVE  SInv'
<1>1. /\ workflow' = workflow /\ whole' = whole /\ stepOrder' = stepOrder /\ slice' = S
      /\ phase' = "running" /\ log' = log /\ currentStep' = currentStep
      /\ left' = {stepOrder[n] : n \in S}
      /\ gating' = Gated(S, log)
      /\ results' = IF gating' THEN Rebuild(log) ELSE Unknown
  BY DEF Enter, graph
<1>2. Rebuild(log) \in [Node -> Branch \cup {"unknown"}] /\ Unknown \in [Node -> Branch \cup {"unknown"}]
  BY DEF Rebuild, Unknown, Branch
<1>3. SType'
  <2>1. \A n \in Step : Outcomes(n)' = Outcomes(n)
    BY <1>1 DEF Outcomes
  <2>2. gating' \in BOOLEAN
    BY <1>1 DEF Gated
  <2>3. Graph'
    BY <1>1 DEF SInv, SType, Graph, Rises
  <2>4. results' \in [Node -> Branch \cup {"unknown"}]
    BY <1>1, <1>2
  <2> QED
    BY <1>1, <2>1, <2>2, <2>3, <2>4 DEF SInv, SType, Phase
<1>4. Undone' = Undone /\ Undone = S
  <2>1. S \subseteq Undone
    BY DEF Undone
  <2>2. Undone' = Undone
    BY <1>1 DEF Undone
  <2> QED
    BY <2>1, <2>2
<1>5. Upwards'
  <2>1. left' # {}
    BY <1>1
  <2>2. \A m, n \in Step : log'[m] = "none" /\ log'[n] # "none" => stepOrder'[n] < stepOrder'[m]
    BY <1>1 DEF SInv, Upwards
  <2> QED
    BY <1>1, <1>4, <2>1, <2>2 DEF Upwards
<1>6. GatedRight'
  <2> SUFFICES ASSUME gating' PROVE results' = Rebuild(log)' /\
        \A n \in Step \ Undone' : n \in slice' \/ whole' => (Ran(n)' <=> n \in Reachable(slice, results)')
    BY DEF GatedRight
  <2>1. results' = Rebuild(log) /\ Rebuild(log)' = Rebuild(log)
    BY <1>1, RebuildKept
  <2>2. Reachable(slice, results)' = Reachable(S, Rebuild(log))
    BY <1>1, <2>1, ReachableKept
  <2>3. ASSUME NEW n \in Step \ Undone', n \in slice' \/ whole'
        PROVE  Ran(n)' <=> n \in Reachable(slice, results)'
    <3>1. whole /\ n \in Step \ Undone
      BY <1>1, <1>4, <2>3
    <3>2. Ran(n)' <=> Ran(n)
      BY <1>1 DEF Ran
    <3> QED
      BY <2>2, <3>1, <3>2, WholeWalk
  <2> QED
    BY <2>1, <2>3
<1>7. Ungated'
  <2> SUFFICES ASSUME ~gating' PROVE SavedIn(slice)' = {} \/ Conditionals(slice)' = {}
    BY DEF Ungated
  <2>1. SavedIn(S) = {} \/ Conditionals(S) = {}
    BY <1>1 DEF Gated
  <2> QED
    BY <1>1, <2>1 DEF SavedIn, Conditionals
<1>8. \A n \in Step : Selected(n)' <=> Selected(n)
  BY <1>1 DEF Selected, EdgesInto, Taken, Chosen
<1>9. SkippedUnselected' /\ OnlySelectedStepsRun'
  BY <1>1, <1>8 DEF SkippedUnselected, OnlySelectedStepsRun, SInv
<1> QED
  BY <1>3, <1>5, <1>6, <1>7, <1>9 DEF SInv

LEMMA StepsInt ==
  ASSUME SInv
  PROVE  /\ \A n \in Step : stepOrder[n] \in Int
         /\ currentStep \in Int
         /\ Step # {}
<1>1. 1 \in Step
  BY WorkflowsAssumption DEF Step
<1> QED
  BY <1>1 DEF SInv, SType, Graph, Step, Node

LEMMA BeginKeeps ==
  ASSUME SInv, Begin
  PROVE  SInv'
<1>1. Undone = Step /\ ~resumed /\ resumed' = resumed
  BY DEF Begin, SInv, Upwards
<1>2. \A n \in Step : log[n] = "none"
  BY <1>1 DEF Undone
<1> QED
  <2>1. Step \in SUBSET Step /\ Undone \subseteq Step /\ Step # {} /\ Enter(Step)
    BY <1>1, StepsInt DEF Begin
  <2>2. \A n \in Step, m \in Step : stepOrder[n] <= stepOrder[m] => m \in Step
    OBVIOUS
  <2>3. resumed' \in BOOLEAN /\ (~resumed' => Step = Step) /\ (resumed => resumed')
    BY <1>1 DEF SInv, SType
  <2> QED
    BY <1>2, <2>1, <2>2, <2>3, EnterKeeps

LEMMA ResumeKeeps ==
  ASSUME SInv, Resume
  PROVE  SInv'
<1>1. Undone = Remaining /\ Remaining \subseteq Step /\ Remaining # {}
  BY DEF Resume, SInv, Upwards, Remaining
<1>2. \A n \in Remaining : log[n] = "none"
  BY <1>1 DEF Undone
<1>3. \A n \in Remaining, m \in Step : stepOrder[n] <= stepOrder[m] => m \in Remaining
  BY StepsInt DEF Remaining
<1> QED
  BY <1>1, <1>2, <1>3, EnterKeeps DEF Resume

LEMMA ResumeAtEndKeeps ==
  ASSUME SInv, ResumeAtEnd
  PROVE  SInv'
<1>1. /\ workflow' = workflow /\ whole' = whole /\ stepOrder' = stepOrder /\ slice' = slice
      /\ left' = left /\ gating' = gating /\ results' = results
      /\ currentStep' = currentStep /\ log' = log /\ phase' = "completed" /\ resumed' = TRUE
  BY DEF ResumeAtEnd, graph
<1>2. SType'
  <2>1. \A n \in Step : Outcomes(n)' = Outcomes(n)
    BY <1>1 DEF Outcomes
  <2>2. Graph'
    BY <1>1 DEF SInv, SType, Graph, Rises
  <2> QED
    BY <1>1, <2>1, <2>2 DEF SInv, SType, Phase
<1>3. Upwards'
  <2>1. Undone' = {}
    BY <1>1 DEF ResumeAtEnd, SInv, Upwards, Undone
  <2>2. \A m, n \in Step : log'[m] = "none" /\ log'[n] # "none" => stepOrder'[n] < stepOrder'[m]
    BY <1>1 DEF SInv, Upwards
  <2> QED
    BY <1>1, <2>1, <2>2 DEF Upwards
<1>4. GatedRight' /\ Ungated'
  BY <1>1 DEF GatedRight, Ungated
<1>5. \A n \in Step : Selected(n)' <=> Selected(n)
  BY <1>1 DEF Selected, EdgesInto, Taken, Chosen
<1>6. SkippedUnselected' /\ OnlySelectedStepsRun'
  BY <1>1, <1>5 DEF SkippedUnselected, OnlySelectedStepsRun, SInv
<1> QED
  BY <1>2, <1>3, <1>4, <1>6 DEF SInv

LEMMA StutterKeeps ==
  ASSUME SInv, UNCHANGED vars
  PROVE  SInv'
<1>1. /\ workflow' = workflow /\ whole' = whole /\ stepOrder' = stepOrder /\ slice' = slice
      /\ left' = left /\ gating' = gating /\ results' = results
      /\ currentStep' = currentStep /\ log' = log /\ phase' = phase /\ resumed' = resumed
  BY DEF vars, graph
<1>2. SType'
  <2>1. \A n \in Step : Outcomes(n)' = Outcomes(n)
    BY <1>1 DEF Outcomes
  <2>2. Graph'
    BY <1>1 DEF SInv, SType, Graph, Rises
  <2> QED
    BY <1>1, <2>1, <2>2 DEF SInv, SType
<1>3. Undone' = Undone /\ Remaining' = Remaining
  BY <1>1 DEF Undone, Remaining
<1>4. Upwards'
  BY <1>1, <1>3 DEF Upwards, SInv
<1>5. Reachable(slice, results)' = Reachable(slice, results) /\ Rebuild(log)' = Rebuild(log)
  BY <1>1, ReachableKept, RebuildKept
<1>6. GatedRight'
  BY <1>1, <1>3, <1>5 DEF GatedRight, Ran, SInv
<1>7. Ungated'
  BY <1>1 DEF Ungated, SavedIn, Conditionals, SInv
<1>8. \A n \in Step : Selected(n)' <=> Selected(n)
  BY <1>1 DEF Selected, EdgesInto, Taken, Chosen
<1>9. SkippedUnselected' /\ OnlySelectedStepsRun'
  BY <1>1, <1>8 DEF SkippedUnselected, OnlySelectedStepsRun, SInv
<1> QED
  BY <1>2, <1>4, <1>6, <1>7, <1>9 DEF SInv

LEMMA InitInv ==
  ASSUME Init
  PROVE  SInv
<1>1. Drawable(workflow) /\ N \in Nat
  BY WorkflowsAssumption DEF Init
<1>2. Graph
  BY <1>1, LevelFacts DEF Init, Graph, Rises
<1>3. \A n \in Step : log[n] = "none"
  BY DEF Init
<1>4. SType
  <2>1. results \in [Node -> Branch \cup {"unknown"}]
    BY DEF Init, Unknown
  <2>2. log \in [Step -> Outcome \cup Unrun] /\ \A n \in Step : log[n] \in Outcomes(n) \cup Unrun
    BY <1>3 DEF Init, Unrun
  <2>3. slice = {} /\ left = {} /\ whole \in BOOLEAN /\ phase \in Phase
    BY DEF Init, Phase
  <2>4. gating = FALSE /\ resumed = FALSE
    BY DEF Init
  <2>5. currentStep \in -1..N
    BY <1>1 DEF Init
  <2> QED
    BY <1>2, <2>1, <2>2, <2>3, <2>4, <2>5 DEF SType
<1>5. Upwards
  BY <1>3 DEF Init, Upwards, Undone
<1>6. GatedRight /\ Ungated
  BY DEF Init, GatedRight, Ungated
<1>7. SkippedUnselected /\ OnlySelectedStepsRun
  BY <1>3 DEF SkippedUnselected, OnlySelectedStepsRun, Unrun
<1> QED
  BY <1>4, <1>5, <1>6, <1>7 DEF SInv

-----------------------------------------------------------------------------
(* For every number of steps and every set of workflows that can be drawn.  *)

LEMMA StepGroupsInv == Spec => []SInv
<1>1. Init => SInv
  BY InitInv
<1>2. SInv /\ [Next]_vars => SInv'
  <2> SUFFICES ASSUME SInv, [Next]_vars PROVE SInv'
    OBVIOUS
  <2>1. CASE Begin
    BY <2>1, BeginKeeps
  <2>2. CASE RunGroup
    <3>1. PICK end \in Ends : Log(end) /\ (Suspend(end) \/ Fail(end) \/ Proceed(end))
      BY <2>2 DEF RunGroup
    <3> QED
      BY <2>2, <3>1, SuspendKeeps, FailKeeps, ProceedKeeps DEF RunGroup
  <2>3. CASE Resume
    BY <2>3, ResumeKeeps
  <2>4. CASE ResumeAtEnd
    BY <2>4, ResumeAtEndKeeps
  <2>5. CASE UNCHANGED vars
    BY <2>5, StutterKeeps
  <2> QED
    BY <2>1, <2>2, <2>3, <2>4, <2>5 DEF Next
<1> QED
  BY <1>1, <1>2, PTL DEF Spec

(* Every variable stays in its range: what a canvas can hold, orders within *)
(* the number of steps, and groups left whenever the runner runs.           *)
THEOREM GroupTypesCorrect == Spec => []TypeOK
<1>1. SInv => TypeOK
  BY DEF SInv, SType, Upwards, TypeOK, Graph
<1> QED
  BY <1>1, StepGroupsInv, PTL

(* The gate of computeReachableNodeIds: a step of a branch no condition     *)
(* selected is never run, in the first call or, where the rows carry every  *)
(* edge, after any number of waits.                                         *)
THEOREM OnlySelectedCorrect == Spec => []OnlySelectedStepsRun
<1>1. SInv => OnlySelectedStepsRun
  BY DEF SInv
<1> QED
  BY <1>1, StepGroupsInv, PTL

(* No step of a selected path is skipped by the runner, nor left out of a   *)
(* run that is recorded as completed, wherever it waited in between.        *)
THEOREM NoSelectedLostCorrect == Spec => []NoSelectedStepIsLost
<1>1. SInv => NoSelectedStepIsLost
  BY DEF SInv, SkippedUnselected, Upwards, Undone, NoSelectedStepIsLost
<1> QED
  BY <1>1, StepGroupsInv, PTL

(* What a call of runStepGroups remembers of the conditions is what a       *)
(* resume would rebuild from the log.                                       *)
THEOREM ResultsMatchCorrect == Spec => []ResultsMatchLog
<1>1. SInv => ResultsMatchLog
  BY DEF SInv, GatedRight, ResultsMatchLog
<1> QED
  BY <1>1, StepGroupsInv, PTL

(* A failed step has a step that waits in its group, or ended the run.      *)
Covered(f) == \E d \in Step : stepOrder[d] = stepOrder[f] /\ log[d] = "suspended"
FailedLast ==
  \A f \in Step : log[f] = "failed" =>
    \/ Covered(f)
    \/ phase = "failed" /\ \A n \in Step : stepOrder[n] > stepOrder[f] => log[n] = "none"

LEMMA CoveredKept ==
  ASSUME stepOrder' = stepOrder, log' = log, phase' = phase \/ phase # "failed", FailedLast
  PROVE  FailedLast'
BY DEF FailedLast, Covered

LEMMA GroupFailedLast ==
  ASSUME SInv, FailedLast, RunGroup
  PROVE  FailedLast'
<1>1. PICK end \in Ends : Log(end) /\ (Suspend(end) \/ Fail(end) \/ Proceed(end))
  BY DEF RunGroup
<1>2. phase = "running" /\ stepOrder' = stepOrder
  BY <1>1 DEF RunGroup, Log, graph
<1>3. \A n \in Step : log'[n] = IF n \in Group THEN end[n] ELSE log[n]
  BY <1>1, <1>2, LogStep
<1>4. Group = {n \in Undone : stepOrder[n] = Min(left)}
  BY <1>2, GroupFacts
<1>5. SUFFICES ASSUME NEW f \in Step, log'[f] = "failed"
               PROVE  \/ Covered(f)'
                      \/ phase' = "failed" /\ \A n \in Step : stepOrder[n] > stepOrder[f] => log'[n] = "none"
  BY <1>2 DEF FailedLast
<1>6. CASE f \notin Group
  <2>1. log[f] = "failed"
    BY <1>3, <1>5, <1>6
  <2>2. PICK d \in Step : stepOrder[d] = stepOrder[f] /\ log[d] = "suspended"
    BY <1>2, <2>1 DEF FailedLast, Covered
  <2>3. log'[d] = "suspended"
    BY <1>3, <1>4, <2>2 DEF Undone
  <2> QED
    BY <1>2, <2>2, <2>3 DEF Covered
<1>7. CASE f \in Group
  <2>1. end[f] = "failed" /\ stepOrder[f] = Min(left)
    BY <1>3, <1>4, <1>5, <1>7
  <2>2. CASE Suspend(end)
    <3>1. PICK d \in Group : end[d] = "suspended"
      BY <2>2 DEF Suspend, Ended
    <3>2. d \in Step /\ stepOrder[d] = stepOrder[f]
      BY <1>4, <2>1, <3>1 DEF Undone
    <3> QED
      BY <1>2, <1>3, <3>1, <3>2 DEF Covered
  <2>3. CASE Fail(end)
    <3>1. \A n \in Step : stepOrder[n] > stepOrder[f] => n \in Undone'
      BY <1>1, <1>2, <2>1, GroupDone
    <3> QED
      BY <2>3, <3>1 DEF Fail, Undone
  <2>4. CASE Proceed(end)
    BY <1>7, <2>1, <2>4 DEF Proceed, Ended
  <2> QED
    BY <1>1, <2>2, <2>3, <2>4
<1> QED
  BY <1>6, <1>7

(* Only a step that waits in the same group lets a run continue past a      *)
(* failed step; otherwise nothing of a later group is run.                  *)
THEOREM FailureStopsCorrect == Spec => []FailureStopsLaterGroups
<1>1. Init => FailedLast
  BY DEF Init, FailedLast
<1>2. SInv /\ FailedLast /\ [Next]_vars => FailedLast'
  <2>1. ASSUME FailedLast, Begin \/ Resume \/ ResumeAtEnd \/ UNCHANGED vars
        PROVE  FailedLast'
    <3>1. stepOrder' = stepOrder /\ log' = log /\ (phase' = phase \/ phase # "failed")
      BY <2>1 DEF Begin, Resume, ResumeAtEnd, Enter, graph, vars
    <3> QED
      BY <2>1, <3>1, CoveredKept
  <2> QED
    BY <2>1, GroupFailedLast DEF Next
<1>3. SInv /\ FailedLast => FailureStopsLaterGroups
  BY DEF FailedLast, Covered, FailureStopsLaterGroups
<1> QED
  BY <1>1, <1>2, <1>3, StepGroupsInv, PTL DEF Spec
=============================================================================
