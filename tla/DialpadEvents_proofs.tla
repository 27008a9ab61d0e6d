------------------------ MODULE DialpadEvents_proofs ------------------------
(***************************************************************************)
(* Proofs about the Dialpad event queue, for any number of events, of      *)
(* processes (webs and one-shot workers), of attempts and of slots, and    *)
(* through any number of errors, wedged handlers, crashes and expired      *)
(* stamps: a call is logged once, and a slot is never free beside a        *)
(* waiting job.                                                            *)
(*                                                                         *)
(* pump() is called from many places; PumpOK says once what it makes of a  *)
(* queue and of the jobs, whatever they are.  The invariant JInv adds to   *)
(* the properties that a queue holds exactly the waiting jobs of its       *)
(* process, each once, and that who merges has found an activity.          *)
(***************************************************************************)
EXTENDS DialpadEvents, FiniteSetTheorems, SequenceTheorems, NaturalsInduction, TLAPS

-----------------------------------------------------------------------------
(* Lemmas about the operators. *)

LEMMA LeastNatural ==
  ASSUME NEW T \in SUBSET Nat, T # {}
  PROVE  \E m \in T : \A n \in T : m <= n
<1>1. PICK m \in T : \A n \in T : <<n, m>> \notin OpToRel(<, Nat)
  BY WFMin, NatLessThanWellFounded, Zenon
<1>2. \A n \in T : ~(n < m)
  BY <1>1, Zenon DEF OpToRel
<1> QED
  BY <1>2

LEMMA MinOfTwo ==
  ASSUME NEW a \in Nat, NEW b \in Nat
  PROVE  Min({a, b}) \in Nat /\ Min({a, b}) = IF a <= b THEN a ELSE b
<1>1. \E x \in {a, b} : \A y \in {a, b} : x =< y
  OBVIOUS
<1>2. Min({a, b}) \in {a, b} /\ \A y \in {a, b} : Min({a, b}) =< y
  BY <1>1 DEF Min
<1> QED
  BY <1>2

LEMMA MinOfSlots ==
  ASSUME NEW T \in SUBSET Nat, T # {}
  PROVE  Min(T) \in T
BY LeastNatural DEF Min

LEMMA FiniteJobs == IsFiniteSet(Event) /\ IsFiniteSet(Job) /\ Event \subseteq Nat
<1>1. IsFiniteSet(Event) /\ IsFiniteSet(1..Copies)
  BY ConstantsAssumption, FS_Interval DEF Event
<1>2. IsFiniteSet(Event \X (1..Copies))
  BY <1>1, FS_Product
<1>3. Event \subseteq Nat
  BY ConstantsAssumption DEF Event
<1> QED
  BY <1>1, <1>2, <1>3 DEF Job

(* Every place up to the size of a set of numbers is taken by one of them.  *)
LEMMA NextAbove ==
  ASSUME NEW s, \A y \in s : y \in Nat, NEW x \in s,
         NEW m \in s, m > x, \A n \in s : n > x => m <= n
  PROVE  {y \in s : y < m} = {y \in s : y < x} \cup {x}
OBVIOUS

LEMMA TopOf ==
  ASSUME NEW s, \A y \in s : y \in Nat, NEW x \in s, \A y \in s : ~(y > x)
  PROVE  s = {y \in s : y < x} \cup {x} /\ x \notin {y \in s : y < x}
OBVIOUS

LEMMA RankExists ==
  ASSUME NEW s, \A y \in s : y \in Nat, IsFiniteSet(s), NEW i \in 1..Cardinality(s)
  PROVE  \E x \in s : Cardinality({y \in s : y < x}) = i - 1
<1> DEFINE Below(z) == {y \in s : y < z}
           Bad == {k \in 1..Cardinality(s) : \A x \in s : Cardinality(Below(x)) # k - 1}
<1>1. Cardinality(s) \in Nat
  BY FS_CardinalityType
<1>2. \A x \in s : IsFiniteSet(Below(x)) /\ Cardinality(Below(x)) \in Nat
  BY FS_Subset, FS_CardinalityType
<1>3. SUFFICES ASSUME Bad # {}
               PROVE  FALSE
  OBVIOUS
<1>4. Bad \subseteq Nat /\ \A k \in Bad : k \in 1..Cardinality(s) /\ \A x \in s : Cardinality(Below(x)) # k - 1
  BY <1>1
<1>5. \A k \in 1..Cardinality(s) : k \in Bad \/ \E x \in s : Cardinality(Below(x)) = k - 1
  OBVIOUS
<1> HIDE DEF Bad
<1>6. PICK k \in Bad : \A n \in Bad : k <= n
  BY <1>3, <1>4, LeastNatural
<1>7. CASE k = 1
  <2>1. s # {}
    BY <1>1, <1>4, <1>6, FS_EmptySet
  <2>2. PICK m \in s : \A n \in s : m <= n
    BY <2>1, LeastNatural
  <2>3. Below(m) = {}
    <3>1. \A y \in s : ~(y < m)
      BY <2>2
    <3> QED
      BY <3>1
  <2> QED
    BY <1>4, <1>6, <1>7, <2>3, FS_EmptySet
<1>8. CASE k # 1
  <2>1. k - 1 \in 1..Cardinality(s) /\ k - 1 \notin Bad
    BY <1>1, <1>4, <1>6, <1>8
  <2>2. PICK x \in s : Cardinality(Below(x)) = (k - 1) - 1
    BY <1>5, <2>1
  <2>3. x \notin Below(x)
    OBVIOUS
  <2>4. Cardinality(Below(x) \cup {x}) = k - 1
    <3>1. Cardinality(Below(x) \cup {x}) = Cardinality(Below(x)) + 1
      BY <1>2, <2>3, FS_AddElement
    <3>2. k \in Nat
      BY <1>4, <1>6
    <3> QED
      BY <2>2, <3>1, <3>2
  <2>5. \E m \in s : m > x
    <3>1. SUFFICES ASSUME \A m \in s : ~(m > x)
                   PROVE  FALSE
      OBVIOUS
    <3>2. s = Below(x) \cup {x}
      BY <3>1, TopOf
    <3>3. Cardinality(s) = k - 1
      BY <2>4, <3>2
    <3> QED
      BY <1>1, <1>4, <1>6, <3>3
  <2>6. PICK m \in {n \in s : n > x} : \A o \in {n \in s : n > x} : m <= o
    <3>1. {n \in s : n > x} \in SUBSET Nat /\ {n \in s : n > x} # {}
      BY <2>5
    <3> QED
      BY <3>1, LeastNatural
  <2>7. m \in s /\ m > x /\ \A n \in s : n > x => m <= n
    BY <2>6
  <2>8. Below(m) = Below(x) \cup {x}
    BY <2>7, NextAbove
  <2> QED
    BY <1>4, <1>6, <2>4, <2>7, <2>8
<1> QED
  BY <1>7, <1>8

(* What the poller enqueues: each row it read, once. *)
LEMMA AscendingOK ==
  ASSUME NEW s \in SUBSET Event
  PROVE  /\ Ascending(s) \in Seq(Event)
         /\ Len(Ascending(s)) = Cardinality(s) /\ Cardinality(s) \in Nat
         /\ \A i, k \in 1..Cardinality(s) : Ascending(s)[i] = Ascending(s)[k] => i = k
<1>1. Cardinality(s) \in Nat /\ IsFiniteSet(s) /\ \A y \in s : y \in Nat
  BY FiniteJobs, FS_Subset, FS_CardinalityType
<1> DEFINE n == Cardinality(s)
           At(i) == CHOOSE x \in s : Cardinality({y \in s : y < x}) = i - 1
<1>2. \A i \in 1..n : At(i) \in s /\ Cardinality({y \in s : y < At(i)}) = i - 1
  BY <1>1, RankExists
<1>3. Ascending(s) = [i \in 1..n |-> At(i)]
  BY DEF Ascending
<1> HIDE DEF n, At
<1>4. \A i, k \in 1..n : At(i) = At(k) => i = k
  <2>1. SUFFICES ASSUME NEW i \in 1..n, NEW k \in 1..n, At(i) = At(k)
                 PROVE  i = k
    OBVIOUS
  <2>2. i - 1 = k - 1
    BY <1>2, <2>1
  <2> QED
    BY <2>2
<1>5. n \in Nat
  BY <1>1 DEF n
<1>6. \A i \in 1..n : At(i) \in Event
  BY <1>2
<1>7. Ascending(s) \in Seq(Event) /\ Len(Ascending(s)) = n
  BY <1>3, <1>5, <1>6
<1>8. \A i \in 1..n : Ascending(s)[i] = At(i)
  BY <1>3
<1> QED
  BY <1>4, <1>5, <1>7, <1>8 DEF n

-----------------------------------------------------------------------------
(* The queue: what pump() makes of it. *)

Distinct(q) == \A i, k \in 1..Len(q) : q[i] = q[k] => i = k
Elements(q) == {q[i] : i \in 1..Len(q)}

(* The queue holds the waiting jobs of its process, each once. *)
Waits(p, q, jobs) ==
  /\ q \in Seq(Job) /\ Distinct(q)
  /\ Elements(q) = {j \in Of(p, jobs) : jobs[j].pc = "queued"}

Slots(p, q, jobs) ==
  /\ Cardinality(RunningOn(p, jobs)) <= Concurrency
  /\ q # <<>> => Cardinality(RunningOn(p, jobs)) = Concurrency

LEMMA RunningFinite ==
  ASSUME NEW p, NEW jobs
  PROVE  IsFiniteSet(RunningOn(p, jobs)) /\ Cardinality(RunningOn(p, jobs)) \in Nat
<1>1. RunningOn(p, jobs) \subseteq Job
  BY DEF RunningOn, Of
<1> QED
  BY <1>1, FiniteJobs, FS_Subset, FS_CardinalityType

(* The first n of a queue are n. *)
LEMMA FirstOfQueue ==
  ASSUME NEW q, Distinct(q), Len(q) \in Nat, NEW n \in Nat, n <= Len(q)
  PROVE  IsFiniteSet({q[i] : i \in 1..n}) /\ Cardinality({q[i] : i \in 1..n}) = n
<1> DEFINE F == {q[i] : i \in 1..n}
           f == [i \in 1..n |-> q[i]]
<1>1. f \in Bijection(1..n, F)
  <2>1. f \in [1..n -> F] /\ \A y \in F : \E i \in 1..n : f[i] = y
    OBVIOUS
  <2>2. \A i, k \in 1..n : f[i] = f[k] => i = k
    BY DEF Distinct
  <2> QED
    BY <2>1, <2>2 DEF Bijection, Injection, Surjection, IsInjective
<1>2. IsFiniteSet(1..n) /\ Cardinality(1..n) = n
  BY FS_Interval
<1> QED
  BY <1>1, <1>2, FS_Bijection DEF ExistsBijection

LEMMA PumpOK ==
  ASSUME NEW p \in Process, NEW q, NEW jobs \in [Job -> JobState], NEW stamps,
         Waits(p, q, jobs), Cardinality(RunningOn(p, jobs)) <= Concurrency,
         queue \in [Process -> Seq(Job)], Pump(p, q, jobs, stamps)
  PROVE  /\ job' \in [Job -> JobState]
         /\ \A j \in Job : \/ job'[j] = jobs[j]
                           \/ /\ jobs[j].host = p /\ jobs[j].pc = "queued"
                              /\ job'[j] = [jobs[j] EXCEPT !.pc = "looking"]
         /\ queue' \in [Process -> Seq(Job)]
         /\ Waits(p, queue'[p], job') /\ Slots(p, queue'[p], job')
         /\ \A o \in Process \ {p} : queue'[o] = queue[o]
<1> DEFINE r == Cardinality(RunningOn(p, jobs))
           free == Concurrency - r
           n == Min({free, Len(q)})
           started == {q[i] : i \in 1..n}
           rest == SubSeq(q, n + 1, Len(q))
<1>1. Len(q) \in Nat /\ r \in Nat /\ free \in Nat /\ Concurrency \in Nat
  BY RunningFinite, ConstantsAssumption DEF Waits
<1>2. n \in Nat /\ n <= Len(q) /\ n <= free /\ (n = free \/ n = Len(q))
  BY <1>1, MinOfTwo
<1>3. /\ queue' = [queue EXCEPT ![p] = rest]
      /\ job' = [j \in Job |-> IF j \in started THEN [jobs[j] EXCEPT !.pc = "looking"] ELSE jobs[j]]
  BY DEF Pump
<1> HIDE DEF r, free, n
<1>4. started \subseteq {j \in Of(p, jobs) : jobs[j].pc = "queued"}
  BY <1>1, <1>2 DEF Waits, Elements
<1>5. rest # <<>> => n = free
  <2>1. SUFFICES ASSUME n = Len(q)
                 PROVE  rest = <<>>
    BY <1>2
  <2>2. n + 1 \in Int /\ Len(q) \in Int /\ Len(q) < n + 1
    BY <1>1, <1>2, <2>1
  <2> QED
    BY <2>2, SubSeqEmpty
<1>6. IsFiniteSet(started) /\ Cardinality(started) = n
  BY <1>1, <1>2, FirstOfQueue DEF Waits
<1>7. /\ rest \in Seq(Job) /\ Len(rest) = Len(q) - n
      /\ \A i \in 1..Len(rest) : rest[i] = q[n + i]
  <2> DEFINE m == n + 1
             l == Len(q)
  <2>1. m \in Int /\ l \in Int /\ \A i \in m..l : q[i] \in Job
    BY <1>1, <1>2 DEF Waits
  <2>2. rest = SubSeq(q, m, l)
    OBVIOUS
  <2>3. (l - m) + 1 = l - n /\ (IF m <= l THEN (l - m) + 1 ELSE 0) = l - n
    BY <1>1, <1>2
  <2>4. \A i \in 1..(l - n) : (m + i) - 1 = n + i
    BY <1>1, <1>2
  <2> HIDE DEF m, l
  <2>5. /\ SubSeq(q, m, l) \in Seq(Job)
        /\ Len(SubSeq(q, m, l)) = IF m <= l THEN (l - m) + 1 ELSE 0
        /\ \A i \in 1..((l - m) + 1) : SubSeq(q, m, l)[i] = q[(m + i) - 1]
    BY <2>1, SubSeqProperties
  <2>6. Len(rest) = l - n /\ rest \in Seq(Job)
    BY <2>2, <2>3, <2>5
  <2>7. \A i \in 1..(l - n) : rest[i] = q[n + i]
    BY <2>2, <2>3, <2>4, <2>5
  <2> QED
    BY <2>6, <2>7 DEF l
<1> HIDE DEF rest, started
<1>8. /\ job' \in [Job -> JobState]
      /\ \A j \in Job : \/ j \notin started /\ job'[j] = jobs[j]
                        \/ /\ j \in started /\ jobs[j].host = p /\ jobs[j].pc = "queued"
                           /\ job'[j] = [jobs[j] EXCEPT !.pc = "looking"]
  BY <1>3, <1>4 DEF JobState, Running, Of
<1>9. \A j \in Job : job'[j].host = jobs[j].host
  BY <1>8 DEF JobState
<1>10. RunningOn(p, job') = RunningOn(p, jobs) \cup started /\ RunningOn(p, jobs) \cap started = {}
  BY <1>4, <1>8, <1>9 DEF RunningOn, Of, Running, JobState
<1>11. Cardinality(RunningOn(p, job')) = r + n
  <2>1. /\ Cardinality(RunningOn(p, jobs) \cap started) = 0
        /\ Cardinality(RunningOn(p, jobs) \cup started)
             = r + n - Cardinality(RunningOn(p, jobs) \cap started)
    BY <1>6, <1>10, RunningFinite, FS_Union, FS_EmptySet DEF r
  <2> QED
    BY <1>1, <1>2, <1>10, <2>1
<1>12. queue' \in [Process -> Seq(Job)] /\ queue'[p] = rest
       /\ \A o \in Process \ {p} : queue'[o] = queue[o]
  BY <1>3, <1>7
<1>13. Slots(p, rest, job')
  BY <1>1, <1>2, <1>5, <1>11 DEF Slots, r, free
<1>14. Waits(p, rest, job')
  <2>1. Distinct(rest)
    BY <1>1, <1>2, <1>5, <1>7 DEF Distinct, Waits
  <2>2. Elements(q) = started \cup Elements(rest) /\ started \cap Elements(rest) = {}
    <3>1. \A i \in 1..Len(q) : i \in 1..n \/ \E k \in 1..Len(rest) : i = n + k
      <4>1. \A i \in 1..Len(q) : i \in 1..n \/ (i - n \in 1..Len(rest) /\ i = n + (i - n))
        BY <1>1, <1>2, <1>7
      <4> QED
        BY <4>1
    <3>2. \A k \in 1..Len(rest) : n + k \in 1..Len(q) /\ n + k \notin 1..n
      BY <1>1, <1>2, <1>7
    <3>3. \A i \in 1..n : i \in 1..Len(q)
      BY <1>1, <1>2
    <3>4. Elements(q) \subseteq started \cup Elements(rest)
      BY <3>1, <1>7 DEF Elements, started
    <3>5. started \cup Elements(rest) \subseteq Elements(q)
      BY <3>2, <3>3, <1>7 DEF Elements, started
    <3>6. started \cap Elements(rest) = {}
      <4>1. SUFFICES ASSUME NEW i \in 1..n, NEW k \in 1..Len(rest), q[i] = rest[k]
                     PROVE  FALSE
        BY DEF started, Elements
      <4>2. i \in 1..Len(q) /\ n + k \in 1..Len(q) /\ q[i] = q[n + k]
        BY <1>7, <3>2, <3>3, <4>1
      <4>3. i = n + k
        BY <4>2 DEF Waits, Distinct
      <4> QED
        BY <3>2, <4>3
    <3> QED
      BY <3>4, <3>5, <3>6
  <2>3. Elements(rest) = {j \in Of(p, job') : job'[j].pc = "queued"}
    <3>1. \A j \in Job : jobs[j].pc = "queued" /\ jobs[j].host = p <=> j \in Elements(q)
      BY DEF Waits, Of
    <3>2. \A j \in Job : j \in started => job'[j].pc = "looking"
      BY <1>8 DEF JobState
    <3>3. \A j \in Job : j \in Elements(rest) <=> job'[j].pc = "queued" /\ job'[j].host = p
      BY <1>8, <1>9, <2>2, <3>1, <3>2
    <3>4. Elements(rest) \subseteq Job
      BY <1>7 DEF Elements
    <3> QED
      BY <3>3, <3>4 DEF Of
  <2> QED
    BY <1>7, <2>1, <2>3 DEF Waits
<1> QED
  BY <1>8, <1>12, <1>13, <1>14
-----------------------------------------------------------------------------
(* The invariant. *)

JTypes ==
  /\ job \in [Job -> JobState] /\ queue \in [Process -> Seq(Job)]
  /\ received \subseteq Event /\ arriving \subseteq Process \X Event
  /\ scanned \in [Process -> SUBSET Event]
  /\ meta \in [Call -> SUBSET Event] /\ copies \in [Call -> Nat]

Hosted(jobs) == \A j \in Job : jobs[j].pc # "idle" => jobs[j].host \in Process

QueueInv == \A p \in Process : Waits(p, queue[p], job) /\ Slots(p, queue[p], job)

(* Who merges has found an activity, and activities stay. *)
Found == \A j \in Job : job[j].pc = "merging" => meta[CallOf[EventOf(j)]] # {}

JInv == JTypes /\ QueueInv /\ Hosted(job) /\ Found /\ CallLoggedOnce

LEMMA Jobs == \A j \in Job : EventOf(j) \in Event /\ CallOf[EventOf(j)] \in Call
BY DEF Job, EventOf, Call

(* A change of jobs that is not seen in the queue or the slots of p. *)
SameFor(p, jobs, jobs2) ==
  \A j \in Job : /\ (jobs[j].host = p /\ jobs[j].pc = "queued") <=> (jobs2[j].host = p /\ jobs2[j].pc = "queued")
                 /\ (jobs[j].host = p /\ jobs[j].pc \in Running) <=> (jobs2[j].host = p /\ jobs2[j].pc \in Running)

LEMMA SameQueue ==
  ASSUME NEW p, NEW q, NEW jobs, NEW jobs2, SameFor(p, jobs, jobs2),
         Waits(p, q, jobs) /\ Slots(p, q, jobs)
  PROVE  Waits(p, q, jobs2) /\ Slots(p, q, jobs2)
<1>1. /\ RunningOn(p, jobs) = RunningOn(p, jobs2)
      /\ {j \in Of(p, jobs) : jobs[j].pc = "queued"} = {j \in Of(p, jobs2) : jobs2[j].pc = "queued"}
  BY DEF SameFor, RunningOn, Of
<1> QED
  BY <1>1 DEF Waits, Slots

(* A step of p that ends in pump(): the other processes do not see it. *)
LEMMA PumpStep ==
  ASSUME JTypes, QueueInv, NEW p \in Process, NEW q, NEW jobs \in [Job -> JobState], NEW stamps,
         Waits(p, q, jobs), Cardinality(RunningOn(p, jobs)) <= Concurrency,
         Pump(p, q, jobs, stamps), Hosted(jobs),
         \A j \in Job : \/ jobs[j] = job[j]
                        \/ /\ jobs[j].host \in {p, "none"}
                           /\ job[j].host = p \/ job[j].pc = "idle"
  PROVE  /\ job' \in [Job -> JobState] /\ queue' \in [Process -> Seq(Job)] /\ QueueInv' /\ Hosted(job')
         /\ \A j \in Job : job'[j].pc = "merging" => job'[j] = jobs[j]
<1>1. /\ job' \in [Job -> JobState]
      /\ \A j \in Job : \/ job'[j] = jobs[j]
                        \/ /\ jobs[j].host = p /\ jobs[j].pc = "queued"
                           /\ job'[j] = [jobs[j] EXCEPT !.pc = "looking"]
      /\ queue' \in [Process -> Seq(Job)]
      /\ Waits(p, queue'[p], job') /\ Slots(p, queue'[p], job')
      /\ \A o \in Process \ {p} : queue'[o] = queue[o]
  BY PumpOK DEF JTypes
<1>2. ASSUME NEW o \in Process \ {p}
      PROVE  Waits(o, queue'[o], job') /\ Slots(o, queue'[o], job')
  <2>1. "none" # o
    BY ConstantsAssumption
  <2>2. SameFor(o, job, job')
    BY <1>1, <2>1 DEF SameFor, JTypes, JobState, Running
  <2> QED
    BY <1>1, <2>2, SameQueue DEF QueueInv
<1>3. ASSUME NEW j \in Job
      PROVE  /\ job'[j].pc # "idle" => job'[j].host \in Process
             /\ job'[j].pc = "merging" => job'[j] = jobs[j]
  <2>1. CASE job'[j] = jobs[j]
    BY <2>1 DEF Hosted
  <2>2. CASE jobs[j].host = p /\ job'[j] = [jobs[j] EXCEPT !.pc = "looking"]
    <3>1. job'[j].pc = "looking" /\ job'[j].host = p
      BY <2>2 DEF JobState
    <3> QED
      BY <3>1
  <2> QED
    BY <1>1, <2>1, <2>2
<1> QED
  BY <1>1, <1>2, <1>3 DEF QueueInv, Hosted

(* A running job goes on to another await. *)
LEMMA GoesOn ==
  ASSUME JTypes, QueueInv, Hosted(job), NEW j \in Job, NEW r \in JobState,
         job[j].pc \in Running, r.pc \in Running, r.host = job[j].host,
         job' = [job EXCEPT ![j] = r], UNCHANGED queue
  PROVE  job' \in [Job -> JobState] /\ queue' \in [Process -> Seq(Job)] /\ QueueInv' /\ Hosted(job')
<1>1. job' \in [Job -> JobState] /\ job'[j] = r /\ \A k \in Job \ {j} : job'[k] = job[k]
  BY DEF JTypes
<1>2. \A p \in Process : SameFor(p, job, job')
  BY <1>1 DEF SameFor, Running
<1>3. Hosted(job')
  BY <1>1 DEF Hosted, Running
<1> QED
  BY <1>1, <1>2, <1>3, SameQueue DEF QueueInv, JTypes

(* A running job leaves its slot. *)
LEMMA LeaveOK ==
  ASSUME JTypes, QueueInv, Hosted(job), NEW j \in Job, NEW next \in JobState, NEW stamp,
         job[j].pc \in Running, \/ next.pc = "backoff" /\ next.host = job[j].host
                                \/ next.pc = "idle" /\ next.host = "none",
         Leave(j, next, stamp)
  PROVE  /\ job' \in [Job -> JobState] /\ queue' \in [Process -> Seq(Job)] /\ QueueInv' /\ Hosted(job')
         /\ \A k \in Job : job'[k].pc = "merging" => job'[k] = job[k]
<1> DEFINE p == job[j].host
           jobs == [job EXCEPT ![j] = next]
<1>1. jobs \in [Job -> JobState] /\ jobs[j] = next /\ \A k \in Job \ {j} : jobs[k] = job[k]
  BY DEF JTypes
<1>2. Pump(p, queue[p], jobs, [inFlight[p] EXCEPT ![EventOf(j)] = stamp]) /\ p \in Process
  BY DEF Leave, Hosted, Running
<1> HIDE DEF jobs
<1>3. RunningOn(p, jobs) \subseteq RunningOn(p, job)
  BY <1>1 DEF RunningOn, Of, Running
<1>4. Cardinality(RunningOn(p, jobs)) <= Concurrency
  <2>1. Cardinality(RunningOn(p, jobs)) <= Cardinality(RunningOn(p, job))
    BY <1>3, RunningFinite, FS_Subset
  <2> QED
    BY <1>2, <2>1, RunningFinite, ConstantsAssumption DEF QueueInv, Slots
<1>5. Waits(p, queue[p], jobs)
  <2>1. {k \in Of(p, job) : job[k].pc = "queued"} = {k \in Of(p, jobs) : jobs[k].pc = "queued"}
    BY <1>1 DEF Of, Running
  <2> QED
    BY <1>2, <2>1 DEF QueueInv, Waits
<1>6. \A k \in Job : jobs[k] = job[k] \/ (jobs[k].host \in {p, "none"} /\ job[k].host = p)
  BY <1>1
<1>7. Hosted(jobs)
  BY <1>1, <1>2 DEF Hosted
<1>8. /\ job' \in [Job -> JobState] /\ queue' \in [Process -> Seq(Job)] /\ QueueInv' /\ Hosted(job')
      /\ \A k \in Job : job'[k].pc = "merging" => job'[k] = jobs[k]
  BY <1>1, <1>2, <1>4, <1>5, <1>6, <1>7, PumpStep
<1> QED
  BY <1>1, <1>8

(* Jobs join the queue. *)
LEMMA JoinOK ==
  ASSUME JTypes, QueueInv, Hosted(job), NEW p \in Process, NEW new \in Seq(Job), Distinct(new),
         NEW jobs \in [Job -> JobState], NEW stamps,
         \A j \in Elements(new) : /\ job[j].pc = "idle" \/ (job[j].pc = "backoff" /\ job[j].host = p)
                                  /\ jobs[j].pc = "queued" /\ jobs[j].host = p,
         \A j \in Job \ Elements(new) : jobs[j] = job[j],
         Pump(p, queue[p] \o new, jobs, stamps)
  PROVE  /\ job' \in [Job -> JobState] /\ queue' \in [Process -> Seq(Job)] /\ QueueInv' /\ Hosted(job')
         /\ \A k \in Job : job'[k].pc = "merging" => job'[k] = job[k]
<1> DEFINE q == queue[p]
           s == q \o new
<1>1. q \in Seq(Job) /\ Distinct(q) /\ Elements(q) = {j \in Of(p, job) : job[j].pc = "queued"}
  BY DEF QueueInv, Waits
<1>2. /\ s \in Seq(Job) /\ Len(s) = Len(q) + Len(new) /\ Len(q) \in Nat /\ Len(new) \in Nat
      /\ \A i \in 1..Len(q) : s[i] = q[i]
      /\ \A i \in 1..Len(new) : s[Len(q) + i] = new[i]
  <2>1. Len(q) \in Nat /\ Len(new) \in Nat
    BY <1>1
  <2>2. /\ s \in Seq(Job) /\ Len(s) = Len(q) + Len(new)
        /\ \A i \in 1..(Len(q) + Len(new)) : s[i] = IF i <= Len(q) THEN q[i] ELSE new[i - Len(q)]
    BY <1>1, ConcatProperties
  <2> HIDE DEF s, q
  <2>3. \A i \in 1..Len(q) : s[i] = q[i]
    BY <2>1, <2>2
  <2>4. \A i \in 1..Len(new) : s[Len(q) + i] = new[i]
    <3>1. \A i \in 1..Len(new) : /\ Len(q) + i \in 1..(Len(q) + Len(new)) /\ ~(Len(q) + i <= Len(q))
                                 /\ (Len(q) + i) - Len(q) = i
      BY <2>1
    <3> QED
      BY <2>2, <3>1
  <2> QED
    BY <2>1, <2>2, <2>3, <2>4
<1> HIDE DEF s, q
<1>3. \A i \in 1..Len(s) : i \in 1..Len(q) \/ \E k \in 1..Len(new) : i = Len(q) + k
  <2>1. \A i \in 1..Len(s) : i \in 1..Len(q) \/ (i - Len(q) \in 1..Len(new) /\ i = Len(q) + (i - Len(q)))
    BY <1>2
  <2> QED
    BY <2>1
<1>4. \A i \in 1..Len(new) : Len(q) + i \in 1..Len(s)
  BY <1>2
<1>5. \A i \in 1..Len(q) : i \in 1..Len(s)
  BY <1>2
<1>6. Elements(s) = Elements(q) \cup Elements(new)
  <2>1. ASSUME NEW i \in 1..Len(s)
        PROVE  s[i] \in Elements(q) \cup Elements(new)
    <3>1. CASE i \in 1..Len(q)
      BY <1>2, <3>1 DEF Elements
    <3>2. CASE \E k \in 1..Len(new) : i = Len(q) + k
      BY <1>2, <3>2 DEF Elements
    <3> QED
      BY <1>3, <3>1, <3>2
  <2>2. ASSUME NEW i \in 1..Len(q)
        PROVE  q[i] \in Elements(s)
    <3>1. i \in 1..Len(s) /\ s[i] = q[i]
      BY <1>2, <1>5
    <3> QED
      BY <3>1 DEF Elements
  <2>3. ASSUME NEW i \in 1..Len(new)
        PROVE  new[i] \in Elements(s)
    <3>1. Len(q) + i \in 1..Len(s) /\ s[Len(q) + i] = new[i]
      BY <1>2, <1>4
    <3> QED
      BY <3>1 DEF Elements
  <2>4. Elements(s) \subseteq Elements(q) \cup Elements(new)
    <3>1. \A x \in Elements(s) : \E i \in 1..Len(s) : x = s[i]
      BY DEF Elements
    <3> QED
      BY <2>1, <3>1
  <2>5. Elements(q) \subseteq Elements(s) /\ Elements(new) \subseteq Elements(s)
    BY <2>2, <2>3 DEF Elements
  <2> QED
    BY <2>4, <2>5
<1>7. Elements(q) \cap Elements(new) = {} /\ Elements(new) \subseteq Job
  BY <1>1 DEF Elements, Of
<1>8. Distinct(s)
  <2>1. SUFFICES ASSUME NEW i \in 1..Len(s), NEW k \in 1..Len(s), s[i] = s[k]
                 PROVE  i = k
    BY DEF Distinct
  <2>2. CASE i \in 1..Len(q) /\ k \in 1..Len(q)
    BY <1>1, <1>2, <2>1, <2>2 DEF Distinct
  <2>3. ASSUME NEW a \in 1..Len(new), NEW b \in 1..Len(new), i = Len(q) + a, k = Len(q) + b
        PROVE  i = k
    <3>1. new[a] = new[b]
      BY <1>2, <2>1, <2>3
    <3>2. a = b
      BY <3>1 DEF Distinct
    <3> QED
      BY <2>3, <3>2
  <2>4. ASSUME NEW a \in 1..Len(q), NEW b \in 1..Len(new)
        PROVE  q[a] # new[b] /\ s[a] # s[Len(q) + b]
    <3>1. q[a] \in Elements(q) /\ new[b] \in Elements(new)
      BY DEF Elements
    <3>2. q[a] # new[b]
      BY <1>7, <3>1
    <3> QED
      BY <1>2, <3>2
  <2>5. CASE i \in 1..Len(q) /\ ~(k \in 1..Len(q))
    BY <1>3, <2>1, <2>4, <2>5
  <2>6. CASE ~(i \in 1..Len(q)) /\ k \in 1..Len(q)
    BY <1>3, <2>1, <2>4, <2>6
  <2>7. CASE ~(i \in 1..Len(q)) /\ ~(k \in 1..Len(q))
    BY <1>3, <2>3, <2>7
  <2> QED
    BY <2>2, <2>5, <2>6, <2>7
<1>9. Waits(p, s, jobs)
  <2>1. Elements(s) = {j \in Of(p, jobs) : jobs[j].pc = "queued"}
    BY <1>1, <1>6, <1>7 DEF Of
  <2> QED
    BY <1>2, <1>8, <2>1 DEF Waits
<1>10. RunningOn(p, jobs) = RunningOn(p, job)
  BY <1>7 DEF RunningOn, Of, Running
<1>11. Cardinality(RunningOn(p, jobs)) <= Concurrency
  BY <1>10 DEF QueueInv, Slots
<1>12. Hosted(jobs)
  BY <1>7 DEF Hosted
<1>13. \A j \in Job : \/ jobs[j] = job[j]
                      \/ /\ jobs[j].host \in {p, "none"}
                         /\ job[j].host = p \/ job[j].pc = "idle"
  OBVIOUS
<1>14. /\ job' \in [Job -> JobState] /\ queue' \in [Process -> Seq(Job)] /\ QueueInv' /\ Hosted(job')
       /\ \A k \in Job : job'[k].pc = "merging" => job'[k] = jobs[k]
  BY <1>9, <1>11, <1>12, <1>13, PumpStep DEF s, q
<1>15. \A j \in Elements(new) : jobs[j].pc # "merging"
  OBVIOUS
<1> QED
  BY <1>14, <1>15

-----------------------------------------------------------------------------
(* The steps that end in pump(), or that end a handler's await. *)

(* What every step that changes the jobs owes the invariant. *)
JobsOK ==
  /\ job' \in [Job -> JobState] /\ queue' \in [Process -> Seq(Job)] /\ QueueInv' /\ Hosted(job')

LEMMA RetryJob ==
  ASSUME NEW r \in JobState, NEW a \in 0..MaxAttempts
  PROVE  LET s == [r EXCEPT !.pc = "backoff", !.attempt = a, !.seen = {}]
         IN s \in JobState /\ s.pc = "backoff" /\ s.host = r.host
BY DEF JobState

(* An await throws: back to the timer, or off to the write of failed_at. *)
LEMMA ThrowOK ==
  ASSUME JTypes, QueueInv, Hosted(job), NEW j \in Job, job[j].pc \in Running, Throw(j)
  PROVE  JobsOK /\ \A k \in Job : job'[k].pc = "merging" => job'[k] = job[k]
<1>1. job[j] \in JobState /\ MaxAttempts \in Nat
  BY ConstantsAssumption DEF JTypes
<1>2. CASE job[j].attempt < MaxAttempts
  <2> DEFINE r == [job[j] EXCEPT !.pc = "backoff", !.attempt = @ + 1, !.seen = {}]
  <2>1. r \in JobState /\ r.pc = "backoff" /\ r.host = job[j].host
    <3>1. job[j].attempt + 1 \in 0..MaxAttempts
      BY <1>1, <1>2 DEF JobState
    <3> QED
      BY <1>1, <3>1, RetryJob
  <2>2. Leave(j, r, "fresh")
    BY <1>2 DEF Throw
  <2> HIDE DEF r
  <2> QED
    BY <2>1, <2>2, LeaveOK DEF JobsOK
<1>3. CASE ~(job[j].attempt < MaxAttempts)
  <2> DEFINE r == [job[j] EXCEPT !.pc = "failing", !.seen = {}]
  <2>1. r \in JobState /\ r.pc = "failing" /\ r.host = job[j].host
    BY <1>1 DEF JobState, Running
  <2>2. job' = [job EXCEPT ![j] = r] /\ UNCHANGED queue
    BY <1>1, <1>3 DEF Throw, JTypes, JobState
  <2> HIDE DEF r
  <2>3. JobsOK
    BY <2>1, <2>2, GoesOn DEF JobsOK, Running
  <2>4. \A k \in Job : job'[k].pc = "merging" => job'[k] = job[k]
    BY <2>1, <2>2 DEF JTypes
  <2> QED
    BY <2>3, <2>4
<1> QED
  BY <1>2, <1>3

(* Each event enqueued gets a job of its own. *)
LEMMA EnqueueOK ==
  ASSUME JTypes, QueueInv, Hosted(job), NEW p \in Process, NEW es \in Seq(Event),
         Distinct(es), Enqueue(p, es)
  PROVE  JobsOK /\ \A k \in Job : job'[k].pc = "merging" => job'[k] = job[k]
<1> DEFINE new == [i \in DOMAIN es |-> <<es[i], Min(Idle(es[i]))>>]
           fresh == [NoJob EXCEPT !.pc = "queued", !.host = p, !.attempt = 1]
           jobs == [j \in Job |-> IF j \in Range(new) THEN fresh ELSE job[j]]
           stamps == [e \in Event |-> IF e \in Range(es) THEN "fresh" ELSE inFlight[p][e]]
<1>1. DOMAIN es = 1..Len(es) /\ Len(es) \in Nat /\ \A i \in 1..Len(es) : es[i] \in Event
  OBVIOUS
<1>2. /\ \A i \in 1..Len(es) : Idle(es[i]) # {}
      /\ Pump(p, queue[p] \o new, jobs, stamps)
  BY <1>1 DEF Enqueue
<1>3. \A i \in 1..Len(es) : Min(Idle(es[i])) \in 1..Copies /\ job[<<es[i], Min(Idle(es[i]))>>].pc = "idle"
  <2>1. SUFFICES ASSUME NEW i \in 1..Len(es)
                 PROVE  Min(Idle(es[i])) \in Idle(es[i])
    BY DEF Idle
  <2>2. Idle(es[i]) \in SUBSET Nat
    BY ConstantsAssumption DEF Idle
  <2> QED
    BY <1>2, <2>2, MinOfSlots
<1>4. \A i \in 1..Len(es) : new[i] = <<es[i], Min(Idle(es[i]))>> /\ new[i] \in Job /\ job[new[i]].pc = "idle"
  BY <1>1, <1>3 DEF Job
<1>5. new = [i \in 1..Len(es) |-> new[i]]
  BY <1>1
<1>6. \A i, k \in 1..Len(es) : new[i] = new[k] => i = k
  BY <1>4 DEF Distinct
<1>7. DOMAIN new = 1..Len(es)
  BY <1>1
<1>8. fresh \in JobState /\ fresh.pc = "queued" /\ fresh.host = p
  <2>1. 1 \in 0..MaxAttempts
    BY ConstantsAssumption
  <2> QED
    BY <2>1 DEF JobState, NoJob
<1> HIDE DEF new, fresh, stamps
<1>9. new \in Seq(Job) /\ Len(new) = Len(es)
  BY <1>1, <1>4, <1>5
<1>10. Distinct(new)
  BY <1>6, <1>9 DEF Distinct
<1>11. Range(new) = Elements(new)
  BY <1>7, <1>9 DEF Range, Elements
<1>12. \A j \in Elements(new) : j \in Job /\ job[j].pc = "idle"
  BY <1>4, <1>9 DEF Elements
<1>13. jobs \in [Job -> JobState]
  BY <1>8 DEF JTypes
<1>14. /\ \A j \in Elements(new) : jobs[j].pc = "queued" /\ jobs[j].host = p
       /\ \A j \in Job \ Elements(new) : jobs[j] = job[j]
  BY <1>8, <1>11, <1>12
<1> HIDE DEF jobs
<1>15. /\ job' \in [Job -> JobState] /\ queue' \in [Process -> Seq(Job)] /\ QueueInv' /\ Hosted(job')
       /\ \A k \in Job : job'[k].pc = "merging" => job'[k] = job[k]
  <2>1. \A j \in Elements(new) : /\ job[j].pc = "idle" \/ (job[j].pc = "backoff" /\ job[j].host = p)
                                 /\ jobs[j].pc = "queued" /\ jobs[j].host = p
    BY <1>12, <1>14
  <2>2. \A j \in Job \ Elements(new) : jobs[j] = job[j]
    BY <1>14
  <2>3. Pump(p, queue[p] \o new, jobs, stamps)
    BY <1>2
  <2> QED
    BY <1>9, <1>10, <1>13, <2>1, <2>2, <2>3, JoinOK
<1> QED
  BY <1>15 DEF JobsOK

(* The timer of a job fires. *)
LEMMA BackoffEndsOK ==
  ASSUME JTypes, QueueInv, Hosted(job), NEW j \in Job, BackoffEnds(j)
  PROVE  JobsOK /\ \A k \in Job : job'[k].pc = "merging" => job'[k] = job[k]
<1>0. PICK p \in Process : p = job[j].host
  BY DEF BackoffEnds, Hosted
<1> DEFINE r == [job[j] EXCEPT !.pc = "queued"]
           jobs == [job EXCEPT ![j].pc = "queued"]
           new == <<j>>
           stamps == inFlight[p]
<1>1. job[j].pc = "backoff" /\ job[j].host = p /\ job[j] \in JobState
  BY <1>0 DEF BackoffEnds, JTypes
<1>2. r \in JobState /\ r.pc = "queued" /\ r.host = p
  BY <1>1 DEF JobState
<1>3. jobs \in [Job -> JobState] /\ jobs[j] = r /\ \A k \in Job \ {j} : jobs[k] = job[k]
  BY <1>2 DEF JTypes
<1>4. Append(queue[p], j) = queue[p] \o new
  BY <1>1, AppendIsConcat DEF JTypes
<1>5. Pump(p, Append(queue[p], j), jobs, stamps)
  BY <1>1 DEF BackoffEnds
<1>6. Pump(p, queue[p] \o new, jobs, stamps)
  BY <1>4, <1>5
<1>7. new \in Seq(Job) /\ Len(new) = 1 /\ new[1] = j
  OBVIOUS
<1>8. Distinct(new) /\ Elements(new) = {j}
  BY <1>7 DEF Distinct, Elements
<1> HIDE DEF jobs, new, r, stamps
<1>9. /\ job' \in [Job -> JobState] /\ queue' \in [Process -> Seq(Job)] /\ QueueInv' /\ Hosted(job')
      /\ \A k \in Job : job'[k].pc = "merging" => job'[k] = job[k]
  <2>1. \A k \in Elements(new) : /\ job[k].pc = "idle" \/ (job[k].pc = "backoff" /\ job[k].host = p)
                                 /\ jobs[k].pc = "queued" /\ jobs[k].host = p
    BY <1>1, <1>2, <1>3, <1>8
  <2>2. \A k \in Job \ Elements(new) : jobs[k] = job[k]
    BY <1>3, <1>8
  <2>3. jobs \in [Job -> JobState] /\ new \in Seq(Job) /\ Distinct(new) /\ p \in Process
    BY <1>0, <1>3, <1>7, <1>8
  <2> QED
    BY <1>6, <2>1, <2>2, <2>3, JoinOK
<1> QED
  BY <1>9 DEF JobsOK

(* A process ends, crashed or done. *)
LEMMA LoseOK ==
  ASSUME JTypes, QueueInv, Hosted(job), NEW p \in Process, Lose(p)
  PROVE  /\ JobsOK /\ arriving' \subseteq Process \X Event /\ scanned' \in [Process -> SUBSET Event]
         /\ \A k \in Job : job'[k].pc = "merging" => job'[k] = job[k]
<1>1. NoJob \in JobState /\ NoJob.pc = "idle" /\ NoJob.host = "none" /\ "none" # p
  BY ConstantsAssumption DEF NoJob, JobState
<1>2. /\ job' = [j \in Job |-> IF job[j].host = p THEN NoJob ELSE job[j]]
      /\ queue' = [queue EXCEPT ![p] = <<>>]
  BY DEF Lose
<1> HIDE DEF NoJob
<1>3. /\ job' \in [Job -> JobState]
      /\ \A j \in Job : job[j].host = p => job'[j].pc = "idle" /\ job'[j].host = "none"
      /\ \A j \in Job : job[j].host # p => job'[j] = job[j]
  BY <1>1, <1>2 DEF JTypes
<1>4. /\ queue' \in [Process -> Seq(Job)] /\ queue'[p] = <<>>
      /\ \A o \in Process \ {p} : queue'[o] = queue[o]
  BY <1>2 DEF JTypes
<1>5. Of(p, job') = {}
  BY <1>1, <1>3 DEF Of
<1>6. Waits(p, queue'[p], job') /\ Slots(p, queue'[p], job')
  <2>1. RunningOn(p, job') = {} /\ Cardinality({}) = 0 /\ 0 <= Concurrency
    BY <1>5, FS_EmptySet, ConstantsAssumption DEF RunningOn
  <2>2. <<>> \in Seq(Job) /\ Distinct(<<>>) /\ Elements(<<>>) = {}
    BY DEF Distinct, Elements
  <2> QED
    BY <1>4, <1>5, <2>1, <2>2 DEF Waits, Slots
<1>7. ASSUME NEW o \in Process \ {p}
      PROVE  Waits(o, queue'[o], job') /\ Slots(o, queue'[o], job')
  <2>1. "none" # o
    BY ConstantsAssumption
  <2>2. SameFor(o, job, job')
    BY <1>3, <2>1 DEF SameFor
  <2> QED
    BY <1>4, <2>2, SameQueue DEF QueueInv
<1>8. Hosted(job') /\ \A k \in Job : job'[k].pc = "merging" => job'[k] = job[k]
  BY <1>3 DEF Hosted
<1>9. arriving' \subseteq Process \X Event /\ scanned' \in [Process -> SUBSET Event]
  BY DEF Lose, JTypes
<1> QED
  BY <1>3, <1>4, <1>6, <1>7, <1>8, <1>9 DEF JobsOK, QueueInv

-----------------------------------------------------------------------------
(* The steps. *)

SameMerging == \A k \in Job : job'[k].pc = "merging" => job'[k] = job[k]

RowsOK ==
  /\ received' \subseteq Event /\ arriving' \subseteq Process \X Event
  /\ scanned' \in [Process -> SUBSET Event]

(* A step that leaves the activities alone and starts no merge. *)
LEMMA Elsewhere ==
  ASSUME JInv, JobsOK, SameMerging, RowsOK, UNCHANGED <<meta, copies>>
  PROVE  JInv'
BY DEF JInv, JTypes, JobsOK, SameMerging, RowsOK, Found, CallLoggedOnce

LEMMA RowStays == ASSUME JInv, UNCHANGED <<received, arriving, scanned>> PROVE RowsOK
BY DEF JInv, JTypes, RowsOK

(* A step that does not touch jobs or queues. *)
LEMMA JobsStay == ASSUME JInv, UNCHANGED <<job, queue>> PROVE JobsOK /\ SameMerging
BY DEF JInv, JTypes, JobsOK, SameMerging, QueueInv, Hosted

LEMMA InsertOK == ASSUME JInv, NEW p \in Process, Insert(p) PROVE JInv'
<1>1. RowsOK
  BY DEF Insert, JInv, JTypes, RowsOK, pollVars
<1>2. UNCHANGED <<job, queue, meta, copies>>
  BY DEF Insert
<1> QED
  BY <1>1, <1>2, JobsStay, Elsewhere

LEMMA AcceptOK == ASSUME JInv, NEW p \in Process, Accept(p) PROVE JInv'
<1>1. PICK e \in Event : /\ <<p, e>> \in arriving
                         /\ arriving' = arriving \ {<<p, e>>}
                         /\ Enqueue(p, <<e>>)
                         /\ UNCHANGED <<rowVars, scanned, faults>>
  BY DEF Accept
<1>2. <<e>> \in Seq(Event) /\ Distinct(<<e>>)
  BY DEF Distinct
<1>3. JobsOK /\ SameMerging
  BY <1>1, <1>2, EnqueueOK DEF JInv, SameMerging
<1>4. RowsOK /\ UNCHANGED <<meta, copies>>
  BY <1>1 DEF JInv, JTypes, RowsOK, rowVars
<1> QED
  BY <1>3, <1>4, Elsewhere

LEMMA PollReadOK == ASSUME JInv, NEW p \in Process, PollRead(p) PROVE JInv'
<1>1. RowsOK
  BY DEF PollRead, JInv, JTypes, RowsOK, Unprocessed, rowVars, memVars
<1>2. UNCHANGED <<job, queue, meta, copies>>
  BY DEF PollRead, rowVars, memVars
<1> QED
  BY <1>1, <1>2, JobsStay, Elsewhere

LEMMA PollEnqueueOK == ASSUME JInv, NEW p \in Process, PollEnqueue(p) PROVE JInv'
<1> DEFINE s == {e \in scanned[p] : ~Busy(p, e)}
           es == Ascending(s)
<1>1. s \in SUBSET Event
  BY DEF JInv, JTypes
<1>2. Enqueue(p, es) /\ scanned' = [scanned EXCEPT ![p] = {}] /\ UNCHANGED <<rowVars, arriving>>
  BY DEF PollEnqueue
<1> HIDE DEF s
<1>3. /\ es \in Seq(Event) /\ Len(es) = Cardinality(s)
      /\ \A i, k \in 1..Cardinality(s) : es[i] = es[k] => i = k
  BY <1>1, AscendingOK
<1> HIDE DEF es
<1>4. Distinct(es)
  BY <1>3 DEF Distinct
<1>5. JobsOK /\ SameMerging
  BY <1>2, <1>3, <1>4, EnqueueOK DEF JInv, SameMerging
<1>6. RowsOK /\ UNCHANGED <<meta, copies>>
  BY <1>2 DEF JInv, JTypes, RowsOK, rowVars
<1> QED
  BY <1>5, <1>6, Elsewhere

LEMMA LookOK == ASSUME JInv, NEW j \in Job, Look(j) PROVE JInv'
<1> DEFINE c == CallOf[EventOf(j)]
           r == [job[j] EXCEPT !.pc = "recording"]
           i == [job[j] EXCEPT !.pc = "inserting"]
           m == [job[j] EXCEPT !.pc = "merging", !.seen = meta[c]]
<1>1. /\ job[j] \in JobState /\ job[j].pc = "looking" /\ meta[c] \in SUBSET Event
      /\ UNCHANGED <<received, arriving, scanned, meta, copies, queue>>
  BY Jobs DEF Look, JInv, JTypes, rowVars, pollVars
<1>2. \/ job' = [job EXCEPT ![j] = r]
      \/ job' = [job EXCEPT ![j] = i]
      \/ job' = [job EXCEPT ![j] = m] /\ meta[c] # {}
  BY <1>1 DEF Look, JInv, JTypes, JobState
<1>3. /\ r \in JobState /\ r.pc = "recording" /\ r.host = job[j].host
      /\ i \in JobState /\ i.pc = "inserting" /\ i.host = job[j].host
      /\ m \in JobState /\ m.pc = "merging" /\ m.host = job[j].host
  BY <1>1 DEF JobState, Running
<1> HIDE DEF r, i, m
<1>4. JobsOK
  BY <1>1, <1>2, <1>3, GoesOn DEF JobsOK, JInv, Running
<1>5. \A k \in Job : job'[k].pc = "merging" => meta[CallOf[EventOf(k)]] # {}
  BY <1>2, <1>3 DEF JInv, JTypes, Found
<1> QED
  BY <1>1, <1>4, <1>5 DEF JInv, JTypes, JobsOK, Found, CallLoggedOnce

LEMMA MergeOK == ASSUME JInv, NEW j \in Job, Merge(j) PROVE JInv'
<1> DEFINE c == CallOf[EventOf(j)]
           r == [job[j] EXCEPT !.pc = "recording", !.seen = {}]
<1>1. /\ job[j] \in JobState /\ job[j].pc = "merging" /\ meta[c] # {} /\ c \in Call
      /\ UNCHANGED <<received, arriving, scanned, copies, queue>>
  BY Jobs DEF Merge, JInv, JTypes, Found, pollVars
<1>2. job' = [job EXCEPT ![j] = r]
  BY <1>1 DEF Merge, JInv, JTypes, JobState
<1>3. r \in JobState /\ r.pc = "recording" /\ r.host = job[j].host
  BY <1>1 DEF JobState, Running
<1> HIDE DEF r
<1>4. JobsOK
  BY <1>1, <1>2, <1>3, GoesOn DEF JobsOK, JInv, Running
<1>5. SameMerging
  BY <1>2, <1>3 DEF JInv, JTypes, SameMerging
<1>6. meta' \in [Call -> SUBSET Event] /\ \A d \in Call : meta'[d] # {} <=> meta[d] # {}
  <2>1. job[j].seen \cup {EventOf(j)} \in SUBSET Event
    BY <1>1, Jobs DEF JobState
  <2>2. meta' = [meta EXCEPT ![c] = job[j].seen \cup {EventOf(j)}]
    BY DEF Merge
  <2> QED
    BY <1>1, <2>1, <2>2 DEF JInv, JTypes
<1> QED
  <2>1. Found'
    BY <1>5, <1>6, Jobs DEF JInv, Found, SameMerging
  <2>2. CallLoggedOnce'
    BY <1>1, <1>6 DEF JInv, CallLoggedOnce
  <2>3. JTypes'
    BY <1>1, <1>4, <1>6 DEF JInv, JTypes, JobsOK
  <2> QED
    BY <1>4, <2>1, <2>2, <2>3 DEF JInv, JobsOK

LEMMA CreateOK == ASSUME JInv, NEW j \in Job, Create(j) PROVE JInv'
<1> DEFINE c == CallOf[EventOf(j)]
           r == [job[j] EXCEPT !.pc = "recording"]
<1>1. /\ job[j] \in JobState /\ job[j].pc = "inserting" /\ c \in Call
      /\ UNCHANGED <<received, arriving, scanned>>
  BY Jobs DEF Create, JInv, JTypes, pollVars
<1>2. CASE Insertable(c)
  <2>1. /\ job' = [job EXCEPT ![j] = r] /\ UNCHANGED queue
        /\ meta' = [meta EXCEPT ![c] = {EventOf(j)}] /\ copies' = [copies EXCEPT ![c] = @ + 1]
    BY <1>1, <1>2 DEF Create, JInv, JTypes, JobState
  <2>2. r \in JobState /\ r.pc = "recording" /\ r.host = job[j].host
    BY <1>1 DEF JobState, Running
  <2> HIDE DEF r
  <2>3. JobsOK
    BY <1>1, <2>1, <2>2, GoesOn DEF JobsOK, JInv, Running
  <2>4. SameMerging
    BY <2>1, <2>2 DEF JInv, JTypes, SameMerging
  <2>5. /\ meta' \in [Call -> SUBSET Event] /\ copies' \in [Call -> Nat]
        /\ meta'[c] # {} /\ copies'[c] = 1
        /\ \A d \in Call \ {c} : meta'[d] = meta[d] /\ copies'[d] = copies[d]
    <3>1. EventOf(j) \in Event /\ copies[c] = 0
      BY <1>2, Jobs DEF Insertable
    <3>2. meta' \in [Call -> SUBSET Event] /\ meta'[c] = {EventOf(j)} /\ \A d \in Call \ {c} : meta'[d] = meta[d]
      BY <1>1, <2>1, <3>1 DEF JInv, JTypes
    <3>3. copies' \in [Call -> Nat] /\ copies'[c] = 0 + 1 /\ \A d \in Call \ {c} : copies'[d] = copies[d]
      BY <1>1, <2>1, <3>1 DEF JInv, JTypes
    <3> QED
      BY <3>1, <3>2, <3>3
  <2>6. Found'
    BY <2>4, <2>5, Jobs DEF JInv, Found, SameMerging
  <2>7. CallLoggedOnce'
    BY <2>5 DEF JInv, CallLoggedOnce
  <2> QED
    BY <1>1, <2>3, <2>5, <2>6, <2>7 DEF JInv, JTypes, JobsOK
<1>3. CASE ~Insertable(c)
  <2>1. Throw(j) /\ UNCHANGED <<meta, copies>>
    BY <1>1, <1>3 DEF Create
  <2>2. JobsOK /\ SameMerging
    BY <1>1, <2>1, ThrowOK DEF JInv, Running, SameMerging
  <2> QED
    BY <1>1, <2>1, <2>2, RowStays, Elsewhere
<1> QED
  BY <1>2, <1>3

(* Record, MarkFailed, MarkFailedError: the job is done. *)
LEMMA DoneOK ==
  ASSUME JInv, NEW j \in Job, job[j].pc \in Running, Leave(j, NoJob, "none"),
         UNCHANGED <<received, arriving, scanned, meta, copies>>
  PROVE  JInv'
<1>1. NoJob \in JobState /\ NoJob.pc = "idle" /\ NoJob.host = "none"
  <2>1. 0 \in 0..MaxAttempts
    BY ConstantsAssumption
  <2> QED
    BY <2>1 DEF NoJob, JobState
<1> HIDE DEF NoJob
<1>2. JobsOK /\ SameMerging
  BY <1>1, LeaveOK DEF JInv, JobsOK, SameMerging
<1> QED
  BY <1>2, RowStays, Elsewhere

LEMMA WedgeOK == ASSUME JInv, NEW j \in Job, Wedge(j) PROVE JInv'
<1> DEFINE r == [job[j] EXCEPT !.pc = "wedged", !.seen = {}]
<1>1. /\ job[j] \in JobState /\ job[j].pc \in Running
      /\ UNCHANGED <<received, arriving, scanned, meta, copies, queue>>
  BY DEF Wedge, JInv, JTypes, Running, rowVars, pollVars
<1>2. job' = [job EXCEPT ![j] = r]
  BY <1>1 DEF Wedge, JInv, JTypes, JobState
<1>3. r \in JobState /\ r.pc = "wedged" /\ r.host = job[j].host
  BY <1>1 DEF JobState, Running
<1> HIDE DEF r
<1>4. JobsOK
  BY <1>1, <1>2, <1>3, GoesOn DEF JobsOK, JInv, Running
<1>5. SameMerging
  BY <1>2, <1>3 DEF JInv, JTypes, SameMerging
<1> QED
  BY <1>1, <1>4, <1>5, RowStays, Elsewhere

LEMMA FailOK == ASSUME JInv, NEW j \in Job, Fail(j) PROVE JInv'
<1>1. /\ job[j].pc \in Running /\ Throw(j)
      /\ UNCHANGED <<received, arriving, scanned, meta, copies>>
  BY DEF Fail, Running, rowVars, pollVars
<1>2. JobsOK /\ SameMerging
  BY <1>1, ThrowOK DEF JInv, SameMerging
<1> QED
  BY <1>1, <1>2, RowStays, Elsewhere

LEMMA JobStepOK == ASSUME JInv, NEW j \in Job, JobStep(j) \/ JobFault(j) PROVE JInv'
<1>1. CASE Record(j)
  BY <1>1, DoneOK DEF Record, Running, pollVars
<1>2. CASE MarkFailed(j)
  BY <1>2, DoneOK DEF MarkFailed, Running, pollVars
<1>3. CASE MarkFailedError(j)
  BY <1>3, DoneOK DEF MarkFailedError, Running, rowVars, pollVars
<1>4. CASE BackoffEnds(j)
  <2>1. JobsOK /\ SameMerging
    BY <1>4, BackoffEndsOK DEF JInv, SameMerging
  <2>2. UNCHANGED <<received, arriving, scanned, meta, copies>>
    BY <1>4 DEF BackoffEnds, rowVars, pollVars
  <2> QED
    BY <2>1, <2>2, RowStays, Elsewhere
<1> QED
  BY <1>1, <1>2, <1>3, <1>4, LookOK, MergeOK, CreateOK, FailOK, WedgeOK DEF JobStep, JobFault

LEMMA GoneOK == ASSUME JInv, NEW p \in Process, Crash(p) \/ Exit(p) PROVE JInv'
<1>1. Lose(p) /\ UNCHANGED <<received, meta, copies>>
  BY DEF Crash, Exit, rowVars
<1>2. JobsOK /\ SameMerging /\ RowsOK
  BY <1>1, LoseOK DEF JInv, JTypes, SameMerging, RowsOK
<1> QED
  BY <1>1, <1>2, Elsewhere

LEMMA ExpireOK == ASSUME JInv, NEW p \in Process, NEW e \in Event, Expire(p, e) PROVE JInv'
<1>1. UNCHANGED <<received, arriving, scanned, meta, copies, job, queue>>
  BY DEF Expire, rowVars, pollVars
<1> QED
  BY <1>1, RowStays, JobsStay, Elsewhere

(* The gate, and who opens and closes it.                                   *)
LEMMA GateOK ==
  ASSUME JInv,
         \/ EnableTenantIntegration \/ DisableTenantIntegration
         \/ \E p \in Process : Ask(p) \/ Denied(p) \/ PresenceExpires(p)
  PROVE  JInv'
<1>1. UNCHANGED <<received, arriving, scanned, meta, copies, job, queue>>
  BY DEF Ask, Denied, PresenceExpires, EnableTenantIntegration, DisableTenantIntegration, rowVars, memVars
<1> QED
  BY <1>1, RowStays, JobsStay, Elsewhere

LEMMA JInit == ASSUME Init PROVE JInv
<1>1. NoJob \in JobState /\ NoJob.pc = "idle" /\ NoJob.host = "none"
  <2>1. 0 \in 0..MaxAttempts
    BY ConstantsAssumption
  <2> QED
    BY <2>1 DEF NoJob, JobState
<1>2. job = [j \in Job |-> NoJob] /\ queue = [p \in Process |-> <<>>]
  BY DEF Init
<1> HIDE DEF NoJob
<1>3. JTypes
  BY <1>1, <1>2 DEF Init, JTypes
<1>4. \A j \in Job : job[j].pc = "idle"
  BY <1>1, <1>2
<1>5. QueueInv
  <2>1. SUFFICES ASSUME NEW p \in Process
                 PROVE  Waits(p, queue[p], job) /\ Slots(p, queue[p], job)
    BY DEF QueueInv
  <2>2. RunningOn(p, job) = {} /\ Cardinality({}) = 0 /\ 0 <= Concurrency
    BY <1>4, FS_EmptySet, ConstantsAssumption DEF RunningOn, Of, Running
  <2>3. <<>> \in Seq(Job) /\ Distinct(<<>>) /\ Elements(<<>>) = {} /\ queue[p] = <<>>
    BY <1>2 DEF Distinct, Elements
  <2>4. {j \in Of(p, job) : job[j].pc = "queued"} = {}
    BY <1>4 DEF Of
  <2> QED
    BY <2>2, <2>3, <2>4 DEF Waits, Slots
<1> QED
  BY <1>3, <1>4, <1>5 DEF JInv, Init, Hosted, Found, CallLoggedOnce

LEMMA JInvariant == Spec => []JInv
<1>1. JInv /\ [Next]_vars => JInv'
  <2>1. SUFFICES ASSUME JInv, [Next]_vars
                 PROVE  JInv'
    OBVIOUS
  <2>2. CASE UNCHANGED vars
    BY <2>1, <2>2, RowStays, JobsStay, Elsewhere DEF vars, rowVars, memVars, pollVars
  <2>3. CASE Next
    BY <2>1, <2>3, JobStepOK, InsertOK, AcceptOK, PollReadOK, PollEnqueueOK, GoneOK, ExpireOK, GateOK
       DEF Next, PollStep
  <2> QED
    BY <2>1, <2>2, <2>3
<1> QED
  BY <1>1, JInit, PTL DEF Spec

-----------------------------------------------------------------------------
(* The theorems. *)

(* However many jobs, processes and events look the same call up at once,   *)
(* it is logged as one activity (processDialpadCallEvent: the look-up, then *)
(* the insert under activities_unique_external_idx), and an activity that   *)
(* exists is never emptied.                                                 *)
THEOREM CallLoggedOnceCorrect == Spec => []CallLoggedOnce
<1>1. JInv => CallLoggedOnce
  BY DEF JInv
<1> QED
  BY <1>1, JInvariant, PTL

(* A job never waits in the queue while a slot is free and never more than  *)
(* MAX_CONCURRENCY run (pump() of dialpad-event-worker.ts), wherever jobs   *)
(* come from and however they end.                                          *)
THEOREM PumpKeepsUpCorrect == Spec => []PumpKeepsUp
<1>1. JInv => PumpKeepsUp
  BY DEF JInv, QueueInv, Slots, PumpKeepsUp
<1> QED
  BY <1>1, JInvariant, PTL

=============================================================================
