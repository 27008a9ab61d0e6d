-------------------------- MODULE HcpMirror_proofs --------------------------
(***************************************************************************)
(* Proofs about the mirror of Housecall Pro, for any number of handlers    *)
(* beside the pass, of events, of contacts and of jobs, and for any number *)
(* of failures: what a call may write over what, and when rows double.     *)
(*                                                                         *)
(* Both properties rest on what a call has read.  MInv says for each step  *)
(* of a call that what it read still stands, or that the call's "missed"   *)
(* names the table that changed since; the rest of it says which of its    *)
(* references a call has at which step, and that rows never go away.       *)
(***************************************************************************)
EXTENDS HcpMirror, FiniteSetTheorems, TLAPS

Place ==
  {"idle", "list", "look", "contact", "addContact", "fetch", "write", "insert",
   "convert", "addConverted", "link", "approve", "approveLast", "promote"}

CallRecord ==
  [at : Place, task : {"estimate", "job", "customer", None},
   event : Kinds \cup {"poll", "unanswered", None}, told : Statuses \cup JobStatuses \cup {None},
   row : Estimate \cup {None}, who : Contact \cup {None}, job : Job \cup {None},
   linked : BOOLEAN, missed : SUBSET Tables]

JobKinds == {"jobCreated", "jobUpdated", "jobCanceled"}

(* What an event tells of fits its kind. *)
EventOK(e) ==
  /\ e.kind \in Kinds
  /\ e.kind \in JobKinds => e.told \in JobStatuses /\ remoteJob # None
  /\ e.kind = "customer" => e.told = None
  /\ e.kind \notin JobKinds \cup {"customer"} => e.told \in Statuses

RowsOK ==
  /\ remote \in Statuses \cup {None, "gone"} /\ remoteJob \in JobStatuses \cup {None}
  /\ underway \subseteq [kind : Kinds, told : Statuses \cup JobStatuses \cup {None}]
  /\ \A e \in underway : EventOK(e)
  /\ est \in Estimate \cup {None}
  /\ jobs \in [Job -> JobRow \cup {None}]
  /\ contacts \in [Contact -> {"lead", "customer", None}]
  /\ est # None => est.contact \in Taken(contacts)
  /\ \A j \in Taken(jobs) : jobs[j].contact \in Taken(contacts)

(* What a call refers to at which step. *)
Placed(w, c) ==
  /\ c.event = "poll" => w = Pass
  /\ w = Pass => c.task # "customer"
  /\ c.at # "idle" => c.task # None
  /\ c.task = "estimate" /\ c.at \notin {"idle", "list"} => c.told \in Statuses
  /\ c.task = "job" /\ c.at \notin {"idle", "list"} => c.told \in JobStatuses /\ remoteJob # None
  /\ c.at \in {"link", "approve", "approveLast"} => c.task = "job"
  /\ c.task = "job" /\ c.at \in {"list", "look", "contact", "addContact", "insert"}
       => c.job = None
  /\ c.task = "job" /\ c.at = "write" => c.job # None
  /\ c.task = "job" /\ c.job # None => c.who # None
  /\ c.at = "promote" => c.who # None
  /\ c.at \in {"list", "look", "contact", "addContact"}
       \/ (c.at = "fetch" /\ c.task = "job" /\ c.job = None) => c.who = None
  /\ c.task = "estimate" /\ c.at \in {"contact", "addContact"} /\ w # Pass => c.event = "created"

(* What it refers to exists. *)
Refers(c) ==
  /\ c.who # None => c.who \in Taken(contacts)
  /\ c.job # None => c.job \in Mirrors
  /\ c.linked \/ c.at \in {"convert", "addConverted", "approve", "approveLast"} => est # None
  /\ c.task = "estimate" /\ (c.at = "write" \/ (c.at = "fetch" /\ c.event # "created")) =>
       c.row # None /\ est # None

(* What it has read still stands, or it is known to have missed a change.   *)
Knows(c) ==
  /\ c.task = "estimate" /\ c.at \in {"contact", "addContact", "fetch", "write", "insert"} =>
       "estimate" \in c.missed \/ c.row = est
  /\ c.task = "job" /\ c.job = None
     /\ c.at \in {"contact", "addContact", "fetch", "link", "approve", "insert"} =>
       "job" \in c.missed \/ Mirrors = {}
  /\ c.who = None /\ (\/ c.at \in {"addContact", "link", "approve", "insert"}
                      \/ (c.at = "fetch" /\ c.task = "estimate" /\ c.event = "created")) =>
       "contact" \in c.missed \/ Taken(contacts) = {}

CallOK(w) == Placed(w, call[w]) /\ Refers(call[w]) /\ Knows(call[w])

MInv ==
  /\ RowsOK
  /\ call \in [Calls -> CallRecord]
  /\ \A w \in Calls : CallOK(w)
-----------------------------------------------------------------------------
(* How a step of one call leaves the others. *)

(* Rows are added and never go away; what changes a table says so in T.     *)
Changes(T) ==
  /\ T \in SUBSET Tables
  /\ est # None => est' # None
  /\ est' = est \/ "estimate" \in T
  /\ Mirrors \subseteq Mirrors' /\ (Mirrors' = Mirrors \/ "job" \in T)
  /\ Taken(contacts) \subseteq Taken(contacts)'
  /\ Taken(contacts)' = Taken(contacts) \/ "contact" \in T
  /\ remoteJob # None => remoteJob' # None

(* The calls but w stay, but for what they have missed.                     *)
Others(w, T) ==
  /\ call' = [v \in Calls |-> call'[v]]
  /\ \A v \in Calls \ {w} : (T = {} /\ call'[v] = call[v]) \/ call'[v] = Missing(v, T)

LEMMA OtherOK ==
  ASSUME MInv, NEW v \in Calls, NEW T, Changes(T),
         (T = {} /\ call'[v] = call[v]) \/ call'[v] = Missing(v, T)
  PROVE  call'[v] \in CallRecord /\ CallOK(v)'
<1> DEFINE c == call[v]
           d == call'[v]
<1>1. c \in CallRecord /\ CallOK(v)
  BY DEF MInv
<1>2. /\ d \in CallRecord
      /\ d.at = c.at /\ d.task = c.task /\ d.event = c.event /\ d.told = c.told /\ d.row = c.row
      /\ d.who = c.who /\ d.job = c.job /\ d.linked = c.linked
      /\ c.missed \subseteq d.missed /\ T \cap Relies(c) \subseteq d.missed
  BY <1>1 DEF Missing, CallRecord, Changes
<1>3. Placed(v, call[v]) => Placed(v, call[v])'
  BY <1>2 DEF Placed, Changes
<1>4. Refers(call[v]) => Refers(call[v])'
  BY <1>2 DEF Refers, Changes
<1>5. Knows(call[v]) => Knows(call[v])'
  BY <1>2 DEF Knows, Changes, Relies, Tables
<1> QED
  BY <1>1, <1>2, <1>3, <1>4, <1>5 DEF CallOK

LEMMA Moved ==
  ASSUME MInv, NEW w \in Calls, NEW T, Changes(T), Others(w, T), RowsOK',
         call'[w] \in CallRecord, CallOK(w)'
  PROVE  MInv'
<1>1. \A v \in Calls : call'[v] \in CallRecord /\ CallOK(v)'
  BY OtherOK DEF Others
<1> QED
  BY <1>1 DEF MInv, Others

LEMMA GoesMoves ==
  ASSUME call \in [Calls -> CallRecord], NEW w \in Calls, NEW c, Goes(w, c)
  PROVE  Others(w, {}) /\ call'[w] = c
BY DEF Goes, Others

LEMMA WroteMoves ==
  ASSUME NEW w \in Calls, NEW c, NEW T, Wrote(w, c, T)
  PROVE  Others(w, T) /\ call'[w] = c
BY DEF Wrote, Others

LEMMA RowsStay ==
  ASSUME RowsOK, UNCHANGED <<est, jobs, contacts, remote, remoteJob>>, underway' \subseteq underway
  PROVE  RowsOK' /\ Changes({})
BY DEF RowsOK, EventOK, Changes, Taken, Mirrors

(* A call that has nothing more to do, or begins a pass, whatever the rows.  *)
LEMMA AfterOK ==
  ASSUME MInv, NEW w \in Calls,
         \/ call'[w] \in {Idle, After(w)}
         \/ w = Pass /\ call'[w] = [Idle EXCEPT !.at = "list", !.task = "estimate", !.event = "poll"]
  PROVE  call'[w] \in CallRecord /\ CallOK(w)'
<1> DEFINE d == call'[w]
           Listing(t) == [Idle EXCEPT !.at = "list", !.task = t, !.event = "poll"]
<1>1. d = Idle \/ (w = Pass /\ (d = Listing("job") \/ d = Listing("estimate")))
  BY DEF After
<1>2. None \notin {"poll", "customer", "job", "estimate"}
  BY NoneAssumption
<1>3. CASE d = Idle
  <2>1. /\ d \in CallRecord /\ d.at = "idle" /\ d.who = None /\ d.job = None
        /\ d.linked = FALSE /\ d.event = None /\ d.task = None
    BY <1>3 DEF Idle, CallRecord, Place
  <2> QED
    BY <2>1, <1>2 DEF CallOK, Placed, Refers, Knows
<1>4. ASSUME NEW t \in {"estimate", "job"}, w = Pass, d = Listing(t)
      PROVE  d \in CallRecord /\ CallOK(w)'
  <2>1. d = [at |-> "list", task |-> t, event |-> "poll", told |-> None, row |-> None, who |-> None,
             job |-> None, linked |-> FALSE, missed |-> {}]
    BY <1>4 DEF Idle
  <2>2. /\ d \in CallRecord /\ d.at = "list" /\ d.who = None /\ d.job = None /\ d.linked = FALSE
        /\ d.event = "poll" /\ d.task = t
    BY <2>1 DEF CallRecord, Place
  <2> QED
    BY <1>2, <1>4, <2>2 DEF CallOK, Placed, Refers, Knows
<1> QED
  BY <1>1, <1>3, <1>4

-----------------------------------------------------------------------------
(* The steps that only look: rows stay, and the call knows what it read.    *)
Looks(w) ==
  \/ List(w) \/ LookEstimate(w) \/ FetchEstimate(w) \/ Convert(w)
  \/ FindContact(w) \/ LookJob(w) \/ FetchJob(w) \/ Link(w)

LEMMA LookMoves ==
  ASSUME MInv, NEW w \in Calls, Looks(w), NEW e, Goes(w, e),
         e = After(w) \/ (e \in CallRecord /\ Placed(w, e) /\ Refers(e) /\ Knows(e))
  PROVE  MInv'
<1>1. RowsOK' /\ Changes({}) /\ UNCHANGED <<est, jobs, contacts, remoteJob>>
  BY RowsStay DEF MInv, Looks, List, LookEstimate, LookedEstimate, FetchEstimate, Convert, FindContact,
                  LookJob, LookedJob, FetchJob, Link, rows, hcp
<1>2. call'[w] = e /\ Others(w, {})
  BY GoesMoves DEF MInv
<1>3. call'[w] \in CallRecord /\ CallOK(w)'
  <2>1. CASE e = After(w)
    BY <2>1, <1>2, AfterOK
  <2>2. CASE e \in CallRecord /\ Placed(w, e) /\ Refers(e) /\ Knows(e)
    BY <2>2, <1>1, <1>2 DEF CallOK, Placed, Refers, Knows, Taken, Mirrors
  <2> QED
    BY <2>1, <2>2
<1> QED
  BY <1>1, <1>2, <1>3, Moved

LEMMA LookSteps ==
  ASSUME MInv, NEW w \in Calls, Looks(w)
  PROVE  MInv'
<1> DEFINE c == call[w]
<1>1. c \in CallRecord /\ Placed(w, c) /\ Refers(c) /\ Knows(c) /\ RowsOK
  BY DEF MInv, CallOK
<1>2. ASSUME NEW e, Goes(w, e), e = After(w) \/ (e \in CallRecord /\ Placed(w, e) /\ Refers(e) /\ Knows(e))
      PROVE  MInv'
  BY <1>2, LookMoves
<1>3. CASE List(w)
  <2> DEFINE listed == IF c.task = "estimate" THEN remote ELSE remoteJob
             e == [c EXCEPT !.at = "look", !.told = listed]
  <2>1. CASE listed \in {None, "gone"}
    BY <2>1, <1>3, <1>2 DEF List
  <2>2. CASE listed \notin {None, "gone"}
    <3>1. /\ listed \in Statuses \cup JobStatuses
          /\ c.task = "estimate" => listed \in Statuses
          /\ c.task = "job" => listed \in JobStatuses /\ remoteJob # None
      BY <2>2, <1>1 DEF RowsOK
    <3> HIDE DEF listed
    <3>2. e \in CallRecord
      BY <3>1, <1>1 DEF CallRecord, Place
    <3>3. Placed(w, e) /\ Refers(e) /\ Knows(e)
      BY <3>1, <1>1, <1>3, <3>2 DEF CallRecord, Placed, Refers, Knows, List
    <3> QED
      BY <2>2, <1>2, <1>3, <3>2, <3>3 DEF List, listed
  <2> QED
    BY <2>1, <2>2
<1>4. CASE LookEstimate(w)
  <2> DEFINE d == [c EXCEPT !.row = est, !.missed = @ \ {"estimate"}]
  <2>1. PICK a \in {"contact", "write", "fetch", "end"} :
          /\ a = "contact" => est = None /\ c.event \in {"created", "poll"}
          /\ a = "write" => est # None
          /\ a = "fetch" => est # None /\ c.event # "created"
          /\ Goes(w, IF a = "end" THEN After(w) ELSE [d EXCEPT !.at = a])
    <3> DEFINE next == CASE est = None /\ c.event \in {"created", "poll"} -> "contact"
                         [] est # None /\ c.event \in {"on_my_way", "deleted", "poll"} -> "write"
                         [] est # None /\ c.event \notin {"on_my_way", "deleted", "poll", "created"} -> "fetch"
                         [] OTHER -> "end"
    <3>1. WITNESS next \in {"contact", "write", "fetch", "end"}
    <3> QED
      BY <1>4 DEF LookEstimate, LookedEstimate
  <2>2. CASE a = "end"
    BY <2>1, <2>2, <1>2
  <2>3. CASE a # "end"
    <3> DEFINE e == [d EXCEPT !.at = a]
    <3>1. e \in CallRecord
      BY <2>3, <1>1 DEF RowsOK, CallRecord, Place
    <3>2. Placed(w, e) /\ Refers(e) /\ Knows(e)
      BY <2>1, <2>3, <1>1, <1>4, <3>1 DEF CallRecord, Placed, Refers, Knows, LookEstimate, LookedEstimate
    <3> QED
      BY <2>1, <2>3, <1>2, <3>1, <3>2
  <2> QED
    BY <2>2, <2>3
<1>5. CASE FetchEstimate(w)
  <2> DEFINE a == IF c.event = "created" THEN "insert" ELSE "write"
             e == [c EXCEPT !.at = a]
  <2>1. e \in CallRecord /\ Placed(w, e) /\ Refers(e) /\ Knows(e)
    BY <1>1, <1>5 DEF CallRecord, Placed, Refers, Knows, Place, FetchEstimate
  <2>2. e.task = "estimate"
    BY <1>1, <1>5 DEF CallRecord, FetchEstimate
  <2>3. ASSUME NEW t \in Statuses, NEW f, f = [e EXCEPT !.told = t]
        PROVE  f \in CallRecord /\ Placed(w, f) /\ Refers(f) /\ Knows(f)
    <3> HIDE DEF e
    <3> QED
      BY <2>1, <2>2, <2>3 DEF CallRecord, Placed, Refers, Knows
  <2> QED
    BY <1>5, <1>2, <2>1, <2>3 DEF FetchEstimate
<1>6. CASE Convert(w)
  <2> DEFINE e == [c EXCEPT !.at = "addConverted"]
  <2>1. e \in CallRecord /\ Placed(w, e) /\ Refers(e) /\ Knows(e)
    BY <1>1, <1>6 DEF CallRecord, Placed, Refers, Knows, Place, Convert
  <2> QED
    BY <1>6, <1>2, <2>1 DEF Convert
<1>7. CASE FindContact(w)
  <2> DEFINE a == WithContact(w)
             d == [c EXCEPT !.missed = @ \ {"contact"}]
  <2>1. /\ d \in CallRecord /\ c.at = "contact" /\ d.at = "contact" /\ d.task = c.task
        /\ d.told = c.told /\ d.job = c.job /\ d.event = c.event /\ d.row = c.row /\ d.who = c.who
        /\ d.linked = c.linked
        /\ "estimate" \in c.missed => "estimate" \in d.missed
        /\ "job" \in c.missed => "job" \in d.missed
        /\ a = IF c.task = "estimate" THEN (IF w = Pass THEN "insert" ELSE "fetch")
               ELSE IF c.task = "job" THEN "link" ELSE "end"
    BY <1>1, <1>7 DEF FindContact, WithContact, CallRecord
  <2> HIDE DEF d, a
  <2>2. ASSUME NEW k \in Taken(contacts), a # "end"
        PROVE  Goes(w, [d EXCEPT !.who = k, !.at = a]) => MInv'
    <3> DEFINE e == [d EXCEPT !.who = k, !.at = a]
    <3>1. k \in Contact /\ k # None
      BY <1>1, NoneAssumption DEF Taken, RowsOK
    <3>2. a \in Place
      BY <2>1, <2>2 DEF Place
    <3>3. /\ e \in CallRecord /\ e.at = a /\ e.who = k /\ e.task = d.task /\ e.event = d.event
          /\ e.told = d.told /\ e.job = d.job /\ e.row = d.row
          /\ e.linked = d.linked /\ e.missed = d.missed
      BY <2>1, <3>1, <3>2 DEF CallRecord
    <3> HIDE DEF e
    <3>4. Placed(w, e) /\ Refers(e) /\ Knows(e)
      BY <1>1, <2>1, <2>2, <3>1, <3>3 DEF Placed, Refers, Knows
    <3> QED
      BY <1>2, <3>3, <3>4 DEF e
  <2>3. ASSUME Taken(contacts) = {}, NEW b \in {a, "addContact"}, b # "end"
        PROVE  Goes(w, [d EXCEPT !.at = b]) => MInv'
    <3> DEFINE e == [d EXCEPT !.at = b]
    <3>1. e \in CallRecord
      BY <1>1, <2>1, <2>3 DEF CallRecord, Place
    <3>2. Placed(w, e) /\ Refers(e) /\ Knows(e)
      BY <1>1, <2>1, <2>3, <3>1, NoneAssumption DEF CallRecord, Placed, Refers, Knows
    <3> QED
      BY <1>2, <3>1, <3>2
  <2>4. /\ \A k \in Taken(contacts) : Goes(w, [d EXCEPT !.who = k, !.at = a]) => MInv' \/ a = "end"
        /\ Taken(contacts) = {} /\ Goes(w, [d EXCEPT !.at = IF w = Pass THEN a ELSE "addContact"]) => MInv'
    BY <1>1, <2>1, <2>2, <2>3, NoneAssumption DEF Placed, CallRecord
  <2>5. \/ Goes(w, After(w))
        \/ a # "end" /\ \E k \in Taken(contacts) : Goes(w, [d EXCEPT !.who = k, !.at = a])
        \/ Taken(contacts) = {} /\ Goes(w, [d EXCEPT !.at = IF w = Pass THEN a ELSE "addContact"])
    BY <1>7 DEF FindContact, d, a
  <2> QED
    BY <1>2, <2>4, <2>5
<1>8. CASE LookJob(w)
  <2> DEFINE d == [c EXCEPT !.missed = @ \ {"job"}]
  <2>1. /\ d \in CallRecord /\ c.at = "look" /\ c.task = "job" /\ d.at = "look" /\ d.task = "job"
        /\ d.told = c.told /\ d.job = c.job /\ d.event = c.event /\ d.row = c.row /\ d.who = c.who
        /\ d.linked = c.linked
        /\ "contact" \in c.missed => "contact" \in d.missed
    BY <1>1, <1>8 DEF LookJob, LookedJob, CallRecord
  <2>2. \/ Goes(w, After(w))
        \/ Mirrors = {} /\ \E b \in {"contact", "fetch"} : Goes(w, [d EXCEPT !.at = b])
        \/ \E j \in Mirrors, b \in {"fetch", "write", "link"} :
             Goes(w, [d EXCEPT !.job = j, !.who = jobs[j].contact, !.at = b])
    BY <1>8 DEF LookJob, LookedJob
  <2> HIDE DEF d
  <2>3. ASSUME NEW b \in {"contact", "fetch"}, Mirrors = {}, Goes(w, [d EXCEPT !.at = b])
        PROVE  MInv'
    <3> DEFINE e == [d EXCEPT !.at = b]
    <3>1. /\ e \in CallRecord /\ e.at = b /\ e.who = d.who /\ e.task = d.task /\ e.event = d.event
          /\ e.told = d.told /\ e.job = d.job /\ e.row = d.row
          /\ e.linked = d.linked /\ e.missed = d.missed
      BY <2>1 DEF CallRecord, Place
    <3> HIDE DEF e
    <3>2. Placed(w, e) /\ Refers(e) /\ Knows(e)
      BY <1>1, <2>1, <2>3, <3>1 DEF Placed, Refers, Knows
    <3> QED
      BY <1>2, <2>3, <3>1, <3>2 DEF e
  <2>4. ASSUME NEW j \in Mirrors, NEW b \in {"fetch", "write", "link"},
               Goes(w, [d EXCEPT !.job = j, !.who = jobs[j].contact, !.at = b])
        PROVE  MInv'
    <3> DEFINE e == [d EXCEPT !.job = j, !.who = jobs[j].contact, !.at = b]
    <3>1. j \in Job /\ j # None /\ jobs[j].contact \in Taken(contacts)
          /\ jobs[j].contact \in Contact /\ jobs[j].contact # None
      BY <1>1, NoneAssumption DEF Mirrors, Taken, RowsOK
    <3>2. /\ e \in CallRecord /\ e.at = b /\ e.who = jobs[j].contact /\ e.task = d.task
          /\ e.event = d.event /\ e.told = d.told /\ e.job = j /\ e.row = d.row
          /\ e.linked = d.linked /\ e.missed = d.missed
      BY <2>1, <3>1 DEF CallRecord, Place
    <3> HIDE DEF e
    <3>3. Placed(w, e) /\ Refers(e) /\ Knows(e)
      BY <1>1, <2>1, <3>1, <3>2 DEF Placed, Refers, Knows
    <3> QED
      BY <1>2, <2>4, <3>2, <3>3 DEF e
  <2> QED
    BY <1>2, <2>2, <2>3, <2>4
<1>9. CASE FetchJob(w)
  <2> DEFINE b == IF c.job = None THEN "contact" ELSE "write"
             d == [c EXCEPT !.at = b]
  <2>1. /\ c.at = "fetch" /\ c.task = "job"
        /\ d \in CallRecord /\ d.at = b /\ d.who = c.who /\ d.task = "job" /\ d.event = c.event
        /\ d.told = c.told /\ d.job = c.job /\ d.row = c.row
        /\ d.linked = c.linked /\ d.missed = c.missed
    BY <1>1, <1>9 DEF CallRecord, Place, FetchJob
  <2>2. Goes(w, [d EXCEPT !.told = remoteJob]) \/ Goes(w, [d EXCEPT !.event = "unanswered"])
    BY <1>9 DEF FetchJob
  <2>3. remoteJob \in JobStatuses
    BY <1>1, <2>1 DEF RowsOK, Placed
  <2> HIDE DEF d
  <2>4. ASSUME NEW e, e = [d EXCEPT !.told = remoteJob] \/ e = [d EXCEPT !.event = "unanswered"]
        PROVE  e \in CallRecord /\ Placed(w, e) /\ Refers(e) /\ Knows(e)
    <3>1. /\ e \in CallRecord /\ e.at = b /\ e.who = d.who /\ e.task = "job"
          /\ e.event \in {d.event, "unanswered"} /\ e.told \in {d.told, remoteJob}
          /\ e.job = d.job /\ e.row = d.row /\ e.linked = d.linked /\ e.missed = d.missed
      BY <2>1, <2>3, <2>4 DEF CallRecord
    <3> QED
      BY <1>1, <2>1, <2>3, <3>1 DEF Placed, Refers, Knows
  <2> QED
    BY <1>2, <2>2, <2>4
<1>10. CASE Link(w)
  <2> DEFINE d == [c EXCEPT !.row = est, !.linked = (est # None), !.missed = @ \ {"estimate"}]
  <2>1. /\ c.at = "link" /\ c.task = "job"
        /\ d \in CallRecord /\ d.who = c.who /\ d.task = "job" /\ d.event = c.event
        /\ d.told = c.told /\ d.job = c.job /\ d.linked = (est # None)
        /\ "contact" \in c.missed => "contact" \in d.missed
        /\ "job" \in c.missed => "job" \in d.missed
    BY <1>1, <1>10 DEF CallRecord, RowsOK, Link, Placed
  <2>2. PICK b \in {"approve", "insert", "write"} :
          /\ b = "approve" => est # None
          /\ b = "insert" => c.job = None
          /\ b = "write" => c.job # None
          /\ Goes(w, [d EXCEPT !.at = b])
    BY <1>10, <2>1 DEF Link, ToJobRow
  <2> HIDE DEF d
  <2> DEFINE e == [d EXCEPT !.at = b]
  <2>3. /\ e \in CallRecord /\ e.at = b /\ e.who = d.who /\ e.task = d.task /\ e.event = d.event
        /\ e.told = d.told /\ e.job = d.job
        /\ e.linked = d.linked /\ e.missed = d.missed
    BY <2>1 DEF CallRecord, Place
  <2> HIDE DEF e
  <2>4. Placed(w, e) /\ Refers(e) /\ Knows(e)
    BY <1>1, <2>1, <2>2, <2>3 DEF Placed, Refers, Knows
  <2> QED
    BY <1>2, <2>2, <2>3, <2>4 DEF e
<1> QED
  BY <1>3, <1>4, <1>5, <1>6, <1>7, <1>8, <1>9, <1>10 DEF Looks

-----------------------------------------------------------------------------
(* The steps that write rows. *)

LEMMA FreeSlot ==
  ASSUME NEW table, ~Full(table)
  PROVE  Free(table) \in DOMAIN table /\ table[Free(table)] = None
BY DEF Full, Free, Taken

(* A new row leaves the others, and its slot is taken. *)
LEMMA NewContact ==
  ASSUME RowsOK, ~Full(contacts), contacts' = [contacts EXCEPT ![Free(contacts)] = "customer"]
  PROVE  /\ contacts' \in [Contact -> {"lead", "customer", None}]
         /\ Free(contacts) \in Contact /\ Free(contacts) # None
         /\ Taken(contacts)' = Taken(contacts) \cup {Free(contacts)}
<1>1. Free(contacts) \in Contact
  BY FreeSlot DEF RowsOK
<1> QED
  BY <1>1, NoneAssumption DEF RowsOK, Taken

LEMMA NewJob ==
  ASSUME RowsOK, ~Full(jobs), NEW r \in JobRow, jobs' = [jobs EXCEPT ![Free(jobs)] = r]
  PROVE  /\ jobs' \in [Job -> JobRow \cup {None}]
         /\ Free(jobs) \in Job
         /\ Taken(jobs)' = Taken(jobs) \cup {Free(jobs)}
         /\ \A j \in Taken(jobs) : jobs'[j] = jobs[j]
         /\ jobs'[Free(jobs)] = r
         /\ Mirrors' = Mirrors \cup (IF r.ext = "job" THEN {Free(jobs)} ELSE {})
<1>1. Free(jobs) \in Job /\ jobs[Free(jobs)] = None
  BY FreeSlot DEF RowsOK
<1>2. r # None
  BY NoneAssumption
<1>3. /\ jobs' \in [Job -> JobRow \cup {None}]
      /\ Taken(jobs)' = Taken(jobs) \cup {Free(jobs)}
      /\ \A j \in Taken(jobs) : jobs'[j] = jobs[j]
      /\ jobs'[Free(jobs)] = r
  BY <1>1, <1>2 DEF RowsOK, Taken
<1> QED
  BY <1>1, <1>2, <1>3 DEF Mirrors

LEMMA WriteEstimateStep ==
  ASSUME MInv, NEW w \in Calls, WriteEstimate(w)
  PROVE  MInv' /\ est \in Estimate /\ est' \in Estimate
<1> DEFINE c == call[w]
           d == call'[w]
           T == IF est' = est THEN {} ELSE {"estimate"}
           new == Resolve(Mapped(c), c.row.status, c.row.manual)
<1>1. c \in CallRecord /\ Placed(w, c) /\ Refers(c) /\ RowsOK
  BY DEF MInv, CallOK
<1>2. est \in Estimate /\ c.row \in Estimate /\ c.told \in Statuses
  BY <1>1 DEF CallRecord, Placed, Refers, RowsOK, WriteEstimate
<1>3. new \in Statuses
  BY <1>2 DEF Mapped, Resolve, Estimate, Statuses, Rank
<1>4. est' \in Estimate /\ est' # None /\ est'.contact = est.contact
  BY <1>2, <1>3, NoneAssumption DEF WriteEstimate, Estimate
<1>5. UNCHANGED <<jobs, contacts, remote, remoteJob, underway>>
  BY DEF WriteEstimate, hcp
<1>6. RowsOK' /\ Changes(T)
  <2>1. est # None
    BY <1>2, NoneAssumption
  <2>2. RowsOK'
    BY <1>1, <1>4, <1>5, <2>1 DEF RowsOK, EventOK, Taken
  <2>3. Changes(T)
    BY <1>4, <1>5, <2>1 DEF Changes, Taken, Mirrors, Tables
  <2> QED
    BY <2>2, <2>3
<1>7. Others(w, T) /\ (d = After(w) \/ d = [c EXCEPT !.at = "convert", !.row = None])
  BY WroteMoves DEF WriteEstimate
<1>8. d \in CallRecord /\ CallOK(w)'
  <2>1. CASE d = After(w)
    BY <2>1, AfterOK
  <2>2. CASE d = [c EXCEPT !.at = "convert", !.row = None]
    <3>1. /\ d \in CallRecord /\ d.at = "convert" /\ d.who = c.who /\ d.task = c.task
          /\ d.event = c.event /\ d.told = c.told /\ d.job = c.job /\ d.linked = c.linked
          /\ c.task = "estimate" /\ c.at = "write"
      BY <2>2, <1>1 DEF CallRecord, Place, WriteEstimate
    <3>2. Placed(w, call[w])'
      BY <1>1, <1>2, <3>1 DEF Placed
    <3>3. Refers(call[w])' /\ Knows(call[w])'
      BY <1>1, <1>4, <1>5, <3>1 DEF Refers, Knows, Taken, Mirrors
    <3> QED
      BY <3>1, <3>2, <3>3 DEF CallOK
  <2> QED
    BY <1>7, <2>1, <2>2
<1> QED
  BY <1>2, <1>4, <1>6, <1>7, <1>8, Moved

LEMMA AddConvertedStep ==
  ASSUME MInv, NEW w \in Calls, AddConverted(w)
  PROVE  MInv' /\ UNCHANGED <<est, Mirrors, contacts>>
<1> DEFINE r == [ext |-> "estimate", status |-> "in_progress", linked |-> TRUE, contact |-> est.contact]
<1>1. call[w] \in CallRecord /\ Refers(call[w]) /\ RowsOK
  BY DEF MInv, CallOK
<1>2. est \in Estimate /\ est.contact \in Taken(contacts) /\ est.contact \in Contact
  BY <1>1 DEF Refers, RowsOK, AddConverted, Estimate
<1>3. r \in JobRow /\ r.ext # "job"
  BY <1>2 DEF JobRow, JobStatuses
<1> HIDE DEF r
<1>4. /\ jobs' = [jobs EXCEPT ![Free(jobs)] = r] /\ ~Full(jobs)
      /\ UNCHANGED <<est, contacts, remote, remoteJob, underway>>
  BY DEF AddConverted, hcp, r
<1>5. /\ jobs' \in [Job -> JobRow \cup {None}]
      /\ \A j \in Taken(jobs)' : (j \in Taken(jobs) /\ jobs'[j] = jobs[j]) \/ jobs'[j] = r
      /\ Mirrors' = Mirrors
  BY <1>1, <1>3, <1>4, NewJob
<1>6. r.contact \in Taken(contacts)
  BY <1>2 DEF r
<1>7. RowsOK' /\ Changes({})
  BY <1>1, <1>4, <1>5, <1>6 DEF RowsOK, EventOK, Changes, Taken
<1>8. Others(w, {}) /\ call'[w] = After(w)
  BY GoesMoves DEF AddConverted, MInv
<1> QED
  BY <1>4, <1>5, <1>7, <1>8, AfterOK, Moved

LEMMA InsertEstimateStep ==
  ASSUME MInv, NEW w \in Calls, InsertEstimate(w)
  PROVE  /\ MInv' /\ UNCHANGED Mirrors
         /\ est # None => est' = est
         /\ Taken(contacts)' # Taken(contacts) => call[w].who = None
<1> DEFINE c == call[w]
           new == c.who = None
           who == IF new THEN Free(contacts) ELSE c.who
           T == {"estimate"} \cup (IF new THEN {"contact"} ELSE {})
<1>1. c \in CallRecord /\ Placed(w, c) /\ Refers(c) /\ RowsOK
  BY DEF MInv, CallOK
<1>2. CASE est # None
  <2>1. Goes(w, After(w)) /\ UNCHANGED <<est, jobs, contacts, remote, remoteJob, underway>>
    BY <1>2 DEF InsertEstimate, rows, hcp
  <2>2. RowsOK' /\ Changes({}) /\ Taken(contacts)' = Taken(contacts) /\ Mirrors' = Mirrors
    BY <2>1, <1>1, RowsStay DEF Taken, Mirrors
  <2> QED
    BY <2>1, <2>2, GoesMoves, AfterOK, Moved DEF MInv
<1>3. CASE est = None
  <2>1. /\ ~(new /\ Full(contacts))
        /\ est' = [status |-> c.told, manual |-> FALSE, contact |-> who]
        /\ contacts' = IF new THEN [contacts EXCEPT ![who] = "customer"] ELSE contacts
        /\ Wrote(w, After(w), T) /\ UNCHANGED <<jobs, remote, remoteJob, underway>>
    BY <1>3 DEF InsertEstimate, hcp
  <2>2. /\ contacts' \in [Contact -> {"lead", "customer", None}]
        /\ who \in Taken(contacts)' /\ who \in Contact
        /\ Taken(contacts) \subseteq Taken(contacts)'
        /\ ~new => Taken(contacts)' = Taken(contacts)
    BY <1>1, <2>1, NewContact DEF RowsOK, Refers, Taken
  <2>3. est' \in Estimate /\ est'.contact = who
    BY <1>1, <2>1, <2>2 DEF Estimate, Placed, InsertEstimate
  <2>4. Mirrors' = Mirrors
    BY <2>1 DEF Mirrors, Taken
  <2>5. RowsOK'
    BY <1>1, <2>1, <2>2, <2>3 DEF RowsOK, EventOK, Taken
  <2>6. Changes(T)
    BY <1>3, <2>1, <2>2, <2>4 DEF Changes, Tables
  <2> QED
    BY <1>3, <2>1, <2>2, <2>4, <2>5, <2>6, WroteMoves, AfterOK, Moved
<1> QED
  BY <1>2, <1>3

LEMMA AddContactStep ==
  ASSUME MInv, NEW w \in Calls, AddContact(w)
  PROVE  MInv' /\ UNCHANGED <<est, Mirrors>> /\ call[w].at = "addContact"
         /\ call[w] \in CallRecord /\ Knows(call[w])
<1> DEFINE c == call[w]
           d == call'[w]
           k == Free(contacts)
           a == WithContact(w)
<1>1. c \in CallRecord /\ Placed(w, c) /\ Refers(c) /\ Knows(c) /\ RowsOK
  BY DEF MInv, CallOK
<1>2. /\ ~Full(contacts) /\ contacts' = [contacts EXCEPT ![k] = "customer"] /\ c.at = "addContact"
      /\ UNCHANGED <<est, jobs, remote, remoteJob, underway>>
      /\ Wrote(w, IF a = "end" THEN After(w) ELSE [c EXCEPT !.who = k, !.at = a], {"contact"})
  BY DEF AddContact, hcp
<1>3. /\ contacts' \in [Contact -> {"lead", "customer", None}]
      /\ k \in Contact /\ k # None /\ Taken(contacts)' = Taken(contacts) \cup {k}
  BY <1>1, <1>2, NewContact
<1>4. Mirrors' = Mirrors
  BY <1>2 DEF Mirrors, Taken
<1>5. RowsOK'
  BY <1>1, <1>2, <1>3 DEF RowsOK, EventOK, Taken
<1>6. Changes({"contact"})
  BY <1>2, <1>3, <1>4 DEF Changes, Tables
<1>7. Others(w, {"contact"}) /\ d = IF a = "end" THEN After(w) ELSE [c EXCEPT !.who = k, !.at = a]
  BY <1>2, WroteMoves
<1>8. d \in CallRecord /\ CallOK(w)'
  <2>1. CASE a = "end"
    BY <2>1, <1>7, AfterOK
  <2>2. CASE a # "end"
    <3>1. \/ a \in {"insert", "fetch"} /\ c.task = "estimate" /\ (a = "fetch" => w # Pass)
          \/ a = "link" /\ c.task = "job"
      BY <2>2 DEF WithContact
    <3>2. a \in Place /\ d = [c EXCEPT !.who = k, !.at = a]
      BY <2>2, <1>7, <3>1 DEF Place
    <3> HIDE DEF a, k
    <3>3. /\ d \in CallRecord /\ d.at = a /\ d.who = k /\ d.task = c.task
          /\ d.event = c.event /\ d.told = c.told /\ d.job = c.job /\ d.linked = c.linked
          /\ d.row = c.row /\ d.missed = c.missed
      BY <1>1, <1>3, <3>2 DEF CallRecord
    <3>4. Placed(w, call[w])'
      BY <1>1, <1>2, <1>3, <3>1, <3>3 DEF Placed
    <3>5. Refers(call[w])' /\ Knows(call[w])'
      BY <1>1, <1>2, <1>3, <1>4, <3>1, <3>3 DEF Placed, Refers, Knows
    <3> QED
      BY <3>3, <3>4, <3>5 DEF CallOK
  <2> QED
    BY <2>1, <2>2
<1> QED
  BY <1>1, <1>2, <1>4, <1>5, <1>6, <1>7, <1>8, Moved

LEMMA ApproveStep ==
  ASSUME MInv, NEW w \in Calls, Approve(w)
  PROVE  MInv' /\ UNCHANGED <<contacts, Mirrors>>
<1> DEFINE c == call[w]
           d == call'[w]
           T == IF est' = est THEN {} ELSE {"estimate"}
           a == ToJobRow(c)
<1>1. c \in CallRecord /\ Placed(w, c) /\ Refers(c) /\ Knows(c) /\ RowsOK
  BY DEF MInv, CallOK
<1>2. /\ est' = [est EXCEPT !.status = "approved"] /\ c.at \in {"approve", "approveLast"}
      /\ UNCHANGED <<jobs, contacts, remote, remoteJob, underway>>
      /\ Wrote(w, IF c.at = "approveLast" THEN After(w) ELSE [c EXCEPT !.at = a], T)
  BY DEF Approve, hcp
<1>3. est # None /\ est \in Estimate
  BY <1>1, <1>2 DEF Refers, RowsOK
<1>4. est' \in Estimate /\ est' # None /\ est'.contact = est.contact
  BY <1>2, <1>3, NoneAssumption DEF Estimate, Statuses, Rank
<1>5. RowsOK'
  BY <1>1, <1>2, <1>3, <1>4 DEF RowsOK, EventOK, Taken
<1>6. Changes(T) /\ Mirrors' = Mirrors
  BY <1>2, <1>4 DEF Changes, Taken, Mirrors, Tables
<1>7. Others(w, T) /\ d = IF c.at = "approveLast" THEN After(w) ELSE [c EXCEPT !.at = a]
  BY <1>2, WroteMoves
<1>8. d \in CallRecord /\ CallOK(w)'
  <2>1. CASE c.at = "approveLast"
    BY <2>1, <1>7, AfterOK
  <2>2. CASE c.at = "approve"
    <3>1. a = (IF c.job = None THEN "insert" ELSE "write") /\ c.task = "job"
      BY <2>2, <1>1 DEF ToJobRow, Placed
    <3>2. /\ d \in CallRecord /\ d.at = a /\ d.who = c.who /\ d.task = c.task
          /\ d.event = c.event /\ d.told = c.told /\ d.job = c.job /\ d.linked = c.linked
          /\ d.row = c.row /\ d.missed = c.missed
      BY <2>2, <1>1, <1>7, <3>1 DEF CallRecord, Place
    <3>3. Placed(w, call[w])'
      BY <2>2, <1>1, <1>2, <3>1, <3>2 DEF Placed
    <3>4. Refers(call[w])' /\ Knows(call[w])'
      BY <2>2, <1>1, <1>2, <1>4, <1>6, <3>1, <3>2 DEF Refers, Knows, Taken
    <3> QED
      BY <3>2, <3>3, <3>4 DEF CallOK
  <2> QED
    BY <1>2, <2>1, <2>2
<1> QED
  BY <1>2, <1>5, <1>6, <1>7, <1>8, Moved

LEMMA WriteJobStep ==
  ASSUME MInv, NEW w \in Calls, WriteJob(w)
  PROVE  MInv' /\ UNCHANGED <<est, contacts, Mirrors>>
<1> DEFINE c == call[w]
           d == call'[w]
<1>1. c \in CallRecord /\ Placed(w, c) /\ Refers(c) /\ RowsOK
  BY DEF MInv, CallOK
<1>2. /\ jobs' = [jobs EXCEPT ![c.job].status = c.told, ![c.job].linked = @ \/ c.linked]
      /\ UNCHANGED <<est, contacts, remote, remoteJob, underway>>
      /\ Goes(w, After(w)) \/ Goes(w, [c EXCEPT !.at = "promote"])
      /\ c.at = "write" /\ c.task = "job"
  BY DEF WriteJob, hcp
<1>3. /\ c.job \in Job /\ c.job # None /\ c.who # None /\ jobs[c.job] \in JobRow
      /\ c.linked \in BOOLEAN /\ c.told \in JobStatuses
  BY <1>1, <1>2 DEF CallRecord, Placed, Refers, RowsOK, Mirrors, Taken
<1>4. jobs'[c.job] = [jobs[c.job] EXCEPT !.status = c.told, !.linked = @ \/ c.linked]
  BY <1>1, <1>2, <1>3 DEF RowsOK
<1>5. /\ jobs'[c.job] \in JobRow /\ jobs'[c.job].ext = jobs[c.job].ext
      /\ jobs'[c.job].contact = jobs[c.job].contact /\ jobs'[c.job] # None /\ jobs[c.job] # None
  BY <1>3, <1>4, NoneAssumption DEF JobRow
<1>6. jobs' \in [Job -> JobRow \cup {None}] /\ \A j \in Job \ {c.job} : jobs'[j] = jobs[j]
  BY <1>1, <1>2, <1>3, <1>5 DEF RowsOK
<1>7. Taken(jobs)' = Taken(jobs) /\ Mirrors' = Mirrors
  BY <1>1, <1>5, <1>6 DEF RowsOK, Taken, Mirrors
<1>8. RowsOK' /\ Changes({})
  BY <1>1, <1>2, <1>5, <1>6, <1>7 DEF RowsOK, EventOK, Changes, Taken
<1>9. Others(w, {}) /\ (d = After(w) \/ d = [c EXCEPT !.at = "promote"])
  BY <1>2, GoesMoves DEF MInv
<1>10. d \in CallRecord /\ CallOK(w)'
  <2>1. CASE d = After(w)
    BY <2>1, AfterOK
  <2>2. CASE d = [c EXCEPT !.at = "promote"]
    <3>1. /\ d \in CallRecord /\ d.at = "promote" /\ d.who = c.who /\ d.task = c.task
          /\ d.event = c.event /\ d.told = c.told /\ d.job = c.job /\ d.linked = c.linked
      BY <2>2, <1>1 DEF CallRecord, Place
    <3>2. Placed(w, call[w])' /\ Refers(call[w])' /\ Knows(call[w])'
      BY <1>1, <1>2, <1>3, <1>7, <3>1 DEF Placed, Refers, Knows, Taken
    <3> QED
      BY <3>1, <3>2 DEF CallOK
  <2> QED
    BY <1>9, <2>1, <2>2
<1> QED
  BY <1>2, <1>7, <1>8, <1>9, <1>10, Moved

LEMMA InsertJobStep ==
  ASSUME MInv, NEW w \in Calls, InsertJob(w)
  PROVE  /\ MInv' /\ UNCHANGED est
         /\ call[w].job = None
         /\ Taken(contacts)' # Taken(contacts) => call[w].who = None
<1> DEFINE c == call[w]
           d == call'[w]
           new == c.who = None
           who == IF new THEN Free(contacts) ELSE c.who
           r == [ext |-> "job", status |-> c.told, linked |-> c.linked, contact |-> who]
           T == {"job"} \cup (IF new THEN {"contact"} ELSE {})
<1>1. c \in CallRecord /\ Placed(w, c) /\ Refers(c) /\ RowsOK
  BY DEF MInv, CallOK
<1>2. /\ ~(new /\ Full(contacts)) /\ ~Full(jobs) /\ c.at = "insert" /\ c.task = "job"
      /\ jobs' = [jobs EXCEPT ![Free(jobs)] = r]
      /\ contacts' = IF new THEN [contacts EXCEPT ![who] = "customer"] ELSE contacts
      /\ UNCHANGED <<est, remote, remoteJob, underway>>
      /\ \E e : /\ Wrote(w, e, T)
                /\ \/ e = After(w) \/ (c.linked /\ e = [c EXCEPT !.at = "approveLast"])
                   \/ (~new /\ e = [c EXCEPT !.at = "promote"])
  BY DEF InsertJob, hcp
<1>3. /\ contacts' \in [Contact -> {"lead", "customer", None}]
      /\ who \in Taken(contacts)' /\ who \in Contact
      /\ Taken(contacts) \subseteq Taken(contacts)'
      /\ ~new => Taken(contacts)' = Taken(contacts)
  BY <1>1, <1>2, NewContact DEF RowsOK, Refers, Taken
<1>4. c.job = None /\ r \in JobRow /\ r.ext = "job" /\ r.contact = who
  BY <1>1, <1>2, <1>3 DEF JobRow, CallRecord, Placed
<1> HIDE DEF r, who
<1>5. /\ jobs' \in [Job -> JobRow \cup {None}]
      /\ \A j \in Taken(jobs)' : (j \in Taken(jobs) /\ jobs'[j] = jobs[j]) \/ jobs'[j] = r
      /\ Mirrors \subseteq Mirrors'
  BY <1>1, <1>2, <1>4, NewJob
<1>6. RowsOK'
  BY <1>1, <1>2, <1>3, <1>4, <1>5 DEF RowsOK, EventOK
<1>7. Changes(T)
  BY <1>2, <1>3, <1>5 DEF Changes, Tables
<1>8. /\ Others(w, T)
      /\ \/ d = After(w) \/ (c.linked /\ d = [c EXCEPT !.at = "approveLast"])
         \/ (~new /\ d = [c EXCEPT !.at = "promote"])
  BY <1>2, WroteMoves
<1>9. d \in CallRecord /\ CallOK(w)'
  <2>1. CASE d = After(w)
    BY <2>1, AfterOK
  <2>2. ASSUME NEW a \in {"approveLast", "promote"}, d = [c EXCEPT !.at = a],
               a = "approveLast" => c.linked, a = "promote" => ~new
        PROVE  d \in CallRecord /\ CallOK(w)'
    <3>1. /\ d \in CallRecord /\ d.at = a /\ d.who = c.who /\ d.task = c.task
          /\ d.event = c.event /\ d.told = c.told /\ d.job = c.job /\ d.linked = c.linked
      BY <2>2, <1>1 DEF CallRecord, Place
    <3>2. Placed(w, call[w])' /\ Refers(call[w])' /\ Knows(call[w])'
      BY <2>2, <1>1, <1>2, <1>3, <1>4, <1>5, <3>1 DEF Placed, Refers, Knows
    <3> QED
      BY <3>1, <3>2 DEF CallOK
  <2> QED
    BY <1>8, <2>1, <2>2
<1> QED
  BY <1>2, <1>3, <1>4, <1>6, <1>7, <1>8, <1>9, Moved

LEMMA PromoteStep ==
  ASSUME MInv, NEW w \in Calls, Promote(w)
  PROVE  MInv' /\ UNCHANGED <<est, Mirrors, Taken(contacts)>>
<1>1. call[w] \in CallRecord /\ Placed(w, call[w]) /\ Refers(call[w]) /\ RowsOK
  BY DEF MInv, CallOK
<1>2. /\ contacts' = [contacts EXCEPT ![call[w].who] = "customer"] /\ call[w].at = "promote"
      /\ UNCHANGED <<est, jobs, remote, remoteJob, underway>> /\ Goes(w, After(w))
  BY DEF Promote, hcp
<1>3. call[w].who \in Taken(contacts)
  BY <1>1, <1>2 DEF Placed, Refers
<1>4. contacts' \in [Contact -> {"lead", "customer", None}] /\ Taken(contacts)' = Taken(contacts)
  BY <1>1, <1>2, <1>3, NoneAssumption DEF RowsOK, Taken
<1>5. RowsOK'
  BY <1>1, <1>2, <1>4 DEF RowsOK, EventOK, Taken
<1>6. Changes({}) /\ Mirrors' = Mirrors
  BY <1>2, <1>4 DEF Changes, Taken, Mirrors
<1> QED
  BY <1>2, <1>4, <1>5, <1>6, GoesMoves, AfterOK, Moved DEF MInv

-----------------------------------------------------------------------------
(* The other steps: where calls begin and fail, and what happens outside.   *)

LEMMA DeliverStep ==
  ASSUME MInv, NEW w \in Hook, NEW e \in underway, Deliver(w, e)
  PROVE  MInv'
<1> DEFINE d == call'[w]
           task == CASE e.kind = "customer" -> "customer"
                     [] e.kind \in {"jobCreated", "jobUpdated", "jobCanceled"} -> "job"
                     [] OTHER -> "estimate"
<1>1. RowsOK /\ EventOK(e) /\ e \in [kind : Kinds, told : Statuses \cup JobStatuses \cup {None}]
  BY DEF MInv, RowsOK
<1>2. RowsOK' /\ Changes({}) /\ UNCHANGED <<est, jobs, contacts, remoteJob>>
  BY <1>1, RowsStay DEF Deliver, rows
<1>3. w \in Calls /\ w # Pass
  BY ConstantsAssumption DEF Calls
<1>4. d = [at |-> IF task = "customer" THEN "contact" ELSE "look", task |-> task,
           event |-> e.kind, told |-> e.told, row |-> None, who |-> None, job |-> None,
           linked |-> FALSE, missed |-> {}]
  <2>1. d = [Idle EXCEPT !.at = IF task = "customer" THEN "contact" ELSE "look",
                         !.task = task, !.event = e.kind, !.told = e.told]
    BY <1>3 DEF Deliver, Goes, MInv
  <2> HIDE DEF task
  <2> QED
    BY <2>1 DEF Idle
<1>5. /\ task \in {"estimate", "job", "customer"}
      /\ task = "estimate" => e.kind \notin JobKinds \cup {"customer"}
      /\ task = "job" => e.kind \in JobKinds
  BY DEF JobKinds
<1> HIDE DEF task
<1>6. /\ d \in CallRecord /\ d.at = (IF task = "customer" THEN "contact" ELSE "look")
      /\ d.task = task /\ d.event = e.kind /\ d.told = e.told
      /\ d.who = None /\ d.job = None /\ d.linked = FALSE
  <2>1. e.kind \in Kinds /\ e.told \in Statuses \cup JobStatuses \cup {None}
    BY <1>1
  <2>2. (IF task = "customer" THEN "contact" ELSE "look") \in Place
    BY DEF Place
  <2> QED
    BY <1>4, <1>5, <2>1, <2>2 DEF CallRecord
<1>7. None \notin {"customer", "job", "estimate"} /\ e.kind # "poll"
  BY <1>1, NoneAssumption DEF EventOK, Kinds
<1>8. CallOK(w)'
  BY <1>1, <1>2, <1>3, <1>5, <1>6, <1>7 DEF CallOK, Placed, Refers, Knows, EventOK
<1>9. Others(w, {})
  BY <1>3, GoesMoves DEF Deliver, MInv
<1> QED
  BY <1>2, <1>3, <1>6, <1>8, <1>9, Moved

LEMMA StartPassStep ==
  ASSUME MInv, StartPass
  PROVE  MInv'
<1>1. Pass \in Calls
  BY DEF Calls
<1>2. RowsOK' /\ Changes({})
  BY RowsStay DEF MInv, StartPass, rows, hcp
<1>3. /\ Others(Pass, {})
      /\ call'[Pass] = [Idle EXCEPT !.at = "list", !.task = "estimate", !.event = "poll"]
  BY <1>1, GoesMoves DEF StartPass, MInv
<1> QED
  BY <1>1, <1>2, <1>3, AfterOK, Moved

LEMMA FailStep ==
  ASSUME MInv, NEW w \in Calls, Fail(w)
  PROVE  MInv' /\ UNCHANGED <<est, jobs, contacts>>
<1>1. RowsOK' /\ Changes({})
  BY RowsStay DEF MInv, Fail, rows, hcp
<1>2. Others(w, {}) /\ call'[w] \in {Idle, After(w)}
  BY GoesMoves DEF Fail, MInv
<1>3. UNCHANGED <<est, jobs, contacts>>
  BY DEF Fail, rows
<1> QED
  BY <1>1, <1>2, <1>3, AfterOK, Moved

(* What nobody's call does: HCP, the backfill and staff.                    *)
LEMMA OutsideMoves ==
  ASSUME MInv, RowsOK', NEW T, Changes(T),
         (T = {} /\ call' = call) \/ call' = [v \in Calls |-> Missing(v, T)]
  PROVE  MInv'
<1>1. \A v \in Calls : call'[v] \in CallRecord /\ CallOK(v)'
  BY OtherOK
<1>2. call' \in [Calls -> CallRecord]
  BY <1>1 DEF MInv
<1> QED
  BY <1>1, <1>2 DEF MInv

LEMMA EmitOK ==
  ASSUME RowsOK, NEW kind, NEW told, Emit(kind, told), EventOK([kind |-> kind, told |-> told])',
         remote' \in Statuses \cup {None, "gone"}, remoteJob' \in JobStatuses \cup {None},
         remoteJob # None => remoteJob' # None, UNCHANGED <<est, jobs, contacts>>
  PROVE  RowsOK' /\ Changes({})
<1> DEFINE e == [kind |-> kind, told |-> told]
<1>1. e.kind = kind /\ e.told = told
  OBVIOUS
<1>2. e \in [kind : Kinds, told : Statuses \cup JobStatuses \cup {None}]
  BY DEF EventOK
<1>3. underway' = underway \cup {e}
  BY DEF Emit
<1> HIDE DEF e
<1>4. \A f \in underway' : EventOK(f)'
  BY <1>3 DEF RowsOK, EventOK, e
<1> QED
  BY <1>2, <1>3, <1>4 DEF RowsOK, Changes, Taken, Mirrors

LEMMA HcpSteps ==
  ASSUME MInv, \/ HcpCustomer \/ HcpDeletes \/ Replay
               \/ \E s \in Moves : HcpEstimate(s)
               \/ \E s \in JobMoves : HcpJob(s)
  PROVE  MInv' /\ call' = call
<1>1. RowsOK
  BY DEF MInv
<1>2. call' = call /\ UNCHANGED <<est, jobs, contacts>>
  BY DEF HcpCustomer, HcpDeletes, Replay, HcpEstimate, HcpJob, rows
<1>3. RowsOK' /\ Changes({})
  <2>1. CASE HcpCustomer
    <3>1. EventOK([kind |-> "customer", told |-> None])'
      BY DEF EventOK, Kinds, JobKinds
    <3> QED
      BY <1>1, <1>2, <2>1, <3>1, EmitOK DEF HcpCustomer, RowsOK
  <2>2. CASE HcpDeletes
    <3>1. EventOK([kind |-> "deleted", told |-> "rejected"])'
      BY DEF EventOK, Kinds, JobKinds, Statuses, Rank
    <3> QED
      BY <1>1, <1>2, <2>2, <3>1, EmitOK DEF HcpDeletes, RowsOK
  <2>3. CASE Replay
    <3>1. ASSUME NEW kind \in {"created", "updated"}, remote \in Statuses
          PROVE  EventOK([kind |-> kind, told |-> remote])'
      BY <2>3, <3>1 DEF EventOK, Kinds, JobKinds, Replay
    <3>2. ASSUME NEW kind \in JobKinds, remoteJob # None
          PROVE  EventOK([kind |-> kind, told |-> remoteJob])'
      BY <1>1, <2>3, <3>2 DEF EventOK, Kinds, JobKinds, Replay, RowsOK
    <3> QED
      BY <1>1, <1>2, <2>3, <3>1, <3>2, EmitOK DEF Replay, RowsOK, JobKinds
  <2>4. ASSUME NEW s \in Moves, HcpEstimate(s)
        PROVE  RowsOK' /\ Changes({})
    <3>1. s \in Statuses
      BY ConstantsAssumption
    <3>2. PICK kind \in {"created", "updated", EventOf[s]} : Emit(kind, s)
      BY <2>4 DEF HcpEstimate
    <3>3. kind \in {"created", "updated", "scheduled", "on_my_way", "sent", "approval"}
      BY <3>1 DEF EventOf, Statuses, Rank
    <3>4. EventOK([kind |-> kind, told |-> s])'
      BY <3>1, <3>3 DEF EventOK, Kinds, JobKinds
    <3> QED
      BY <1>1, <1>2, <2>4, <3>1, <3>2, <3>4, EmitOK DEF HcpEstimate, RowsOK
  <2>5. ASSUME NEW s \in JobMoves, HcpJob(s)
        PROVE  RowsOK' /\ Changes({})
    <3>1. s \in JobStatuses /\ s # None
      BY ConstantsAssumption, NoneAssumption
    <3>2. PICK kind \in JobKinds : Emit(kind, s)
      BY <2>5 DEF HcpJob, JobKinds
    <3>3. EventOK([kind |-> kind, told |-> s])'
      BY <2>5, <3>1 DEF EventOK, Kinds, JobKinds, HcpJob
    <3> QED
      BY <1>1, <1>2, <2>5, <3>1, <3>2, <3>3, EmitOK DEF HcpJob, RowsOK
  <2> QED
    BY <2>1, <2>2, <2>3, <2>4, <2>5
<1> QED
  BY <1>2, <1>3, OutsideMoves

LEMMA SetStatusStep ==
  ASSUME MInv, NEW s \in Edits, SetStatus(s)
  PROVE  MInv' /\ \A v \in Calls : call'[v].at = call[v].at
<1>1. RowsOK /\ est \in Estimate /\ est # None /\ s \in Statuses
  BY ConstantsAssumption DEF MInv, RowsOK, SetStatus
<1>2. /\ est' = [est EXCEPT !.status = s, !.manual = TRUE]
      /\ call' = [v \in Calls |-> Missing(v, {"estimate"})]
      /\ UNCHANGED <<jobs, contacts, remote, remoteJob, underway>>
  BY DEF SetStatus
<1>3. est' \in Estimate /\ est' # None /\ est'.contact = est.contact
  BY <1>1, <1>2, NoneAssumption DEF Estimate
<1>4. RowsOK'
  BY <1>1, <1>2, <1>3 DEF RowsOK, EventOK, Taken
<1>5. Changes({"estimate"})
  BY <1>2, <1>3 DEF Changes, Taken, Mirrors, Tables
<1>6. \A v \in Calls : call'[v].at = call[v].at
  BY <1>2 DEF MInv, Missing, CallRecord
<1> QED
  BY <1>2, <1>4, <1>5, <1>6, OutsideMoves

-----------------------------------------------------------------------------
(* The invariant, and what each property needs of a step. *)

LEMMA InitMInv == Init => MInv
<1> SUFFICES ASSUME Init
             PROVE  MInv
  OBVIOUS
<1> DEFINE nobody == [k \in Contact |-> None]
           k == Free(nobody)
<1>1. k \in Contact /\ k # None
  BY ConstantsAssumption, NoneAssumption DEF Free
<1>2. Idle \in CallRecord
  BY DEF Idle, CallRecord, Place
<1>3. call \in [Calls -> CallRecord]
  BY <1>2 DEF Init
<1>4. \A w \in Calls : CallOK(w)
  BY NoneAssumption DEF Init, Idle, CallOK, Placed, Refers, Knows
<1>5. CASE remote = None /\ est = None /\ contacts = nobody
  BY <1>3, <1>4, <1>5 DEF Init, MInv, RowsOK, Taken
<1>6. CASE /\ remote = "sent" /\ contacts = [nobody EXCEPT ![k] = "lead"]
           /\ est = [status |-> "sent", manual |-> FALSE, contact |-> k]
  <2>1. k \in Taken(contacts) /\ contacts \in [Contact -> {"lead", "customer", None}]
    BY <1>1, <1>6, NoneAssumption DEF Taken
  <2>2. est \in Estimate /\ est.contact = k /\ remote \in Statuses
    BY <1>1, <1>6 DEF Estimate, Statuses, Rank
  <2> QED
    BY <1>3, <1>4, <2>1, <2>2 DEF Init, MInv, RowsOK, Taken
<1> QED
  BY <1>5, <1>6 DEF Init

LEMMA CallStepMInv ==
  ASSUME MInv, NEW w \in Calls, CallStep(w)
  PROVE  MInv'
BY LookSteps, WriteEstimateStep, AddConvertedStep, InsertEstimateStep, AddContactStep, ApproveStep,
   WriteJobStep, InsertJobStep, PromoteStep DEF CallStep, Looks

LEMMA MInvInductive == MInv /\ [Next]_vars => MInv'
<1> SUFFICES ASSUME MInv, [Next]_vars
             PROVE  MInv'
  OBVIOUS
<1>1. CASE UNCHANGED vars
  <2>1. RowsOK' /\ Changes({}) /\ call' = call
    BY <1>1, RowsStay DEF MInv, vars
  <2> QED
    BY <2>1, OutsideMoves
<1>2. CASE Next
  BY <1>2, DeliverStep, StartPassStep, CallStepMInv, FailStep, HcpSteps, SetStatusStep DEF Next
<1> QED
  BY <1>1, <1>2

(* The step of one call leaves where the others are.                        *)
LEMMA OthersStand ==
  ASSUME MInv, NEW w \in Calls, CallStep(w) \/ Fail(w), NEW v \in Calls, v # w
  PROVE  call'[v].at = call[v].at
<1>1. call[v] \in CallRecord
  BY DEF MInv
<1>2. \E c : Goes(w, c) \/ \E T : Wrote(w, c, T)
  BY DEF CallStep, Fail, List, LookEstimate, LookedEstimate, FetchEstimate, WriteEstimate, Convert,
         AddConverted, InsertEstimate, FindContact, AddContact, LookJob, LookedJob, FetchJob, Link,
         Approve, WriteJob, InsertJob, Promote
<1>3. call'[v] = call[v] \/ \E T : call'[v] = Missing(v, T)
  BY <1>2 DEF Goes, Wrote, MInv
<1> QED
  BY <1>1, <1>3 DEF Missing, CallRecord

(* Which steps change a row of the estimate, and how.                       *)
LEMMA EstimateStep ==
  ASSUME MInv, NEW w \in Calls, CallStep(w), est # None, est' # est
  PROVE  \/ "estimate" \in call[w].missed
         \/ est'.status = "rejected" \/ call[w].at \in {"approve", "approveLast"}
         \/ ~est.manual /\ Rank[est'.status] > Rank[est.status]
<1>1. CASE Looks(w)
  BY <1>1 DEF Looks, List, LookEstimate, LookedEstimate, FetchEstimate, Convert, FindContact,
              LookJob, LookedJob, FetchJob, Link, rows
<1>2. CASE AddConverted(w) \/ InsertEstimate(w) \/ AddContact(w) \/ WriteJob(w) \/ InsertJob(w) \/ Promote(w)
  BY <1>2, AddConvertedStep, InsertEstimateStep, AddContactStep, WriteJobStep, InsertJobStep, PromoteStep
<1>3. CASE Approve(w)
  BY <1>3 DEF Approve
<1>4. CASE WriteEstimate(w)
  <2> DEFINE c == call[w]
             new == Resolve(Mapped(c), c.row.status, c.row.manual)
  <2>1. c.at = "write" /\ c.task = "estimate" /\ est' = [est EXCEPT !.status = new]
    BY <1>4 DEF WriteEstimate
  <2>2. est \in Estimate /\ ("estimate" \in c.missed \/ c.row = est)
    BY <1>4, <2>1, WriteEstimateStep DEF MInv, CallOK, Knows
  <2>3. CASE c.row = est
    <3>1. new = Resolve(Mapped(c), est.status, est.manual) /\ est'.status = new
      BY <2>1, <2>2, <2>3 DEF Estimate
    <3>2. new # est.status
      BY <2>1, <2>2 DEF Estimate
    <3> QED
      BY <3>1, <3>2 DEF Resolve
  <2> QED
    BY <2>2, <2>3
<1> QED
  BY <1>1, <1>2, <1>3, <1>4 DEF CallStep, Looks

(* Which steps add a row of a job or of a contact.                          *)
LEMMA DoubleStep ==
  ASSUME MInv, NEW w \in Calls, CallStep(w)
  PROVE  /\ Mirrors' = Mirrors \/ Mirrors = {} \/ "job" \in call[w].missed
         /\ Taken(contacts)' = Taken(contacts) \/ Taken(contacts) = {} \/ "contact" \in call[w].missed
<1>1. Knows(call[w])
  BY DEF MInv, CallOK
<1>2. CASE Looks(w)
  <2>1. UNCHANGED <<jobs, contacts>>
    BY <1>2 DEF Looks, List, LookEstimate, LookedEstimate, FetchEstimate, Convert, FindContact,
                LookJob, LookedJob, FetchJob, Link, rows
  <2> QED
    BY <2>1 DEF Mirrors, Taken
<1>3. CASE WriteEstimate(w) \/ Approve(w)
  <2>1. UNCHANGED <<jobs, contacts>>
    BY <1>3 DEF WriteEstimate, Approve
  <2> QED
    BY <2>1 DEF Mirrors, Taken
<1>4. CASE AddConverted(w) \/ WriteJob(w)
  <2>1. UNCHANGED <<Mirrors, contacts>>
    BY <1>4, AddConvertedStep, WriteJobStep
  <2> QED
    BY <2>1 DEF Taken
<1>5. CASE Promote(w)
  BY <1>5, PromoteStep
<1>6. CASE InsertEstimate(w)
  BY <1>1, <1>6, InsertEstimateStep DEF InsertEstimate, Knows
<1>7. CASE AddContact(w)
  <2>1. call[w].who = None
    BY <1>7, AddContactStep DEF MInv, CallOK, Placed
  <2> QED
    BY <1>1, <1>7, <2>1, AddContactStep DEF Knows
<1>8. CASE InsertJob(w)
  BY <1>1, <1>8, InsertJobStep DEF InsertJob, Knows
<1> QED
  BY <1>2, <1>3, <1>4, <1>5, <1>6, <1>7, <1>8 DEF CallStep, Looks

(* A step that moves a call is a step of that call, or one that begins or
   ends it.                                                                 *)
LEMMA Mover ==
  ASSUME MInv, [Next]_vars, NEW w \in Calls, call'[w].at # call[w].at
  PROVE  CallStep(w) \/ UNCHANGED <<est, jobs, contacts>>
<1>1. CASE UNCHANGED vars
  BY <1>1 DEF vars
<1>2. ASSUME NEW v \in Hook, NEW e \in underway, Deliver(v, e)
      PROVE  UNCHANGED <<est, jobs, contacts>>
  BY <1>2 DEF Deliver, rows
<1>3. CASE StartPass
  BY <1>3 DEF StartPass, rows
<1>4. ASSUME NEW v \in Calls, Fail(v)
      PROVE  UNCHANGED <<est, jobs, contacts>>
  BY <1>4, FailStep
<1>5. ASSUME NEW v \in Calls, CallStep(v)
      PROVE  CallStep(w)
  BY <1>5, OthersStand
<1>6. CASE \/ HcpCustomer \/ HcpDeletes \/ Replay
           \/ \E s \in Moves : HcpEstimate(s)
           \/ \E s \in JobMoves : HcpJob(s)
  BY <1>6, HcpSteps
<1>7. ASSUME NEW s \in Edits, SetStatus(s)
      PROVE  FALSE
  BY <1>7, SetStatusStep
<1> QED
  BY <1>1, <1>2, <1>3, <1>4, <1>5, <1>6, <1>7 DEF Next

LEMMA Rows ==
  ASSUME MInv
  PROVE  IsFiniteSet(Mirrors) /\ IsFiniteSet(Taken(contacts))
<1>1. Mirrors \subseteq Job /\ Taken(contacts) \subseteq Contact
  BY DEF MInv, RowsOK, Mirrors, Taken
<1> QED
  BY <1>1, ConstantsAssumption, FS_Subset

LEMMA SpecMInv == Spec => []MInv
BY InitMInv, MInvInductive, PTL DEF Spec

(* The rows and the calls keep their types, in every state (the tables of
   hcp-sync and of the webhook handlers). *)
THEOREM TypeCorrect == Spec => []TypeOK
<1>1. MInv => TypeOK
  <2> SUFFICES ASSUME MInv
               PROVE  TypeOK
    OBVIOUS
  <2>1. \A w \in Calls : DOMAIN call[w] = DOMAIN Idle /\ call[w].missed \subseteq Tables
    BY DEF MInv, CallRecord, Idle
  <2> QED
    BY <2>1 DEF MInv, RowsOK, TypeOK
<1> QED
  BY <1>1, SpecMInv, PTL

(* A handler or the pass moves the estimate forward only, unless somebody
   wrote the row after this call had read it (resolveHcpEstimateStatus and
   its callers). *)
THEOREM ForwardCorrect == Spec => ForwardUnlessOvertaken
<1>1. ASSUME MInv, [Next]_vars, NEW w \in Calls,
             call'[w].at # call[w].at, est # None, est' # est
      PROVE  \/ "estimate" \in call[w].missed
             \/ est'.status = "rejected" \/ call[w].at \in {"approve", "approveLast"}
             \/ ~est.manual /\ Rank[est'.status] > Rank[est.status]
  BY <1>1, Mover, EstimateStep
<1>2. MInv /\ [Next]_vars =>
        [\A w \in Calls : call'[w].at # call[w].at /\ est # None /\ est' # est =>
           \/ "estimate" \in call[w].missed
           \/ est'.status = "rejected" \/ call[w].at \in {"approve", "approveLast"}
           \/ ~est.manual /\ Rank[est'.status] > Rank[est.status]]_vars
  BY <1>1
<1> QED
  BY <1>2, SpecMInv, PTL DEF Spec, ForwardUnlessOvertaken

(* No index refuses a second row of a job or a second contact, and yet only
   a call that was overtaken between its look and its insert adds one. *)
THEOREM DoublesCorrect == Spec => DoublesOnlyByOverlap
<1>1. ASSUME MInv, [Next]_vars, NEW w \in Calls, call'[w].at # call[w].at
      PROVE  /\ Mirrors # {} /\ Cardinality(Mirrors') > Cardinality(Mirrors) => "job" \in call[w].missed
             /\ Taken(contacts) # {} /\ Cardinality(Taken(contacts')) > Cardinality(Taken(contacts))
                  => "contact" \in call[w].missed
  <2>1. \/ CallStep(w)
        \/ Mirrors' = Mirrors /\ Taken(contacts)' = Taken(contacts)
    BY <1>1, Mover DEF Mirrors, Taken
  <2>2. /\ Mirrors' = Mirrors \/ Mirrors = {} \/ "job" \in call[w].missed
        /\ Taken(contacts)' = Taken(contacts) \/ Taken(contacts) = {} \/ "contact" \in call[w].missed
    BY <1>1, <2>1, DoubleStep
  <2>3. Cardinality(Mirrors) \in Nat /\ Cardinality(Taken(contacts)) \in Nat
    BY <1>1, Rows, FS_CardinalityType
  <2>4. Mirrors' = Mirrors => ~(Cardinality(Mirrors') > Cardinality(Mirrors))
    BY <2>3
  <2>5. Taken(contacts') = Taken(contacts)'
    BY DEF Taken
  <2>6. Taken(contacts') = Taken(contacts)
          => ~(Cardinality(Taken(contacts')) > Cardinality(Taken(contacts)))
    BY <2>3
  <2> QED
    BY <2>2, <2>4, <2>5, <2>6
<1>2. MInv /\ [Next]_vars =>
        [\A w \in Calls : call'[w].at # call[w].at =>
           /\ Mirrors # {} /\ Cardinality(Mirrors') > Cardinality(Mirrors) => "job" \in call[w].missed
           /\ Taken(contacts) # {} /\ Cardinality(Taken(contacts')) > Cardinality(Taken(contacts))
                => "contact" \in call[w].missed]_vars
  BY <1>1
<1> QED
  BY <1>2, SpecMInv, PTL DEF Spec, DoublesOnlyByOverlap

=============================================================================
