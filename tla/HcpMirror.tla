----------------------------- MODULE HcpMirror -----------------------------
(***************************************************************************)
(* One estimate, job and customer of Housecall Pro (HCP) and the rows that *)
(* mirror them.  Webhook events arrive in any order, late, again (the      *)
(* backfill) or never, and each is handled by a call of its own; the       *)
(* periodic pass lists what HCP has now; staff set the status by hand.     *)
(* Every call reads a row, asks HCP, and writes what it made of the two.   *)
(***************************************************************************)
EXTENDS Naturals, FiniteSets

CONSTANTS
  Hook, Pass,      \* calls of processInBackground; the pass of syncHousecallPro
  Contact, Job,    \* slots for rows
  Moves, JobMoves, \* what the estimate and the job can become in HCP
  Edits,           \* what staff set the status to
  MaxOutside,      \* bound on what HCP, the backfill and staff do
  MaxFails,        \* bound on queries and requests that throw
  None

Rank == [scheduled |-> 0, in_progress |-> 1, sent |-> 2, approved |-> 3, rejected |-> 99]
Statuses == DOMAIN Rank
JobStatuses == {"scheduled", "in_progress", "completed", "cancelled"}
Kinds == {"created", "updated", "scheduled", "on_my_way", "sent", "approval", "deleted",
          "customer", "jobCreated", "jobUpdated", "jobCanceled"}
Calls == Hook \cup {Pass}

(* The rows of an estimate and of a job. *)
Estimate == [status : Statuses, manual : BOOLEAN, contact : Contact]
JobRow == [ext : {"job", "estimate"}, status : JobStatuses, linked : BOOLEAN, contact : Contact]

ASSUME ConstantsAssumption ==
  /\ Moves \subseteq Statuses /\ JobMoves \subseteq JobStatuses /\ Edits \subseteq Statuses
  /\ Pass \notin Hook /\ Contact # {} /\ IsFiniteSet(Contact) /\ IsFiniteSet(Job)

ASSUME NoneAssumption ==
  /\ None \notin Contact \cup Job \cup Statuses \cup JobStatuses \cup Kinds
  /\ None \notin {"lead", "customer", "poll", "estimate", "job"}
  /\ None \notin Estimate /\ None \notin JobRow

VARIABLES
  remote, remoteJob,   \* the mapped status of the estimate and the job in HCP
  underway,            \* events that have not arrived
  est, jobs, contacts, \* rows
  call,                \* locals of the calls
  outside, fails       \* the bounds' counters

vars == <<remote, remoteJob, underway, est, jobs, contacts, call, outside, fails>>
rows == <<est, jobs, contacts>>
hcp == <<remote, remoteJob, underway, outside>>

Idle == [at |-> "idle", task |-> None, event |-> None, told |-> None,
         row |-> None, who |-> None, job |-> None, linked |-> FALSE,
         missed |-> {}]   \* missed: history, which rows changed since the call read them

Tables == {"estimate", "job", "contact"}

TypeOK ==
  /\ remote \in Statuses \cup {None, "gone"} /\ remoteJob \in JobStatuses \cup {None}
  /\ underway \subseteq [kind : Kinds, told : Statuses \cup JobStatuses \cup {None}]
  /\ est \in Estimate \cup {None}
  /\ jobs \in [Job -> JobRow \cup {None}]
  /\ contacts \in [Contact -> {"lead", "customer", None}]
  /\ \A w \in Calls : DOMAIN call[w] = DOMAIN Idle /\ call[w].missed \subseteq Tables

Taken(table) == {i \in DOMAIN table : table[i] # None}
Free(table) == CHOOSE i \in DOMAIN table : table[i] = None
Full(table) == Taken(table) = DOMAIN table

(* Nothing is mirrored yet, or an estimate that HCP had sent. *)
Init ==
  /\ LET nobody == [k \in Contact |-> None]
         k == Free(nobody)
     IN \/ remote = None /\ outside = 0 /\ est = None /\ contacts = nobody
        \/ /\ remote = "sent" /\ outside = 1 /\ contacts = [nobody EXCEPT ![k] = "lead"]
           /\ est = [status |-> "sent", manual |-> FALSE, contact |-> k]
  /\ remoteJob = None /\ underway = {}
  /\ jobs = [j \in Job |-> None]
  /\ call = [w \in Calls |-> Idle]
  /\ fails = 0

-----------------------------------------------------------------------------
(* How a call goes on, and what others miss when it writes. *)

After(w) ==
  IF w = Pass /\ call[w].task = "estimate"
  THEN [Idle EXCEPT !.at = "list", !.task = "job", !.event = "poll"] ELSE Idle

Goes(w, c) == call' = [call EXCEPT ![w] = c]

(* The tables whose rows a call has read and is going to act on. *)
Relies(c) ==
  IF c.at \in {"idle", "list", "look", "promote"} THEN {}
  ELSE {t \in Tables : \/ t = "estimate" /\ c.task = "estimate"
                       \/ t = "contact" /\ c.who = None
                       \/ t = "job" /\ c.task = "job" /\ c.job = None}

Missing(v, tables) == [call[v] EXCEPT !.missed = @ \cup (tables \cap Relies(call[v]))]

Wrote(w, c, tables) == call' = [v \in Calls |-> IF v = w THEN c ELSE Missing(v, tables)]

(* What an event came with stands for HCP's answer if there is none.
   estimate.sent takes only an ending from HCP, the others whatever it says. *)
Mapped(c) ==
  IF c.event = "sent" /\ c.told \notin {"approved", "rejected"} THEN "sent" ELSE c.told

(* Bug: the status that staff set is not looked at. *)
ResolveIgnoresManual(mapped, local, manual) ==
  IF mapped = "rejected" \/ Rank[mapped] > Rank[local] THEN mapped ELSE local

Resolve(mapped, local, manual) ==
  IF mapped = "rejected" \/ (~manual /\ Rank[mapped] > Rank[local]) THEN mapped ELSE local

-----------------------------------------------------------------------------
(* Where a call begins. *)

Deliver(w, e) ==
  /\ w \in Hook /\ call[w].at = "idle" /\ e \in underway
  /\ underway' = underway \ {e}
  /\ LET task == CASE e.kind = "customer" -> "customer"
                   [] e.kind \in {"jobCreated", "jobUpdated", "jobCanceled"} -> "job"
                   [] OTHER -> "estimate"
     IN Goes(w, [Idle EXCEPT !.at = IF task = "customer" THEN "contact" ELSE "look",
                             !.task = task, !.event = e.kind, !.told = e.told])
  /\ UNCHANGED <<rows, remote, remoteJob, outside, fails>>

StartPass ==
  /\ call[Pass].at = "idle"
  /\ Goes(Pass, [Idle EXCEPT !.at = "list", !.task = "estimate", !.event = "poll"])
  /\ UNCHANGED <<rows, hcp, fails>>

(* The listing of HCP; what it deleted is not there. *)
List(w) ==
  /\ call[w].at = "list"
  /\ LET listed == IF call[w].task = "estimate" THEN remote ELSE remoteJob
     IN Goes(w, IF listed \in {None, "gone"} THEN After(w)
                ELSE [call[w] EXCEPT !.at = "look", !.told = listed])
  /\ UNCHANGED <<rows, hcp, fails>>

-----------------------------------------------------------------------------
(* The estimate. *)

LookedEstimate(w, wanted) ==
  /\ call[w].at = "look" /\ call[w].task = "estimate"
  /\ LET c == [call[w] EXCEPT !.row = est, !.missed = @ \ {"estimate"}]
         next == CASE est = None /\ c.event \in wanted -> "contact"
                   [] est # None /\ c.event \in {"on_my_way", "deleted", "poll"} -> "write"
                   [] est # None /\ c.event \notin {"on_my_way", "deleted", "poll", "created"} -> "fetch"
                   [] OTHER -> "end"
     IN Goes(w, IF next = "end" THEN After(w) ELSE [c EXCEPT !.at = next])
  /\ UNCHANGED <<rows, hcp, fails>>

(* Bug: the pass updates only. *)
LookEstimateUpdates(w) == LookedEstimate(w, {"created"})
LookEstimate(w) == LookedEstimate(w, {"created", "poll"})

FetchEstimate(w) ==
  /\ call[w].at = "fetch" /\ call[w].task = "estimate"
  /\ LET next == [call[w] EXCEPT !.at = IF call[w].event = "created" THEN "insert" ELSE "write"]
     IN \/ remote \in Statuses /\ Goes(w, [next EXCEPT !.told = remote])
        \/ Goes(w, IF call[w].event = "approval" THEN After(w) ELSE next)
  /\ UNCHANGED <<rows, hcp, fails>>

WriteEstimate(w) ==
  /\ call[w].at = "write" /\ call[w].task = "estimate"
  /\ LET c == call[w]
         new == Resolve(Mapped(c), c.row.status, c.row.manual)
         c2 == IF w = Pass /\ new = "approved" /\ c.row.status # "approved"
               THEN [c EXCEPT !.at = "convert", !.row = None] ELSE After(w)
     IN /\ est' = [est EXCEPT !.status = new]
        /\ Wrote(w, c2, IF est' = est THEN {} ELSE {"estimate"})
  /\ UNCHANGED <<jobs, contacts, hcp, fails>>

(* convertEstimateToJob *)
Convert(w) ==
  /\ call[w].at = "convert"
  /\ Goes(w, IF \E j \in Taken(jobs) : jobs[j].linked THEN After(w)
             ELSE [call[w] EXCEPT !.at = "addConverted"])
  /\ UNCHANGED <<rows, hcp, fails>>

AddConverted(w) ==
  /\ call[w].at = "addConverted" /\ ~Full(jobs)
  /\ jobs' = [jobs EXCEPT ![Free(jobs)] =
        [ext |-> "estimate", status |-> "in_progress", linked |-> TRUE, contact |-> est.contact]]
  /\ Goes(w, After(w))
  /\ UNCHANGED <<est, contacts, hcp, fails>>

(* The unique index on the external ID refuses a second row. *)
InsertEstimate(w) ==
  /\ call[w].at = "insert" /\ call[w].task = "estimate"
  /\ LET c == call[w]
         new == c.who = None
         who == IF new THEN Free(contacts) ELSE c.who
     IN IF est # None THEN Goes(w, After(w)) /\ UNCHANGED rows
        ELSE /\ ~(new /\ Full(contacts))
             /\ est' = [status |-> c.told, manual |-> FALSE, contact |-> who]
             /\ contacts' = IF new THEN [contacts EXCEPT ![who] = "customer"] ELSE contacts
             /\ jobs' = jobs
             /\ Wrote(w, After(w), {"estimate"} \cup (IF new THEN {"contact"} ELSE {}))
  /\ UNCHANGED <<hcp, fails>>

-----------------------------------------------------------------------------
(* The customer's contact: by HCP's ID, else by phone, else by e-mail. *)

WithContact(w) ==
  CASE call[w].task = "estimate" -> IF w = Pass THEN "insert" ELSE "fetch"
    [] call[w].task = "job" -> "link"
    [] OTHER -> "end"

FindContact(w) ==
  /\ call[w].at = "contact"
  /\ LET c == [call[w] EXCEPT !.missed = @ \ {"contact"}]
         next == WithContact(w)
     IN \/ \E k \in Taken(contacts) :
             Goes(w, IF next = "end" THEN After(w) ELSE [c EXCEPT !.who = k, !.at = next])
        \/ /\ Taken(contacts) = {}
           /\ Goes(w, [c EXCEPT !.at = IF w = Pass THEN next ELSE "addContact"])
  /\ UNCHANGED <<rows, hcp, fails>>

AddContact(w) ==
  /\ call[w].at = "addContact" /\ ~Full(contacts)
  /\ LET k == Free(contacts)
         next == WithContact(w)
     IN /\ contacts' = [contacts EXCEPT ![k] = "customer"]
        /\ Wrote(w, IF next = "end" THEN After(w) ELSE [call[w] EXCEPT !.who = k, !.at = next],
                 {"contact"})
  /\ UNCHANGED <<est, jobs, hcp, fails>>

-----------------------------------------------------------------------------
(* The job. *)

Mirrors == {j \in Taken(jobs) : jobs[j].ext = "job"}

LookedJob(w, found) ==
  /\ call[w].at = "look" /\ call[w].task = "job"
  /\ LET c == [call[w] EXCEPT !.missed = @ \ {"job"}]
     IN \/ /\ found = {}
           /\ Goes(w, IF c.event = "jobCanceled" THEN After(w)
                      ELSE [c EXCEPT !.at = IF w = Pass THEN "contact" ELSE "fetch"])
        \/ \E j \in found :
             Goes(w, [c EXCEPT !.job = j, !.who = jobs[j].contact,
                               !.at = CASE w # Pass -> "fetch"
                                        [] w = Pass /\ jobs[j].linked -> "write"
                                        [] OTHER -> "link"])
  /\ UNCHANGED <<rows, hcp, fails>>

(* Bug: a handler looks under a key that the insert does not write. *)
LookJobByOtherKey(w) == LookedJob(w, IF w = Pass THEN Mirrors ELSE {})
LookJob(w) == LookedJob(w, Mirrors)

FetchJob(w) ==
  /\ call[w].at = "fetch" /\ call[w].task = "job"
  /\ LET next == [call[w] EXCEPT !.at = IF call[w].job = None THEN "contact" ELSE "write"]
     IN \/ Goes(w, [next EXCEPT !.told = remoteJob])
        \/ Goes(w, [next EXCEPT !.event = "unanswered"])
  /\ UNCHANGED <<rows, hcp, fails>>

ToJobRow(c) == IF c.job = None THEN "insert" ELSE "write"

(* The estimate of the job, to link it and to mark it approved.  The pass
   that has to add the contact marks it after its transaction. *)
Link(w) ==
  /\ call[w].at = "link"
  /\ LET c == [call[w] EXCEPT !.row = est, !.linked = (est # None), !.missed = @ \ {"estimate"}]
         approve == est # None /\ est.status # "approved" /\ ~(w = Pass /\ c.who = None)
     IN Goes(w, [c EXCEPT !.at = IF approve THEN "approve" ELSE ToJobRow(c)])
  /\ UNCHANGED <<rows, hcp, fails>>

Approve(w) ==
  /\ call[w].at \in {"approve", "approveLast"}
  /\ est' = [est EXCEPT !.status = "approved"]
  /\ Wrote(w, IF call[w].at = "approveLast" THEN After(w) ELSE [call[w] EXCEPT !.at = ToJobRow(call[w])],
           IF est' = est THEN {} ELSE {"estimate"})
  /\ UNCHANGED <<jobs, contacts, hcp, fails>>

(* job.created promotes the contact if HCP has answered, the pass always. *)
WriteJob(w) ==
  /\ call[w].at = "write" /\ call[w].task = "job"
  /\ LET c == call[w]
     IN /\ jobs' = [jobs EXCEPT ![c.job].status = c.told, ![c.job].linked = @ \/ c.linked]
        /\ Goes(w, IF w = Pass \/ c.event = "jobCreated"
                   THEN [c EXCEPT !.at = "promote"] ELSE After(w))
  /\ UNCHANGED <<est, contacts, hcp, fails>>

InsertJob(w) ==
  /\ call[w].at = "insert" /\ call[w].task = "job" /\ ~Full(jobs)
  /\ LET c == call[w]
         new == c.who = None
         who == IF new THEN Free(contacts) ELSE c.who
         approve == new /\ c.linked /\ c.row.status # "approved"
     IN /\ ~(new /\ Full(contacts))
        /\ jobs' = [jobs EXCEPT ![Free(jobs)] =
              [ext |-> "job", status |-> c.told, linked |-> c.linked, contact |-> who]]
        /\ contacts' = IF new THEN [contacts EXCEPT ![who] = "customer"] ELSE contacts
        /\ Wrote(w, CASE approve -> [c EXCEPT !.at = "approveLast"]
                      [] new /\ ~approve -> After(w)
                      [] OTHER -> [c EXCEPT !.at = "promote"],
                 {"job"} \cup (IF new THEN {"contact"} ELSE {}))
  /\ UNCHANGED <<est, hcp, fails>>

(* A lead with a job is a customer. *)
Promote(w) ==
  /\ call[w].at = "promote"
  /\ contacts' = [contacts EXCEPT ![call[w].who] = "customer"]
  /\ Goes(w, After(w))
  /\ UNCHANGED <<est, jobs, hcp, fails>>

-----------------------------------------------------------------------------
(* What throws ends the handler; in the pass it ends the item, and a listing
   that fails ends the pass. *)
Fail(w) ==
  /\ call[w].at # "idle" /\ fails < MaxFails
  /\ fails' = fails + 1
  /\ Goes(w, IF call[w].at = "list" THEN Idle ELSE After(w))
  /\ UNCHANGED <<rows, hcp>>

Emit(kind, told) == underway' = underway \cup {[kind |-> kind, told |-> told]}
Outside == outside < MaxOutside /\ outside' = outside + 1

EventOf == [scheduled |-> "scheduled", in_progress |-> "on_my_way", sent |-> "sent",
            approved |-> "approval", rejected |-> "approval"]

HcpCustomer == Outside /\ Emit("customer", None) /\ UNCHANGED <<rows, remote, remoteJob, call, fails>>

HcpEstimate(s) ==
  /\ Outside /\ s \in Moves \ {remote} /\ remote # "gone"
  /\ remote' = s
  /\ \E kind \in (IF remote = None THEN {"created"} ELSE {"updated", EventOf[s]}) : Emit(kind, s)
  /\ UNCHANGED <<rows, remoteJob, call, fails>>

HcpDeletes ==
  /\ Outside /\ remote \in Statuses
  /\ remote' = "gone" /\ Emit("deleted", "rejected")
  /\ UNCHANGED <<rows, remoteJob, call, fails>>

HcpJob(s) ==
  /\ Outside /\ s \in JobMoves \ {remoteJob} /\ remote # None
  /\ remoteJob' = s
  /\ Emit(CASE s = "cancelled" -> "jobCanceled" [] s # "cancelled" /\ remoteJob = None -> "jobCreated"
            [] OTHER -> "jobUpdated", s)
  /\ UNCHANGED <<rows, remote, call, fails>>

(* runHcpWebhookBackfill replays what it lists as events. *)
Replay ==
  /\ Outside
  /\ \/ remote \in Statuses /\ Emit(IF est = None THEN "created" ELSE "updated", remote)
     \/ remoteJob # None /\ Emit(IF Mirrors = {} THEN "jobCreated" ELSE "jobUpdated", remoteJob)
  /\ UNCHANGED <<rows, remote, remoteJob, call, fails>>

(* PATCH /api/estimates/:id/status *)
SetStatus(s) ==
  /\ Outside /\ est # None /\ s \in Edits
  /\ est' = [est EXCEPT !.status = s, !.manual = TRUE]
  /\ call' = [v \in Calls |-> Missing(v, {"estimate"})]
  /\ UNCHANGED <<jobs, contacts, remote, remoteJob, underway, fails>>

CallStep(w) ==
  \/ List(w) \/ LookEstimate(w) \/ FetchEstimate(w) \/ WriteEstimate(w) \/ Convert(w)
  \/ AddConverted(w) \/ InsertEstimate(w) \/ FindContact(w) \/ AddContact(w)
  \/ LookJob(w) \/ FetchJob(w) \/ Link(w) \/ Approve(w) \/ WriteJob(w) \/ InsertJob(w) \/ Promote(w)

Next ==
  \/ \E w \in Hook, e \in underway : Deliver(w, e)
  \/ StartPass
  \/ \E w \in Calls : CallStep(w) \/ Fail(w)
  \/ \E s \in Moves : HcpEstimate(s)
  \/ \E s \in JobMoves : HcpJob(s)
  \/ HcpCustomer \/ HcpDeletes \/ Replay
  \/ \E s \in Edits : SetStatus(s)

Spec == Init /\ [][Next]_vars

(* An await returns or rejects, and the scheduler starts the pass again
   (SyncScheduler).  No event has to arrive. *)
FairSpec == Spec /\ WF_vars(StartPass) /\ \A w \in Calls : WF_vars(CallStep(w))

-----------------------------------------------------------------------------
(* Nothing takes back what it has seen: a write of a handler or of the pass
   moves the estimate forward, and leaves what staff set, but for a rejection
   by HCP, the approval that a linked job brings, and a row that somebody
   wrote after this call had read it (resolveHcpEstimateStatus). *)
ForwardUnlessOvertaken ==
  [][\A w \in Calls : call'[w].at # call[w].at /\ est # None /\ est' # est =>
       \/ "estimate" \in call[w].missed
       \/ est'.status = "rejected" \/ call[w].at \in {"approve", "approveLast"}
       \/ ~est.manual /\ Rank[est'.status] > Rank[est.status]]_vars

(* A second row for HCP's job, or a second contact for its customer, is
   inserted only by a call that another one overtook between its look and
   its insert: no index refuses either. *)
DoublesOnlyByOverlap ==
  [][\A w \in Calls : call'[w].at # call[w].at =>
       /\ Mirrors # {} /\ Cardinality(Mirrors') > Cardinality(Mirrors) => "job" \in call[w].missed
       /\ Taken(contacts) # {} /\ Cardinality(Taken(contacts')) > Cardinality(Taken(contacts))
            => "contact" \in call[w].missed]_vars

(* Whatever was lost, late or overtaken, in the end the rows have caught up
   with HCP: the estimate is as far as in HCP or where staff put it, a
   rejection has come through, and the job's row has the job's status, is
   linked to the estimate, and belongs to a customer. *)
Mirrored ==
  /\ remote \in Statuses =>
       /\ est # None
       /\ remote = "rejected" => est.status = "rejected"
       /\ est.manual \/ Rank[est.status] >= Rank[remote]
  /\ remoteJob # None /\ Cardinality(Mirrors) < 2 =>
       \E j \in Mirrors : /\ jobs[j].status = remoteJob
                          /\ est # None => jobs[j].linked
                          /\ contacts[jobs[j].contact] = "customer"
CatchesUp == <>[]Mirrored

(* Expected by shared/schema/estimates.ts:87, and not kept: once staff have
   set the status, HCP changes it only to a rejection. *)
ManualStands ==
  [][est # None /\ est' # None /\ est.manual /\ est'.status # est.status =>
       est'.status = "rejected" \/ \A w \in Calls : call'[w].at = call[w].at]_vars
=============================================================================
