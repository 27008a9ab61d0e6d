------------------------------ MODULE Booking ------------------------------
(***************************************************************************)
(* Appointments: bookAppointment, cancelBooking (server/scheduling/        *)
(* booking.ts), the estimate in Housecall Pro and its row in the CRM       *)
(* (hcp-estimate.ts, crm-estimate.ts), the two helpers that mark a contact *)
(* scheduled and clear it again (services/contact-status.ts), and the      *)
(* reconciliation with Google Calendar, over the availability cache of the *)
(* process.  A call is a process: each of its awaits ends a step.  Every   *)
(* call runs for one contact, and a slot is a date with one appointment.   *)
(***************************************************************************)
EXTENDS Integers, Sequences, FiniteSets

CONSTANTS Call, Customer, Slot, Person,
          HcpStaff,  \* the salespeople with a Housecall Pro employee
          GoogleStaff, \* the salespeople with a connected Google Calendar
          Watched,     \* bound: the dates customers look at
          None

(* None is none of the things it stands for the absence of.                 *)
ASSUME NoneAssumption ==
  /\ None \notin Call \cup Customer \cup Slot \cup Person \cup {"confirmed", "cancelled"}
  /\ None \notin [slot : Slot, person : Person]

ASSUME WatchedAssumption == Watched \subseteq Slot

VARIABLES
  pc, job,
  person,    \* per call, the salesperson chosen
  est,       \* per call, the Housecall Pro estimate it uses, named by the call that made it
  saw,       \* per call, whether the contact it read was scheduled
  todo,      \* per call, the bookings it has yet to cancel
  booking,   \* scheduled_bookings: per call None, "confirmed" or "cancelled"
  estimate,  \* estimates: per Housecall Pro estimate, its slot and salesperson, or None
  rows,      \* the same rows as they were created
  inHcp,     \* the estimates Housecall Pro has
  aged,      \* estimates older than RETRY_DEDUP_WINDOW_MS
  status,    \* contacts.status (and isScheduled, which follows it)
  rotation,  \* the salespeople in the order of lastAssignmentAt
  flips, fires,  \* per contact, how often it became scheduled and was announced (history)
  met,       \* the pairs of calls that overlapped (history)
  faulty,    \* the calls one of whose steps failed (history)
  debts,     \* dates that a change left in the cache without an invalidation (history)
  entry, flight, found, overtaken, late  \* AvailabilityCache

callVars == <<pc, job, person, est, saw, todo>>
rowVars == <<booking, estimate, rows, inHcp, aged>>
contactVars == <<status, flips, fires>>
histVars == <<met, faulty>>
cacheVars == <<entry, flight, found, overtaken, late>>
vars == <<callVars, rowVars, contactVars, rotation, histVars, debts, cacheVars>>

NoJob == [kind |-> "none", contact |-> None, slot |-> None, asked |-> None]

Active(p) == pc[p] \notin {"idle", "done"}

(* getBusyWindowsFromDb: a booking that is not cancelled, and for a         *)
(* salesperson of Housecall Pro the estimate of any appointment.            *)
Busy(s, d) ==
  \/ \E b \in Call : booking[b] = "confirmed" /\ person[b] = s /\ job[b].slot = d
  \/ s \in HcpStaff /\ \E e \in Call : estimate[e] = [slot |-> d, person |-> s]

Cache == INSTANCE AvailabilityCache WITH
           Date <- Watched, open <- [d \in Watched |-> {s \in Person : ~Busy(s, d)}]

Init ==
  /\ pc = [p \in Call |-> "idle"] /\ job = [p \in Call |-> NoJob]
  /\ person = [p \in Call |-> None] /\ est = [p \in Call |-> None]
  /\ saw = [p \in Call |-> FALSE] /\ todo = [p \in Call |-> {}]
  /\ booking = [p \in Call |-> None] /\ estimate = [p \in Call |-> None]
  /\ rows = <<>> /\ inHcp = {} /\ aged = {}
  /\ status = [k \in Customer |-> "new"] /\ rotation = <<>>
  /\ flips = [k \in Customer |-> 0] /\ fires = [k \in Customer |-> 0]
  /\ met = {} /\ faulty = {} /\ debts = {}
  /\ Cache!Init

Goto(p, label) == pc' = [pc EXCEPT ![p] = label]

(* A call begins.                                                           *)
Begin(p, label, j) ==
  /\ pc[p] = "idle"
  /\ Goto(p, label)
  /\ job' = [job EXCEPT ![p] = j]
  /\ met' = met \cup {{p, q} : q \in {r \in Call : Active(r)}}

Book(p) ==
  /\ \E k \in Customer, d \in Slot, s \in Person \cup {None} :
       Begin(p, "choose", [kind |-> "book", contact |-> k, slot |-> d, asked |-> s])
  /\ UNCHANGED <<person, est, saw, todo, rowVars, contactVars, rotation, faulty, debts, cacheVars>>

(* A webhook (lead.converted) or a user marks the contact scheduled.        *)
Mark(p) ==
  /\ \E k \in Customer :
       Begin(p, "markRead", [kind |-> "mark", contact |-> k, slot |-> None, asked |-> None])
  /\ UNCHANGED <<person, est, saw, todo, rowVars, contactVars, rotation, faulty, debts, cacheVars>>

(* A user unschedules the contact, or gives it another status.              *)
Unschedule(p) ==
  /\ \E k \in Customer :
       Begin(p, "clearRead", [kind |-> "clear", contact |-> k, slot |-> None, asked |-> None])
  /\ UNCHANGED <<person, est, saw, todo, rowVars, contactVars, rotation, faulty, debts, cacheVars>>

(* A user cancels a booking: the row is there, whatever its status.         *)
Cancel(p) ==
  /\ \E b \in Call :
       /\ booking[b] # None
       /\ Begin(p, "cancelRow", [kind |-> "clear", contact |-> job[b].contact,
                                 slot |-> job[b].slot, asked |-> None])
       /\ todo' = [todo EXCEPT ![p] = {b}]
  /\ UNCHANGED <<person, est, saw, rowVars, contactVars, rotation, faulty, debts, cacheVars>>

-----------------------------------------------------------------------------
(* bookAppointment. *)

(* The order of assignment: those never assigned first, by name, then the   *)
(* least recently assigned.                                                 *)
Turn(s) == IF \E i \in 1..Len(rotation) : rotation[i] = s
           THEN CHOOSE i \in 1..Len(rotation) : rotation[i] = s ELSE 0

Reassign(s) == rotation' = Append(SelectSeq(rotation, LAMBDA t : t # s), s)

(* A bug: selectNextAvailableSalesperson does not look at the bookings.     *)
EligibleUnseen(d) == Person

(* Who is free for the slot.                                                *)
Eligible(d) == {s \in Person : ~Busy(s, d)}

(* selectNextAvailableSalesperson passes over a salesperson whose query     *)
(* failed; a salesperson asked for by name is not checked.  Then the event  *)
(* goes to the Google Calendar.                                             *)
Choose(p) ==
  /\ pc[p] = "choose"
  /\ \/ /\ job[p].asked = None
        /\ \E answered \in SUBSET Person :
             \E s \in Eligible(job[p].slot) \cap answered :
               /\ \A t \in Eligible(job[p].slot) \cap answered : Turn(s) <= Turn(t)
               /\ person' = [person EXCEPT ![p] = s]
     \/ /\ job[p].asked # None
        /\ person' = [person EXCEPT ![p] = job[p].asked]
  /\ Goto(p, IF person'[p] \in HcpStaff THEN "lookup" ELSE "crm")
  /\ UNCHANGED <<job, est, saw, todo, rowVars, contactVars, rotation, histVars, debts, cacheVars>>

(* Nobody is free, or a step that must not fail failed: the call ends where *)
(* it is.  Its rows stay, and no invalidation follows.                      *)
Fail(p) ==
  /\ pc[p] \in {"choose", "lookup", "crm", "insert", "finish"}
  /\ Goto(p, "done")
  /\ faulty' = faulty \cup {p}
  /\ debts' = IF pc[p] \in {"insert", "finish"} THEN debts \cup {job[p].slot} ELSE debts
  /\ UNCHANGED <<job, person, est, saw, todo, rowVars, contactVars, rotation, met, cacheVars>>

(* The estimate rows of the contact.                                        *)
Mine(k) == {i \in 1..Len(rows) : job[rows[i]].contact = k}

LookupNone(p) ==
  /\ pc[p] = "lookup"
  /\ Mine(job[p].contact) = {}
  /\ Goto(p, "hcp")
  /\ UNCHANGED <<job, person, est, saw, todo, rowVars, contactVars, rotation, histVars, debts, cacheVars>>

(* The most recent estimate is used again if it is less than five minutes   *)
(* old and Housecall Pro still answers for it.                              *)
Lookup(p) ==
  LET mine == Mine(job[p].contact) IN
  /\ pc[p] = "lookup"
  /\ \E i \in mine :
       /\ \A j \in mine : j <= i
       /\ \/ /\ rows[i] \notin aged
             /\ est' = [est EXCEPT ![p] = rows[i]]
             /\ Goto(p, "crm")
             /\ UNCHANGED <<aged, faulty>>
          \/ /\ rows[i] \notin aged
             /\ faulty' = faulty \cup {p}
             /\ Goto(p, "hcp")
             /\ UNCHANGED <<aged, est>>
          \/ /\ aged' = aged \cup {rows[j] : j \in mine}
             /\ Goto(p, "hcp")
             /\ UNCHANGED <<est, faulty>>
  /\ UNCHANGED <<job, person, saw, todo, booking, estimate, rows, inHcp, contactVars, rotation, met, debts, cacheVars>>

(* The lead is converted, or an estimate is created.                        *)
CreateInHcp(p) ==
  /\ pc[p] = "hcp"
  /\ inHcp' = inHcp \cup {p}
  /\ est' = [est EXCEPT ![p] = p]
  /\ Goto(p, "crm")
  /\ UNCHANGED <<job, person, saw, todo, booking, estimate, rows, aged, contactVars, rotation, histVars, debts, cacheVars>>

(* Housecall Pro gives no usable answer: it may have the estimate.          *)
HcpFails(p) ==
  /\ pc[p] = "hcp"
  /\ inHcp' \in {inHcp, inHcp \cup {p}}
  /\ faulty' = faulty \cup {p}
  /\ Goto(p, "done")
  /\ UNCHANGED <<job, person, est, saw, todo, booking, estimate, rows, aged, contactVars, rotation, met, debts, cacheVars>>

(* A bug: the row is inserted without the identifier of Housecall Pro, so   *)
(* that no later booking finds it.                                          *)
CreateCrmEstimateUnlinked(p) ==
  /\ pc[p] = "crm"
  /\ Goto(p, "markRead")
  /\ IF est[p] = None THEN UNCHANGED <<estimate, debts>>
     ELSE /\ estimate' = [estimate EXCEPT ![est[p]] = [slot |-> job[p].slot, person |-> person[p]]]
          /\ debts' = IF estimate[est[p]] \in {None, estimate'[est[p]]} THEN debts
                      ELSE debts \cup {estimate[est[p]].slot}
  /\ UNCHANGED <<job, person, est, saw, todo, booking, rows, inHcp, aged, contactVars, rotation, histVars, cacheVars>>

(* createCrmEstimate: the row of the estimate is inserted, or moved to the  *)
(* new slot; a booking without Housecall Pro inserts a row no one reads.    *)
CreateCrmEstimate(p) ==
  /\ pc[p] = "crm"
  /\ Goto(p, "markRead")
  /\ IF est[p] = None THEN UNCHANGED <<estimate, rows, debts>>
     ELSE /\ estimate' = [estimate EXCEPT ![est[p]] = [slot |-> job[p].slot, person |-> person[p]]]
          /\ rows' = IF estimate[est[p]] = None THEN Append(rows, est[p]) ELSE rows
          /\ debts' = IF estimate[est[p]] \in {None, estimate'[est[p]]} THEN debts
                      ELSE debts \cup {estimate[est[p]].slot}
  /\ UNCHANGED <<job, person, est, saw, todo, booking, inHcp, aged, contactVars, rotation, histVars, cacheVars>>

(* The booking row.                                                         *)
Insert(p) ==
  /\ pc[p] = "insert"
  /\ booking' = [booking EXCEPT ![p] = "confirmed"]
  /\ Goto(p, "finish")
  /\ UNCHANGED <<job, person, est, saw, todo, estimate, rows, inHcp, aged, contactVars, rotation, histVars, debts, cacheVars>>

(* The salesperson goes to the end of the order and the date is announced.  *)
Announce(dates) == Cache!Invalidate(dates) /\ debts' = debts \ dates

Finish(p) ==
  /\ pc[p] = "finish"
  /\ Reassign(person[p])
  /\ Announce({job[p].slot})
  /\ Goto(p, "done")
  /\ UNCHANGED <<job, person, est, saw, todo, rowVars, contactVars, histVars>>

-----------------------------------------------------------------------------
(* markContactScheduled, on its own or within a booking, where a failure is *)
(* not fatal.                                                               *)

AfterMark(p) == Goto(p, IF job[p].kind = "book" THEN "insert" ELSE "done")

MarkRead(p) ==
  /\ pc[p] = "markRead"
  /\ saw' = [saw EXCEPT ![p] = status[job[p].contact] = "scheduled"]
  /\ Goto(p, "markWrite")
  /\ UNCHANGED <<job, person, est, todo, rowVars, contactVars, rotation, histVars, debts, cacheVars>>

(* Bugs: only isScheduled is set, as the booking modal once did; a contact  *)
(* that was scheduled already is announced again.                           *)
MarkWriteFlagOnly(p) ==
  /\ pc[p] = "markWrite"
  /\ AfterMark(p)
  /\ UNCHANGED <<job, person, est, saw, todo, rowVars, contactVars, rotation, histVars, debts, cacheVars>>

MarkWriteAgain(p) ==
  LET k == job[p].contact IN
  /\ pc[p] = "markWrite"
  /\ status' = [status EXCEPT ![k] = "scheduled"]
  /\ flips' = [flips EXCEPT ![k] = IF status[k] = "scheduled" THEN @ ELSE @ + 1]
  /\ Goto(p, "markFire")
  /\ UNCHANGED <<job, person, est, saw, todo, rowVars, fires, rotation, histVars, debts, cacheVars>>

(* A contact that was read as scheduled keeps its status and is not         *)
(* announced again.                                                         *)
MarkWrite(p) ==
  LET k == job[p].contact IN
  /\ pc[p] = "markWrite"
  /\ IF saw[p] THEN AfterMark(p) /\ UNCHANGED <<status, flips>>
     ELSE /\ status' = [status EXCEPT ![k] = "scheduled"]
          /\ flips' = [flips EXCEPT ![k] = IF status[k] = "scheduled" THEN @ ELSE @ + 1]
          /\ Goto(p, "markFire")
  /\ UNCHANGED <<job, person, est, saw, todo, rowVars, fires, rotation, histVars, debts, cacheVars>>

(* The workflow trigger contact_status_changed.                             *)
MarkFire(p) ==
  /\ pc[p] = "markFire"
  /\ fires' = [fires EXCEPT ![job[p].contact] = @ + 1]
  /\ AfterMark(p)
  /\ UNCHANGED <<job, person, est, saw, todo, rowVars, status, flips, rotation, histVars, debts, cacheVars>>

MarkFails(p) ==
  /\ pc[p] \in {"markRead", "markWrite"}
  /\ AfterMark(p)
  /\ faulty' = faulty \cup {p}
  /\ UNCHANGED <<job, person, est, saw, todo, rowVars, contactVars, rotation, met, debts, cacheVars>>

-----------------------------------------------------------------------------
(* cancelBooking and clearContactScheduledState.                            *)

CancelIn(bs) == booking' = [b \in Call |-> IF b \in bs THEN "cancelled" ELSE booking[b]]

(* cancelBooking: the row, and after the time zone was read the             *)
(* invalidation.  The clear that follows is not awaited; the route awaits a *)
(* second one, which is an Unschedule.                                      *)
CancelRow(p) ==
  /\ pc[p] = "cancelRow"
  /\ CancelIn(todo[p])
  /\ Goto(p, "cancelTold")
  /\ UNCHANGED <<job, person, est, saw, todo, estimate, rows, inHcp, aged, contactVars, rotation, histVars, debts, cacheVars>>

(* A bug: a cancelled booking is not announced.                             *)
CancelToldNobody(p) ==
  /\ pc[p] = "cancelTold"
  /\ todo' = [todo EXCEPT ![p] = {}]
  /\ Goto(p, "clearRead")
  /\ UNCHANGED <<job, person, est, saw, rowVars, contactVars, rotation, histVars, debts, cacheVars>>

CancelTold(p) ==
  /\ pc[p] = "cancelTold"
  /\ Announce({job[p].slot})
  /\ todo' = [todo EXCEPT ![p] = {}]
  /\ Goto(p, "clearRead")
  /\ UNCHANGED <<job, person, est, saw, rowVars, contactVars, rotation, histVars>>

ClearRead(p) ==
  /\ pc[p] = "clearRead"
  /\ saw' = [saw EXCEPT ![p] = status[job[p].contact] = "scheduled"]
  /\ Goto(p, "clearSelect")
  /\ UNCHANGED <<job, person, est, todo, rowVars, contactVars, rotation, histVars, debts, cacheVars>>

(* cancelActiveBookingsForContact: the active bookings are selected, then   *)
(* cancelled and announced one by one.                                      *)
ClearSelect(p) ==
  /\ pc[p] = "clearSelect"
  /\ todo' = [todo EXCEPT ![p] = {b \in Call : booking[b] = "confirmed"
                                               /\ job[b].contact = job[p].contact}]
  /\ Goto(p, "clearEach")
  /\ UNCHANGED <<job, person, est, saw, rowVars, contactVars, rotation, histVars, debts, cacheVars>>

ClearEach(p) ==
  /\ pc[p] = "clearEach"
  /\ \E b \in todo[p] :
       /\ CancelIn({b})
       /\ Announce({job[b].slot})
       /\ todo' = [todo EXCEPT ![p] = @ \ {b}]
  /\ UNCHANGED <<pc, job, person, est, saw, estimate, rows, inHcp, aged, contactVars, rotation, histVars>>

(* The contact goes back to "new", unless it was clear when it was read.    *)
ClearWrite(p) ==
  /\ pc[p] = "clearEach" /\ todo[p] = {}
  /\ status' = IF saw[p] THEN [status EXCEPT ![job[p].contact] = "new"] ELSE status
  /\ Goto(p, "done")
  /\ UNCHANGED <<job, person, est, saw, todo, rowVars, flips, fires, rotation, histVars, debts, cacheVars>>

(* A query of it fails: the cancelling is given up and the contact written  *)
(* all the same, or the whole clear ends.                                   *)
ClearGivesUp(p) ==
  /\ pc[p] \in {"clearSelect", "clearEach"}
  /\ pc[p] = "clearEach" => todo[p] # {}
  /\ todo' = [todo EXCEPT ![p] = {}]
  /\ Goto(p, "clearEach")
  /\ faulty' = faulty \cup {p}
  /\ UNCHANGED <<job, person, est, saw, rowVars, contactVars, rotation, met, debts, cacheVars>>

ClearFails(p) ==
  /\ \/ pc[p] \in {"cancelTold", "clearRead"}
     \/ pc[p] = "clearEach" /\ todo[p] = {}
  /\ Goto(p, "done")
  /\ faulty' = faulty \cup {p}
  /\ debts' = IF pc[p] = "cancelTold" THEN debts \cup {job[p].slot} ELSE debts
  /\ UNCHANGED <<job, person, est, saw, todo, rowVars, contactVars, rotation, met, cacheVars>>

-----------------------------------------------------------------------------
(* The rest of the server.                                                  *)

(* reconcileGoogleCalendarBookings finds that the event was deleted.  It    *)
(* runs in this process or in the worker, whose cache is not this one, and  *)
(* leaves the contact as it is.                                             *)
Reconcile(b, here) ==
  /\ booking[b] = "confirmed"
  /\ person[b] \in GoogleStaff
  /\ CancelIn({b})
  /\ IF here THEN Announce({job[b].slot})
     ELSE debts' = debts \cup {job[b].slot} /\ UNCHANGED cacheVars
  /\ UNCHANGED <<callVars, estimate, rows, inHcp, aged, contactVars, rotation, histVars>>

(* A webhook of Housecall Pro announces every date.                         *)
Webhook ==
  /\ debts # {}
  /\ Announce(Slot)
  /\ UNCHANGED <<callVars, rowVars, contactVars, rotation, histVars>>

(* The process is replaced: its calls end where they are.                   *)
Exit ==
  /\ \E p \in Call : Active(p)
  /\ pc' = [p \in Call |-> IF Active(p) THEN "done" ELSE pc[p]]
  /\ faulty' = faulty \cup {p \in Call : Active(p)}
  /\ Cache!Forget
  /\ debts' = {}
  /\ UNCHANGED <<job, person, est, saw, todo, rowVars, contactVars, rotation, met>>

CacheStep ==
  /\ Cache!Next
  /\ UNCHANGED <<callVars, rowVars, contactVars, rotation, histVars, debts>>

Next ==
  \/ \E p \in Call :
       \/ Book(p) \/ Mark(p) \/ Unschedule(p) \/ Cancel(p)
       \/ Choose(p) \/ Fail(p) \/ LookupNone(p) \/ Lookup(p) \/ CreateInHcp(p) \/ HcpFails(p)
       \/ CreateCrmEstimate(p) \/ Insert(p) \/ Finish(p)
       \/ MarkRead(p) \/ MarkWrite(p) \/ MarkFire(p) \/ MarkFails(p)
       \/ CancelRow(p) \/ CancelTold(p) \/ ClearRead(p) \/ ClearSelect(p) \/ ClearEach(p)
       \/ ClearWrite(p) \/ ClearGivesUp(p) \/ ClearFails(p)
  \/ \E b \in Call, here \in BOOLEAN : Reconcile(b, here)
  \/ Webhook \/ Exit \/ CacheStep

Spec == Init /\ [][Next]_vars

-----------------------------------------------------------------------------
(* Properties. *)

Met(p, q) == {p, q} \in met

(* One salesperson, one appointment: two confirmed bookings of a slot that  *)
(* the server itself gave to one salesperson were made by calls that        *)
(* overlapped.  selectNextAvailableSalesperson reads and the booking is     *)
(* written several awaits later.                                            *)
BookedTwiceOnlyTogether ==
  \A b, c \in Call :
    (/\ b # c /\ booking[b] = "confirmed" /\ booking[c] = "confirmed"
     /\ job[b].asked = None /\ job[c].asked = None
     /\ job[b].slot = job[c].slot /\ person[b] = person[c]) => Met(b, c)

(* A change of a date's rows that its call has yet to announce.             *)
Unannounced(d) ==
  \E p \in Call :
    \/ pc[p] \in {"markRead", "markWrite", "markFire", "insert", "finish"} /\ job[p].slot = d
    \/ pc[p] = "cancelTold" /\ job[p].slot = d

(* A date is stored wrongly only while the call that changed it has not     *)
(* announced it yet, when the change was never announced in this process,   *)
(* or when the entry was computed from what an invalidation overtook.       *)
StaleOnlyWithReason ==
  \A d \in Watched :
    entry[d] # None /\ entry[d] # {s \in Person : ~Busy(s, d)} =>
      Unannounced(d) \/ d \in debts \/ d \in late

(* "Every code path produces the same side effects": a confirmed booking    *)
(* leaves its contact scheduled, once no call runs, unless one of its steps *)
(* failed or a clear of the contact overlapped it or failed.                *)
BookedIsScheduled ==
  (\A p \in Call : ~Active(p)) =>
    \A b \in Call :
      booking[b] = "confirmed" /\ b \notin faulty =>
        \/ status[job[b].contact] = "scheduled"
        \/ \E p \in Call : /\ job[p].kind = "clear" /\ job[p].contact = job[b].contact
                           /\ p \in faulty \/ Met(p, b)

(* A retry does not leave a second estimate in Housecall Pro: two estimates *)
(* of a contact, none older than the window, come from calls that           *)
(* overlapped or of which one failed.                                       *)
OneEstimatePerRetry ==
  \A e, f \in inHcp :
    (/\ e # f /\ job[e].contact = job[f].contact
     /\ e \notin aged /\ f \notin aged) => Met(e, f) \/ {e, f} \cap faulty # {}

(* No forgotten dispatch and no double one: once no call runs, a contact    *)
(* was announced as often as it became scheduled, unless two of its marks   *)
(* overlapped or one was cut short.                                         *)
AnnouncedAsOften ==
  (\A p \in Call : ~Active(p)) =>
    \A k \in Customer :
      \/ fires[k] = flips[k]
      \/ \E p \in Call : p \in faulty /\ job[p].contact = k
      \/ \E p, q \in Call : /\ p # q /\ Met(p, q)
                            /\ job[p].contact = k /\ job[q].contact = k
                            /\ job[p].kind # "clear" /\ job[q].kind # "clear"

(* "exactly once, with no possibility of a double-fire or a forgotten       *)
(* dispatch" (contact-status.ts).                                           *)
NoDoubleFire == \A k \in Customer : fires[k] <= flips[k]
=============================================================================
