------------------------------ MODULE GlsPull ------------------------------
(***************************************************************************)
(* Google Local Services: syncGoogleLocalServicesLeads and processGlsLead   *)
(* (server/sync/google-local-services-leads.ts), the automatic dispute of a *)
(* new lead (services/google-local-services-auto-dispute.ts) and the        *)
(* dispute a member of staff files (routes/integrations/google-local-       *)
(* services.ts).  The scheduler, the one-shot worker and sync-now run the   *)
(* same pass and take no lock; a call ends a step at each await.            *)
(*                                                                          *)
(* Every pass lists the trailing 60 days, whatever last_poll_at says, so    *)
(* the cursor decides nothing about younger leads and is left out; so are   *)
(* bookings (status 'qualified'), the texts of a payload, and the clean-up  *)
(* of contacts and workflows in ingestLead (see LeadIntake).                *)
(***************************************************************************)
EXTENDS Integers, Sequences, FiniteSets

CONSTANTS
  GoogleLead, Pass, Clerk,
  Caller,      \* who a lead of Google comes from; one caller is one contact
  Matched,     \* the leads an enabled auto-dispute rule matches
  None,
  MaxRows, MaxFaults, MaxCrashes, MaxDeletes, MaxDisputes   \* bounds

VARIABLES
  google,    \* Google's state of a lead: "absent", "none", "disputed", "approved", "rejected"
  row,       \* leads, in order of creation; a deleted one is None
  pc,
  listed,    \* per pass, the leads of the answer it has yet to process, with their state
  this,      \* per pass and clerk, the lead of Google in hand
  found,     \* per pass and clerk, the row it works on
  base,      \* per pass and clerk, the payload it read
  answer,    \* per pass and clerk, what Google answered to its dispute
  autoCalls, \* per lead, the automatic disputes filed (history)
  deleted,   \* per lead, how often its stamped row was deleted (history)
  faults, crashes, disputes

vars == <<google, row, pc, listed, this, found, base, answer, autoCalls, deleted,
          faults, crashes, disputes>>

Worker == Pass \cup Clerk
Id == 1..MaxRows
Live(r) == r \in DOMAIN row /\ row[r] # None
Decided == {"approved", "rejected"}

(* rawPayload: Google's state, the dispute marker of the CRM, and whether   *)
(* a rule disputed the lead (_gls_auto_disputed).                           *)
Payload == [raw : {"none", "disputed"} \cup Decided,
            marker : {"none", "submitted", "failed"} \cup Decided,
            auto : BOOLEAN]
NoPayload == [raw |-> "none", marker |-> "none", auto |-> FALSE]

Init ==
  /\ google = [g \in GoogleLead |-> "absent"] /\ row = <<>>
  /\ pc = [w \in Worker |-> "idle"]
  /\ listed = [p \in Pass |-> <<>>] /\ this = [w \in Worker |-> None]
  /\ found = [w \in Worker |-> None] /\ base = [w \in Worker |-> NoPayload]
  /\ answer = [w \in Worker |-> "none"]
  /\ autoCalls = [g \in GoogleLead |-> 0] /\ deleted = [g \in GoogleLead |-> 0]
  /\ faults = 0 /\ crashes = 0 /\ disputes = 0

Goto(w, label) == pc' = [pc EXCEPT ![w] = label]
history == <<autoCalls, deleted>>
bounds == <<faults, crashes, disputes>>

-----------------------------------------------------------------------------
(* A pass. *)

(* The listing; a failing one ends the pass (and changes nothing).          *)
Fetch(p) ==
  /\ pc[p] = "idle"
  /\ listed' = [listed EXCEPT ![p] = [g \in {h \in GoogleLead : google[h] # "absent"} |-> google[g]]]
  /\ Goto(p, "next")
  /\ UNCHANGED <<google, row, this, found, base, answer, history, bounds>>

(* Bug: a marker once set is kept.                                          *)
MirroredOnce(marker, s) ==
  CASE marker # "none" -> marker
    [] s = "disputed" -> "submitted"
    [] OTHER -> s

(* The marker a payload keeps or gets when Google's state s is mirrored.    *)
Mirrored(marker, s) ==
  CASE s \in Decided -> s
    [] s = "disputed" /\ marker = "none" -> "submitted"
    [] OTHER -> marker

(* The payload written for one that was read.  Only the markers named       *)
(* _gls_dispute_* are carried over; _gls_auto_disputed is not.              *)
Merged(payload, s) == [raw |-> s, marker |-> Mirrored(payload.marker, s), auto |-> FALSE]

Stamped(g) == {r \in DOMAIN row : Live(r) /\ row[r].stamp = g}

(* findLeadByGoogleId, by the indexed column alone.  Nothing is written     *)
(* when nothing changes.                                                    *)
Find(p, g) ==
  /\ pc[p] = "next" /\ g \in DOMAIN listed[p]
  /\ this' = [this EXCEPT ![p] = g]
  /\ IF Stamped(g) = {}
     THEN Goto(p, "recent") /\ UNCHANGED <<found, base>>
     ELSE LET r == CHOOSE r \in Stamped(g) : TRUE
          IN  /\ found' = [found EXCEPT ![p] = r]
              /\ base' = [base EXCEPT ![p] = row[r].payload]
              /\ Goto(p, IF row[r].payload = Merged(row[r].payload, listed[p][g])
                            /\ (listed[p][g] = "approved" => row[r].status = "disqualified")
                         THEN "done" ELSE "update")
  /\ UNCHANGED <<google, row, listed, answer, history, bounds>>

(* The row as it is written from the payload that was read.                 *)
Rewritten(p) ==
  LET s == listed[p][this[p]]
      payload == Merged(base[p], s)
  IN [row[found[p]] EXCEPT
        !.payload = IF payload = base[p] THEN @ ELSE payload,
        !.status = IF s = "approved" THEN "disqualified" ELSE @]

Update(p) ==
  /\ pc[p] = "update"
  /\ row' = IF Live(found[p]) THEN [row EXCEPT ![found[p]] = Rewritten(p)] ELSE row
  /\ Goto(p, "done")
  /\ UNCHANGED <<google, listed, this, found, base, answer, history, bounds>>

(* ingestLead: a lead of the same contact within 24 hours takes this one in *)
(* (skippedDuplicateLead), and nothing records that it did.                 *)
FindRecent(p) ==
  /\ pc[p] = "recent"
  /\ Goto(p, IF \E r \in DOMAIN row : Live(r) /\ row[r].recent /\ Caller[row[r].of] = Caller[this[p]]
             THEN "done" ELSE "create")
  /\ UNCHANGED <<google, row, listed, this, found, base, answer, history, bounds>>

Create(p) ==
  /\ pc[p] = "create" /\ Len(row) < MaxRows
  /\ row' = Append(row, [of |-> this[p], stamp |-> None, recent |-> TRUE, status |-> "new",
                         payload |-> Merged(NoPayload, listed[p][this[p]])])
  /\ found' = [found EXCEPT ![p] = Len(row) + 1]
  /\ Goto(p, "stamp")
  /\ UNCHANGED <<google, listed, this, base, answer, history, bounds>>

(* Bug: no unique index.                                                    *)
StampUnguarded(p) ==
  /\ pc[p] = "stamp"
  /\ row' = IF Live(found[p]) THEN [row EXCEPT ![found[p]].stamp = this[p]] ELSE row
  /\ Goto(p, IF this[p] \in Matched THEN "read" ELSE "done")
  /\ UNCHANGED <<google, listed, this, found, base, answer, history, bounds>>

(* leads_google_lead_id_unique_idx refuses a second row of a Google lead.   *)
Stamp(p) ==
  LET refused == Live(found[p]) /\ Stamped(this[p]) # {} IN
  /\ pc[p] = "stamp"
  /\ row' = IF Live(found[p]) /\ ~refused THEN [row EXCEPT ![found[p]].stamp = this[p]] ELSE row
  /\ Goto(p, IF ~refused /\ this[p] \in Matched THEN "read" ELSE "done")
  /\ UNCHANGED <<google, listed, this, found, base, answer, history, bounds>>

(* On to the next lead of the listing.                                      *)
NextLead(p) ==
  /\ pc[p] = "done"
  /\ listed' = [listed EXCEPT ![p] = [g \in DOMAIN @ \ {this[p]} |-> @[g]]]
  /\ this' = [this EXCEPT ![p] = None] /\ found' = [found EXCEPT ![p] = None]
  /\ base' = [base EXCEPT ![p] = NoPayload] /\ answer' = [answer EXCEPT ![p] = "none"]
  /\ Goto(p, "next")
  /\ UNCHANGED <<google, row, history, bounds>>

EndPass(p) ==
  /\ pc[p] = "next" /\ DOMAIN listed[p] = {}
  /\ Goto(p, "idle")
  /\ UNCHANGED <<google, row, listed, this, found, base, answer, history, bounds>>

-----------------------------------------------------------------------------
(* A dispute: of a pass for its new lead, or of a clerk.                    *)

(* The clerk names a row; nothing asks whether it is disputed already.      *)
Ask(c) ==
  /\ pc[c] = "idle" /\ disputes < MaxDisputes
  /\ disputes' = disputes + 1
  /\ \E r \in DOMAIN row : Live(r) /\ found' = [found EXCEPT ![c] = r]
  /\ Goto(c, "read")
  /\ UNCHANGED <<google, row, listed, this, base, answer, history, faults, crashes>>

ReadLead(w) ==
  /\ pc[w] = "read"
  /\ IF Live(found[w])
     THEN /\ base' = [base EXCEPT ![w] = row[found[w]].payload]
          /\ this' = [this EXCEPT ![w] = row[found[w]].of]
          /\ Goto(w, "call")
     ELSE UNCHANGED <<base, this>> /\ Goto(w, "done")
  /\ UNCHANGED <<google, row, listed, found, answer, history, bounds>>

(* disputeLead.  A 409 counts as submitted.  A failed call may have reached *)
(* Google all the same; of what it has decided Google may refuse a dispute. *)
AskGoogle(w) ==
  LET g == this[w] IN
  /\ pc[w] = "call"
  /\ \E outcome \in {"submitted", "failed"}, taken \in BOOLEAN :
       /\ outcome = "submitted" => taken
       /\ outcome = "failed" /\ google[g] \notin Decided => faults < MaxFaults
       /\ faults' = IF outcome = "failed" /\ google[g] \notin Decided THEN faults + 1 ELSE faults
       /\ google' = IF taken /\ google[g] = "none" THEN [google EXCEPT ![g] = "disputed"] ELSE google
       /\ answer' = [answer EXCEPT ![w] = outcome]
  /\ autoCalls' = IF w \in Pass THEN [autoCalls EXCEPT ![g] = @ + 1] ELSE autoCalls
  /\ Goto(w, "write")
  /\ UNCHANGED <<row, listed, this, found, base, deleted, crashes, disputes>>

(* The whole payload is written from what was read before the call.         *)
Disputed(w) ==
  [raw |-> IF answer[w] = "submitted" THEN "disputed" ELSE base[w].raw,
   marker |-> answer[w],
   auto |-> w \in Pass \/ base[w].auto]

Write(w) ==
  /\ pc[w] = "write"
  /\ row' = IF Live(found[w]) THEN [row EXCEPT ![found[w]].payload = Disputed(w)] ELSE row
  /\ Goto(w, "done")
  /\ UNCHANGED <<google, listed, this, found, base, answer, history, bounds>>

(* The automatic dispute writes inside its try: when that write fails, the  *)
(* dispute is recorded as failed.                                           *)
WriteFailsOnce(p) ==
  /\ pc[p] = "write" /\ answer[p] = "submitted" /\ faults < MaxFaults
  /\ faults' = faults + 1
  /\ answer' = [answer EXCEPT ![p] = "failed"]
  /\ UNCHANGED <<google, row, pc, listed, this, found, base, history, crashes, disputes>>

EndDispute(c) ==
  /\ pc[c] = "done"
  /\ Goto(c, "idle")
  /\ found' = [found EXCEPT ![c] = None] /\ base' = [base EXCEPT ![c] = NoPayload]
  /\ answer' = [answer EXCEPT ![c] = "none"] /\ this' = [this EXCEPT ![c] = None]
  /\ UNCHANGED <<google, row, listed, history, bounds>>

-----------------------------------------------------------------------------
(* What can go wrong, and the world. *)

(* A query fails: the pass counts an error and goes on with the next lead;  *)
(* a clerk is told.                                                         *)
Fail(w) ==
  /\ pc[w] \in {"update", "recent", "create", "stamp", "read", "call", "write"} /\ faults < MaxFaults
  /\ pc[w] = "write" => w \in Clerk \/ answer[w] = "failed"
  /\ faults' = faults + 1
  /\ Goto(w, "done")
  /\ UNCHANGED <<google, row, listed, this, found, base, answer, history, crashes, disputes>>

Crash(w) ==
  /\ pc[w] # "idle" /\ crashes < MaxCrashes
  /\ crashes' = crashes + 1
  /\ Goto(w, "idle")
  /\ listed' = [p \in Pass |-> IF p = w THEN <<>> ELSE listed[p]]
  /\ this' = [this EXCEPT ![w] = None]
  /\ found' = [found EXCEPT ![w] = None] /\ base' = [base EXCEPT ![w] = NoPayload]
  /\ answer' = [answer EXCEPT ![w] = "none"]
  /\ UNCHANGED <<google, row, history, faults, disputes>>

(* Somebody calls; somebody disputes in Google's own dashboard; Google      *)
(* decides.                                                                 *)
Google(g) ==
  /\ \/ google[g] = "absent" /\ google' = [google EXCEPT ![g] = "none"]
     \/ google[g] = "none" /\ google' = [google EXCEPT ![g] = "disputed"]
     \/ google[g] = "disputed" /\ \E s \in Decided : google' = [google EXCEPT ![g] = s]
  /\ UNCHANGED <<row, pc, listed, this, found, base, answer, history, bounds>>

(* A lead leaves the 24 hour window of ingestLead.                          *)
Age(r) ==
  /\ Live(r) /\ row[r].recent
  /\ row' = [row EXCEPT ![r].recent = FALSE]
  /\ UNCHANGED <<google, pc, listed, this, found, base, answer, history, bounds>>

(* deleteLead.                                                              *)
Delete(r) ==
  /\ Live(r) /\ Cardinality({i \in DOMAIN row : row[i] = None}) < MaxDeletes
  /\ row' = [row EXCEPT ![r] = None]
  /\ deleted' = IF row[r].stamp = None THEN deleted ELSE [deleted EXCEPT ![row[r].stamp] = @ + 1]
  /\ UNCHANGED <<google, pc, listed, this, found, base, answer, autoCalls, bounds>>

PassStep(p) ==
  \/ Fetch(p) \/ \E g \in GoogleLead : Find(p, g)
  \/ Update(p) \/ FindRecent(p) \/ Create(p) \/ Stamp(p) \/ NextLead(p) \/ EndPass(p)
  \/ ReadLead(p) \/ AskGoogle(p) \/ Write(p)

ClerkStep(c) == ReadLead(c) \/ AskGoogle(c) \/ Write(c) \/ EndDispute(c)

Next ==
  \/ \E p \in Pass : PassStep(p) \/ WriteFailsOnce(p)
  \/ \E c \in Clerk : Ask(c) \/ ClerkStep(c)
  \/ \E w \in Worker : Fail(w) \/ Crash(w)
  \/ \E g \in GoogleLead : Google(g)
  \/ \E r \in Id : Age(r) \/ Delete(r)

Spec == Init /\ [][Next]_vars

(* The scheduler starts a pass again and again, its queries end, and a day  *)
(* goes by.                                                                 *)
Fairness ==
  /\ \A p \in Pass : WF_vars(PassStep(p))
  /\ \A r \in Id : WF_vars(Age(r))

FairSpec == Spec /\ Fairness

-----------------------------------------------------------------------------
(* Properties. *)

(* "disputes never fire twice for the same Google lead", however passes     *)
(* overlap, fail and crash: a second automatic dispute follows only the     *)
(* deletion of the lead that the first one was filed for.                   *)
AutoDisputedOnce == \A g \in GoogleLead : autoCalls[g] <= 1 + deleted[g]

(* Every lead of Google ends up in the CRM under its ID and with Google's   *)
(* decision, whatever disputes, failed writes and overlapping passes wrote  *)
(* before.                                                                  *)
GoogleHasTheLastWord ==
  <>[](\A g \in GoogleLead :
         google[g] # "absent" =>
           \E r \in Stamped(g) :
             google[g] \in Decided =>
               /\ row[r].payload.marker = google[g]
               /\ google[g] = "approved" => row[r].status = "disqualified")

(* "updates an existing CRM lead in place rather than re-creating it, so    *)
(* it's safe to overlap them aggressively".                                 *)
EnteredOnce ==
  \A g \in GoogleLead : Cardinality({r \in DOMAIN row : Live(r) /\ row[r].of = g}) <= 1
=============================================================================
