------------------------------ MODULE LeadIntake ------------------------------
(***************************************************************************)
(* ingestLead (server/services/lead-ingestion.ts): what one contractor's   *)
(* inbound channels (webhook, e-mail capture, Facebook, capture form,      *)
(* Google Local Services) do to contacts and leads.  A submission is one   *)
(* inquiry of one person; it is delivered once or several times, by        *)
(* several channels and processes at once, and every await of a delivery   *)
(* is a step.  Two-field callers hold the contractor's advisory lock from  *)
(* their first read to their last write; Google Local Services does not.   *)
(*                                                                         *)
(* Left out: address, tracking and promotion columns, aged leads (their    *)
(* writes touch nothing that is modelled), the provider call to HCP.       *)
(***************************************************************************)
EXTENDS Naturals, Sequences, FiniteSets

CONSTANTS
  Deliveries, Submissions, Processes,
  None,             \* no name, no phone, no holder, no contact, no lead
  Of,               \* [Deliveries -> Submissions]
  ProcessOf,        \* [Deliveries -> Processes]
  Person,           \* [Submissions -> [name, email, phone]], None where absent
  Keyed,            \* submissions with a submissionId or activityExternalId
  TwoField,         \* submissions whose caller sets identityPolicy: 'two-field'
  Noted,            \* submissions that carry notes
  MaxFaults,        \* failing queries in a behaviour
  MaxCrashes,       \* crashes in a behaviour
  MaxLosses         \* advisory-lock sessions lost in a behaviour

ASSUME IntakeAssumption ==
  /\ Of \in [Deliveries -> Submissions] /\ ProcessOf \in [Deliveries -> Processes]
  /\ Keyed \subseteq Submissions /\ TwoField \subseteq Submissions /\ Noted \subseteq Submissions
  /\ Keyed \subseteq TwoField       \* the only caller without the policy sends no ID
  /\ None \notin Deliveries \cup Submissions /\ None \notin Nat
  /\ MaxFaults \in Nat /\ MaxCrashes \in Nat /\ MaxLosses \in Nat

VARIABLES
  contacts,         \* the rows, in order of creation
  leads,            \* the rows, in order of creation
  captured,         \* keyed submissions whose capture activity exists
  effects,          \* leads whose workflows, assignment and HCP push were started, per start
  lock,             \* the delivery whose session holds the advisory lock
  pc, mine, lead, path, seen, tries,    \* of each delivery
  faults, crashes, losses

rows == <<contacts, leads, captured>>
local == <<pc, mine, lead, path, seen, tries>>
budget == <<faults, crashes, losses>>
vars == <<rows, effects, lock, local, budget>>

ContactIds == DOMAIN contacts
LeadIds == DOMAIN leads

Inside == {"receipt", "match", "note", "remember", "recent", "enrich", "sign", "contact", "lead", "capture", "insert", "release"}
Ended == {"answered", "failed"}
Steps == Inside \cup Ended \cup {"idle", "effects"}

(***************************************************************************)
(* Identity of a person.                                                   *)
(***************************************************************************)
EmailsOf(s) == {Person[s].email} \ {None}
PhonesOf(s) == {Person[s].phone} \ {None}
NameFields(name) == IF name = None THEN {} ELSE {name}

FieldCount(s) == Cardinality(NameFields(Person[s].name)) + Cardinality(EmailsOf(s)) + Cardinality(PhonesOf(s))

(* The fields in which a stored contact and an identity agree.             *)
Agreement(name, emails, phones, c) ==
  (IF name # None /\ c.name = name THEN {"name"} ELSE {}) \cup
  (IF emails \cap c.emails # {} THEN {"email"} ELSE {}) \cup
  (IF phones \cap c.phones # {} THEN {"phone"} ELSE {})

Matching(s, c) == Agreement(Person[s].name, EmailsOf(s), PhonesOf(s), contacts[c])

TwoFieldOwners(s) == {c \in ContactIds : Cardinality(Matching(s, c)) >= 2}
StrongOwners(s) == {c \in ContactIds : Matching(s, c) \cap {"email", "phone"} # {}}

Ambiguous(s) ==
  /\ FieldCount(s) >= 2
  /\ Cardinality(TwoFieldOwners(s)) > 1 \/ Cardinality(StrongOwners(s)) > 1

(* storage.findMatchingContact: any owner of the e-mail, else any whose    *)
(* first phone it is.                                                      *)
SingleFieldOwners(s) ==
  LET byEmail == {c \in ContactIds : EmailsOf(s) \cap contacts[c].emails # {}}
  IN  IF byEmail # {} THEN byEmail ELSE {c \in ContactIds : contacts[c].first \in PhonesOf(s)}

Owners(s) ==
  IF s \notin TwoField THEN SingleFieldOwners(s)
  ELSE IF FieldCount(s) < 2 THEN {} ELSE TwoFieldOwners(s)

Remembered(s) == {c \in ContactIds : s \in Keyed /\ (contacts[c].key = s \/ s \in contacts[c].receipts)}
Receipts(s) == {l \in LeadIds : s \in Keyed /\ s \in leads[l].keys}

(***************************************************************************)
(* Rows.                                                                   *)
(***************************************************************************)
NewContactSwapped(s) ==
  [name |-> Person[s].name, emails |-> EmailsOf(s), phones |-> PhonesOf(s), first |-> Person[s].email,
   notes |-> <<>>, noteKeys |-> {}, key |-> IF s \in Keyed THEN s ELSE None, receipts |-> {}]

NewContact(s) ==
  [name |-> Person[s].name, emails |-> EmailsOf(s), phones |-> PhonesOf(s), first |-> Person[s].phone,
   notes |-> IF s \in Noted THEN <<s>> ELSE <<>>,
   noteKeys |-> {s} \cap Noted \cap Keyed,
   key |-> IF s \in Keyed THEN s ELSE None, receipts |-> {}]

NewLead(s, c) == [contact |-> c, keys |-> {s} \cap Keyed, recent |-> TRUE]

(* buildContactEnrichment from the copy of the row read earlier: a column  *)
(* with something new is written whole, the others are left alone.         *)
EnrichedReplaces(now, old, s) ==
  [now EXCEPT !.emails = IF EmailsOf(s) = {} THEN @ ELSE EmailsOf(s),
              !.phones = IF PhonesOf(s) = {} THEN @ ELSE PhonesOf(s)]

Enriched(now, old, s) ==
  [now EXCEPT
    !.emails = IF EmailsOf(s) \subseteq old.emails THEN @ ELSE old.emails \cup EmailsOf(s),
    !.phones = IF PhonesOf(s) \subseteq old.phones THEN @ ELSE old.phones \cup PhonesOf(s),
    !.first = IF PhonesOf(s) \subseteq old.phones \/ old.first # None THEN @ ELSE Person[s].phone,
    !.notes = IF s \in Noted \ Keyed THEN Append(old.notes, s) ELSE @]

(* The keyed note: one UPDATE that looks at the row as it is then.         *)
WithNoteAgain(c, s) == IF s \in Noted THEN [c EXCEPT !.notes = Append(@, s)] ELSE c

WithNote(c, s) ==
  IF s \in Noted \cap Keyed /\ s \notin c.noteKeys
  THEN [c EXCEPT !.notes = Append(@, s), !.noteKeys = @ \cup {s}]
  ELSE c

Init ==
  /\ contacts = <<>> /\ leads = <<>> /\ captured = {} /\ effects = <<>>
  /\ lock = None
  /\ pc = [d \in Deliveries |-> "idle"]
  /\ mine = [d \in Deliveries |-> None] /\ lead = [d \in Deliveries |-> None]
  /\ path = [d \in Deliveries |-> "new"]
  /\ seen = [d \in Deliveries |-> None]
  /\ tries = [d \in Deliveries |-> 1]
  /\ faults = 0 /\ crashes = 0 /\ losses = 0

Goto(d, where) == pc' = [pc EXCEPT ![d] = where]
Freed(d) == IF lock = d THEN None ELSE lock

(***************************************************************************)
(* The steps of a delivery.                                                *)
(***************************************************************************)
(* acquireLeadIdentityLock, and straight to matching for the one caller    *)
(* that does not take the lock.                                            *)
BeginUnlocked(d) ==
  /\ pc[d] = "idle"
  /\ Goto(d, IF Of[d] \in TwoField THEN "receipt" ELSE "match")
  /\ UNCHANGED <<rows, effects, lock, mine, lead, path, seen, tries, budget>>

Begin(d) ==
  /\ pc[d] = "idle"
  /\ IF Of[d] \in TwoField
     THEN lock = None /\ lock' = d /\ Goto(d, "receipt")
     ELSE UNCHANGED lock /\ Goto(d, "match")
  /\ UNCHANGED <<rows, effects, mine, lead, path, seen, tries, budget>>

(* A lead that already carries this submission is the answer, whatever its *)
(* age: the rest of the delivery only completes what is missing.           *)
ReadReceiptNever(d) ==
  /\ pc[d] = "receipt" /\ Goto(d, "match")
  /\ UNCHANGED <<rows, effects, lock, mine, lead, path, seen, tries, budget>>

ReadReceipt(d) ==
  /\ pc[d] = "receipt"
  /\ IF Receipts(Of[d]) = {}
     THEN Goto(d, "match") /\ UNCHANGED <<mine, lead, path>>
     ELSE \E l \in Receipts(Of[d]) :
            /\ lead' = [lead EXCEPT ![d] = l]
            /\ mine' = [mine EXCEPT ![d] = leads[l].contact]
            /\ path' = [path EXCEPT ![d] = "retry"]
            /\ Goto(d, "note")
  /\ UNCHANGED <<rows, effects, lock, seen, tries, budget>>

(* The contact that remembers the submission, else the one its policy      *)
(* finds; an identity split over several contacts is refused.              *)
Candidates(s) == IF Remembered(s) # {} THEN Remembered(s) ELSE Owners(s)

Match(d) ==
  /\ pc[d] = "match"
  /\ IF Of[d] \in TwoField /\ Remembered(Of[d]) = {} /\ Ambiguous(Of[d])
     THEN Goto(d, "failed") /\ lock' = Freed(d) /\ UNCHANGED mine
     ELSE IF Candidates(Of[d]) = {}
     THEN Goto(d, "contact") /\ UNCHANGED <<lock, mine>>
     ELSE \E c \in Candidates(Of[d]) : Goto(d, "note") /\ mine' = [mine EXCEPT ![d] = c] /\ UNCHANGED lock
  /\ UNCHANGED <<rows, effects, lead, path, seen, tries, budget>>

Note(d) ==
  /\ pc[d] = "note"
  /\ contacts' = [contacts EXCEPT ![mine[d]] = WithNote(@, Of[d])]
  /\ seen' = [seen EXCEPT ![d] = contacts'[mine[d]]]
  /\ Goto(d, IF path[d] = "retry" THEN "enrich" ELSE "remember")
  /\ UNCHANGED <<leads, captured, effects, lock, mine, lead, path, tries, budget>>

Remember(d) ==
  /\ pc[d] = "remember"
  /\ IF Of[d] \in Keyed /\ seen[d].key # Of[d]
     THEN /\ contacts' = [contacts EXCEPT ![mine[d]].receipts = @ \cup {Of[d]}]
          /\ seen' = [seen EXCEPT ![d] = contacts'[mine[d]]]
     ELSE UNCHANGED <<contacts, seen>>
  /\ Goto(d, "recent")
  /\ UNCHANGED <<leads, captured, effects, lock, mine, lead, path, tries, budget>>

(* The newest lead of the contact within dedupHours that is not archived.  *)
RecentLeads(c) == {l \in LeadIds : leads[l].contact = c /\ leads[l].recent}

FindRecent(d) ==
  /\ pc[d] = "recent"
  /\ IF RecentLeads(mine[d]) = {}
     THEN UNCHANGED <<lead, path>>
     ELSE \E l \in RecentLeads(mine[d]) :
            /\ \A k \in RecentLeads(mine[d]) : k <= l
            /\ lead' = [lead EXCEPT ![d] = l]
            /\ path' = [path EXCEPT ![d] = "duplicate"]
  /\ Goto(d, "enrich")
  /\ UNCHANGED <<rows, effects, lock, mine, seen, tries, budget>>

Enrich(d) ==
  /\ pc[d] = "enrich"
  /\ contacts' = [contacts EXCEPT ![mine[d]] = Enriched(@, seen[d], Of[d])]
  /\ Goto(d, CASE path[d] = "retry" -> "capture" [] path[d] = "duplicate" -> "sign" [] OTHER -> "lead")
  /\ UNCHANGED <<leads, captured, effects, lock, mine, lead, path, seen, tries, budget>>

(* recordLeadSubmissionReceipt                                             *)
SignForgotten(d) ==
  /\ pc[d] = "sign" /\ Goto(d, "capture")
  /\ UNCHANGED <<rows, effects, lock, mine, lead, path, seen, tries, budget>>

Sign(d) ==
  /\ pc[d] = "sign"
  /\ leads' = [leads EXCEPT ![lead[d]].keys = @ \cup ({Of[d]} \cap Keyed)]
  /\ Goto(d, "capture")
  /\ UNCHANGED <<contacts, captured, effects, lock, mine, lead, path, seen, tries, budget>>

(* contacts_submission_creation_idx                                        *)
Taken(s) == s \in Keyed /\ \E c \in ContactIds : contacts[c].key = s

CreateContact(d) ==
  /\ pc[d] = "contact"
  /\ ~Taken(Of[d])
  /\ contacts' = Append(contacts, NewContact(Of[d]))
  /\ mine' = [mine EXCEPT ![d] = Len(contacts) + 1]
  /\ Goto(d, "lead")
  /\ UNCHANGED <<leads, captured, effects, lock, lead, path, seen, tries, budget>>

(* The unique index refuses the row: once more from the start, then fail.  *)
Conflict(d) ==
  /\ pc[d] = "contact"
  /\ Taken(Of[d])
  /\ lock' = Freed(d)
  /\ IF tries[d] = 1
     THEN Goto(d, "idle") /\ tries' = [tries EXCEPT ![d] = 2]
     ELSE Goto(d, "failed") /\ UNCHANGED tries
  /\ UNCHANGED <<rows, effects, mine, lead, path, seen, budget>>

CreateLead(d) ==
  /\ pc[d] = "lead"
  /\ leads' = Append(leads, NewLead(Of[d], mine[d]))
  /\ lead' = [lead EXCEPT ![d] = Len(leads) + 1]
  /\ Goto(d, "capture")
  /\ UNCHANGED <<contacts, captured, effects, lock, mine, path, seen, tries, budget>>

(* recordLeadCaptureActivity: look for the activity, then insert it; the   *)
(* unique index on external IDs refuses a second one.                      *)
LookForCapture(d) ==
  /\ pc[d] = "capture"
  /\ Goto(d, IF Of[d] \in Keyed /\ Of[d] \notin captured THEN "insert" ELSE "release")
  /\ UNCHANGED <<rows, effects, lock, mine, lead, path, seen, tries, budget>>

Capture(d) ==
  /\ pc[d] = "insert"
  /\ IF Of[d] \in captured
     THEN Goto(d, "failed") /\ lock' = Freed(d) /\ UNCHANGED captured
     ELSE Goto(d, "release") /\ captured' = captured \cup {Of[d]} /\ UNCHANGED lock
  /\ UNCHANGED <<contacts, leads, effects, mine, lead, path, seen, tries, budget>>

ReleaseRepeats(d) ==
  /\ pc[d] = "release"
  /\ lock' = Freed(d)
  /\ Goto(d, "effects")
  /\ UNCHANGED <<rows, effects, mine, lead, path, seen, tries, budget>>

Release(d) ==
  /\ pc[d] = "release"
  /\ lock' = Freed(d)
  /\ Goto(d, IF path[d] = "new" THEN "effects" ELSE "answered")
  /\ UNCHANGED <<rows, effects, mine, lead, path, seen, tries, budget>>

StartEffects(d) ==
  /\ pc[d] = "effects"
  /\ effects' = Append(effects, lead[d])
  /\ Goto(d, "answered")
  /\ UNCHANGED <<rows, lock, mine, lead, path, seen, tries, budget>>

(***************************************************************************)
(* What can go wrong.                                                      *)
(***************************************************************************)
(* Any query can fail; the finally block releases the lock.                *)
FailKeeps(d) ==
  /\ pc[d] \in Inside /\ faults < MaxFaults
  /\ faults' = faults + 1
  /\ Goto(d, "failed")
  /\ UNCHANGED <<rows, effects, lock, mine, lead, path, seen, tries, crashes, losses>>

Fail(d) ==
  /\ pc[d] \in Inside /\ faults < MaxFaults
  /\ faults' = faults + 1
  /\ lock' = Freed(d)
  /\ Goto(d, "failed")
  /\ UNCHANGED <<rows, effects, mine, lead, path, seen, tries, crashes, losses>>

(* A process ends: its deliveries with it, and its sessions and their lock.*)
Begun(d) == pc[d] \in Inside \cup {"effects"} \/ (tries[d] = 2 /\ pc[d] = "idle")

Crash(p) ==
  /\ crashes < MaxCrashes
  /\ crashes' = crashes + 1
  /\ pc' = [d \in Deliveries |->
             IF ProcessOf[d] = p /\ Begun(d) THEN "failed" ELSE pc[d]]
  /\ lock' = IF \E d \in Deliveries : ProcessOf[d] = p /\ lock = d THEN None ELSE lock
  /\ UNCHANGED <<rows, effects, mine, lead, path, seen, tries, faults, losses>>

(* The session that holds the lock is cut; its delivery does not notice.   *)
LoseSession ==
  /\ lock # None /\ losses < MaxLosses
  /\ losses' = losses + 1
  /\ lock' = None
  /\ UNCHANGED <<rows, effects, local, faults, crashes>>

(* A lead leaves the 24 hour window, or a rep archives it.                 *)
Recede(l) ==
  /\ leads[l].recent
  /\ leads' = [leads EXCEPT ![l].recent = FALSE]
  /\ UNCHANGED <<contacts, captured, effects, lock, local, budget>>

Step(d) ==
  \/ Begin(d) \/ ReadReceipt(d) \/ Match(d) \/ Note(d) \/ Remember(d) \/ FindRecent(d)
  \/ Enrich(d) \/ Sign(d) \/ CreateContact(d) \/ Conflict(d) \/ CreateLead(d)
  \/ LookForCapture(d) \/ Capture(d) \/ Release(d) \/ StartEffects(d)

AllEnded == (\A d \in Deliveries : pc[d] \in Ended) /\ UNCHANGED vars

Next ==
  \/ \E d \in Deliveries : Step(d) \/ Fail(d)
  \/ \E p \in Processes : Crash(p)
  \/ LoseSession
  \/ \E l \in LeadIds : Recede(l)
  \/ AllEnded

Spec == Init /\ [][Next]_vars

(* Queries return and the lock's queue is served: every delivery goes on.  *)
Fairness == \A d \in Deliveries : WF_vars(Step(d))
FairSpec == Spec /\ Fairness

(***************************************************************************)
(* Properties.                                                             *)
(***************************************************************************)
OptionalOf(S) == S \cup {None}
Names == {Person[s].name : s \in Submissions}
Emails == UNION {EmailsOf(s) : s \in Submissions}
Phones == UNION {PhonesOf(s) : s \in Submissions}

Contact ==
  [name : Names, emails : SUBSET Emails, phones : SUBSET Phones, first : OptionalOf(Phones),
   notes : Seq(Submissions), noteKeys : SUBSET (Noted \cap Keyed), key : OptionalOf(Keyed), receipts : SUBSET Keyed]
Lead == [contact : Nat, keys : SUBSET Keyed, recent : BOOLEAN]

(* Types of all variables; a delivery refers only to rows that exist.      *)
TypeOK ==
  /\ contacts \in Seq(Contact) /\ leads \in Seq(Lead)
  /\ captured \subseteq Keyed /\ effects \in Seq(Nat)
  /\ lock \in OptionalOf(Deliveries)
  /\ pc \in [Deliveries -> Steps]
  /\ mine \in [Deliveries -> OptionalOf(ContactIds)] /\ lead \in [Deliveries -> OptionalOf(LeadIds)]
  /\ path \in [Deliveries -> {"new", "duplicate", "retry"}]
  /\ seen \in [Deliveries -> OptionalOf(Contact)]
  /\ tries \in [Deliveries -> {1, 2}]
  /\ faults \in 0..MaxFaults /\ crashes \in 0..MaxCrashes /\ losses \in 0..MaxLosses

(* Two deliveries under the contractor's lock never work at the same time. *)
OneInside ==
  \A d, e \in Deliveries :
    Of[d] \in TwoField /\ Of[e] \in TwoField /\ pc[d] \in Inside /\ pc[e] \in Inside => d = e

(* Even when the lock is lost half-way, one contact never gets the note of *)
(* a keyed submission twice, whatever deliveries of it race.               *)
NoteOncePerContact ==
  \A s \in Keyed, c \in ContactIds :
    \A i, j \in DOMAIN contacts[c].notes : contacts[c].notes[i] = s /\ contacts[c].notes[j] = s => i = j

(* A submission with a provider ID belongs to one lead for good, however   *)
(* often, through whatever channels and after whatever failures it comes.  *)
OneLeadPerSubmission ==
  \A s \in Keyed, l, k \in LeadIds : s \in leads[l].keys /\ s \in leads[k].keys => l = k

(* An answered delivery of a keyed submission left nothing undone: its     *)
(* lead carries the receipt, the lead's contact has the person's e-mail    *)
(* and phone and the note, and the capture activity is there, also when an *)
(* earlier delivery had failed half-way.                                   *)
AnsweredIsComplete ==
  \A d \in Deliveries :
    pc[d] = "answered" /\ Of[d] \in Keyed =>
      /\ Of[d] \in leads[lead[d]].keys /\ Of[d] \in captured
      /\ LET c == contacts[leads[lead[d]].contact]
         IN  /\ EmailsOf(Of[d]) \subseteq c.emails /\ PhonesOf(Of[d]) \subseteq c.phones
             /\ Of[d] \in Noted => \E i \in DOMAIN c.notes : c.notes[i] = Of[d]

(* The note of a keyed submission stands once in all contacts together,    *)
(* also when deliveries of it queue, fail and are repeated.                *)
NoteOnce ==
  \A s \in Keyed, b, c \in ContactIds :
    \A i \in DOMAIN contacts[b].notes, j \in DOMAIN contacts[c].notes :
      contacts[b].notes[i] = s /\ contacts[c].notes[j] = s => b = c /\ i = j

(* A lead's workflows, assignment and HCP push are started at most once.   *)
EffectsOnce == \A i, j \in DOMAIN effects : effects[i] = effects[j] => i = j

(* No two contacts agree in two identity fields: the matcher would have    *)
(* put the second person onto the first contact, or refused.               *)
NoTwins ==
  \A b, c \in ContactIds :
    b # c => Cardinality(Agreement(contacts[b].name, contacts[b].emails, contacts[b].phones, contacts[c])) < 2

(* Enrichment only adds: no delivery takes an e-mail, a phone or a note    *)
(* that another one added off a contact.                                   *)
EnrichmentOnlyAdds ==
  [][\A c \in ContactIds :
       /\ contacts[c].emails \subseteq contacts'[c].emails
       /\ contacts[c].phones \subseteq contacts'[c].phones
       /\ Len(contacts[c].notes) <= Len(contacts'[c].notes)]_vars

(* Every delivery ends, also those that queue for the lock of one that     *)
(* failed or crashed.                                                      *)
EveryDeliveryEnds == \A d \in Deliveries : <>(pc[d] \in Ended)

(* The ledger that retries rely on: see SubmissionLedger.                  *)
LeadOf(s) == {l \in LeadIds : s \in leads[l].keys}
Answers == {<<Of[d], lead[d]>> : d \in {e \in Deliveries : Of[e] \in Keyed /\ pc[e] = "answered"}}
Ledger == INSTANCE SubmissionLedger WITH entries <- [s \in Keyed |-> LeadOf(s)], answers <- Answers, Submissions <- Keyed
ImplementsLedger == Ledger!Spec
==============================================================================
