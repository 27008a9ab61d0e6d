-------------------------- MODULE LeadIntake_proofs --------------------------
(***************************************************************************)
(* The type invariant of LeadIntake, for every set of deliveries,          *)
(* submissions, persons and processes and every number of faults, crashes  *)
(* and lost sessions.  TypeOK is not inductive: a step that writes a row   *)
(* needs to know that the row its delivery refers to exists, which follows *)
(* from the step and the path the delivery is on (Placed, OnPath), and     *)
(* that rows never go away (LeadsPlaced).                                  *)
(*                                                                         *)
(* On it rest, in this order: the lock and the receipts of leads (LInv),   *)
(* the ledger, follow-up work and notes when the lock is lost (EInv,       *)
(* NInv), contacts that only grow and complete answers (CInv, AInv), twins *)
(* (WInv) and the bearers of a note (BearInv).                             *)
(***************************************************************************)
EXTENDS LeadIntake, FiniteSetTheorems, SequenceTheorems, TLAPS

(* Which row references a delivery holds at which step. *)
Placed(d) ==
  /\ pc[d] \in {"note", "remember", "recent", "enrich", "lead"} => mine[d] \in ContactIds
  /\ pc[d] \in {"remember", "recent", "enrich"} => seen[d] \in Contact
  /\ pc[d] \in {"sign", "capture", "insert", "release", "effects", "answered"} => lead[d] \in LeadIds
  /\ path[d] \in {"duplicate", "retry"} => lead[d] \in LeadIds

(* On which path it is at which step, and whose activity it looks for.     *)
OnPath(d) ==
  /\ pc[d] \in {"idle", "receipt", "match", "remember", "recent", "contact", "lead"} => path[d] = "new"
  /\ pc[d] = "note" => path[d] \in {"new", "retry"}
  /\ pc[d] = "sign" => path[d] = "duplicate"
  /\ pc[d] = "insert" => Of[d] \in Keyed

LeadsPlaced == \A l \in LeadIds : leads[l].contact \in ContactIds

TInv == TypeOK /\ LeadsPlaced /\ \A d \in Deliveries : Placed(d) /\ OnPath(d)

-----------------------------------------------------------------------------
(* What the row builders return. *)
LEMMA PhonesTyped ==
  ASSUME NEW s \in Submissions
  PROVE  /\ EmailsOf(s) \in SUBSET Emails /\ PhonesOf(s) \in SUBSET Phones
         /\ Person[s].phone \in OptionalOf(Phones) /\ Person[s].name \in Names
BY DEF EmailsOf, PhonesOf, Emails, Phones, OptionalOf, Names

LEMMA NewContactTyped ==
  ASSUME NEW s \in Submissions
  PROVE  NewContact(s) \in Contact
<1>1. (IF s \in Noted THEN <<s>> ELSE <<>>) \in Seq(Submissions)
  OBVIOUS
<1>2. ({s} \cap Noted \cap Keyed) \in SUBSET (Noted \cap Keyed)
  OBVIOUS
<1>3. (IF s \in Keyed THEN s ELSE None) \in OptionalOf(Keyed)
  BY DEF OptionalOf
<1>4. {} \in SUBSET Keyed
  OBVIOUS
<1>5. QED
  BY <1>1, <1>2, <1>3, <1>4, PhonesTyped DEF NewContact, Contact

LEMMA WithNoteTyped ==
  ASSUME NEW s \in Submissions, NEW c \in Contact
  PROVE  WithNote(c, s) \in Contact
<1>1. CASE s \in Noted \cap Keyed /\ s \notin c.noteKeys
  <2>1. Append(c.notes, s) \in Seq(Submissions)
    BY AppendProperties DEF Contact
  <2>2. c.noteKeys \cup {s} \in SUBSET (Noted \cap Keyed)
    BY <1>1 DEF Contact
  <2>3. WithNote(c, s) = [c EXCEPT !.notes = Append(c.notes, s), !.noteKeys = c.noteKeys \cup {s}]
    BY <1>1 DEF WithNote
  <2>4. QED
    BY <2>1, <2>2, <2>3 DEF Contact
<1>2. CASE ~(s \in Noted \cap Keyed /\ s \notin c.noteKeys)
  BY <1>2 DEF WithNote
<1>3. QED
  BY <1>1, <1>2

LEMMA EnrichedTyped ==
  ASSUME NEW s \in Submissions, NEW now \in Contact, NEW old \in Contact
  PROVE  Enriched(now, old, s) \in Contact
<1> DEFINE es == IF EmailsOf(s) \subseteq old.emails THEN now.emails ELSE old.emails \cup EmailsOf(s)
           ps == IF PhonesOf(s) \subseteq old.phones THEN now.phones ELSE old.phones \cup PhonesOf(s)
           f == IF PhonesOf(s) \subseteq old.phones \/ old.first # None THEN now.first ELSE Person[s].phone
           ns == IF s \in Noted \ Keyed THEN Append(old.notes, s) ELSE now.notes
<1>1. es \in SUBSET Emails
  BY PhonesTyped DEF Contact
<1>2. ps \in SUBSET Phones
  BY PhonesTyped DEF Contact
<1>3. f \in OptionalOf(Phones)
  BY PhonesTyped DEF Contact
<1>4. ns \in Seq(Submissions)
  BY AppendProperties DEF Contact
<1>5. Enriched(now, old, s) = [now EXCEPT !.emails = es, !.phones = ps, !.first = f, !.notes = ns]
  BY DEF Enriched
<1> HIDE DEF es, ps, f, ns
<1>6. QED
  BY <1>1, <1>2, <1>3, <1>4, <1>5 DEF Contact

LEMMA NewLeadTyped ==
  ASSUME NEW s \in Submissions, NEW c \in Nat
  PROVE  NewLead(s, c) \in Lead
BY DEF NewLead, Lead

(* Rows are appended or replaced in place: references stay valid. *)
LEMMA Replaced ==
  ASSUME NEW S, NEW q \in Seq(S), NEW i \in DOMAIN q, NEW x \in S
  PROVE  /\ [q EXCEPT ![i] = x] \in Seq(S)
         /\ DOMAIN [q EXCEPT ![i] = x] = DOMAIN q
         /\ [q EXCEPT ![i] = x][i] = x
         /\ \A j \in DOMAIN q : j # i => [q EXCEPT ![i] = x][j] = q[j]
<1>1. DOMAIN q = 1..Len(q)
  BY LenProperties
<1>2. QED
  BY <1>1, ExceptSeq, LenProperties

LEMMA Appended ==
  ASSUME NEW S, NEW q \in Seq(S), NEW x \in S
  PROVE  /\ Append(q, x) \in Seq(S)
         /\ DOMAIN Append(q, x) = DOMAIN q \cup {Len(q) + 1}
         /\ Len(q) + 1 \in Nat /\ Len(q) + 1 \notin DOMAIN q
         /\ Append(q, x)[Len(q) + 1] = x
         /\ \A j \in DOMAIN q : Append(q, x)[j] = q[j]
<1>1. DOMAIN q = 1..Len(q) /\ Len(q) \in Nat
  BY LenProperties
<1>2. Append(q, x) \in Seq(S) /\ Len(Append(q, x)) = Len(q) + 1
  BY AppendProperties
<1>3. DOMAIN Append(q, x) = 1..(Len(q) + 1)
  BY <1>2, LenProperties
<1>4. QED
  BY <1>1, <1>2, <1>3, AppendProperties

LEMMA IdsAreNumbers ==
  ASSUME TypeOK
  PROVE  ContactIds \subseteq Nat /\ LeadIds \subseteq Nat
<1>1. DOMAIN contacts = 1..Len(contacts) /\ DOMAIN leads = 1..Len(leads)
      /\ Len(contacts) \in Nat /\ Len(leads) \in Nat
  BY LenProperties DEF TypeOK
<1>2. QED
  BY <1>1 DEF ContactIds, LeadIds

-----------------------------------------------------------------------------
LEMMA TInit == Init => TInv
<1> SUFFICES ASSUME Init PROVE TInv
  OBVIOUS
<1> USE IntakeAssumption
<1>1. contacts \in Seq(Contact) /\ leads \in Seq(Lead) /\ effects \in Seq(Nat)
  BY EmptySeq DEF Init
<1>2. TypeOK
  BY <1>1 DEF Init, TypeOK, OptionalOf, Steps
<1>3. \A d \in Deliveries : Placed(d) /\ OnPath(d)
  BY DEF Init, Placed, OnPath
<1>4. LeadsPlaced
  BY EmptySeq, LenProperties DEF Init, LeadsPlaced, LeadIds
<1>5. QED
  BY <1>2, <1>3, <1>4 DEF TInv

(* Steps that touch no row and no reference: control, lock and budgets.    *)
LEMMA ControlStep ==
  ASSUME TInv, UNCHANGED <<contacts, leads, mine, lead, path, seen>>,
         captured' \in SUBSET Keyed, effects' \in Seq(Nat), lock' \in OptionalOf(Deliveries),
         pc' \in [Deliveries -> Steps], tries' \in [Deliveries -> {1, 2}],
         faults' \in 0..MaxFaults, crashes' \in 0..MaxCrashes, losses' \in 0..MaxLosses,
         \A d \in Deliveries : \/ pc'[d] = pc[d]
                               \/ pc'[d] = "failed"
                               \/ pc[d] = "idle" /\ pc'[d] \in {"receipt", "match"}
                               \/ pc[d] = "receipt" /\ pc'[d] = "match"
                               \/ pc[d] = "match" /\ pc'[d] = "contact"
                               \/ pc[d] = "contact" /\ pc'[d] = "idle"
                               \/ pc[d] = "capture" /\ pc'[d] = "insert" /\ Of[d] \in Keyed
                               \/ pc[d] = "capture" /\ pc'[d] = "release"
                               \/ pc[d] = "insert" /\ pc'[d] = "release"
                               \/ pc[d] = "release" /\ pc'[d] \in {"effects", "answered"}
                               \/ pc[d] = "effects" /\ pc'[d] = "answered"
  PROVE  TInv'
<1>1. ContactIds' = ContactIds /\ LeadIds' = LeadIds
  BY DEF ContactIds, LeadIds
<1>2. TypeOK'
  BY <1>1 DEF TInv, TypeOK
<1>3. ASSUME NEW d \in Deliveries PROVE Placed(d)' /\ OnPath(d)'
  <2>1. Placed(d) /\ OnPath(d)
    BY DEF TInv
  <2>2. mine'[d] = mine[d] /\ lead'[d] = lead[d] /\ path'[d] = path[d] /\ seen'[d] = seen[d]
    OBVIOUS
  <2>3. Placed(d)'
    BY <2>1, <2>2, <1>1 DEF Placed
  <2>4. OnPath(d)'
    BY <2>1, <2>2 DEF OnPath
  <2>5. QED
    BY <2>3, <2>4
<1>4. LeadsPlaced'
  BY <1>1 DEF TInv, LeadsPlaced
<1>5. QED
  BY <1>2, <1>3, <1>4 DEF TInv

(* A step of one delivery that changes its references or the rows; rows    *)
(* never go away.                                                          *)
LEMMA RowStep ==
  ASSUME TInv, NEW d \in Deliveries, NEW where \in Steps, pc' = [pc EXCEPT ![d] = where],
         UNCHANGED <<captured, effects, tries, lock, budget>>,
         contacts' \in Seq(Contact), leads' \in Seq(Lead),
         ContactIds \subseteq ContactIds', LeadIds \subseteq LeadIds',
         NEW m \in OptionalOf(ContactIds'), mine' = [mine EXCEPT ![d] = m],
         NEW l \in OptionalOf(LeadIds'), lead' = [lead EXCEPT ![d] = l],
         NEW w \in {"new", "duplicate", "retry"}, path' = [path EXCEPT ![d] = w],
         NEW c \in OptionalOf(Contact), seen' = [seen EXCEPT ![d] = c],
         LeadsPlaced', Placed(d)', OnPath(d)'
  PROVE  TInv'
<1>1. mine' \in [Deliveries -> OptionalOf(ContactIds')] /\ lead' \in [Deliveries -> OptionalOf(LeadIds')]
  BY DEF TInv, TypeOK, OptionalOf
<1>2. /\ pc' \in [Deliveries -> Steps] /\ path' \in [Deliveries -> {"new", "duplicate", "retry"}]
      /\ seen' \in [Deliveries -> OptionalOf(Contact)]
  BY DEF TInv, TypeOK
<1>3. TypeOK'
  BY <1>1, <1>2 DEF TInv, TypeOK, budget
<1>4. ASSUME NEW e \in Deliveries PROVE Placed(e)' /\ OnPath(e)'
  <2>1. CASE e = d
    BY <2>1
  <2>2. CASE e # d
    <3>1. /\ pc'[e] = pc[e] /\ mine'[e] = mine[e] /\ lead'[e] = lead[e]
          /\ path'[e] = path[e] /\ seen'[e] = seen[e]
      BY <2>2 DEF TInv, TypeOK
    <3>2. Placed(e) /\ OnPath(e)
      BY DEF TInv
    <3>3. Placed(e)'
      BY <3>1, <3>2 DEF Placed
    <3>4. OnPath(e)'
      BY <3>1, <3>2 DEF OnPath
    <3>5. QED
      BY <3>3, <3>4
  <2>3. QED
    BY <2>1, <2>2
<1>5. QED
  BY <1>3, <1>4 DEF TInv

LEMMA OwnReferences ==
  ASSUME TInv, NEW d \in Deliveries
  PROVE  /\ mine[d] \in OptionalOf(ContactIds) /\ mine = [mine EXCEPT ![d] = mine[d]]
         /\ lead[d] \in OptionalOf(LeadIds) /\ lead = [lead EXCEPT ![d] = lead[d]]
         /\ path[d] \in {"new", "duplicate", "retry"} /\ path = [path EXCEPT ![d] = path[d]]
         /\ seen[d] \in OptionalOf(Contact) /\ seen = [seen EXCEPT ![d] = seen[d]]
         /\ Placed(d) /\ OnPath(d)
BY DEF TInv, TypeOK

(* Replacing one contact, or one lead, by a row of the right type.         *)
LEMMA ContactReplaced ==
  ASSUME TInv, NEW c \in ContactIds, NEW x \in Contact, contacts' = [contacts EXCEPT ![c] = x]
  PROVE  contacts' \in Seq(Contact) /\ ContactIds' = ContactIds /\ contacts'[c] = x
BY Replaced DEF TInv, TypeOK, ContactIds

LEMMA LeadReplaced ==
  ASSUME TInv, NEW l \in LeadIds, NEW x \in Lead, leads' = [leads EXCEPT ![l] = x]
  PROVE  /\ leads' \in Seq(Lead) /\ LeadIds' = LeadIds /\ leads'[l] = x
         /\ \A k \in LeadIds : k # l => leads'[k] = leads[k]
BY Replaced DEF TInv, TypeOK, LeadIds

LEMMA RowOfId ==
  ASSUME TInv
  PROVE  /\ \A c \in ContactIds : contacts[c] \in Contact
         /\ \A l \in LeadIds : leads[l] \in Lead
BY LenProperties, ElementOfSeq DEF TInv, TypeOK, ContactIds, LeadIds

LEMMA TReadReceipt ==
  ASSUME TInv, NEW d \in Deliveries, ReadReceipt(d)
  PROVE  TInv'
<1>1. CASE Receipts(Of[d]) = {}
  BY <1>1, ControlStep DEF ReadReceipt, Goto, rows, budget, TInv, TypeOK, Steps, Inside
<1>2. CASE Receipts(Of[d]) # {}
  <2>1. PICK l \in Receipts(Of[d]) :
          /\ lead' = [lead EXCEPT ![d] = l] /\ mine' = [mine EXCEPT ![d] = leads[l].contact]
          /\ path' = [path EXCEPT ![d] = "retry"] /\ pc' = [pc EXCEPT ![d] = "note"]
    BY <1>2 DEF ReadReceipt, Goto
  <2>2. l \in LeadIds
    BY DEF Receipts
  <2>3. leads[l].contact \in ContactIds
    BY <2>2 DEF TInv, LeadsPlaced
  <2>4. UNCHANGED <<contacts, leads, captured, effects, lock, seen, tries, budget>>
    BY DEF ReadReceipt, rows
  <2>5. /\ pc'[d] = "note" /\ mine'[d] = leads[l].contact /\ lead'[d] = l /\ path'[d] = "retry"
        /\ ContactIds' = ContactIds /\ LeadIds' = LeadIds
    BY <2>1, <2>4 DEF TInv, TypeOK, ContactIds, LeadIds
  <2>6. Placed(d)' /\ OnPath(d)'
    BY <2>2, <2>3, <2>5 DEF Placed, OnPath
  <2>7. LeadsPlaced'
    BY <2>4, <2>5 DEF TInv, LeadsPlaced
  <2>8. contacts' \in Seq(Contact) /\ leads' \in Seq(Lead)
    BY <2>4 DEF TInv, TypeOK
  <2>9. QED
    BY <2>1, <2>2, <2>3, <2>4, <2>5, <2>6, <2>7, <2>8, OwnReferences, RowStep DEF OptionalOf, Steps, Inside
<1>3. QED
  BY <1>1, <1>2

LEMMA TMatch ==
  ASSUME TInv, NEW d \in Deliveries, Match(d)
  PROVE  TInv'
<1>1. UNCHANGED <<contacts, leads, captured, effects, lead, path, seen, tries, budget>>
  BY DEF Match, rows
<1>2. CASE pc' = [pc EXCEPT ![d] = "note"]
  <2>1. PICK c \in Candidates(Of[d]) : mine' = [mine EXCEPT ![d] = c] /\ lock' = lock
    BY <1>2 DEF Match, Goto, TInv, TypeOK
  <2>2. c \in ContactIds
    BY DEF Candidates, Remembered, Owners, SingleFieldOwners, TwoFieldOwners
  <2>3. pc[d] = "match" /\ pc'[d] = "note" /\ mine'[d] = c /\ path'[d] = path[d] /\ lead'[d] = lead[d]
    BY <1>1, <1>2, <2>1 DEF Match, TInv, TypeOK
  <2>4. ContactIds' = ContactIds /\ LeadIds' = LeadIds
    BY <1>1 DEF ContactIds, LeadIds
  <2>5. Placed(d)' /\ OnPath(d)'
    BY <2>2, <2>3, <2>4, OwnReferences DEF Placed, OnPath
  <2>6. LeadsPlaced' /\ contacts' \in Seq(Contact) /\ leads' \in Seq(Lead)
    BY <1>1, <2>4 DEF TInv, TypeOK, LeadsPlaced
  <2>7. QED
    BY <1>1, <1>2, <2>1, <2>2, <2>4, <2>5, <2>6, OwnReferences, RowStep DEF OptionalOf, Steps, Inside
<1>3. CASE ~(pc' = [pc EXCEPT ![d] = "note"])
  <2>1. pc' \in {[pc EXCEPT ![d] = "failed"], [pc EXCEPT ![d] = "contact"]} /\ mine' = mine
        /\ lock' \in {lock, None} /\ pc[d] = "match"
    BY <1>3 DEF Match, Goto, Freed
  <2>2. QED
    BY <1>1, <2>1, ControlStep DEF TInv, TypeOK, budget, OptionalOf, Steps, Inside, Ended
<1>4. QED
  BY <1>2, <1>3

LEMMA TNote ==
  ASSUME TInv, NEW d \in Deliveries, Note(d)
  PROVE  TInv'
<1> DEFINE x == WithNote(contacts[mine[d]], Of[d])
           where == IF path[d] = "retry" THEN "enrich" ELSE "remember"
<1>1. /\ pc[d] = "note" /\ pc' = [pc EXCEPT ![d] = where]
      /\ contacts' = [contacts EXCEPT ![mine[d]] = x] /\ seen' = [seen EXCEPT ![d] = contacts'[mine[d]]]
      /\ UNCHANGED <<leads, captured, effects, lock, mine, lead, path, tries, budget>>
  BY DEF Note, Goto
<1>2. mine[d] \in ContactIds /\ Placed(d) /\ OnPath(d)
  BY <1>1, OwnReferences DEF Placed
<1>3. x \in Contact
  BY <1>2, RowOfId, WithNoteTyped, IntakeAssumption
<1> HIDE DEF x
<1>4. contacts' \in Seq(Contact) /\ ContactIds' = ContactIds /\ contacts'[mine[d]] = x
  BY <1>1, <1>2, <1>3, ContactReplaced
<1>5. leads' \in Seq(Lead) /\ LeadIds' = LeadIds /\ LeadsPlaced'
  BY <1>1, <1>4 DEF TInv, TypeOK, LeadIds, LeadsPlaced
<1>6. pc'[d] = where /\ seen'[d] = x /\ where \in {"enrich", "remember"} /\ where \in Steps
  BY <1>1, <1>4 DEF TInv, TypeOK, Steps, Inside
<1>7. Placed(d)'
  BY <1>1, <1>2, <1>3, <1>4, <1>5, <1>6 DEF Placed
<1>8. OnPath(d)'
  BY <1>1, <1>2, <1>6 DEF OnPath
<1>9. QED
  BY <1>1, <1>2, <1>3, <1>4, <1>5, <1>6, <1>7, <1>8, OwnReferences, RowStep DEF OptionalOf

LEMMA TRemember ==
  ASSUME TInv, NEW d \in Deliveries, Remember(d)
  PROVE  TInv'
<1>1. /\ pc[d] = "remember" /\ pc' = [pc EXCEPT ![d] = "recent"]
      /\ UNCHANGED <<leads, captured, effects, lock, mine, lead, path, tries, budget>>
  BY DEF Remember, Goto
<1>2. mine[d] \in ContactIds /\ seen[d] \in Contact /\ Placed(d) /\ OnPath(d)
  BY <1>1, OwnReferences DEF Placed
<1>3. pc'[d] = "recent" /\ "recent" \in Steps
  BY <1>1 DEF TInv, TypeOK, Steps, Inside
<1>4. PICK x \in Contact : /\ contacts' = [contacts EXCEPT ![mine[d]] = x] \/ contacts' = contacts
                           /\ seen' = [seen EXCEPT ![d] = x]
  <2>1. CASE Of[d] \in Keyed /\ seen[d].key # Of[d]
    <3> DEFINE y == [contacts[mine[d]] EXCEPT !.receipts = @ \cup {Of[d]}]
    <3>1. contacts[mine[d]] \in Contact
      BY <1>2, RowOfId
    <3>2. y \in Contact
      BY <3>1, <2>1 DEF Contact
    <3>3. contacts' = [contacts EXCEPT ![mine[d]] = y] /\ seen' = [seen EXCEPT ![d] = contacts'[mine[d]]]
      BY <2>1 DEF Remember
    <3> HIDE DEF y
    <3>4. contacts'[mine[d]] = y
      BY <3>2, <3>3, <1>2, ContactReplaced
    <3>5. QED
      BY <3>2, <3>3, <3>4
  <2>2. CASE ~(Of[d] \in Keyed /\ seen[d].key # Of[d])
    BY <2>2, <1>2, OwnReferences DEF Remember
  <2>3. QED
    BY <2>1, <2>2
<1>5. contacts' \in Seq(Contact) /\ ContactIds' = ContactIds
  BY <1>4, <1>2, ContactReplaced DEF TInv, TypeOK, ContactIds
<1>6. leads' \in Seq(Lead) /\ LeadIds' = LeadIds /\ LeadsPlaced'
  BY <1>1, <1>5 DEF TInv, TypeOK, LeadIds, LeadsPlaced
<1>7. seen'[d] \in Contact
  BY <1>4 DEF TInv, TypeOK
<1>8. Placed(d)'
  BY <1>1, <1>2, <1>3, <1>5, <1>6, <1>7 DEF Placed
<1>9. OnPath(d)'
  BY <1>1, <1>2, <1>3 DEF OnPath
<1>10. QED
  BY <1>1, <1>2, <1>3, <1>4, <1>5, <1>6, <1>8, <1>9, OwnReferences, RowStep DEF OptionalOf

LEMMA TFindRecent ==
  ASSUME TInv, NEW d \in Deliveries, FindRecent(d)
  PROVE  TInv'
<1>1. /\ pc[d] = "recent" /\ pc' = [pc EXCEPT ![d] = "enrich"]
      /\ UNCHANGED <<contacts, leads, captured, effects, lock, mine, seen, tries, budget>>
  BY DEF FindRecent, Goto, rows
<1>2. Placed(d) /\ path[d] = "new"
  BY <1>1, OwnReferences DEF OnPath
<1>3. PICK l \in OptionalOf(LeadIds), w \in {"new", "duplicate"} :
        /\ lead' = [lead EXCEPT ![d] = l] /\ path' = [path EXCEPT ![d] = w]
        /\ w = "duplicate" => l \in LeadIds
  <2>1. CASE RecentLeads(mine[d]) = {}
    BY <2>1, <1>2, OwnReferences DEF FindRecent
  <2>2. CASE RecentLeads(mine[d]) # {}
    BY <2>2 DEF FindRecent, RecentLeads, OptionalOf
  <2>3. QED
    BY <2>1, <2>2
<1>4. ContactIds' = ContactIds /\ LeadIds' = LeadIds /\ LeadsPlaced'
      /\ contacts' \in Seq(Contact) /\ leads' \in Seq(Lead)
  BY <1>1 DEF TInv, TypeOK, ContactIds, LeadIds, LeadsPlaced
<1>5. /\ pc'[d] = "enrich" /\ lead'[d] = l /\ path'[d] = w
      /\ mine'[d] = mine[d] /\ seen'[d] = seen[d]
  BY <1>1, <1>3 DEF TInv, TypeOK
<1>6. Placed(d)' /\ OnPath(d)'
  BY <1>1, <1>2, <1>3, <1>4, <1>5 DEF Placed, OnPath
<1>7. QED
  BY <1>1, <1>3, <1>4, <1>6, OwnReferences, RowStep DEF Steps, Inside

LEMMA TEnrich ==
  ASSUME TInv, NEW d \in Deliveries, Enrich(d)
  PROVE  TInv'
<1> DEFINE x == Enriched(contacts[mine[d]], seen[d], Of[d])
           where == CASE path[d] = "retry" -> "capture" [] path[d] = "duplicate" -> "sign" [] OTHER -> "lead"
<1>1. /\ pc[d] = "enrich" /\ pc' = [pc EXCEPT ![d] = where]
      /\ contacts' = [contacts EXCEPT ![mine[d]] = x]
      /\ UNCHANGED <<leads, captured, effects, lock, mine, lead, path, seen, tries, budget>>
  BY DEF Enrich, Goto
<1>2. mine[d] \in ContactIds /\ seen[d] \in Contact /\ Placed(d) /\ OnPath(d)
  BY <1>1, OwnReferences DEF Placed
<1>3. x \in Contact
  BY <1>2, RowOfId, EnrichedTyped, IntakeAssumption
<1> HIDE DEF x
<1>4. contacts' \in Seq(Contact) /\ ContactIds' = ContactIds
  BY <1>1, <1>2, <1>3, ContactReplaced
<1>5. leads' \in Seq(Lead) /\ LeadIds' = LeadIds /\ LeadsPlaced'
  BY <1>1, <1>4 DEF TInv, TypeOK, LeadIds, LeadsPlaced
<1>6. /\ where \in {"capture", "sign", "lead"} /\ where \in Steps
      /\ where = "capture" => path[d] = "retry"
      /\ where = "sign" => path[d] = "duplicate"
      /\ where = "lead" => path[d] = "new"
  BY OwnReferences DEF Steps, Inside
<1> HIDE DEF where
<1>7. pc'[d] = where /\ mine'[d] = mine[d] /\ lead'[d] = lead[d] /\ path'[d] = path[d] /\ seen'[d] = seen[d]
  BY <1>1 DEF TInv, TypeOK
<1>8. Placed(d)'
  BY <1>1, <1>2, <1>4, <1>5, <1>6, <1>7 DEF Placed
<1>9. OnPath(d)'
  BY <1>6, <1>7 DEF OnPath
<1>10. QED
  BY <1>1, <1>4, <1>5, <1>6, <1>8, <1>9, OwnReferences, RowStep

LEMMA TSign ==
  ASSUME TInv, NEW d \in Deliveries, Sign(d)
  PROVE  TInv'
<1> DEFINE x == [leads[lead[d]] EXCEPT !.keys = @ \cup ({Of[d]} \cap Keyed)]
<1>1. /\ pc[d] = "sign" /\ pc' = [pc EXCEPT ![d] = "capture"]
      /\ leads' = [leads EXCEPT ![lead[d]] = x]
      /\ UNCHANGED <<contacts, captured, effects, lock, mine, lead, path, seen, tries, budget>>
  BY DEF Sign, Goto
<1>2. lead[d] \in LeadIds /\ Placed(d) /\ OnPath(d)
  BY <1>1, OwnReferences DEF Placed
<1>3. leads[lead[d]] \in Lead
  BY <1>2, RowOfId
<1>4. x \in Lead /\ x.contact = leads[lead[d]].contact
  BY <1>3 DEF Lead
<1> HIDE DEF x
<1>5. leads' \in Seq(Lead) /\ LeadIds' = LeadIds /\ leads'[lead[d]] = x
      /\ \A k \in LeadIds : k # lead[d] => leads'[k] = leads[k]
  BY <1>1, <1>2, <1>4, LeadReplaced
<1>6. contacts' \in Seq(Contact) /\ ContactIds' = ContactIds
  BY <1>1 DEF TInv, TypeOK, ContactIds
<1>7. LeadsPlaced'
  BY <1>4, <1>5, <1>6 DEF TInv, LeadsPlaced
<1>8. /\ pc'[d] = "capture" /\ mine'[d] = mine[d] /\ lead'[d] = lead[d]
      /\ path'[d] = path[d] /\ seen'[d] = seen[d]
  BY <1>1 DEF TInv, TypeOK
<1>9. Placed(d)' /\ OnPath(d)'
  BY <1>2, <1>5, <1>6, <1>8 DEF Placed, OnPath
<1>10. QED
  BY <1>1, <1>5, <1>6, <1>7, <1>9, OwnReferences, RowStep DEF Steps, Inside

LEMMA TCreateContact ==
  ASSUME TInv, NEW d \in Deliveries, CreateContact(d)
  PROVE  TInv'
<1> DEFINE x == NewContact(Of[d])
           c == Len(contacts) + 1
<1>1. /\ pc[d] = "contact" /\ pc' = [pc EXCEPT ![d] = "lead"]
      /\ contacts' = Append(contacts, x) /\ mine' = [mine EXCEPT ![d] = c]
      /\ UNCHANGED <<leads, captured, effects, lock, lead, path, seen, tries, budget>>
  BY DEF CreateContact, Goto
<1>2. x \in Contact
  BY NewContactTyped, IntakeAssumption
<1> HIDE DEF x
<1>3. contacts' \in Seq(Contact) /\ ContactIds' = ContactIds \cup {c}
  BY <1>1, <1>2, Appended DEF TInv, TypeOK, ContactIds
<1>4. leads' \in Seq(Lead) /\ LeadIds' = LeadIds /\ LeadsPlaced'
  BY <1>1, <1>3 DEF TInv, TypeOK, LeadIds, LeadsPlaced
<1> HIDE DEF c
<1>5. pc'[d] = "lead" /\ mine'[d] = c /\ lead'[d] = lead[d] /\ path'[d] = path[d] /\ path[d] = "new"
  BY <1>1, OwnReferences DEF TInv, TypeOK, OnPath
<1>6. Placed(d)' /\ OnPath(d)'
  BY <1>3, <1>5 DEF Placed, OnPath
<1>7. QED
  BY <1>1, <1>3, <1>4, <1>6, OwnReferences, RowStep DEF OptionalOf, Steps, Inside

LEMMA TCreateLead ==
  ASSUME TInv, NEW d \in Deliveries, CreateLead(d)
  PROVE  TInv'
<1> DEFINE x == NewLead(Of[d], mine[d])
           l == Len(leads) + 1
<1>1. /\ pc[d] = "lead" /\ pc' = [pc EXCEPT ![d] = "capture"]
      /\ leads' = Append(leads, x) /\ lead' = [lead EXCEPT ![d] = l]
      /\ UNCHANGED <<contacts, captured, effects, lock, mine, path, seen, tries, budget>>
  BY DEF CreateLead, Goto
<1>2. mine[d] \in ContactIds /\ mine[d] \in Nat /\ Placed(d) /\ path[d] = "new"
  BY <1>1, OwnReferences, IdsAreNumbers DEF Placed, OnPath, TInv
<1>3. x \in Lead /\ x.contact = mine[d]
  BY <1>2, NewLeadTyped, IntakeAssumption DEF NewLead
<1> HIDE DEF x
<1>4. /\ leads' \in Seq(Lead) /\ LeadIds' = LeadIds \cup {l} /\ leads'[l] = x
      /\ \A k \in LeadIds : leads'[k] = leads[k]
  BY <1>1, <1>3, Appended DEF TInv, TypeOK, LeadIds
<1>5. contacts' \in Seq(Contact) /\ ContactIds' = ContactIds
  BY <1>1 DEF TInv, TypeOK, ContactIds
<1>6. LeadsPlaced'
  BY <1>2, <1>3, <1>4, <1>5 DEF TInv, LeadsPlaced
<1> HIDE DEF l
<1>7. /\ pc'[d] = "capture" /\ lead'[d] = l /\ path'[d] = path[d]
  BY <1>1 DEF TInv, TypeOK
<1>8. Placed(d)' /\ OnPath(d)'
  BY <1>2, <1>4, <1>7 DEF Placed, OnPath
<1>9. QED
  BY <1>1, <1>4, <1>5, <1>6, <1>8, OwnReferences, RowStep DEF OptionalOf, Steps, Inside

LEMMA TRecede ==
  ASSUME TInv, NEW l \in LeadIds, Recede(l)
  PROVE  TInv'
<1> DEFINE x == [leads[l] EXCEPT !.recent = FALSE]
<1>1. leads' = [leads EXCEPT ![l] = x] /\ UNCHANGED <<contacts, captured, effects, lock, local, budget>>
  BY DEF Recede
<1>2. x \in Lead /\ x.contact = leads[l].contact
  BY RowOfId DEF Lead
<1> HIDE DEF x
<1>3. leads' \in Seq(Lead) /\ LeadIds' = LeadIds /\ leads'[l] = x
      /\ \A k \in LeadIds : k # l => leads'[k] = leads[k]
  BY <1>1, <1>2, LeadReplaced
<1>4. ContactIds' = ContactIds
  BY <1>1 DEF ContactIds
<1>5. TypeOK'
  BY <1>1, <1>3, <1>4 DEF TInv, TypeOK, local, budget
<1>6. LeadsPlaced'
  BY <1>2, <1>3, <1>4 DEF TInv, LeadsPlaced
<1>7. \A d \in Deliveries : Placed(d)' /\ OnPath(d)'
  BY <1>1, <1>3, <1>4 DEF TInv, Placed, OnPath, local
<1>8. QED
  BY <1>5, <1>6, <1>7 DEF TInv

(* The steps that only move control, the lock and the budgets.            *)
LEMMA TControl ==
  ASSUME TInv, NEW d \in Deliveries,
         Begin(d) \/ Conflict(d) \/ LookForCapture(d) \/ Capture(d) \/ Release(d) \/ StartEffects(d)
  PROVE  TInv'
<1> USE IntakeAssumption
<1>1. CASE Begin(d)
  BY <1>1, ControlStep DEF Begin, Goto, Freed, rows, local, budget, TInv, TypeOK, OptionalOf, Steps, Inside, Ended
<1>2. CASE Conflict(d)
  BY <1>2, ControlStep DEF Conflict, Goto, Freed, rows, local, budget, TInv, TypeOK, OptionalOf, Steps, Inside, Ended
<1>3. CASE LookForCapture(d)
  BY <1>3, ControlStep DEF LookForCapture, Goto, Freed, rows, local, budget, TInv, TypeOK, OptionalOf, Steps, Inside, Ended
<1>4. CASE Capture(d)
  <2>1. Of[d] \in Submissions /\ pc[d] = "insert"
        /\ UNCHANGED <<contacts, leads, effects, mine, lead, path, seen, tries, budget>>
    BY <1>4 DEF Capture
  <2>2. Of[d] \in Keyed
    BY <2>1, OwnReferences DEF OnPath
  <2>3. CASE Of[d] \in captured
    BY <1>4, <2>1, <2>3, ControlStep DEF Capture, Goto, Freed, rows, local, budget, TInv, TypeOK, OptionalOf, Steps, Inside, Ended
  <2>4. CASE Of[d] \notin captured
    <3>1. captured' = captured \cup {Of[d]} /\ pc' = [pc EXCEPT ![d] = "release"] /\ lock' = lock
      BY <1>4, <2>4 DEF Capture, Goto
    <3>2. captured' \subseteq Keyed
      BY <2>2, <3>1 DEF TInv, TypeOK
    <3>3. QED
      BY <2>1, <3>1, <3>2, ControlStep DEF budget, TInv, TypeOK, OptionalOf, Steps, Inside, Ended
  <2>5. QED
    BY <2>3, <2>4
<1>5. CASE Release(d)
  BY <1>5, ControlStep DEF Release, Goto, Freed, rows, local, budget, TInv, TypeOK, OptionalOf, Steps, Inside, Ended
<1>6. CASE StartEffects(d)
  <2>1. /\ pc[d] = "effects" /\ effects' = Append(effects, lead[d]) /\ pc' = [pc EXCEPT ![d] = "answered"]
        /\ UNCHANGED <<contacts, leads, captured, lock, mine, lead, path, seen, tries, budget>>
    BY <1>6 DEF StartEffects, Goto, rows
  <2>2. lead[d] \in Nat
    BY <2>1, OwnReferences, IdsAreNumbers DEF Placed, TInv
  <2>3. effects' \in Seq(Nat)
    BY <2>1, <2>2, AppendProperties DEF TInv, TypeOK
  <2>4. QED
    BY <2>1, <2>3, ControlStep DEF budget, TInv, TypeOK, Steps, Inside, Ended
<1>7. QED
  BY <1>1, <1>2, <1>3, <1>4, <1>5, <1>6

LEMMA TFaults ==
  ASSUME TInv, (\E d \in Deliveries : Fail(d)) \/ (\E p \in Processes : Crash(p)) \/ LoseSession
  PROVE  TInv'
<1> USE IntakeAssumption
<1>1. ASSUME NEW d \in Deliveries, Fail(d) PROVE TInv'
  BY <1>1, ControlStep DEF Fail, Goto, Freed, rows, local, budget, TInv, TypeOK, OptionalOf, Steps, Inside, Ended
<1>2. ASSUME NEW p \in Processes, Crash(p) PROVE TInv'
  BY <1>2, ControlStep DEF Crash, Goto, Freed, rows, local, budget, TInv, TypeOK, OptionalOf, Steps, Inside, Ended
<1>3. CASE LoseSession
  BY <1>3, ControlStep DEF LoseSession, Goto, Freed, rows, local, budget, TInv, TypeOK, OptionalOf, Steps, Inside, Ended
<1>4. QED
  BY <1>1, <1>2, <1>3

LEMMA TNext == TInv /\ [Next]_vars => TInv'
<1> SUFFICES ASSUME TInv, [Next]_vars PROVE TInv'
  OBVIOUS
<1>1. ASSUME NEW d \in Deliveries, Step(d) PROVE TInv'
  BY <1>1, TControl, TReadReceipt, TMatch, TNote, TRemember, TFindRecent, TEnrich, TSign,
     TCreateContact, TCreateLead DEF Step
<1>2. ASSUME NEW l \in LeadIds, Recede(l) PROVE TInv'
  BY <1>2, TRecede
<1>3. CASE UNCHANGED vars
  <2>1. UNCHANGED <<contacts, leads, captured, effects, lock, pc, mine, lead, path, seen, tries, faults, crashes, losses>>
    BY <1>3 DEF vars, rows, local, budget
  <2>2. QED
    BY <2>1, ControlStep DEF TInv, TypeOK
<1>4. QED
  BY <1>1, <1>2, <1>3, TFaults DEF Next, AllEnded

(* Every reachable state is well typed and every row reference valid.      *)
THEOREM TypeCorrect == Spec => []TypeOK
<1>1. TInv => TypeOK
  BY DEF TInv
<1>2. QED
  BY <1>1, TInit, TNext, PTL DEF Spec


-----------------------------------------------------------------------------
(***************************************************************************)
(* What LeadIntake owes to the contractor's advisory lock, for every set   *)
(* of deliveries and submissions and every number of faults and crashes,   *)
(* as long as no session that holds the lock is cut (MaxLosses = 0).       *)
(*                                                                         *)
(* OneLeadPerSubmission is not inductive: a delivery may create a lead     *)
(* only because no lead carried its submission when it took the lock and   *)
(* none can have got it since.  LInv says so (Unsigned), and that a        *)
(* delivery past its lead has left the submission's receipt on it (Signed).*)
(***************************************************************************)

Searching == {"match", "note", "remember", "recent", "enrich", "sign", "contact", "lead"}
Settled == {"capture", "insert", "release", "effects", "answered"}

Held(d) == Of[d] \in TwoField /\ pc[d] \in Inside => lock = d

IsSearching(d) == Of[d] \in Keyed /\ pc[d] \in Searching /\ path[d] # "retry"
IsSettled(d) == Of[d] \in Keyed /\ (pc[d] \in Settled \/ path[d] = "retry")

Unsigned(d) == IsSearching(d) => LeadOf(Of[d]) = {}
Signed(d) == IsSettled(d) => lead[d] \in LeadIds /\ Of[d] \in leads[lead[d]].keys

LInv ==
  /\ TInv
  /\ \A d \in Deliveries : Held(d) /\ Unsigned(d) /\ Signed(d)
  /\ OneLeadPerSubmission

-----------------------------------------------------------------------------
(* The lock: who is inside holds it.                                       *)
LEMMA SameHolder ==
  ASSUME LInv, NEW d \in Deliveries, NEW w \in Steps, pc' = [pc EXCEPT ![d] = w], lock' = lock,
         w \in Inside => pc[d] \in Inside \/ Of[d] \notin TwoField
  PROVE  \A e \in Deliveries : Held(e)'
<1> SUFFICES ASSUME NEW e \in Deliveries PROVE Held(e)'
  OBVIOUS
<1>1. Held(e) /\ pc'[e] = IF e = d THEN w ELSE pc[e]
  BY DEF LInv, TInv, TypeOK
<1>2. QED
  BY <1>1 DEF Held

LEMMA HolderLeaves ==
  ASSUME LInv, NEW d \in Deliveries, NEW w \in Steps \ Inside, pc' = [pc EXCEPT ![d] = w], lock' = Freed(d)
  PROVE  \A e \in Deliveries : Held(e)'
<1> SUFFICES ASSUME NEW e \in Deliveries PROVE Held(e)'
  OBVIOUS
<1>1. Held(e) /\ pc'[e] = IF e = d THEN w ELSE pc[e]
  BY DEF LInv, TInv, TypeOK
<1>2. QED
  BY <1>1 DEF Held, Freed

LEMMA HeldStep ==
  ASSUME LInv, NEW d \in Deliveries, Step(d)
  PROVE  \A e \in Deliveries : Held(e)'
<1>1. CASE Begin(d)
  <2>1. CASE Of[d] \in TwoField
    <3>1. lock = None /\ lock' = d /\ pc' = [pc EXCEPT ![d] = "receipt"]
      BY <1>1, <2>1 DEF Begin, Goto
    <3> SUFFICES ASSUME NEW e \in Deliveries PROVE Held(e)'
      OBVIOUS
    <3>2. Held(e) /\ pc'[e] = IF e = d THEN "receipt" ELSE pc[e]
      BY <3>1 DEF LInv, TInv, TypeOK
    <3>3. QED
      BY <3>1, <3>2, IntakeAssumption DEF Held
  <2>2. CASE Of[d] \notin TwoField
    BY <1>1, <2>2, SameHolder DEF Begin, Goto, Steps, Inside
  <2>3. QED
    BY <2>1, <2>2
<1>2. CASE ReadReceipt(d)
  <2>1. lock' = lock /\ pc[d] = "receipt" /\ \E w \in {"match", "note"} : pc' = [pc EXCEPT ![d] = w]
    BY <1>2 DEF ReadReceipt, Goto
  <2>2. QED
    BY <2>1, SameHolder DEF Steps, Inside
<1>3. CASE Match(d)
  <2>1. pc[d] = "match" /\ \/ pc' = [pc EXCEPT ![d] = "failed"] /\ lock' = Freed(d)
                           \/ pc' = [pc EXCEPT ![d] = "contact"] /\ lock' = lock
                           \/ pc' = [pc EXCEPT ![d] = "note"] /\ lock' = lock
    BY <1>3 DEF Match, Goto
  <2>2. QED
    BY <2>1, SameHolder, HolderLeaves DEF Steps, Inside, Ended
<1>4. CASE Note(d) \/ Enrich(d)
  <2>1. lock' = lock /\ pc[d] \in Inside
        /\ \E w \in {"enrich", "remember", "capture", "sign", "lead"} : pc' = [pc EXCEPT ![d] = w]
    BY <1>4 DEF Note, Enrich, Goto, Inside
  <2>2. QED
    BY <2>1, SameHolder DEF Steps, Inside
<1>5. CASE Remember(d) \/ FindRecent(d) \/ Sign(d) \/ CreateContact(d) \/ CreateLead(d) \/ LookForCapture(d)
  <2>1. lock' = lock /\ pc[d] \in Inside
        /\ \E w \in {"recent", "enrich", "capture", "lead", "insert", "release"} : pc' = [pc EXCEPT ![d] = w]
    BY <1>5 DEF Remember, FindRecent, Sign, CreateContact, CreateLead, LookForCapture, Goto, rows, Inside
  <2>2. QED
    BY <2>1, SameHolder DEF Steps, Inside
<1>6. CASE Conflict(d) \/ Release(d)
  <2>1. lock' = Freed(d) /\ \E w \in {"idle", "failed", "effects", "answered"} : pc' = [pc EXCEPT ![d] = w]
    BY <1>6 DEF Conflict, Release, Goto
  <2>2. QED
    BY <2>1, HolderLeaves DEF Steps, Inside, Ended
<1>7. CASE Capture(d)
  <2>1. pc[d] = "insert" /\ \/ pc' = [pc EXCEPT ![d] = "failed"] /\ lock' = Freed(d)
                            \/ pc' = [pc EXCEPT ![d] = "release"] /\ lock' = lock
    BY <1>7 DEF Capture, Goto
  <2>2. QED
    BY <2>1, SameHolder, HolderLeaves DEF Steps, Inside, Ended
<1>8. CASE StartEffects(d)
  <2>1. lock' = lock /\ pc' = [pc EXCEPT ![d] = "answered"]
    BY <1>8 DEF StartEffects, Goto, rows
  <2>2. QED
    BY <2>1, SameHolder DEF Steps, Inside, Ended
<1>9. QED
  BY <1>1, <1>2, <1>3, <1>4, <1>5, <1>6, <1>7, <1>8 DEF Step

LEMMA HeldFaults ==
  ASSUME LInv, (\E d \in Deliveries : Fail(d)) \/ (\E p \in Processes : Crash(p))
  PROVE  \A e \in Deliveries : Held(e)'
<1>1. ASSUME NEW d \in Deliveries, Fail(d) PROVE \A e \in Deliveries : Held(e)'
  <2>1. lock' = Freed(d) /\ pc' = [pc EXCEPT ![d] = "failed"]
    BY <1>1 DEF Fail, Goto
  <2>2. QED
    BY <2>1, HolderLeaves DEF Steps, Inside, Ended
<1>2. ASSUME NEW p \in Processes, Crash(p), NEW e \in Deliveries PROVE Held(e)'
  <2>1. pc'[e] = IF ProcessOf[e] = p /\ Begun(e) THEN "failed" ELSE pc[e]
    BY <1>2 DEF Crash
  <2>2. CASE pc'[e] \in Inside
    <3>1. pc'[e] = pc[e] /\ pc[e] \in Inside
      BY <2>1, <2>2 DEF Inside
    <3>2. ProcessOf[e] # p
      BY <2>1, <3>1 DEF Begun, Inside
    <3>3. Held(e)
      BY DEF LInv
    <3>4. lock = e => lock' = e
      BY <1>2, <3>2 DEF Crash
    <3>5. QED
      BY <3>1, <3>3, <3>4 DEF Held
  <2>3. CASE pc'[e] \notin Inside
    BY <2>3 DEF Held
  <2>4. QED
    BY <2>2, <2>3
<1>3. QED
  BY <1>1, <1>2

(* Two deliveries of keyed submissions are never both inside.              *)
LEMMA AloneInside ==
  ASSUME LInv, NEW d \in Deliveries, NEW e \in Deliveries, Of[d] \in TwoField, Of[e] \in TwoField,
         pc[d] \in Inside, pc[e] \in Inside
  PROVE  d = e
BY DEF LInv, Held

-----------------------------------------------------------------------------
(* Steps that leave the receipts of all leads as they are.                 *)
LEMMA KeysKept ==
  ASSUME LInv, TInv', LeadIds \subseteq LeadIds',
         \A l \in LeadIds' : leads'[l].keys = IF l \in LeadIds THEN leads[l].keys ELSE {},
         \A d \in Deliveries : Held(d)',
         \A d \in Deliveries : IsSearching(d)' => IsSearching(d) \/ LeadOf(Of[d]) = {},
         \A d \in Deliveries :
           IsSettled(d)' => \/ IsSettled(d) /\ lead'[d] = lead[d]
                            \/ lead'[d] \in LeadIds /\ Of[d] \in leads[lead'[d]].keys
  PROVE  LInv'
<1>1. \A s \in Submissions : LeadOf(s)' = LeadOf(s)
  <2> SUFFICES ASSUME NEW s \in Submissions, NEW l \in LeadIds'
               PROVE  s \in leads'[l].keys <=> l \in LeadIds /\ s \in leads[l].keys
    BY DEF LeadOf
  <2>1. QED
    OBVIOUS
<1>2. ASSUME NEW d \in Deliveries PROVE Unsigned(d)'
  BY <1>1, IntakeAssumption DEF LInv, Unsigned
<1>3. ASSUME NEW d \in Deliveries PROVE Signed(d)'
  <2> SUFFICES ASSUME IsSettled(d)' PROVE lead'[d] \in LeadIds' /\ Of[d] \in leads'[lead'[d]].keys
    BY DEF Signed
  <2>1. lead'[d] \in LeadIds /\ Of[d] \in leads[lead'[d]].keys
    BY DEF LInv, Signed
  <2>2. QED
    BY <2>1
<1>4. OneLeadPerSubmission'
  BY DEF LInv, OneLeadPerSubmission
<1>5. QED
  BY <1>2, <1>3, <1>4 DEF LInv

(* The same, for one delivery that moves from one step to another.         *)
LEMMA QuietStep ==
  ASSUME LInv, TInv', NEW d \in Deliveries, NEW w \in Steps, pc' = [pc EXCEPT ![d] = w],
         UNCHANGED leads, \A e \in Deliveries : Held(e)',
         \A e \in Deliveries : e # d => lead'[e] = lead[e] /\ path'[e] = path[e],
         IsSearching(d)' => IsSearching(d) \/ LeadOf(Of[d]) = {},
         IsSettled(d)' => \/ IsSettled(d) /\ lead'[d] = lead[d]
                          \/ lead'[d] \in LeadIds /\ Of[d] \in leads[lead'[d]].keys
  PROVE  LInv'
<1>1. LeadIds' = LeadIds
  BY DEF LeadIds
<1>2. ASSUME NEW e \in Deliveries, e # d
      PROVE  IsSearching(e)' = IsSearching(e) /\ IsSettled(e)' = IsSettled(e) /\ lead'[e] = lead[e]
  <2>1. pc'[e] = pc[e] /\ path'[e] = path[e]
    BY <1>2 DEF LInv, TInv, TypeOK
  <2>2. QED
    BY <1>2, <2>1 DEF IsSearching, IsSettled
<1>3. QED
  BY <1>1, <1>2, KeysKept

(* The same, for one delivery whose submission has no ID: it is no party.  *)
LEMMA UnkeyedStep ==
  ASSUME LInv, TInv', NEW d \in Deliveries, NEW w \in Steps, pc' = [pc EXCEPT ![d] = w], Of[d] \notin Keyed,
         LeadIds \subseteq LeadIds', path' = path, \A e \in Deliveries : e # d => lead'[e] = lead[e],
         \A l \in LeadIds' : leads'[l].keys = IF l \in LeadIds THEN leads[l].keys ELSE {},
         \A e \in Deliveries : Held(e)'
  PROVE  LInv'
<1>1. \A e \in Deliveries : Of[e] \in Keyed => e # d /\ pc'[e] = pc[e] /\ lead'[e] = lead[e] /\ path'[e] = path[e]
  BY DEF LInv, TInv, TypeOK
<1>2. QED
  BY <1>1, KeysKept DEF IsSearching, IsSettled

(* A new or repeated receipt: nobody else is looking for a lead for it.    *)
LEMMA Entered ==
  ASSUME LInv, TInv', NEW d \in Deliveries, Of[d] \in Keyed, pc[d] \in {"sign", "lead"},
         pc' = [pc EXCEPT ![d] = "capture"], path' = path,
         NEW l \in LeadIds', LeadIds' \subseteq LeadIds \cup {l}, LeadIds \subseteq LeadIds',
         lead' = [lead EXCEPT ![d] = l],
         \A k \in LeadIds : k # l => leads'[k].keys = leads[k].keys,
         Of[d] \in leads'[l].keys,
         l \in LeadIds => leads'[l].keys = leads[l].keys \cup {Of[d]},
         l \notin LeadIds => leads'[l].keys = {Of[d]},
         \A e \in Deliveries : Held(e)'
  PROVE  LInv'
<1>1. path[d] # "retry" /\ pc[d] \in Inside
  BY OwnReferences DEF LInv, OnPath, Inside
<1>2. LeadOf(Of[d]) = {}
  BY <1>1 DEF LInv, Unsigned, IsSearching, Searching
<1>3. \A s \in Keyed : s # Of[d] => LeadOf(s)' = LeadOf(s)
  <2> SUFFICES ASSUME NEW s \in Keyed, s # Of[d], NEW k \in LeadIds' 
               PROVE  s \in leads'[k].keys <=> k \in LeadIds /\ s \in leads[k].keys
    BY DEF LeadOf
  <2>1. CASE k = l
    BY <2>1
  <2>2. CASE k # l
    BY <2>2
  <2>3. QED
    BY <2>1, <2>2
<1>4. LeadOf(Of[d])' = {l}
  <2> SUFFICES ASSUME NEW k \in LeadIds', k # l PROVE Of[d] \notin leads'[k].keys
    BY DEF LeadOf
  <2>1. k \in LeadIds /\ Of[d] \notin leads[k].keys
    BY <1>2 DEF LeadOf
  <2>2. QED
    BY <2>1
<1>5. ASSUME NEW e \in Deliveries, e # d
      PROVE  pc'[e] = pc[e] /\ path'[e] = path[e] /\ lead'[e] = lead[e]
  BY <1>5 DEF LInv, TInv, TypeOK
<1>6. pc'[d] = "capture" /\ lead'[d] = l /\ path'[d] = path[d]
  BY DEF LInv, TInv, TypeOK
<1>7. ASSUME NEW e \in Deliveries PROVE Unsigned(e)'
  <2> SUFFICES ASSUME IsSearching(e)' PROVE LeadOf(Of[e])' = {}
    BY DEF Unsigned
  <2>1. e # d
    BY <1>6 DEF IsSearching, Searching
  <2>2. IsSearching(e) /\ pc[e] \in Inside
    BY <1>5, <2>1 DEF IsSearching, Searching, Inside
  <2>3. Of[e] # Of[d]
    BY <1>1, <2>1, <2>2, AloneInside, IntakeAssumption DEF IsSearching
  <2>4. QED
    BY <1>3, <2>2, <2>3 DEF LInv, Unsigned, IsSearching
<1>8. ASSUME NEW e \in Deliveries PROVE Signed(e)'
  <2>1. CASE e = d
    BY <1>6, <2>1 DEF Signed
  <2>2. CASE e # d
    <3> SUFFICES ASSUME IsSettled(e)' PROVE lead'[e] \in LeadIds' /\ Of[e] \in leads'[lead'[e]].keys
      BY DEF Signed
    <3>1. IsSettled(e)
      BY <1>5, <2>2 DEF IsSettled
    <3>2. lead'[e] = lead[e] /\ lead[e] \in LeadIds /\ Of[e] \in leads[lead[e]].keys
      BY <1>5, <2>2, <3>1 DEF LInv, Signed
    <3>3. QED
      BY <3>2
  <2>3. QED
    BY <2>1, <2>2
<1>9. OneLeadPerSubmission'
  <2> SUFFICES ASSUME NEW s \in Keyed, NEW j \in LeadIds', NEW k \in LeadIds',
                      s \in leads'[j].keys, s \in leads'[k].keys
               PROVE  j = k
    BY DEF OneLeadPerSubmission
  <2>1. j \in LeadOf(s)' /\ k \in LeadOf(s)'
    BY DEF LeadOf
  <2>2. CASE s = Of[d]
    BY <1>4, <2>1, <2>2
  <2>3. CASE s # Of[d]
    <3>1. j \in LeadOf(s) /\ k \in LeadOf(s)
      BY <1>3, <2>1, <2>3
    <3>2. QED
      BY <3>1 DEF LInv, OneLeadPerSubmission, LeadOf
  <2>4. QED
    BY <2>2, <2>3
<1>10. QED
  BY <1>7, <1>8, <1>9 DEF LInv

-----------------------------------------------------------------------------
LEMMA LInit == Init => LInv
<1> SUFFICES ASSUME Init PROVE LInv
  OBVIOUS
<1>1. TInv
  BY TInit
<1>2. LeadIds = {}
  BY EmptySeq, LenProperties DEF Init, LeadIds
<1>3. ASSUME NEW d \in Deliveries PROVE Held(d) /\ Unsigned(d) /\ Signed(d)
  BY DEF Init, Held, Unsigned, Signed, IsSearching, IsSettled, Searching, Settled, Inside
<1>4. OneLeadPerSubmission
  BY <1>2 DEF OneLeadPerSubmission
<1>5. QED
  BY <1>1, <1>3, <1>4 DEF LInv

LEMMA LStep ==
  ASSUME LInv, TInv', NEW d \in Deliveries, Step(d)
  PROVE  LInv'
<1>1. \A e \in Deliveries : Held(e)'
  BY HeldStep
<1>2. /\ pc[d] \in Steps /\ OnPath(d) /\ Placed(d)
      /\ mine[d] \in OptionalOf(ContactIds) /\ lead[d] \in OptionalOf(LeadIds)
  BY OwnReferences DEF LInv, TInv, TypeOK
<1>3. CASE Begin(d)
  <2>1. /\ UNCHANGED <<leads, lead, path>> /\ pc[d] = "idle"
        /\ pc' = [pc EXCEPT ![d] = IF Of[d] \in TwoField THEN "receipt" ELSE "match"]
    BY <1>3 DEF Begin, Goto, rows
  <2>2. pc'[d] = IF Of[d] \in TwoField THEN "receipt" ELSE "match"
    BY <2>1 DEF LInv, TInv, TypeOK
  <2>3. ~IsSearching(d)' /\ ~IsSettled(d)'
    BY <1>2, <2>1, <2>2, IntakeAssumption DEF IsSearching, IsSettled, Searching, Settled, OnPath
  <2>4. QED
    BY <1>1, <2>1, <2>3, QuietStep DEF Steps, Inside
<1>4. CASE ReadReceipt(d)
  <2>1. UNCHANGED leads /\ pc[d] = "receipt"
    BY <1>4 DEF ReadReceipt, rows
  <2>2. CASE Receipts(Of[d]) = {}
    <3>1. UNCHANGED <<lead, path>> /\ pc' = [pc EXCEPT ![d] = "match"]
      BY <1>4, <2>2 DEF ReadReceipt, Goto
    <3>2. pc'[d] = "match" /\ path'[d] = "new"
      BY <1>2, <2>1, <3>1 DEF LInv, TInv, TypeOK, OnPath
    <3>3. IsSearching(d)' => LeadOf(Of[d]) = {}
      BY <2>2 DEF Receipts, LeadOf, IsSearching
    <3>4. ~IsSettled(d)'
      BY <3>2 DEF IsSettled, Settled
    <3>5. QED
      BY <1>1, <2>1, <3>1, <3>3, <3>4, QuietStep DEF Steps, Inside
  <2>3. CASE Receipts(Of[d]) # {}
    <3>1. PICK l \in Receipts(Of[d]) : /\ lead' = [lead EXCEPT ![d] = l] /\ path' = [path EXCEPT ![d] = "retry"]
                                       /\ pc' = [pc EXCEPT ![d] = "note"]
      BY <1>4, <2>3 DEF ReadReceipt, Goto
    <3>2. lead'[d] = l /\ path'[d] = "retry" /\ l \in LeadIds /\ Of[d] \in leads[l].keys
      BY <3>1 DEF Receipts, LInv, TInv, TypeOK
    <3>3. ~IsSearching(d)'
      BY <3>2 DEF IsSearching
    <3>4. \A e \in Deliveries : e # d => lead'[e] = lead[e] /\ path'[e] = path[e]
      BY <3>1 DEF LInv, TInv, TypeOK
    <3>5. QED
      BY <1>1, <2>1, <3>1, <3>2, <3>3, <3>4, QuietStep DEF Steps, Inside
  <2>4. QED
    BY <2>2, <2>3
<1>5. CASE FindRecent(d)
  <2>1. UNCHANGED leads /\ pc[d] = "recent" /\ pc' = [pc EXCEPT ![d] = "enrich"]
    BY <1>5 DEF FindRecent, Goto, rows
  <2>2. \E l \in {lead[d]} \cup LeadIds, w \in {"new", "duplicate"} :
          lead' = [lead EXCEPT ![d] = l] /\ path' = [path EXCEPT ![d] = w]
    <3>1. CASE RecentLeads(mine[d]) = {}
      BY <1>2, <2>1, <3>1, <1>5 DEF FindRecent, LInv, TInv, TypeOK, OnPath
    <3>2. CASE RecentLeads(mine[d]) # {}
      BY <3>2, <1>5 DEF FindRecent, RecentLeads
    <3>3. QED
      BY <3>1, <3>2
  <2>3. \A e \in Deliveries : e # d => lead'[e] = lead[e] /\ path'[e] = path[e]
    BY <2>2 DEF LInv, TInv, TypeOK
  <2>4. pc'[d] = "enrich" /\ path'[d] \in {"new", "duplicate"} /\ path[d] = "new"
    BY <1>2, <2>1, <2>2 DEF LInv, TInv, TypeOK, OnPath
  <2>5. (IsSearching(d)' => IsSearching(d)) /\ ~IsSettled(d)'
    BY <2>1, <2>4 DEF IsSearching, IsSettled, Searching, Settled
  <2>6. QED
    BY <1>1, <2>1, <2>3, <2>5, QuietStep DEF Steps, Inside
<1>6. CASE Match(d) \/ Note(d) \/ Remember(d) \/ Enrich(d) \/ CreateContact(d) \/ Conflict(d)
  <2>1. UNCHANGED <<leads, lead, path>>
    BY <1>6 DEF Match, Note, Remember, Enrich, CreateContact, Conflict, rows
  <2>2. PICK w \in Steps : pc' = [pc EXCEPT ![d] = w]
    BY <1>6 DEF Match, Note, Remember, Enrich, CreateContact, Conflict, Goto, Steps, Inside, Ended
  <2>3. pc'[d] = w
    BY <2>2 DEF LInv, TInv, TypeOK
  <2>4. IsSearching(d)' => IsSearching(d)
    <3>1. pc[d] \in {"match", "note", "remember", "enrich", "contact"}
      BY <1>6 DEF Match, Note, Remember, Enrich, CreateContact, Conflict
    <3>2. QED
      BY <2>1, <3>1 DEF IsSearching, Searching
  <2>5. IsSettled(d)' => IsSettled(d)
    <3>1. w \in Settled => path[d] = "retry"
      BY <1>2, <1>6, <2>2, <2>3 DEF Match, Note, Remember, Enrich, CreateContact, Conflict, Goto, Settled, LInv, TInv, TypeOK
    <3>2. QED
      BY <2>1, <2>3, <3>1 DEF IsSettled
  <2>6. QED
    BY <1>1, <2>1, <2>2, <2>4, <2>5, QuietStep
<1>7. CASE LookForCapture(d) \/ Capture(d) \/ Release(d) \/ StartEffects(d)
  <2>1. UNCHANGED <<leads, lead, path>> /\ pc[d] \in Settled
    BY <1>7 DEF LookForCapture, Capture, Release, StartEffects, rows, Settled
  <2>2. PICK w \in {"insert", "release", "effects", "answered", "failed"} : pc' = [pc EXCEPT ![d] = w]
    BY <1>7 DEF LookForCapture, Capture, Release, StartEffects, Goto
  <2>3. pc'[d] = w
    BY <2>2 DEF LInv, TInv, TypeOK
  <2>4. ~IsSearching(d)' /\ (IsSettled(d)' => IsSettled(d))
    BY <2>1, <2>3 DEF IsSearching, IsSettled, Searching
  <2>5. QED
    BY <1>1, <2>1, <2>2, <2>4, QuietStep DEF Steps, Inside, Ended
<1>8. CASE Sign(d)
  <2> DEFINE x == [leads[lead[d]] EXCEPT !.keys = @ \cup ({Of[d]} \cap Keyed)]
  <2>1. /\ pc[d] = "sign" /\ pc' = [pc EXCEPT ![d] = "capture"] /\ leads' = [leads EXCEPT ![lead[d]] = x]
        /\ path' = path /\ lead' = lead
    BY <1>8 DEF Sign, Goto
  <2>2. lead[d] \in LeadIds /\ leads[lead[d]] \in Lead
    BY <1>2, <2>1, RowOfId DEF LInv, Placed
  <2>3. x \in Lead /\ x.keys = leads[lead[d]].keys \cup ({Of[d]} \cap Keyed)
    BY <2>2 DEF Lead
  <2> HIDE DEF x
  <2>4. LeadIds' = LeadIds /\ leads'[lead[d]] = x /\ \A k \in LeadIds : k # lead[d] => leads'[k] = leads[k]
    BY <2>1, <2>2, <2>3, LeadReplaced DEF LInv
  <2>5. CASE Of[d] \in Keyed
    <3>1. lead' = [lead EXCEPT ![d] = lead[d]]
      BY <2>1 DEF LInv, TInv, TypeOK
    <3>2. leads'[lead[d]].keys = leads[lead[d]].keys \cup {Of[d]}
      BY <2>3, <2>4, <2>5
    <3>3. QED
      BY <1>1, <2>1, <2>2, <2>4, <2>5, <3>1, <3>2, Entered
  <2>6. CASE Of[d] \notin Keyed
    <3>1. leads'[lead[d]].keys = leads[lead[d]].keys
      BY <2>3, <2>4, <2>6
    <3>2. \A k \in LeadIds' : leads'[k].keys = IF k \in LeadIds THEN leads[k].keys ELSE {}
      BY <2>4, <3>1
    <3>3. QED
      BY <1>1, <2>1, <2>4, <2>6, <3>2, UnkeyedStep DEF Steps, Inside
  <2>7. QED
    BY <2>5, <2>6
<1>9. CASE CreateLead(d)
  <2> DEFINE x == NewLead(Of[d], mine[d])
             l == Len(leads) + 1
  <2>1. /\ pc[d] = "lead" /\ pc' = [pc EXCEPT ![d] = "capture"] /\ leads' = Append(leads, x)
        /\ path' = path /\ lead' = [lead EXCEPT ![d] = l]
    BY <1>9 DEF CreateLead, Goto
  <2>2. mine[d] \in Nat
    BY <1>2, <2>1, IdsAreNumbers DEF LInv, TInv, Placed
  <2>3. x \in Lead /\ x.keys = {Of[d]} \cap Keyed
    BY <2>2, NewLeadTyped, IntakeAssumption DEF NewLead
  <2> HIDE DEF x
  <2>4. /\ LeadIds' = LeadIds \cup {l} /\ l \notin LeadIds /\ leads'[l] = x
        /\ \A k \in LeadIds : leads'[k] = leads[k]
    BY <2>1, <2>3, Appended DEF LInv, TInv, TypeOK, LeadIds
  <2> HIDE DEF l
  <2>5. CASE Of[d] \in Keyed
    <3>1. leads'[l].keys = {Of[d]}
      BY <2>3, <2>4, <2>5
    <3>2. QED
      BY <1>1, <2>1, <2>4, <2>5, <3>1, Entered
  <2>6. CASE Of[d] \notin Keyed
    <3>1. leads'[l].keys = {}
      BY <2>3, <2>4, <2>6
    <3>2. \A e \in Deliveries : e # d => lead'[e] = lead[e]
      BY <2>1 DEF LInv, TInv, TypeOK
    <3>3. QED
      BY <1>1, <2>1, <2>4, <2>6, <3>1, <3>2, UnkeyedStep DEF Steps, Inside
  <2>7. QED
    BY <2>5, <2>6
<1>10. QED
  BY <1>3, <1>4, <1>5, <1>6, <1>7, <1>8, <1>9 DEF Step

LEMMA LFaults ==
  ASSUME LInv, TInv', (\E d \in Deliveries : Fail(d)) \/ (\E p \in Processes : Crash(p))
  PROVE  LInv'
<1>1. \A e \in Deliveries : Held(e)'
  BY HeldFaults
<1>2. UNCHANGED <<leads, lead, path>> /\ \A d \in Deliveries : pc'[d] \in {pc[d], "failed"}
  BY DEF Fail, Crash, Goto, rows, LInv, TInv, TypeOK
<1>3. LeadIds' = LeadIds
  BY <1>2 DEF LeadIds
<1>4. \A d \in Deliveries : (IsSearching(d)' => IsSearching(d)) /\ (IsSettled(d)' => IsSettled(d))
  BY <1>2 DEF IsSearching, IsSettled, Searching, Settled
<1>5. QED
  BY <1>1, <1>2, <1>3, <1>4, KeysKept

LEMMA LRecede ==
  ASSUME LInv, TInv', NEW l \in LeadIds, Recede(l)
  PROVE  LInv'
<1> DEFINE x == [leads[l] EXCEPT !.recent = FALSE]
<1>1. leads' = [leads EXCEPT ![l] = x] /\ UNCHANGED <<lock, pc, lead, path>>
  BY DEF Recede, local
<1>2. x \in Lead /\ x.keys = leads[l].keys
  BY RowOfId DEF LInv, Lead
<1> HIDE DEF x
<1>3. LeadIds' = LeadIds /\ leads'[l] = x /\ \A k \in LeadIds : k # l => leads'[k] = leads[k]
  BY <1>1, <1>2, LeadReplaced DEF LInv
<1>4. \A k \in LeadIds : leads'[k].keys = leads[k].keys
  BY <1>2, <1>3
<1>5. \A d \in Deliveries : Held(d)' /\ IsSearching(d)' = IsSearching(d) /\ IsSettled(d)' = IsSettled(d)
  BY <1>1 DEF LInv, Held, IsSearching, IsSettled
<1>6. QED
  BY <1>1, <1>3, <1>4, <1>5, KeysKept

LEMMA LNext ==
  ASSUME MaxLosses = 0, LInv, [Next]_vars
  PROVE  LInv'
<1>1. TInv'
  BY TNext DEF LInv
<1>2. ASSUME NEW d \in Deliveries, Step(d) PROVE LInv'
  BY <1>1, <1>2, LStep
<1>3. CASE (\E d \in Deliveries : Fail(d)) \/ (\E p \in Processes : Crash(p))
  BY <1>1, <1>3, LFaults
<1>4. ~LoseSession
  BY DEF LoseSession, LInv, TInv, TypeOK
<1>5. ASSUME NEW l \in LeadIds, Recede(l) PROVE LInv'
  BY <1>1, <1>5, LRecede
<1>6. CASE UNCHANGED vars
  <2>1. UNCHANGED <<leads, lead, path, pc, lock>>
    BY <1>6 DEF vars, rows, local
  <2>2. LeadIds' = LeadIds
    BY <2>1 DEF LeadIds
  <2>3. \A d \in Deliveries : Held(d)' /\ IsSearching(d)' = IsSearching(d) /\ IsSettled(d)' = IsSettled(d)
    BY <2>1 DEF LInv, Held, IsSearching, IsSettled
  <2>4. QED
    BY <1>1, <2>1, <2>2, <2>3, KeysKept
<1>7. QED
  BY <1>2, <1>3, <1>4, <1>5, <1>6 DEF Next, AllEnded

(* Two deliveries under the contractor's lock never work at the same time, *)
(* if no session that holds it is cut.                                     *)
THEOREM OneInsideCorrect ==
  ASSUME MaxLosses = 0
  PROVE  Spec => []OneInside
<1>1. LInv => OneInside
  BY DEF LInv, Held, OneInside
<1>2. LInv /\ [Next]_vars => LInv'
  BY LNext
<1>3. QED
  BY <1>1, <1>2, LInit, PTL DEF Spec

(* A submission with a provider ID belongs to one lead for good.           *)
THEOREM OneLeadCorrect ==
  ASSUME MaxLosses = 0
  PROVE  Spec => []OneLeadPerSubmission
<1>1. LInv => OneLeadPerSubmission
  BY DEF LInv
<1>2. LInv /\ [Next]_vars => LInv'
  BY LNext
<1>3. QED
  BY <1>1, <1>2, LInit, PTL DEF Spec

-----------------------------------------------------------------------------
(* LeadIntake implements SubmissionLedger: a submission is entered by the  *)
(* step that writes its receipt, answered by the step that ends a delivery *)
(* of it, and every other step leaves the ledger alone.                    *)
entries == [s \in Keyed |-> LeadOf(s)]

LEMMA EntriesKept ==
  ASSUME LeadIds \subseteq LeadIds',
         \A l \in LeadIds' : leads'[l].keys = IF l \in LeadIds THEN leads[l].keys ELSE {}
  PROVE  entries' = entries
<1>1. ASSUME NEW s \in Keyed PROVE LeadOf(s)' = LeadOf(s)
  <2> SUFFICES ASSUME NEW l \in LeadIds'
               PROVE  s \in leads'[l].keys <=> l \in LeadIds /\ s \in leads[l].keys
    BY DEF LeadOf
  <2>1. QED
    OBVIOUS
<1>2. QED
  BY <1>1 DEF entries

LEMMA AnswersKept ==
  ASSUME \A e \in Deliveries : pc'[e] = "answered" <=> pc[e] = "answered",
         \A e \in Deliveries : pc[e] = "answered" => lead'[e] = lead[e]
  PROVE  Answers' = Answers
BY DEF Answers

LEMMA Signing ==
  ASSUME LInv, LInv', NEW d \in Deliveries, Sign(d) \/ CreateLead(d)
  PROVE  /\ Answers' = Answers
         /\ Of[d] \in Keyed => Ledger!Enter(Of[d])
         /\ Of[d] \notin Keyed => entries' = entries
<1>1. /\ pc[d] \in {"sign", "lead"} /\ pc' = [pc EXCEPT ![d] = "capture"] /\ path' = path
      /\ pc'[d] = "capture"
  BY DEF Sign, CreateLead, Goto, LInv, TInv, TypeOK
<1>2. \A e \in Deliveries : e # d => pc'[e] = pc[e] /\ lead'[e] = lead[e]
  BY <1>1 DEF Sign, CreateLead, LInv, TInv, TypeOK
<1>3. Answers' = Answers
  BY <1>1, <1>2, AnswersKept
<1>4. \A s \in Keyed : s # Of[d] => LeadOf(s)' = LeadOf(s)
  <2>1. CASE Sign(d)
    <3> DEFINE x == [leads[lead[d]] EXCEPT !.keys = @ \cup ({Of[d]} \cap Keyed)]
    <3>1. leads' = [leads EXCEPT ![lead[d]] = x] /\ lead[d] \in LeadIds
      BY <2>1, OwnReferences DEF Sign, LInv, Placed
    <3>2. x \in Lead /\ x.keys = leads[lead[d]].keys \cup ({Of[d]} \cap Keyed)
      BY <3>1, RowOfId DEF LInv, Lead
    <3> HIDE DEF x
    <3>3. LeadIds' = LeadIds /\ leads'[lead[d]] = x /\ \A k \in LeadIds : k # lead[d] => leads'[k] = leads[k]
      BY <3>1, <3>2, LeadReplaced DEF LInv
    <3>4. \A k \in LeadIds, s \in Keyed : s # Of[d] => (s \in leads'[k].keys <=> s \in leads[k].keys)
      BY <3>2, <3>3
    <3>5. QED
      BY <3>3, <3>4 DEF LeadOf
  <2>2. CASE CreateLead(d)
    <3> DEFINE x == NewLead(Of[d], mine[d])
               l == Len(leads) + 1
    <3>1. leads' = Append(leads, x) /\ mine[d] \in Nat
      BY <2>2, OwnReferences, IdsAreNumbers DEF CreateLead, LInv, TInv, Placed
    <3>2. x \in Lead /\ x.keys = {Of[d]} \cap Keyed
      BY <3>1, NewLeadTyped, IntakeAssumption DEF NewLead
    <3> HIDE DEF x
    <3>3. /\ LeadIds' = LeadIds \cup {l} /\ l \notin LeadIds /\ leads'[l] = x
          /\ \A k \in LeadIds : leads'[k] = leads[k]
      BY <3>1, <3>2, Appended DEF LInv, TInv, TypeOK, LeadIds
    <3> HIDE DEF l
    <3>4. \A k \in LeadIds', s \in Keyed : s # Of[d] => (s \in leads'[k].keys <=> k \in LeadIds /\ s \in leads[k].keys)
      BY <3>2, <3>3
    <3>5. QED
      BY <3>3, <3>4 DEF LeadOf
  <2>3. QED
    BY <2>1, <2>2
<1>5. CASE Of[d] \in Keyed
  <2>1. LeadOf(Of[d]) = {}
    BY <1>1, <1>5, OwnReferences DEF LInv, OnPath, Unsigned, IsSearching, Searching
  <2>2. lead'[d] \in LeadIds' /\ Of[d] \in leads'[lead'[d]].keys
    BY <1>1, <1>5 DEF LInv, Signed, IsSettled, Settled
  <2>3. LeadOf(Of[d])' = {lead'[d]}
    BY <1>5, <2>2 DEF LInv, OneLeadPerSubmission, LeadOf
  <2>4. entries[Of[d]] = {} /\ entries'[Of[d]] = {lead'[d]} /\ entries' = [entries EXCEPT ![Of[d]] = {lead'[d]}]
    BY <1>4, <1>5, <2>1, <2>3 DEF entries
  <2>5. Ledger!Enter(Of[d])
    BY <1>3, <2>4 DEF entries, Ledger!Enter
  <2>6. QED
    BY <1>3, <1>5, <2>5
<1>6. CASE Of[d] \notin Keyed
  BY <1>3, <1>4, <1>6 DEF entries
<1>7. QED
  BY <1>5, <1>6

LEMMA Answering ==
  ASSUME LInv, NEW d \in Deliveries, UNCHANGED <<leads, lead>>,
         pc[d] \in Settled \ {"answered"}, pc' = [pc EXCEPT ![d] = "answered"]
  PROVE  (Of[d] \in Keyed /\ Ledger!Answer(Of[d])) \/ UNCHANGED <<entries, Answers>>
<1>1. entries' = entries
  BY DEF entries, LeadOf, LeadIds
<1>2. \A e \in Deliveries : pc'[e] = IF e = d THEN "answered" ELSE pc[e]
  BY DEF LInv, TInv, TypeOK
<1>3. CASE Of[d] \in Keyed
  <2>1. lead[d] \in LeadIds /\ Of[d] \in leads[lead[d]].keys
    BY <1>3 DEF LInv, Signed, IsSettled
  <2>2. LeadOf(Of[d]) = {lead[d]}
    BY <1>3, <2>1 DEF LInv, OneLeadPerSubmission, LeadOf
  <2>3. Answers' = Answers \cup {<<Of[d], lead[d]>>}
    BY <1>2, <1>3 DEF Answers
  <2>4. Ledger!Answer(Of[d])
    BY <1>1, <1>3, <2>2, <2>3 DEF entries, Ledger!Answer
  <2>5. QED
    BY <1>3, <2>4
<1>4. CASE Of[d] \notin Keyed
  <2>1. Answers' = Answers
    BY <1>2, <1>4 DEF Answers
  <2>2. QED
    BY <1>1, <2>1
<1>5. QED
  BY <1>3, <1>4

LEMMA LedgerStep ==
  ASSUME MaxLosses = 0, LInv, LInv', [Next]_vars
  PROVE  [Ledger!Next]_Ledger!vars
<1>1. SUFFICES \/ \E s \in Keyed : Ledger!Enter(s) \/ Ledger!Answer(s)
               \/ UNCHANGED <<entries, Answers>>
  BY DEF Ledger!Next, Ledger!vars, entries
<1>2. ASSUME UNCHANGED <<leads, lead>>, \A e \in Deliveries : pc'[e] = "answered" <=> pc[e] = "answered"
      PROVE  UNCHANGED <<entries, Answers>>
  <2>1. entries' = entries
    BY <1>2 DEF entries, LeadOf, LeadIds
  <2>2. QED
    BY <1>2, <2>1, AnswersKept
<1>3. ASSUME NEW d \in Deliveries, Step(d)
      PROVE  (\E s \in Keyed : Ledger!Enter(s) \/ Ledger!Answer(s)) \/ UNCHANGED <<entries, Answers>>
  <2>1. CASE Sign(d) \/ CreateLead(d)
    BY <2>1, Signing
  <2>2. CASE ReadReceipt(d) \/ FindRecent(d)
    <3>1. UNCHANGED leads /\ pc[d] # "answered" /\ \E w \in {"match", "note", "enrich"} : pc' = [pc EXCEPT ![d] = w]
      BY <2>2 DEF ReadReceipt, FindRecent, Goto, rows
    <3>2. \A e \in Deliveries : e # d => lead'[e] = lead[e]
      BY <2>2 DEF ReadReceipt, FindRecent, LInv, TInv, TypeOK
    <3>3. \A e \in Deliveries : pc'[e] = "answered" <=> pc[e] = "answered"
      BY <3>1 DEF LInv, TInv, TypeOK
    <3>4. Answers' = Answers
      BY <3>1, <3>2, <3>3, AnswersKept
    <3>5. QED
      BY <3>1, <3>4 DEF entries, LeadOf, LeadIds
  <2>3. CASE Begin(d) \/ Match(d) \/ Note(d) \/ Remember(d) \/ Enrich(d) \/ CreateContact(d) \/ Conflict(d)
             \/ LookForCapture(d) \/ Capture(d)
    <3>1. UNCHANGED <<leads, lead>> /\ pc[d] # "answered" /\ \E w \in Steps \ {"answered"} : pc' = [pc EXCEPT ![d] = w]
      BY <2>3 DEF Begin, Match, Note, Remember, Enrich, CreateContact, Conflict, LookForCapture, Capture,
                  Goto, rows, Steps, Inside, Ended
    <3>2. \A e \in Deliveries : pc'[e] = "answered" <=> pc[e] = "answered"
      BY <3>1 DEF LInv, TInv, TypeOK
    <3>3. QED
      BY <1>2, <3>1, <3>2
  <2>4. CASE Release(d) \/ StartEffects(d)
    <3>1. UNCHANGED <<leads, lead>> /\ pc[d] \in Settled \ {"answered"}
          /\ \E w \in {"effects", "answered"} : pc' = [pc EXCEPT ![d] = w]
      BY <2>4 DEF Release, StartEffects, Goto, rows, Settled
    <3>2. CASE pc' = [pc EXCEPT ![d] = "answered"]
      BY <3>1, <3>2, Answering
    <3>3. CASE pc' = [pc EXCEPT ![d] = "effects"]
      <4>1. \A e \in Deliveries : pc'[e] = "answered" <=> pc[e] = "answered"
        BY <3>1, <3>3 DEF LInv, TInv, TypeOK
      <4>2. QED
        BY <1>2, <3>1, <4>1
    <3>4. QED
      BY <3>1, <3>2, <3>3
  <2>5. QED
    BY <1>3, <2>1, <2>2, <2>3, <2>4 DEF Step
<1>4. CASE (\E d \in Deliveries : Fail(d)) \/ (\E p \in Processes : Crash(p))
  <2>1. UNCHANGED <<leads, lead>>
    BY <1>4 DEF Fail, Crash, rows
  <2>2. \A e \in Deliveries : pc'[e] = "answered" <=> pc[e] = "answered"
    BY <1>4 DEF Fail, Crash, Goto, Begun, Inside, LInv, TInv, TypeOK
  <2>3. QED
    BY <1>2, <2>1, <2>2
<1>5. ~LoseSession
  BY DEF LoseSession, LInv, TInv, TypeOK
<1>6. ASSUME NEW l \in LeadIds, Recede(l) PROVE UNCHANGED <<entries, Answers>>
  <2> DEFINE x == [leads[l] EXCEPT !.recent = FALSE]
  <2>1. leads' = [leads EXCEPT ![l] = x] /\ UNCHANGED <<pc, lead>>
    BY <1>6 DEF Recede, local
  <2>2. x \in Lead /\ x.keys = leads[l].keys
    BY RowOfId DEF LInv, Lead
  <2> HIDE DEF x
  <2>3. LeadIds' = LeadIds /\ leads'[l] = x /\ \A k \in LeadIds : k # l => leads'[k] = leads[k]
    BY <2>1, <2>2, LeadReplaced DEF LInv
  <2>4. \A k \in LeadIds : leads'[k].keys = leads[k].keys
    BY <2>2, <2>3
  <2>5. entries' = entries
    BY <2>3, <2>4, EntriesKept
  <2>6. QED
    BY <2>1, <2>5, AnswersKept
<1>7. CASE UNCHANGED vars
  BY <1>2, <1>7 DEF vars, rows, local
<1>8. QED
  BY <1>3, <1>4, <1>5, <1>6, <1>7 DEF Next, AllEnded

LEMMA LedgerInit == Init => Ledger!Init
<1> SUFFICES ASSUME Init PROVE Ledger!Init
  OBVIOUS
<1>1. LeadIds = {}
  BY EmptySeq, LenProperties DEF Init, LeadIds
<1>2. Answers = {} /\ \A s \in Keyed : LeadOf(s) = {}
  BY <1>1 DEF Answers, LeadOf, Init
<1>3. QED
  BY <1>2 DEF Ledger!Init

(* A submission is entered for one lead, once, and every answer names it:  *)
(* retries, other channels and failures half-way change neither.           *)
THEOREM LedgerCorrect ==
  ASSUME MaxLosses = 0
  PROVE  Spec => ImplementsLedger
<1>1. LInv /\ [Next]_vars => LInv'
  BY LNext
<1>2. LInv /\ LInv' /\ [Next]_vars => [Ledger!Next]_Ledger!vars
  BY LedgerStep
<1>3. QED
  BY <1>1, <1>2, LInit, LedgerInit, PTL DEF Spec, ImplementsLedger, Ledger!Spec

-----------------------------------------------------------------------------
(***************************************************************************)
(* What LeadIntake does to the rows of contacts and to the follow-up work. *)
(*                                                                         *)
(* Without any help of the lock, for every number of lost sessions and for *)
(* callers that take no lock at all: a lead's follow-up work is started at *)
(* most once (EInv: no two deliveries hold the lead they created), and a   *)
(* contact has the note of a keyed submission at most once (NInv: the copy *)
(* of the row a delivery holds knows no note key the row does not know).   *)
(*                                                                         *)
(* With the lock, as long as every caller takes it and no session that     *)
(* holds it is cut: enrichment takes nothing off a contact (CInv: the copy *)
(* of the row is the row), and an answered delivery left nothing undone    *)
(* (AInv: what each step of a delivery has already brought about).         *)
(***************************************************************************)

(* Between its CreateLead and its StartEffects a delivery owns a lead.     *)
Owning(d) == path[d] = "new" /\ pc[d] \in {"capture", "insert", "release", "effects"}

EInv ==
  /\ TInv
  /\ \A d \in Deliveries : pc[d] = "effects" => path[d] = "new"
  /\ \A d, e \in Deliveries : Owning(d) /\ Owning(e) /\ lead[d] = lead[e] => d = e
  /\ \A d \in Deliveries, i \in DOMAIN effects : Owning(d) => effects[i] # lead[d]
  /\ \A i \in DOMAIN effects : effects[i] \in LeadIds
  /\ EffectsOnce

(* A row whose keyed notes are remembered, and stand in it once.           *)
NotesInOrder(c) ==
  /\ \A i \in DOMAIN c.notes : c.notes[i] \in Keyed => c.notes[i] \in c.noteKeys
  /\ \A i, j \in DOMAIN c.notes : c.notes[i] \in Keyed /\ c.notes[i] = c.notes[j] => i = j

HasCopy(d) == pc[d] \in {"remember", "recent", "enrich"}
CopyIsOld(d) == HasCopy(d) => NotesInOrder(seen[d]) /\ seen[d].noteKeys \subseteq contacts[mine[d]].noteKeys

NInv ==
  /\ TInv
  /\ \A c \in ContactIds : NotesInOrder(contacts[c])
  /\ \A d \in Deliveries : CopyIsOld(d)

(* Under the lock the copy a delivery holds is the row.                    *)
CopyIsRow(d) == HasCopy(d) => seen[d] = contacts[mine[d]]
CInv == LInv /\ \A d \in Deliveries : CopyIsRow(d)

(* What a row may become: nothing is taken off it.                         *)
Grows(c, x) ==
  /\ c.emails \subseteq x.emails /\ c.phones \subseteq x.phones /\ c.noteKeys \subseteq x.noteKeys
  /\ DOMAIN c.notes \subseteq DOMAIN x.notes /\ \A i \in DOMAIN c.notes : x.notes[i] = c.notes[i]

HasNote(c, s) == \E i \in DOMAIN c.notes : c.notes[i] = s
NotesKnown(c) == \A s \in c.noteKeys : HasNote(c, s)
HasPerson(c, s) == EmailsOf(s) \subseteq c.emails /\ PhonesOf(s) \subseteq c.phones

(* What the steps a delivery of a keyed submission has behind it left.     *)
Attached(d) == pc[d] \in {"note", "enrich", "sign"} /\ path[d] # "new" => leads[lead[d]].contact = mine[d]
Done(d) ==
  /\ HasCopy(d) /\ Of[d] \in Noted => HasNote(contacts[mine[d]], Of[d])
  /\ pc[d] \in {"sign", "lead"} =>
       HasPerson(contacts[mine[d]], Of[d]) /\ (Of[d] \in Noted => HasNote(contacts[mine[d]], Of[d]))
  /\ pc[d] \in Settled =>
       LET c == contacts[leads[lead[d]].contact]
       IN  HasPerson(c, Of[d]) /\ (Of[d] \in Noted => HasNote(c, Of[d]))
  /\ pc[d] \in {"release", "effects", "answered"} => Of[d] \in captured

AInv ==
  /\ CInv
  /\ \A c \in ContactIds : NotesKnown(contacts[c])
  /\ \A d \in Deliveries : Attached(d) /\ (Of[d] \in Keyed => Done(d))

-----------------------------------------------------------------------------
(* The follow-up work.  Steps by which nobody comes to own a lead.         *)
LEMMA OwnersKept ==
  ASSUME EInv, TInv', UNCHANGED effects, LeadIds \subseteq LeadIds',
         \A d \in Deliveries : Owning(d)' => Owning(d) /\ lead'[d] = lead[d],
         \A d \in Deliveries : pc'[d] = "effects" => path'[d] = "new"
  PROVE  EInv'
BY DEF EInv, EffectsOnce

LEMMA OwnersKeptByOne ==
  ASSUME EInv, TInv', NEW d \in Deliveries, NEW w \in Steps, pc' = [pc EXCEPT ![d] = w],
         UNCHANGED effects, LeadIds \subseteq LeadIds',
         \A e \in Deliveries : e # d => path'[e] = path[e] /\ lead'[e] = lead[e],
         Owning(d)' => Owning(d) /\ lead'[d] = lead[d],
         w = "effects" => path'[d] = "new"
  PROVE  EInv'
<1>1. ASSUME NEW e \in Deliveries, e # d
      PROVE  pc'[e] = pc[e] /\ path'[e] = path[e] /\ lead'[e] = lead[e] /\ (Owning(e)' => Owning(e))
  <2>1. pc'[e] = pc[e] /\ path'[e] = path[e]
    BY <1>1 DEF EInv, TInv, TypeOK
  <2>2. QED
    BY <1>1, <2>1 DEF Owning
<1>2. pc'[d] = w
  BY DEF EInv, TInv, TypeOK
<1>3. \A e \in Deliveries : pc'[e] = "effects" => path'[e] = "new"
  BY <1>1, <1>2 DEF EInv
<1>4. QED
  BY <1>1, <1>3, OwnersKept

LEMMA EStep ==
  ASSUME EInv, TInv', NEW d \in Deliveries, Step(d)
  PROVE  EInv'
<1>1. pc[d] \in Steps /\ OnPath(d) /\ Placed(d)
  BY OwnReferences DEF EInv, TInv, TypeOK
<1>2. CASE Begin(d) \/ ReadReceipt(d) \/ Match(d) \/ Note(d) \/ Remember(d) \/ FindRecent(d) \/ Enrich(d)
           \/ CreateContact(d) \/ Conflict(d)
  <2>1. UNCHANGED <<leads, effects>>
    BY <1>2 DEF Begin, ReadReceipt, Match, Note, Remember, FindRecent, Enrich, CreateContact, Conflict, rows
  <2>2. PICK w \in Steps \ {"insert", "release", "effects"} : pc' = [pc EXCEPT ![d] = w]
    BY <1>2 DEF Begin, ReadReceipt, Match, Note, Remember, FindRecent, Enrich, CreateContact, Conflict,
                Goto, Steps, Inside, Ended
  <2>3. \A e \in Deliveries : e # d => path'[e] = path[e] /\ lead'[e] = lead[e]
    BY <1>2 DEF Begin, ReadReceipt, Match, Note, Remember, FindRecent, Enrich, CreateContact, Conflict,
                EInv, TInv, TypeOK
  <2>4. pc'[d] = w
    BY <2>2 DEF EInv, TInv, TypeOK
  <2>5. w = "capture" => path'[d] # "new"
    <3>1. CASE Enrich(d)
      BY <2>2, <2>4, <3>1 DEF Enrich, Goto, EInv, TInv, TypeOK
    <3>2. CASE ~Enrich(d)
      BY <1>2, <2>2, <2>4, <3>2 DEF Begin, ReadReceipt, Match, Note, Remember, FindRecent, CreateContact, Conflict,
                                Goto, EInv, TInv, TypeOK
    <3>3. QED
      BY <3>1, <3>2
  <2>6. ~Owning(d)'
    BY <2>2, <2>4, <2>5 DEF Owning
  <2>7. LeadIds' = LeadIds
    BY <2>1 DEF LeadIds
  <2>8. QED
    BY <2>1, <2>2, <2>3, <2>6, <2>7, OwnersKeptByOne
<1>3. CASE Sign(d)
  <2>1. pc[d] = "sign" /\ pc' = [pc EXCEPT ![d] = "capture"] /\ UNCHANGED <<effects, lead, path>>
    BY <1>3 DEF Sign, Goto
  <2>2. LeadIds' = LeadIds
    <3> DEFINE x == [leads[lead[d]] EXCEPT !.keys = @ \cup ({Of[d]} \cap Keyed)]
    <3>1. leads' = [leads EXCEPT ![lead[d]] = x] /\ lead[d] \in LeadIds
      BY <1>1, <1>3, <2>1 DEF Sign, Placed
    <3>2. x \in Lead
      BY <3>1, RowOfId DEF EInv, Lead
    <3> HIDE DEF x
    <3>3. QED
      BY <3>1, <3>2, LeadReplaced DEF EInv
  <2>3. ~Owning(d)'
    BY <1>1, <2>1 DEF Owning, OnPath
  <2>4. QED
    BY <2>1, <2>2, <2>3, OwnersKeptByOne DEF Steps, Inside
<1>4. CASE CreateLead(d)
  <2> DEFINE x == NewLead(Of[d], mine[d])
             l == Len(leads) + 1
  <2>1. /\ pc[d] = "lead" /\ pc' = [pc EXCEPT ![d] = "capture"] /\ leads' = Append(leads, x)
        /\ UNCHANGED <<path, effects>> /\ lead' = [lead EXCEPT ![d] = l]
    BY <1>4 DEF CreateLead, Goto
  <2>2. x \in Lead
    BY <1>1, <2>1, IdsAreNumbers, NewLeadTyped, IntakeAssumption DEF EInv, TInv, Placed
  <2> HIDE DEF x
  <2>3. LeadIds' = LeadIds \cup {l} /\ l \notin LeadIds
    BY <2>1, <2>2, Appended DEF EInv, TInv, TypeOK, LeadIds
  <2> HIDE DEF l
  <2>4. ASSUME NEW e \in Deliveries
        PROVE  /\ pc'[e] = IF e = d THEN "capture" ELSE pc[e]
               /\ lead'[e] = IF e = d THEN l ELSE lead[e]
               /\ path'[e] = path[e]
    BY <2>1 DEF EInv, TInv, TypeOK
  <2>5. \A e \in Deliveries : e # d /\ Owning(e)' => Owning(e) /\ lead[e] \in LeadIds
    BY <2>4 DEF EInv, TInv, Owning, Placed
  <2>6. \A e \in Deliveries : pc'[e] = "effects" => path'[e] = "new"
    BY <2>4 DEF EInv
  <2>7. \A e, f \in Deliveries : Owning(e)' /\ Owning(f)' /\ lead'[e] = lead'[f] => e = f
    BY <2>3, <2>4, <2>5 DEF EInv
  <2>8. \A e \in Deliveries, i \in DOMAIN effects : Owning(e)' => effects[i] # lead'[e]
    BY <2>3, <2>4, <2>5 DEF EInv
  <2>9. QED
    BY <2>1, <2>3, <2>6, <2>7, <2>8 DEF EInv, EffectsOnce
<1>5. CASE LookForCapture(d) \/ Capture(d) \/ Release(d)
  <2>1. UNCHANGED <<leads, effects, lead, path>> /\ pc[d] \in {"capture", "insert", "release"}
    BY <1>5 DEF LookForCapture, Capture, Release, rows
  <2>2. PICK w \in Steps : pc' = [pc EXCEPT ![d] = w] /\ (w = "effects" => path[d] = "new")
    BY <1>5 DEF LookForCapture, Capture, Release, Goto, Steps, Inside, Ended
  <2>3. Owning(d)' => Owning(d)
    BY <2>1 DEF Owning
  <2>4. LeadIds' = LeadIds
    BY <2>1 DEF LeadIds
  <2>5. QED
    BY <2>1, <2>2, <2>3, <2>4, OwnersKeptByOne
<1>6. CASE StartEffects(d)
  <2>1. /\ pc[d] = "effects" /\ pc' = [pc EXCEPT ![d] = "answered"] /\ UNCHANGED <<leads, lead, path>>
        /\ effects' = Append(effects, lead[d])
    BY <1>6 DEF StartEffects, Goto, rows
  <2>2. Owning(d) /\ lead[d] \in LeadIds /\ lead[d] \in Nat
    BY <1>1, <2>1, IdsAreNumbers DEF EInv, TInv, Owning, Placed
  <2>3. /\ DOMAIN effects' = DOMAIN effects \cup {Len(effects) + 1} /\ Len(effects) + 1 \notin DOMAIN effects
        /\ effects'[Len(effects) + 1] = lead[d] /\ \A i \in DOMAIN effects : effects'[i] = effects[i]
    <3>1. effects \in Seq(Nat)
      BY DEF EInv, TInv, TypeOK
    <3>2. QED
      BY <2>1, <2>2, <3>1, Appended
  <2>4. \A e \in Deliveries : Owning(e)' => Owning(e) /\ e # d
    BY <2>1 DEF EInv, TInv, TypeOK, Owning
  <2>5. \A e \in Deliveries : pc'[e] = "effects" => path'[e] = "new"
    BY <2>1 DEF EInv, TInv, TypeOK
  <2>6. \A i \in DOMAIN effects : effects[i] # lead[d]
    BY <2>2 DEF EInv
  <2>7. EffectsOnce'
    <3> SUFFICES ASSUME NEW i \in DOMAIN effects', NEW j \in DOMAIN effects', effects'[i] = effects'[j]
                 PROVE  i = j
      BY DEF EffectsOnce
    <3>1. CASE i \in DOMAIN effects /\ j \in DOMAIN effects
      BY <2>3, <3>1 DEF EInv, EffectsOnce
    <3>2. CASE i \notin DOMAIN effects \/ j \notin DOMAIN effects
      BY <2>3, <2>6, <3>2
    <3>3. QED
      BY <3>1, <3>2
  <2>8. \A i \in DOMAIN effects' : effects'[i] \in LeadIds'
    BY <2>1, <2>2, <2>3 DEF EInv, LeadIds
  <2>9. \A e \in Deliveries, i \in DOMAIN effects' : Owning(e)' => effects'[i] # lead'[e]
    BY <2>1, <2>2, <2>3, <2>4 DEF EInv
  <2>10. \A e, f \in Deliveries : Owning(e)' /\ Owning(f)' /\ lead'[e] = lead'[f] => e = f
    BY <2>1, <2>4 DEF EInv
  <2>11. QED
    BY <2>5, <2>7, <2>8, <2>9, <2>10 DEF EInv
<1>7. QED
  BY <1>2, <1>3, <1>4, <1>5, <1>6 DEF Step

LEMMA ENext ==
  ASSUME EInv, [Next]_vars
  PROVE  EInv'
<1>1. TInv'
  BY TNext DEF EInv
<1>2. ASSUME NEW d \in Deliveries, Step(d) PROVE EInv'
  BY <1>1, <1>2, EStep
<1>3. CASE (\E d \in Deliveries : Fail(d)) \/ (\E p \in Processes : Crash(p)) \/ LoseSession \/ UNCHANGED vars
  <2>1. UNCHANGED <<leads, effects, lead, path>> /\ \A d \in Deliveries : pc'[d] \in {pc[d], "failed"}
    BY <1>3 DEF Fail, Crash, LoseSession, Goto, vars, rows, local, EInv, TInv, TypeOK
  <2>2. \A d \in Deliveries : Owning(d)' => Owning(d)
    BY <2>1 DEF Owning
  <2>3. LeadIds' = LeadIds
    BY <2>1 DEF LeadIds
  <2>4. \A d \in Deliveries : pc'[d] = "effects" => path'[d] = "new"
    BY <2>1 DEF EInv
  <2>5. QED
    BY <1>1, <2>1, <2>2, <2>3, <2>4, OwnersKept
<1>4. ASSUME NEW l \in LeadIds, Recede(l) PROVE EInv'
  <2> DEFINE x == [leads[l] EXCEPT !.recent = FALSE]
  <2>1. leads' = [leads EXCEPT ![l] = x] /\ UNCHANGED <<effects, pc, lead, path>>
    BY <1>4 DEF Recede, local
  <2>2. x \in Lead
    BY RowOfId DEF EInv, Lead
  <2> HIDE DEF x
  <2>3. LeadIds' = LeadIds
    BY <2>1, <2>2, LeadReplaced DEF EInv
  <2>4. \A d \in Deliveries : Owning(d)' => Owning(d)
    BY <2>1 DEF Owning
  <2>5. \A d \in Deliveries : pc'[d] = "effects" => path'[d] = "new"
    BY <2>1 DEF EInv
  <2>6. QED
    BY <1>1, <2>1, <2>3, <2>4, <2>5, OwnersKept
<1>5. QED
  BY <1>2, <1>3, <1>4 DEF Next, AllEnded

LEMMA EInit == Init => EInv
<1> SUFFICES ASSUME Init PROVE EInv
  OBVIOUS
<1>1. DOMAIN effects = {}
  BY EmptySeq, LenProperties DEF Init
<1>2. QED
  BY <1>1, TInit DEF Init, EInv, Owning, EffectsOnce

(* A lead's workflows, assignment and HCP push are started at most once,   *)
(* whoever delivers the inquiry, with the lock, without it or after losing *)
(* it.                                                                     *)
THEOREM EffectsCorrect == Spec => []EffectsOnce
<1>1. EInv => EffectsOnce
  BY DEF EInv
<1>2. EInv /\ [Next]_vars => EInv'
  BY ENext
<1>3. QED
  BY <1>1, <1>2, EInit, PTL DEF Spec

-----------------------------------------------------------------------------
(* The notes.  What the row builders do to the order of a row.             *)
LEMMA AppendedNote ==
  ASSUME NEW c \in Contact, NEW s \in Submissions
  PROVE  /\ DOMAIN Append(c.notes, s) = DOMAIN c.notes \cup {Len(c.notes) + 1}
         /\ Len(c.notes) + 1 \notin DOMAIN c.notes
         /\ Append(c.notes, s)[Len(c.notes) + 1] = s
         /\ \A i \in DOMAIN c.notes : Append(c.notes, s)[i] = c.notes[i]
<1>1. c.notes \in Seq(Submissions)
  BY DEF Contact
<1>2. QED
  BY <1>1, Appended

LEMMA WithNoteInOrder ==
  ASSUME NEW c \in Contact, NEW s \in Submissions, NotesInOrder(c)
  PROVE  /\ NotesInOrder(WithNote(c, s)) /\ Grows(c, WithNote(c, s))
         /\ WithNote(c, s).key = c.key /\ WithNote(c, s).noteKeys = c.noteKeys \cup ({s} \cap Noted \cap Keyed)
<1> DEFINE x == WithNote(c, s)
<1>1. CASE s \in Noted \cap Keyed /\ s \notin c.noteKeys
  <2>1. /\ x.notes = Append(c.notes, s) /\ x.noteKeys = c.noteKeys \cup {s}
        /\ x.emails = c.emails /\ x.phones = c.phones /\ x.key = c.key
    BY <1>1 DEF WithNote, Contact
  <2>2. \A i \in DOMAIN c.notes : c.notes[i] # s
    BY <1>1 DEF NotesInOrder
  <2> HIDE DEF x
  <2>3. \A i \in DOMAIN x.notes : x.notes[i] \in Keyed => x.notes[i] \in x.noteKeys
    BY <2>1, AppendedNote DEF NotesInOrder
  <2>4. \A i, j \in DOMAIN x.notes : x.notes[i] \in Keyed /\ x.notes[i] = x.notes[j] => i = j
    BY <2>1, <2>2, AppendedNote DEF NotesInOrder
  <2>5. NotesInOrder(x)
    BY <2>3, <2>4 DEF NotesInOrder
  <2>6. Grows(c, x)
    BY <2>1, AppendedNote DEF Grows
  <2>7. QED
    BY <1>1, <2>1, <2>5, <2>6 DEF x
<1>2. CASE ~(s \in Noted \cap Keyed /\ s \notin c.noteKeys)
  BY <1>2 DEF WithNote, Grows
<1>3. QED
  BY <1>1, <1>2

LEMMA EnrichedInOrder ==
  ASSUME NEW now \in Contact, NEW old \in Contact, NEW s \in Submissions,
         NotesInOrder(now), NotesInOrder(old), old.noteKeys \subseteq now.noteKeys
  PROVE  NotesInOrder(Enriched(now, old, s)) /\ Enriched(now, old, s).noteKeys = now.noteKeys
<1> DEFINE x == Enriched(now, old, s)
<1>1. /\ x.notes = IF s \in Noted \ Keyed THEN Append(old.notes, s) ELSE now.notes
      /\ x.noteKeys = now.noteKeys
  BY DEF Enriched, Contact
<1> HIDE DEF x
<1>2. CASE s \in Noted \ Keyed
  <2>1. \A i \in DOMAIN x.notes : x.notes[i] \in Keyed => i \in DOMAIN old.notes /\ x.notes[i] = old.notes[i]
    BY <1>1, <1>2, AppendedNote
  <2>2. QED
    BY <1>1, <2>1 DEF x, NotesInOrder
<1>3. CASE s \notin Noted \ Keyed
  BY <1>1, <1>3 DEF x, NotesInOrder
<1>4. QED
  BY <1>2, <1>3

LEMMA NewContactInOrder ==
  ASSUME NEW s \in Submissions
  PROVE  NotesInOrder(NewContact(s))
<1>1. NewContact(s).notes \in {<<>>, <<s>>} /\ (s \in Noted => NewContact(s).notes = <<s>>)
      /\ (s \notin Noted => NewContact(s).notes = <<>>)
      /\ NewContact(s).noteKeys = {s} \cap Noted \cap Keyed
  BY DEF NewContact
<1>2. CASE s \in Noted
  BY <1>1, <1>2 DEF NotesInOrder
<1>3. CASE s \notin Noted
  BY <1>1, <1>3 DEF NotesInOrder
<1>4. QED
  BY <1>2, <1>3

(* Steps that touch no contact and give nobody a copy.                     *)
LEMMA CopiesKept ==
  ASSUME NInv, TInv', UNCHANGED contacts,
         \A e \in Deliveries : HasCopy(e)' => HasCopy(e) /\ seen'[e] = seen[e] /\ mine'[e] = mine[e]
  PROVE  NInv'
<1>1. ContactIds' = ContactIds
  BY DEF ContactIds
<1>2. \A e \in Deliveries : CopyIsOld(e)'
  BY DEF NInv, CopyIsOld
<1>3. QED
  BY <1>1, <1>2 DEF NInv

LEMMA CopiesKeptByOne ==
  ASSUME NInv, TInv', UNCHANGED contacts, NEW d \in Deliveries, NEW w \in Steps, pc' = [pc EXCEPT ![d] = w],
         \A e \in Deliveries : e # d => seen'[e] = seen[e] /\ mine'[e] = mine[e],
         HasCopy(d)' => HasCopy(d) /\ seen'[d] = seen[d] /\ mine'[d] = mine[d]
  PROVE  NInv'
<1>1. ASSUME NEW e \in Deliveries, e # d PROVE HasCopy(e)' => HasCopy(e)
  BY <1>1 DEF HasCopy, NInv, TInv, TypeOK
<1>2. QED
  BY <1>1, CopiesKept

(* A step of one delivery that writes the row it is on.                    *)
LEMMA RowWritten ==
  ASSUME NInv, TInv', NEW d \in Deliveries, NEW w \in Steps, pc' = [pc EXCEPT ![d] = w],
         mine' = mine, mine[d] \in ContactIds, NEW x \in Contact, contacts' = [contacts EXCEPT ![mine[d]] = x],
         NotesInOrder(x), contacts[mine[d]].noteKeys \subseteq x.noteKeys,
         \A e \in Deliveries : e # d => seen'[e] = seen[e],
         HasCopy(d)' => NotesInOrder(seen'[d]) /\ seen'[d].noteKeys \subseteq x.noteKeys
  PROVE  NInv'
<1>1. /\ ContactIds' = ContactIds /\ contacts'[mine[d]] = x
      /\ \A c \in ContactIds : c # mine[d] => contacts'[c] = contacts[c]
  BY Replaced DEF NInv, TInv, TypeOK, ContactIds
<1>2. \A c \in ContactIds : contacts[c].noteKeys \subseteq contacts'[c].noteKeys /\ NotesInOrder(contacts'[c])
  BY <1>1 DEF NInv
<1>3. ASSUME NEW e \in Deliveries PROVE CopyIsOld(e)'
  <2>1. CASE e = d
    BY <1>1, <2>1 DEF CopyIsOld
  <2>2. CASE e # d
    <3>1. pc'[e] = pc[e] /\ Placed(e) /\ CopyIsOld(e)
      BY <2>2 DEF NInv, TInv, TypeOK
    <3>2. HasCopy(e)' => HasCopy(e) /\ mine[e] \in ContactIds
      BY <3>1 DEF HasCopy, Placed
    <3>3. QED
      BY <1>2, <2>2, <3>1, <3>2 DEF CopyIsOld
  <2>3. QED
    BY <2>1, <2>2
<1>4. QED
  BY <1>1, <1>2, <1>3 DEF NInv

LEMMA NStep ==
  ASSUME NInv, TInv', NEW d \in Deliveries, Step(d)
  PROVE  NInv'
<1>1. pc[d] \in Steps /\ OnPath(d) /\ Placed(d) /\ CopyIsOld(d) /\ Of[d] \in Submissions
  BY OwnReferences, IntakeAssumption DEF NInv, TInv, TypeOK
<1>2. CASE Begin(d) \/ ReadReceipt(d) \/ Match(d)
  <2>1. UNCHANGED <<contacts, seen>>
    BY <1>2 DEF Begin, ReadReceipt, Match, rows
  <2>2. PICK w \in {"receipt", "match", "note", "failed", "contact"} : pc' = [pc EXCEPT ![d] = w]
    BY <1>2 DEF Begin, ReadReceipt, Match, Goto
  <2>3. \A e \in Deliveries : e # d => mine'[e] = mine[e]
    BY <1>2 DEF Begin, ReadReceipt, Match, NInv, TInv, TypeOK
  <2>4. ~HasCopy(d)'
    BY <2>2 DEF HasCopy, NInv, TInv, TypeOK
  <2>5. QED
    BY <2>1, <2>2, <2>3, <2>4, CopiesKeptByOne DEF Steps, Inside, Ended
<1>3. CASE FindRecent(d)
  <2>1. pc[d] = "recent" /\ pc' = [pc EXCEPT ![d] = "enrich"] /\ UNCHANGED <<contacts, mine, seen>>
    BY <1>3 DEF FindRecent, Goto, rows
  <2>2. HasCopy(d)
    BY <2>1 DEF HasCopy
  <2>3. QED
    BY <2>1, <2>2, CopiesKeptByOne DEF Steps, Inside
<1>4. CASE Conflict(d) \/ Sign(d) \/ CreateLead(d) \/ LookForCapture(d) \/ Capture(d) \/ Release(d) \/ StartEffects(d)
  <2>1. UNCHANGED <<contacts, mine, seen>>
    BY <1>4 DEF Conflict, Sign, CreateLead, LookForCapture, Capture, Release, StartEffects, rows
  <2>2. PICK w \in {"idle", "failed", "capture", "insert", "release", "effects", "answered"} : pc' = [pc EXCEPT ![d] = w]
    BY <1>4 DEF Conflict, Sign, CreateLead, LookForCapture, Capture, Release, StartEffects, Goto
  <2>3. ~HasCopy(d)'
    BY <2>2 DEF HasCopy, NInv, TInv, TypeOK
  <2>4. QED
    BY <2>1, <2>2, <2>3, CopiesKeptByOne DEF Steps, Inside, Ended
<1>5. CASE Note(d)
  <2> DEFINE x == WithNote(contacts[mine[d]], Of[d])
  <2>1. /\ pc[d] = "note" /\ contacts' = [contacts EXCEPT ![mine[d]] = x] /\ mine' = mine
        /\ seen' = [seen EXCEPT ![d] = contacts'[mine[d]]]
        /\ \E w \in {"enrich", "remember"} : pc' = [pc EXCEPT ![d] = w]
    BY <1>5 DEF Note, Goto
  <2>2. mine[d] \in ContactIds /\ contacts[mine[d]] \in Contact /\ NotesInOrder(contacts[mine[d]])
    BY <1>1, <2>1, RowOfId DEF NInv, Placed
  <2>3. x \in Contact /\ NotesInOrder(x) /\ contacts[mine[d]].noteKeys \subseteq x.noteKeys
    BY <1>1, <2>2, WithNoteTyped, WithNoteInOrder DEF Grows
  <2> HIDE DEF x
  <2>4. contacts'[mine[d]] = x
    BY <2>1, <2>2, <2>3, ContactReplaced DEF NInv
  <2>5. seen'[d] = x /\ \A e \in Deliveries : e # d => seen'[e] = seen[e]
    BY <2>1, <2>4 DEF NInv, TInv, TypeOK
  <2>6. QED
    BY <2>1, <2>2, <2>3, <2>5, RowWritten DEF Steps, Inside
<1>6. CASE Remember(d)
  <2>1. pc[d] = "remember" /\ mine' = mine /\ pc' = [pc EXCEPT ![d] = "recent"]
    BY <1>6 DEF Remember, Goto
  <2>2. mine[d] \in ContactIds /\ contacts[mine[d]] \in Contact /\ NotesInOrder(contacts[mine[d]]) /\ HasCopy(d)
    BY <1>1, <2>1, RowOfId DEF NInv, Placed, HasCopy
  <2>3. CASE Of[d] \in Keyed /\ seen[d].key # Of[d]
    <3> DEFINE x == [contacts[mine[d]] EXCEPT !.receipts = @ \cup {Of[d]}]
    <3>1. contacts' = [contacts EXCEPT ![mine[d]] = x] /\ seen' = [seen EXCEPT ![d] = contacts'[mine[d]]]
      BY <1>6, <2>3 DEF Remember
    <3>2. x \in Contact /\ x.notes = contacts[mine[d]].notes /\ x.noteKeys = contacts[mine[d]].noteKeys
      BY <2>2, <2>3 DEF Contact
    <3> HIDE DEF x
    <3>3. NotesInOrder(x)
      BY <2>2, <3>2 DEF NotesInOrder
    <3>4. contacts'[mine[d]] = x
      BY <2>2, <3>1, <3>2, ContactReplaced DEF NInv
    <3>5. seen'[d] = x /\ \A e \in Deliveries : e # d => seen'[e] = seen[e]
      BY <3>1, <3>4 DEF NInv, TInv, TypeOK
    <3>6. QED
      BY <2>1, <2>2, <3>1, <3>2, <3>3, <3>5, RowWritten DEF Steps, Inside
  <2>4. CASE ~(Of[d] \in Keyed /\ seen[d].key # Of[d])
    <3>1. UNCHANGED <<contacts, seen>>
      BY <1>6, <2>4 DEF Remember
    <3>2. QED
      BY <2>1, <2>2, <3>1, CopiesKeptByOne DEF Steps, Inside
  <2>5. QED
    BY <2>3, <2>4
<1>7. CASE Enrich(d)
  <2> DEFINE x == Enriched(contacts[mine[d]], seen[d], Of[d])
  <2>1. /\ pc[d] = "enrich" /\ contacts' = [contacts EXCEPT ![mine[d]] = x] /\ UNCHANGED <<mine, seen>>
        /\ \E w \in {"capture", "sign", "lead"} : pc' = [pc EXCEPT ![d] = w]
    BY <1>7 DEF Enrich, Goto
  <2>2. /\ mine[d] \in ContactIds /\ contacts[mine[d]] \in Contact /\ NotesInOrder(contacts[mine[d]])
        /\ seen[d] \in Contact /\ NotesInOrder(seen[d]) /\ seen[d].noteKeys \subseteq contacts[mine[d]].noteKeys
    BY <1>1, <2>1, RowOfId DEF NInv, Placed, CopyIsOld, HasCopy
  <2>3. x \in Contact /\ NotesInOrder(x) /\ x.noteKeys = contacts[mine[d]].noteKeys
    BY <1>1, <2>2, EnrichedTyped, EnrichedInOrder
  <2> HIDE DEF x
  <2>4. ~HasCopy(d)'
    BY <2>1 DEF HasCopy, NInv, TInv, TypeOK
  <2>5. QED
    BY <2>1, <2>2, <2>3, <2>4, RowWritten DEF Steps, Inside
<1>8. CASE CreateContact(d)
  <2> DEFINE x == NewContact(Of[d])
             c == Len(contacts) + 1
  <2>1. pc' = [pc EXCEPT ![d] = "lead"] /\ contacts' = Append(contacts, x) /\ mine' = [mine EXCEPT ![d] = c] /\ seen' = seen
    BY <1>8 DEF CreateContact, Goto
  <2>2. x \in Contact /\ NotesInOrder(x)
    BY <1>1, NewContactTyped, NewContactInOrder
  <2> HIDE DEF x
  <2>3. /\ ContactIds' = ContactIds \cup {c} /\ contacts'[c] = x
        /\ \A b \in ContactIds : contacts'[b] = contacts[b]
    BY <2>1, <2>2, Appended DEF NInv, TInv, TypeOK, ContactIds
  <2> HIDE DEF c
  <2>4. \A b \in ContactIds' : NotesInOrder(contacts'[b])
    BY <2>2, <2>3 DEF NInv
  <2>5. ASSUME NEW e \in Deliveries PROVE CopyIsOld(e)'
    <3>1. CASE e = d
      BY <2>1, <3>1 DEF CopyIsOld, HasCopy, NInv, TInv, TypeOK
    <3>2. CASE e # d
      <4>1. pc'[e] = pc[e] /\ mine'[e] = mine[e] /\ seen'[e] = seen[e] /\ Placed(e) /\ CopyIsOld(e)
        BY <2>1, <3>2 DEF NInv, TInv, TypeOK
      <4>2. HasCopy(e)' => HasCopy(e) /\ mine[e] \in ContactIds
        BY <4>1 DEF HasCopy, Placed
      <4>3. QED
        BY <2>3, <4>1, <4>2 DEF CopyIsOld
    <3>3. QED
      BY <3>1, <3>2
  <2>6. QED
    BY <2>4, <2>5 DEF NInv
<1>9. QED
  BY <1>2, <1>3, <1>4, <1>5, <1>6, <1>7, <1>8 DEF Step

LEMMA NNext ==
  ASSUME NInv, [Next]_vars
  PROVE  NInv'
<1>1. TInv'
  BY TNext DEF NInv
<1>2. ASSUME NEW d \in Deliveries, Step(d) PROVE NInv'
  BY <1>1, <1>2, NStep
<1>3. CASE \/ (\E d \in Deliveries : Fail(d)) \/ (\E p \in Processes : Crash(p)) \/ LoseSession
           \/ (\E l \in LeadIds : Recede(l)) \/ UNCHANGED vars
  <2>1. UNCHANGED <<contacts, mine, seen>> /\ \A d \in Deliveries : pc'[d] \in {pc[d], "failed"}
    BY <1>3 DEF Fail, Crash, LoseSession, Recede, Goto, vars, rows, local, NInv, TInv, TypeOK
  <2>2. QED
    BY <1>1, <2>1, CopiesKept DEF HasCopy
<1>4. QED
  BY <1>2, <1>3 DEF Next, AllEnded

LEMMA NInit == Init => NInv
<1> SUFFICES ASSUME Init PROVE NInv
  OBVIOUS
<1>1. ContactIds = {}
  BY EmptySeq, LenProperties DEF Init, ContactIds
<1>2. \A d \in Deliveries : CopyIsOld(d)
  BY DEF Init, CopyIsOld, HasCopy
<1>3. QED
  BY <1>1, <1>2, TInit DEF NInv

(* One contact never gets the note of a keyed submission twice, whatever   *)
(* deliveries of it race, and however stale the copy of the row they write *)
(* back is.                                                                *)
THEOREM NoteOncePerContactCorrect == Spec => []NoteOncePerContact
<1>1. NInv => NoteOncePerContact
  BY DEF NInv, NotesInOrder, NoteOncePerContact
<1>2. NInv /\ [Next]_vars => NInv'
  BY NNext
<1>3. QED
  BY <1>1, <1>2, NInit, PTL DEF Spec

-----------------------------------------------------------------------------
(* Under the lock.  What the row builders take off a row: nothing.         *)
LEMMA GrownNotes ==
  ASSUME NEW c \in Contact, NEW x \in Contact, Grows(c, x)
  PROVE  Len(c.notes) <= Len(x.notes)
<1>1. c.notes \in Seq(Submissions) /\ x.notes \in Seq(Submissions)
  BY DEF Contact
<1>2. DOMAIN c.notes = 1..Len(c.notes) /\ DOMAIN x.notes = 1..Len(x.notes)
      /\ Len(c.notes) \in Nat /\ Len(x.notes) \in Nat
  BY <1>1, LenProperties
<1>3. CASE Len(c.notes) = 0
  BY <1>2, <1>3
<1>4. CASE Len(c.notes) # 0
  <2>1. Len(c.notes) \in 1..Len(c.notes)
    BY <1>2, <1>4
  <2>2. Len(c.notes) \in 1..Len(x.notes)
    BY <1>2, <2>1 DEF Grows
  <2>3. QED
    BY <1>2, <2>2
<1>5. QED
  BY <1>3, <1>4

LEMMA GrownHas ==
  ASSUME NEW c, NEW x, Grows(c, x), NEW s
  PROVE  (HasNote(c, s) => HasNote(x, s)) /\ (HasPerson(c, s) => HasPerson(x, s))
BY DEF Grows, HasNote, HasPerson

LEMMA SameGrows ==
  ASSUME NEW c
  PROVE  Grows(c, c)
BY DEF Grows

LEMMA NotedGrows ==
  ASSUME NEW c \in Contact, NEW s \in Submissions
  PROVE  /\ Grows(c, WithNote(c, s))
         /\ NotesKnown(c) => NotesKnown(WithNote(c, s))
         /\ NotesKnown(c) /\ s \in Noted \cap Keyed => HasNote(WithNote(c, s), s)
<1> DEFINE x == WithNote(c, s)
<1>1. CASE s \in Noted \cap Keyed /\ s \notin c.noteKeys
  <2>1. /\ x.notes = Append(c.notes, s) /\ x.noteKeys = c.noteKeys \cup {s}
        /\ x.emails = c.emails /\ x.phones = c.phones
    BY <1>1 DEF WithNote, Contact
  <2> HIDE DEF x
  <2>2. Grows(c, x)
    BY <2>1, AppendedNote DEF Grows
  <2>3. HasNote(x, s)
    BY <2>1, AppendedNote DEF HasNote
  <2>4. NotesKnown(c) => NotesKnown(x)
    BY <2>1, <2>2, <2>3, GrownHas DEF NotesKnown
  <2>5. QED
    BY <2>2, <2>3, <2>4 DEF x
<1>2. CASE ~(s \in Noted \cap Keyed /\ s \notin c.noteKeys)
  <2>1. x = c
    BY <1>2 DEF WithNote
  <2>2. QED
    BY <1>2, <2>1, SameGrows DEF NotesKnown
<1>3. QED
  BY <1>1, <1>2

LEMMA EnrichedGrows ==
  ASSUME NEW c \in Contact, NEW s \in Submissions
  PROVE  /\ Grows(c, Enriched(c, c, s)) /\ HasPerson(Enriched(c, c, s), s)
         /\ NotesKnown(c) => NotesKnown(Enriched(c, c, s))
<1> DEFINE x == Enriched(c, c, s)
<1>1. /\ x.notes = IF s \in Noted \ Keyed THEN Append(c.notes, s) ELSE c.notes
      /\ x.emails = IF EmailsOf(s) \subseteq c.emails THEN c.emails ELSE c.emails \cup EmailsOf(s)
      /\ x.phones = IF PhonesOf(s) \subseteq c.phones THEN c.phones ELSE c.phones \cup PhonesOf(s)
      /\ x.noteKeys = c.noteKeys
  BY DEF Enriched, Contact
<1> HIDE DEF x
<1>2. DOMAIN c.notes \subseteq DOMAIN x.notes /\ \A i \in DOMAIN c.notes : x.notes[i] = c.notes[i]
  BY <1>1, AppendedNote
<1>3. Grows(c, x)
  BY <1>1, <1>2 DEF Grows
<1>4. HasPerson(x, s)
  BY <1>1 DEF HasPerson
<1>5. NotesKnown(c) => NotesKnown(x)
  BY <1>1, <1>3, GrownHas DEF NotesKnown
<1>6. QED
  BY <1>3, <1>4, <1>5 DEF x

LEMMA NewContactHas ==
  ASSUME NEW s \in Submissions
  PROVE  /\ HasPerson(NewContact(s), s) /\ (s \in Noted => HasNote(NewContact(s), s))
         /\ NotesKnown(NewContact(s))
<1>1. /\ NewContact(s).emails = EmailsOf(s) /\ NewContact(s).phones = PhonesOf(s)
      /\ NewContact(s).noteKeys = {s} \cap Noted \cap Keyed
      /\ s \in Noted => NewContact(s).notes = <<s>>
  BY DEF NewContact
<1>2. s \in Noted => HasNote(NewContact(s), s)
  BY <1>1 DEF HasNote
<1>3. QED
  BY <1>1, <1>2 DEF HasPerson, NotesKnown

-----------------------------------------------------------------------------
(* Nobody else is inside, so nobody else holds a copy.                     *)
LEMMA OnlyCopy ==
  ASSUME TwoField = Submissions, LInv, NEW d \in Deliveries, pc[d] \in Inside, NEW e \in Deliveries, e # d
  PROVE  pc[e] \notin Inside /\ ~HasCopy(e)
<1>1. Of[d] \in TwoField /\ Of[e] \in TwoField
  BY IntakeAssumption
<1>2. pc[e] \notin Inside
  BY <1>1, AloneInside
<1>3. QED
  BY <1>2 DEF HasCopy, Inside

LEMMA CStep ==
  ASSUME TwoField = Submissions, CInv, LInv', NEW d \in Deliveries, Step(d)
  PROVE  CInv'
<1>1. pc[d] \in Steps /\ OnPath(d) /\ Placed(d) /\ CopyIsRow(d) /\ Of[d] \in Submissions
  BY OwnReferences, IntakeAssumption DEF CInv, LInv, TInv, TypeOK
<1>2. ASSUME pc[d] \in Inside, HasCopy(d)' => seen'[d] = contacts'[mine'[d]], NEW w, pc' = [pc EXCEPT ![d] = w]
      PROVE  CInv'
  <2>1. ASSUME NEW e \in Deliveries, e # d PROVE ~HasCopy(e)'
    BY <1>2, <2>1, OnlyCopy DEF CInv, LInv, TInv, TypeOK, HasCopy
  <2>2. QED
    BY <1>2, <2>1 DEF CInv, CopyIsRow
<1>3. CASE Begin(d) \/ StartEffects(d)
  <2>1. UNCHANGED <<contacts, mine, seen>> /\ \E w \in {"receipt", "match", "answered"} : pc' = [pc EXCEPT ![d] = w]
    BY <1>3 DEF Begin, StartEffects, Goto, rows
  <2>2. \A e \in Deliveries : HasCopy(e)' => HasCopy(e)
    BY <2>1 DEF HasCopy, CInv, LInv, TInv, TypeOK
  <2>3. QED
    BY <2>1, <2>2 DEF CInv, CopyIsRow
<1>4. CASE ReadReceipt(d) \/ Match(d) \/ CreateContact(d) \/ Conflict(d) \/ Enrich(d) \/ Sign(d) \/ CreateLead(d)
           \/ LookForCapture(d) \/ Capture(d) \/ Release(d)
  <2>1. PICK w \in {"match", "note", "failed", "contact", "lead", "idle", "capture", "sign", "insert", "release",
                    "effects", "answered"} : pc' = [pc EXCEPT ![d] = w]
    BY <1>4 DEF ReadReceipt, Match, CreateContact, Conflict, Enrich, Sign, CreateLead, LookForCapture, Capture,
                Release, Goto
  <2>2. pc[d] \in Inside
    BY <1>4 DEF ReadReceipt, Match, CreateContact, Conflict, Enrich, Sign, CreateLead, LookForCapture, Capture,
                Release, Inside
  <2>3. ~HasCopy(d)'
    BY <2>1 DEF HasCopy, CInv, LInv, TInv, TypeOK
  <2>4. QED
    BY <1>2, <2>1, <2>2, <2>3
<1>5. CASE Note(d)
  <2>1. pc[d] \in Inside /\ mine' = mine /\ seen' = [seen EXCEPT ![d] = contacts'[mine[d]]]
        /\ \E w \in Steps : pc' = [pc EXCEPT ![d] = w]
    BY <1>5 DEF Note, Goto, Steps, Inside
  <2>2. seen'[d] = contacts'[mine'[d]]
    BY <2>1 DEF CInv, LInv, TInv, TypeOK
  <2>3. QED
    BY <1>2, <2>1, <2>2
<1>6. CASE Remember(d) \/ FindRecent(d)
  <2>1. pc[d] \in Inside /\ HasCopy(d) /\ mine' = mine /\ \E w \in Steps : pc' = [pc EXCEPT ![d] = w]
    BY <1>6 DEF Remember, FindRecent, Goto, Steps, Inside, HasCopy
  <2>2. seen' = [seen EXCEPT ![d] = contacts'[mine[d]]] \/ UNCHANGED <<contacts, seen>>
    BY <1>6 DEF Remember, FindRecent, rows
  <2>3. seen'[d] = contacts'[mine'[d]]
    BY <1>1, <2>1, <2>2 DEF CInv, LInv, TInv, TypeOK, CopyIsRow
  <2>4. QED
    BY <1>2, <2>1, <2>3
<1>7. QED
  BY <1>3, <1>4, <1>5, <1>6 DEF Step

LEMMA CNext ==
  ASSUME MaxLosses = 0, TwoField = Submissions, CInv, [Next]_vars
  PROVE  CInv'
<1>1. LInv'
  BY LNext DEF CInv
<1>2. ASSUME NEW d \in Deliveries, Step(d) PROVE CInv'
  BY <1>1, <1>2, CStep
<1>3. CASE \/ (\E d \in Deliveries : Fail(d)) \/ (\E p \in Processes : Crash(p)) \/ LoseSession
           \/ (\E l \in LeadIds : Recede(l)) \/ UNCHANGED vars
  <2>1. UNCHANGED <<contacts, mine, seen>> /\ \A d \in Deliveries : pc'[d] \in {pc[d], "failed"}
    BY <1>3 DEF Fail, Crash, LoseSession, Recede, Goto, vars, rows, local, CInv, LInv, TInv, TypeOK
  <2>2. QED
    BY <1>1, <2>1 DEF CInv, CopyIsRow, HasCopy
<1>4. QED
  BY <1>2, <1>3 DEF Next, AllEnded

LEMMA CInit == Init => CInv
BY LInit DEF Init, CInv, CopyIsRow, HasCopy

(* Every step lets all rows of contacts grow.                              *)
RowsGrow ==
  /\ ContactIds \subseteq ContactIds'
  /\ \A c \in ContactIds :
       Grows(contacts[c], contacts'[c]) /\ (NotesKnown(contacts[c]) => NotesKnown(contacts'[c]))
  /\ \A c \in ContactIds' \ ContactIds : NotesKnown(contacts'[c])

LEMMA OneRowGrows ==
  ASSUME CInv, NEW c \in ContactIds, NEW x \in Contact, contacts' = [contacts EXCEPT ![c] = x],
         Grows(contacts[c], x), NotesKnown(contacts[c]) => NotesKnown(x)
  PROVE  RowsGrow
<1>1. /\ ContactIds' = ContactIds /\ contacts'[c] = x
      /\ \A b \in ContactIds : b # c => contacts'[b] = contacts[b]
  BY Replaced DEF CInv, LInv, TInv, TypeOK, ContactIds
<1>2. \A b \in ContactIds : Grows(contacts[b], contacts'[b]) /\ (NotesKnown(contacts[b]) => NotesKnown(contacts'[b]))
  BY <1>1, SameGrows
<1>3. QED
  BY <1>1, <1>2 DEF RowsGrow

LEMMA SameRowsGrow ==
  ASSUME UNCHANGED contacts
  PROVE  RowsGrow
BY SameGrows DEF RowsGrow, ContactIds

LEMMA GrowStep ==
  ASSUME CInv, NEW d \in Deliveries, Step(d)
  PROVE  RowsGrow
<1>1. pc[d] \in Steps /\ Placed(d) /\ CopyIsRow(d) /\ Of[d] \in Submissions
  BY OwnReferences, IntakeAssumption DEF CInv, LInv, TInv, TypeOK
<1>2. pc[d] \in {"note", "remember", "enrich"} => mine[d] \in ContactIds /\ contacts[mine[d]] \in Contact
  BY <1>1, RowOfId DEF CInv, LInv, Placed
<1>3. CASE Note(d)
  <2> DEFINE x == WithNote(contacts[mine[d]], Of[d])
  <2>1. pc[d] = "note" /\ contacts' = [contacts EXCEPT ![mine[d]] = x]
    BY <1>3 DEF Note
  <2>2. /\ x \in Contact /\ Grows(contacts[mine[d]], x)
        /\ NotesKnown(contacts[mine[d]]) => NotesKnown(x)
    BY <1>1, <1>2, <2>1, WithNoteTyped, NotedGrows
  <2> HIDE DEF x
  <2>3. QED
    BY <1>2, <2>1, <2>2, OneRowGrows
<1>4. CASE Remember(d)
  <2> DEFINE x == [contacts[mine[d]] EXCEPT !.receipts = @ \cup {Of[d]}]
  <2>1. CASE Of[d] \in Keyed /\ seen[d].key # Of[d]
    <3>1. pc[d] = "remember" /\ contacts' = [contacts EXCEPT ![mine[d]] = x]
      BY <1>4, <2>1 DEF Remember
    <3>2. /\ x \in Contact /\ x.notes = contacts[mine[d]].notes /\ x.noteKeys = contacts[mine[d]].noteKeys
          /\ x.emails = contacts[mine[d]].emails /\ x.phones = contacts[mine[d]].phones
      BY <1>2, <2>1, <3>1 DEF Contact
    <3> HIDE DEF x
    <3>3. Grows(contacts[mine[d]], x) /\ (NotesKnown(contacts[mine[d]]) => NotesKnown(x))
      BY <3>2 DEF Grows, NotesKnown, HasNote
    <3>4. QED
      BY <1>2, <3>1, <3>2, <3>3, OneRowGrows
  <2>2. CASE ~(Of[d] \in Keyed /\ seen[d].key # Of[d])
    BY <1>4, <2>2, SameRowsGrow DEF Remember
  <2>3. QED
    BY <2>1, <2>2
<1>5. CASE Enrich(d)
  <2> DEFINE x == Enriched(contacts[mine[d]], contacts[mine[d]], Of[d])
  <2>1. pc[d] = "enrich" /\ contacts' = [contacts EXCEPT ![mine[d]] = x]
    BY <1>1, <1>5 DEF Enrich, CopyIsRow, HasCopy
  <2>2. /\ x \in Contact /\ Grows(contacts[mine[d]], x)
        /\ NotesKnown(contacts[mine[d]]) => NotesKnown(x)
    BY <1>1, <1>2, <2>1, EnrichedTyped, EnrichedGrows
  <2> HIDE DEF x
  <2>3. QED
    BY <1>2, <2>1, <2>2, OneRowGrows
<1>6. CASE CreateContact(d)
  <2> DEFINE x == NewContact(Of[d])
             c == Len(contacts) + 1
  <2>1. contacts' = Append(contacts, x)
    BY <1>6 DEF CreateContact
  <2>2. x \in Contact /\ NotesKnown(x)
    BY <1>1, NewContactTyped, NewContactHas
  <2> HIDE DEF x
  <2>3. /\ ContactIds' = ContactIds \cup {c} /\ contacts'[c] = x
        /\ \A b \in ContactIds : contacts'[b] = contacts[b]
    BY <2>1, <2>2, Appended DEF CInv, LInv, TInv, TypeOK, ContactIds
  <2> HIDE DEF c
  <2>4. QED
    BY <2>2, <2>3, SameGrows DEF RowsGrow
<1>7. CASE ~(Note(d) \/ Remember(d) \/ Enrich(d) \/ CreateContact(d))
  <2>1. UNCHANGED contacts
    BY <1>7 DEF Step, Begin, ReadReceipt, Match, FindRecent, Sign, Conflict, CreateLead, LookForCapture, Capture,
                Release, StartEffects, rows
  <2>2. QED
    BY <2>1, SameRowsGrow
<1>8. QED
  BY <1>3, <1>4, <1>5, <1>6, <1>7

LEMMA GrowNext ==
  ASSUME CInv, [Next]_vars
  PROVE  RowsGrow
<1>1. ASSUME NEW d \in Deliveries, Step(d) PROVE RowsGrow
  BY <1>1, GrowStep
<1>2. CASE \/ (\E d \in Deliveries : Fail(d)) \/ (\E p \in Processes : Crash(p)) \/ LoseSession
           \/ (\E l \in LeadIds : Recede(l)) \/ UNCHANGED vars
  BY <1>2, SameRowsGrow DEF Fail, Crash, LoseSession, Recede, vars, rows
<1>3. QED
  BY <1>1, <1>2 DEF Next, AllEnded

(* Enrichment only adds, if every caller takes the lock and keeps it.      *)
THEOREM EnrichmentCorrect ==
  ASSUME MaxLosses = 0, TwoField = Submissions
  PROVE  Spec => EnrichmentOnlyAdds
<1> DEFINE Adds == \A c \in ContactIds :
                     /\ contacts[c].emails \subseteq contacts'[c].emails
                     /\ contacts[c].phones \subseteq contacts'[c].phones
                     /\ Len(contacts[c].notes) <= Len(contacts'[c].notes)
<1>1. CInv /\ [Next]_vars => CInv'
  BY CNext
<1>2. CInv /\ CInv' /\ [Next]_vars => [Adds]_vars
  <2> SUFFICES ASSUME CInv, CInv', [Next]_vars, NEW c \in ContactIds
               PROVE  /\ contacts[c].emails \subseteq contacts'[c].emails
                      /\ contacts[c].phones \subseteq contacts'[c].phones
                      /\ Len(contacts[c].notes) <= Len(contacts'[c].notes)
    OBVIOUS
  <2>1. c \in ContactIds' /\ Grows(contacts[c], contacts'[c])
    BY GrowNext DEF RowsGrow
  <2>2. contacts[c] \in Contact
    BY RowOfId DEF CInv, LInv
  <2>3. contacts'[c] \in Contact
    <3>1. contacts' \in Seq(Contact) /\ c \in DOMAIN contacts'
      BY <2>1 DEF CInv, LInv, TInv, TypeOK, ContactIds
    <3>2. QED
      BY <3>1, LenProperties, ElementOfSeq
  <2>4. QED
    BY <2>1, <2>2, <2>3, GrownNotes DEF Grows
<1>3. QED
  BY <1>1, <1>2, CInit, PTL DEF Spec, EnrichmentOnlyAdds

-----------------------------------------------------------------------------
(* Answers.  What a step may do to what the others rely on.                *)
NothingLost ==
  /\ RowsGrow /\ captured \subseteq captured'
  /\ LeadIds \subseteq LeadIds' /\ \A l \in LeadIds : leads'[l].contact = leads[l].contact

LEMMA NothingLostNext ==
  ASSUME CInv, [Next]_vars
  PROVE  NothingLost
<1>1. RowsGrow
  BY GrowNext
<1>2. ASSUME UNCHANGED leads, captured \subseteq captured' PROVE NothingLost
  BY <1>1, <1>2 DEF NothingLost, LeadIds
<1>3. ASSUME NEW l \in LeadIds, NEW x \in Lead, leads' = [leads EXCEPT ![l] = x], x.contact = leads[l].contact,
             captured' = captured
      PROVE  NothingLost
  <2>1. /\ LeadIds' = LeadIds /\ leads'[l] = x /\ \A k \in LeadIds : k # l => leads'[k] = leads[k]
    BY <1>3, LeadReplaced DEF CInv, LInv
  <2>2. \A k \in LeadIds : leads'[k].contact = leads[k].contact
    BY <1>3, <2>1
  <2>3. QED
    BY <1>1, <1>3, <2>1, <2>2 DEF NothingLost
<1>4. ASSUME NEW d \in Deliveries, Step(d) PROVE NothingLost
  <2>1. Placed(d) /\ Of[d] \in Submissions
    BY OwnReferences, IntakeAssumption DEF CInv, LInv
  <2>2. CASE Sign(d)
    <3> DEFINE x == [leads[lead[d]] EXCEPT !.keys = @ \cup ({Of[d]} \cap Keyed)]
    <3>1. leads' = [leads EXCEPT ![lead[d]] = x] /\ lead[d] \in LeadIds /\ captured' = captured
      BY <2>1, <2>2 DEF Sign, Placed
    <3>2. x \in Lead /\ x.contact = leads[lead[d]].contact
      BY <3>1, RowOfId DEF CInv, LInv, Lead
    <3> HIDE DEF x
    <3>3. QED
      BY <1>3, <3>1, <3>2
  <2>3. CASE CreateLead(d)
    <3> DEFINE x == NewLead(Of[d], mine[d])
    <3>1. leads' = Append(leads, x) /\ mine[d] \in Nat /\ captured' = captured
      BY <2>1, <2>3, IdsAreNumbers DEF CreateLead, CInv, LInv, TInv, Placed
    <3>2. x \in Lead
      BY <2>1, <3>1, NewLeadTyped
    <3> HIDE DEF x
    <3>3. LeadIds \subseteq LeadIds' /\ \A k \in LeadIds : leads'[k] = leads[k]
      BY <3>1, <3>2, Appended DEF CInv, LInv, TInv, TypeOK, LeadIds
    <3>4. QED
      BY <1>1, <3>1, <3>3 DEF NothingLost
  <2>4. CASE ~(Sign(d) \/ CreateLead(d))
    <3>1. UNCHANGED leads /\ captured \subseteq captured'
      BY <1>4, <2>4 DEF Step, Begin, ReadReceipt, Match, Note, Remember, FindRecent, Enrich, CreateContact, Conflict,
                        LookForCapture, Capture, Release, StartEffects, rows
    <3>2. QED
      BY <1>2, <3>1
  <2>5. QED
    BY <2>2, <2>3, <2>4
<1>5. CASE (\E d \in Deliveries : Fail(d)) \/ (\E p \in Processes : Crash(p)) \/ LoseSession \/ UNCHANGED vars
  BY <1>2, <1>5 DEF Fail, Crash, LoseSession, vars, rows
<1>6. ASSUME NEW l \in LeadIds, Recede(l) PROVE NothingLost
  <2> DEFINE x == [leads[l] EXCEPT !.recent = FALSE]
  <2>1. leads' = [leads EXCEPT ![l] = x] /\ captured' = captured
    BY <1>6 DEF Recede
  <2>2. x \in Lead /\ x.contact = leads[l].contact
    BY RowOfId DEF CInv, LInv, Lead
  <2> HIDE DEF x
  <2>3. QED
    BY <1>3, <2>1, <2>2
<1>7. QED
  BY <1>4, <1>5, <1>6 DEF Next, AllEnded

(* A delivery that stays where it is keeps what it has done.               *)
LEMMA DoneStays ==
  ASSUME AInv, NothingLost, NEW e \in Deliveries,
         pc'[e] = pc[e], mine'[e] = mine[e], lead'[e] = lead[e], path'[e] = path[e]
  PROVE  Attached(e)' /\ (Of[e] \in Keyed => Done(e)')
<1>1. Placed(e) /\ OnPath(e) /\ Attached(e) /\ (Of[e] \in Keyed => Done(e)) /\ LeadsPlaced
  BY DEF AInv, CInv, LInv, TInv
<1>2. pc[e] \in {"note", "enrich", "sign"} /\ path[e] # "new" => lead[e] \in LeadIds
  BY <1>1, OwnReferences DEF AInv, CInv, LInv, Placed
<1>3. Attached(e)'
  BY <1>1, <1>2 DEF Attached, NothingLost
<1>4. ASSUME Of[e] \in Keyed PROVE Done(e)'
  <2>1. HasCopy(e)' /\ Of[e] \in Noted => HasNote(contacts'[mine'[e]], Of[e])
    <3>1. HasCopy(e) => mine[e] \in ContactIds
      BY <1>1 DEF HasCopy, Placed
    <3>2. QED
      BY <1>1, <1>4, <3>1, GrownHas DEF HasCopy, Done, NothingLost, RowsGrow
  <2>2. pc[e] \in {"sign", "lead"} => mine[e] \in ContactIds
    BY <1>1, <1>2 DEF Placed, OnPath, Attached, LeadsPlaced
  <2>3. pc'[e] \in {"sign", "lead"} =>
          HasPerson(contacts'[mine'[e]], Of[e]) /\ (Of[e] \in Noted => HasNote(contacts'[mine'[e]], Of[e]))
    BY <1>1, <1>4, <2>2, GrownHas DEF Done, NothingLost, RowsGrow
  <2>4. ASSUME pc'[e] \in Settled
        PROVE  LET c == contacts'[leads'[lead'[e]].contact]
               IN  HasPerson(c, Of[e]) /\ (Of[e] \in Noted => HasNote(c, Of[e]))
    <3>1. lead[e] \in LeadIds /\ leads[lead[e]].contact \in ContactIds
      BY <1>1, <2>4 DEF Placed, Settled, LeadsPlaced
    <3>2. leads'[lead'[e]].contact = leads[lead[e]].contact
      BY <3>1 DEF NothingLost
    <3>3. LET c == contacts[leads[lead[e]].contact]
          IN  HasPerson(c, Of[e]) /\ (Of[e] \in Noted => HasNote(c, Of[e]))
      BY <1>1, <1>4, <2>4 DEF Done
    <3>4. QED
      BY <3>1, <3>2, <3>3, GrownHas DEF NothingLost, RowsGrow
  <2>5. pc'[e] \in {"release", "effects", "answered"} => Of[e] \in captured'
    BY <1>1, <1>4 DEF Done, NothingLost
  <2>6. QED
    BY <2>1, <2>3, <2>4, <2>5 DEF Done
<1>5. QED
  BY <1>3, <1>4

(* One delivery moves; what it has done by then is shown apart.            *)
LEMMA DoneByOne ==
  ASSUME AInv, CInv', NothingLost, NEW d \in Deliveries, NEW w, pc' = [pc EXCEPT ![d] = w],
         \A e \in Deliveries : e # d => mine'[e] = mine[e] /\ lead'[e] = lead[e] /\ path'[e] = path[e],
         Attached(d)', Of[d] \in Keyed => Done(d)'
  PROVE  AInv'
<1>1. \A c \in ContactIds' : NotesKnown(contacts'[c])
  BY DEF AInv, NothingLost, RowsGrow
<1>2. ASSUME NEW e \in Deliveries, e # d PROVE Attached(e)' /\ (Of[e] \in Keyed => Done(e)')
  <2>1. pc'[e] = pc[e]
    BY <1>2 DEF AInv, CInv, LInv, TInv, TypeOK
  <2>2. QED
    BY <1>2, <2>1, DoneStays
<1>3. QED
  BY <1>1, <1>2 DEF AInv

LEMMA AStep ==
  ASSUME AInv, CInv', NothingLost, NEW d \in Deliveries, Step(d)
  PROVE  AInv'
<1>1. /\ pc[d] \in Steps /\ Placed(d) /\ OnPath(d) /\ Attached(d) /\ CopyIsRow(d) /\ Of[d] \in Submissions
      /\ Of[d] \in Keyed => Done(d)
  BY OwnReferences, IntakeAssumption DEF AInv, CInv, LInv, TInv, TypeOK
<1>2. pc \in [Deliveries -> Steps]
  BY DEF AInv, CInv, LInv, TInv, TypeOK
<1>3. CASE Begin(d) \/ Conflict(d)
  <2>1. UNCHANGED <<mine, lead, path>> /\ \E w \in {"receipt", "match", "idle", "failed"} : pc' = [pc EXCEPT ![d] = w]
    BY <1>3 DEF Begin, Conflict, Goto
  <2>2. Attached(d)' /\ Done(d)'
    BY <1>2, <2>1 DEF Attached, Done, HasCopy, Settled
  <2>3. QED
    BY <2>1, <2>2, DoneByOne
<1>4. CASE ReadReceipt(d)
  <2>1. UNCHANGED <<contacts, leads>>
    BY <1>4 DEF ReadReceipt, rows
  <2>2. CASE Receipts(Of[d]) = {}
    <3>1. UNCHANGED <<mine, lead, path>> /\ pc' = [pc EXCEPT ![d] = "match"]
      BY <1>4, <2>2 DEF ReadReceipt, Goto
    <3>2. Attached(d)' /\ Done(d)'
      BY <1>2, <3>1 DEF Attached, Done, HasCopy, Settled
    <3>3. QED
      BY <3>1, <3>2, DoneByOne
  <2>3. CASE Receipts(Of[d]) # {}
    <3>1. PICK l \in Receipts(Of[d]) :
            /\ lead' = [lead EXCEPT ![d] = l] /\ mine' = [mine EXCEPT ![d] = leads[l].contact]
            /\ path' = [path EXCEPT ![d] = "retry"] /\ pc' = [pc EXCEPT ![d] = "note"]
      BY <1>4, <2>3 DEF ReadReceipt, Goto
    <3>2. ASSUME NEW e \in Deliveries
          PROVE  /\ lead'[e] = (IF e = d THEN l ELSE lead[e]) /\ path'[e] = (IF e = d THEN "retry" ELSE path[e])
                 /\ mine'[e] = (IF e = d THEN leads[l].contact ELSE mine[e])
      BY <3>1 DEF AInv, CInv, LInv, TInv, TypeOK
    <3>3. Attached(d)'
      BY <2>1, <3>2 DEF Attached
    <3>4. Done(d)'
      BY <1>2, <3>1 DEF Done, HasCopy, Settled
    <3>5. QED
      BY <3>1, <3>2, <3>3, <3>4, DoneByOne
  <2>4. QED
    BY <2>2, <2>3
<1>5. CASE Match(d)
  <2>1. UNCHANGED <<lead, path>> /\ \E w \in {"failed", "contact", "note"} : pc' = [pc EXCEPT ![d] = w]
    BY <1>5 DEF Match, Goto
  <2>2. \A e \in Deliveries : e # d => mine'[e] = mine[e]
    BY <1>5 DEF Match, AInv, CInv, LInv, TInv, TypeOK
  <2>3. path'[d] = "new"
    BY <1>1, <1>5, <2>1 DEF Match, OnPath
  <2>4. Attached(d)' /\ Done(d)'
    BY <1>2, <2>1, <2>3 DEF Attached, Done, HasCopy, Settled
  <2>5. QED
    BY <2>1, <2>2, <2>4, DoneByOne
<1>6. CASE Note(d)
  <2> DEFINE x == WithNote(contacts[mine[d]], Of[d])
  <2>1. /\ pc[d] = "note" /\ contacts' = [contacts EXCEPT ![mine[d]] = x] /\ UNCHANGED <<leads, mine, lead, path>>
        /\ pc' = [pc EXCEPT ![d] = IF path[d] = "retry" THEN "enrich" ELSE "remember"]
    BY <1>6 DEF Note, Goto
  <2>2. mine[d] \in ContactIds /\ contacts[mine[d]] \in Contact /\ NotesKnown(contacts[mine[d]])
    BY <1>1, <2>1, RowOfId DEF AInv, CInv, LInv, Placed
  <2>3. x \in Contact /\ (Of[d] \in Noted \cap Keyed => HasNote(x, Of[d]))
    BY <1>1, <2>2, WithNoteTyped, NotedGrows
  <2> HIDE DEF x
  <2>4. contacts'[mine[d]] = x
    BY <2>1, <2>2, <2>3, ContactReplaced DEF AInv, CInv, LInv
  <2>5. pc'[d] \in {"enrich", "remember"} /\ (pc'[d] = "enrich" => path[d] = "retry")
    BY <1>2, <2>1
  <2>6. Attached(d)'
    BY <1>1, <2>1, <2>5 DEF Attached
  <2>7. Of[d] \in Keyed => Done(d)'
    BY <2>1, <2>3, <2>4, <2>5 DEF Done, HasCopy, Settled
  <2>8. QED
    BY <2>1, <2>6, <2>7, DoneByOne
<1>7. CASE Remember(d)
  <2>1. pc[d] = "remember" /\ pc' = [pc EXCEPT ![d] = "recent"] /\ UNCHANGED <<mine, lead, path>>
    BY <1>7 DEF Remember, Goto
  <2>2. pc'[d] = "recent" /\ mine[d] \in ContactIds
    BY <1>1, <1>2, <2>1 DEF Placed
  <2>3. Of[d] \in Keyed /\ Of[d] \in Noted => HasNote(contacts'[mine[d]], Of[d])
    BY <1>1, <2>1, <2>2, GrownHas DEF Done, HasCopy, NothingLost, RowsGrow
  <2>4. Attached(d)' /\ (Of[d] \in Keyed => Done(d)')
    BY <2>1, <2>2, <2>3 DEF Attached, Done, Settled
  <2>5. QED
    BY <2>1, <2>4, DoneByOne
<1>8. CASE FindRecent(d)
  <2>1. pc[d] = "recent" /\ pc' = [pc EXCEPT ![d] = "enrich"] /\ UNCHANGED <<contacts, leads, mine>>
    BY <1>8 DEF FindRecent, Goto, rows
  <2>2. pc'[d] = "enrich" /\ path[d] = "new"
    BY <1>1, <1>2, <2>1 DEF OnPath
  <2>3. /\ \A e \in Deliveries : e # d => lead'[e] = lead[e] /\ path'[e] = path[e]
        /\ path'[d] # "new" => leads[lead'[d]].contact = mine[d]
    <3>1. CASE RecentLeads(mine[d]) = {}
      BY <1>8, <2>2, <3>1 DEF FindRecent
    <3>2. CASE RecentLeads(mine[d]) # {}
      <4>1. PICK l \in RecentLeads(mine[d]) : lead' = [lead EXCEPT ![d] = l] /\ path' = [path EXCEPT ![d] = "duplicate"]
        BY <1>8, <3>2 DEF FindRecent
      <4>2. leads[l].contact = mine[d]
        BY DEF RecentLeads
      <4>3. QED
        BY <4>1, <4>2 DEF AInv, CInv, LInv, TInv, TypeOK
    <3>3. QED
      BY <3>1, <3>2
  <2>4. Attached(d)'
    BY <2>1, <2>3 DEF Attached
  <2>5. Of[d] \in Keyed => Done(d)'
    BY <1>1, <2>1, <2>2 DEF Done, HasCopy, Settled
  <2>6. QED
    BY <2>1, <2>3, <2>4, <2>5, DoneByOne
<1>9. CASE Enrich(d)
  <2> DEFINE x == Enriched(contacts[mine[d]], contacts[mine[d]], Of[d])
             w == CASE path[d] = "retry" -> "capture" [] path[d] = "duplicate" -> "sign" [] OTHER -> "lead"
  <2>1. /\ pc[d] = "enrich" /\ contacts' = [contacts EXCEPT ![mine[d]] = x] /\ UNCHANGED <<leads, mine, lead, path>>
        /\ pc' = [pc EXCEPT ![d] = w]
    BY <1>1, <1>9 DEF Enrich, Goto, CopyIsRow, HasCopy
  <2>2. mine[d] \in ContactIds /\ contacts[mine[d]] \in Contact
    BY <1>1, <2>1, RowOfId DEF AInv, CInv, LInv, Placed
  <2>3. x \in Contact /\ HasPerson(x, Of[d]) /\ Grows(contacts[mine[d]], x)
    BY <1>1, <2>2, EnrichedTyped, EnrichedGrows
  <2>4. Of[d] \in Keyed /\ Of[d] \in Noted => HasNote(contacts[mine[d]], Of[d])
    BY <1>1, <2>1 DEF Done, HasCopy
  <2> HIDE DEF x
  <2>5. contacts'[mine[d]] = x
    BY <2>1, <2>2, <2>3, ContactReplaced DEF AInv, CInv, LInv
  <2>6. Of[d] \in Keyed /\ Of[d] \in Noted => HasNote(x, Of[d])
    BY <2>3, <2>4, GrownHas
  <2>7. pc'[d] \in {"capture", "sign", "lead"} /\ (pc'[d] \in {"capture", "sign"} => path[d] # "new")
    BY <1>2, <2>1, OwnReferences DEF AInv, CInv, LInv
  <2>8. path[d] # "new" => leads[lead[d]].contact = mine[d]
    BY <1>1, <2>1 DEF Attached
  <2>9. Attached(d)'
    BY <2>1, <2>8 DEF Attached
  <2>10. Of[d] \in Keyed => Done(d)'
    BY <2>1, <2>3, <2>5, <2>6, <2>7, <2>8 DEF Done, HasCopy, Settled
  <2>11. QED
    BY <2>1, <2>9, <2>10, DoneByOne
<1>10. CASE Sign(d)
  <2>1. pc[d] = "sign" /\ pc' = [pc EXCEPT ![d] = "capture"] /\ UNCHANGED <<contacts, mine, lead, path>>
    BY <1>10 DEF Sign, Goto
  <2>2. pc'[d] = "capture" /\ lead[d] \in LeadIds /\ leads[lead[d]].contact = mine[d]
    BY <1>1, <1>2, <2>1 DEF Placed, OnPath, Attached
  <2>3. leads'[lead'[d]].contact = mine[d]
    BY <2>1, <2>2 DEF NothingLost
  <2>4. Attached(d)' /\ (Of[d] \in Keyed => Done(d)')
    BY <1>1, <2>1, <2>2, <2>3 DEF Attached, Done, HasCopy, Settled
  <2>5. QED
    BY <2>1, <2>4, DoneByOne
<1>11. CASE CreateContact(d)
  <2> DEFINE x == NewContact(Of[d])
             c == Len(contacts) + 1
  <2>1. /\ pc' = [pc EXCEPT ![d] = "lead"] /\ contacts' = Append(contacts, x) /\ mine' = [mine EXCEPT ![d] = c]
        /\ UNCHANGED <<lead, path>>
    BY <1>11 DEF CreateContact, Goto
  <2>2. x \in Contact /\ HasPerson(x, Of[d]) /\ (Of[d] \in Noted => HasNote(x, Of[d]))
    BY <1>1, NewContactTyped, NewContactHas
  <2> HIDE DEF x
  <2>3. contacts'[c] = x
    BY <2>1, <2>2, Appended DEF AInv, CInv, LInv, TInv, TypeOK
  <2> HIDE DEF c
  <2>4. pc'[d] = "lead" /\ mine'[d] = c /\ \A e \in Deliveries : e # d => mine'[e] = mine[e]
    BY <2>1 DEF AInv, CInv, LInv, TInv, TypeOK
  <2>5. Attached(d)' /\ Done(d)'
    BY <2>2, <2>3, <2>4 DEF Attached, Done, HasCopy, Settled
  <2>6. QED
    BY <2>1, <2>4, <2>5, DoneByOne
<1>12. CASE CreateLead(d)
  <2> DEFINE x == NewLead(Of[d], mine[d])
             l == Len(leads) + 1
  <2>1. /\ pc[d] = "lead" /\ pc' = [pc EXCEPT ![d] = "capture"] /\ leads' = Append(leads, x)
        /\ UNCHANGED <<contacts, mine, path>> /\ lead' = [lead EXCEPT ![d] = l]
    BY <1>12 DEF CreateLead, Goto
  <2>2. mine[d] \in Nat
    BY <1>1, <2>1, IdsAreNumbers DEF AInv, CInv, LInv, TInv, Placed
  <2>3. x \in Lead /\ x.contact = mine[d]
    BY <1>1, <2>2, NewLeadTyped DEF NewLead
  <2> HIDE DEF x
  <2>4. leads'[l] = x
    BY <2>1, <2>3, Appended DEF AInv, CInv, LInv, TInv, TypeOK
  <2> HIDE DEF l
  <2>5. pc'[d] = "capture" /\ lead'[d] = l /\ \A e \in Deliveries : e # d => lead'[e] = lead[e]
    BY <2>1 DEF AInv, CInv, LInv, TInv, TypeOK
  <2>6. Attached(d)' /\ (Of[d] \in Keyed => Done(d)')
    BY <1>1, <2>1, <2>3, <2>4, <2>5 DEF Attached, Done, HasCopy, Settled
  <2>7. QED
    BY <2>1, <2>5, <2>6, DoneByOne
<1>13. CASE LookForCapture(d) \/ Capture(d) \/ Release(d) \/ StartEffects(d)
  <2>1. UNCHANGED <<contacts, leads, mine, lead, path>> /\ pc[d] \in {"capture", "insert", "release", "effects"}
    BY <1>13 DEF LookForCapture, Capture, Release, StartEffects, rows
  <2>2. PICK w \in {"insert", "release", "effects", "answered", "failed"} :
          /\ pc' = [pc EXCEPT ![d] = w]
          /\ w \in {"release", "effects", "answered"} /\ Of[d] \in Keyed => Of[d] \in captured'
    <3>1. CASE LookForCapture(d)
      BY <3>1 DEF LookForCapture, Goto, rows
    <3>2. CASE Capture(d)
      BY <3>2 DEF Capture, Goto
    <3>3. CASE Release(d) \/ StartEffects(d)
      <4>1. pc[d] \in {"release", "effects"} /\ captured' = captured
        BY <3>3 DEF Release, StartEffects, rows
      <4>2. Of[d] \in Keyed => Of[d] \in captured'
        BY <1>1, <4>1 DEF Done
      <4>3. \E w \in {"effects", "answered"} : pc' = [pc EXCEPT ![d] = w]
        BY <3>3 DEF Release, StartEffects, Goto
      <4>4. QED
        BY <4>2, <4>3
    <3>4. QED
      BY <1>13, <3>1, <3>2, <3>3
  <2>3. pc'[d] = w
    BY <1>2, <2>2
  <2>4. Attached(d)' /\ (Of[d] \in Keyed => Done(d)')
    BY <1>1, <2>1, <2>2, <2>3 DEF Attached, Done, HasCopy, Settled
  <2>5. QED
    BY <2>1, <2>2, <2>4, DoneByOne
<1>14. QED
  BY <1>3, <1>4, <1>5, <1>6, <1>7, <1>8, <1>9, <1>10, <1>11, <1>12, <1>13 DEF Step

LEMMA ANext ==
  ASSUME MaxLosses = 0, TwoField = Submissions, AInv, [Next]_vars
  PROVE  AInv'
<1>1. CInv' /\ NothingLost
  BY CNext, NothingLostNext DEF AInv
<1>2. ASSUME NEW d \in Deliveries, Step(d) PROVE AInv'
  BY <1>1, <1>2, AStep
<1>3. CASE \/ (\E d \in Deliveries : Fail(d)) \/ (\E p \in Processes : Crash(p)) \/ LoseSession
           \/ (\E l \in LeadIds : Recede(l)) \/ UNCHANGED vars
  <2>1. UNCHANGED <<mine, lead, path>> /\ \A d \in Deliveries : pc'[d] \in {pc[d], "failed"}
    BY <1>3 DEF Fail, Crash, LoseSession, Recede, Goto, vars, rows, local, AInv, CInv, LInv, TInv, TypeOK
  <2>2. ASSUME NEW e \in Deliveries PROVE Attached(e)' /\ (Of[e] \in Keyed => Done(e)')
    <3>1. CASE pc'[e] = pc[e]
      BY <1>1, <2>1, <3>1, DoneStays
    <3>2. CASE pc'[e] = "failed"
      BY <3>2 DEF Attached, Done, HasCopy, Settled
    <3>3. QED
      BY <2>1, <3>1, <3>2
  <2>3. \A c \in ContactIds' : NotesKnown(contacts'[c])
    BY <1>1 DEF AInv, NothingLost, RowsGrow
  <2>4. QED
    BY <1>1, <2>2, <2>3 DEF AInv
<1>4. QED
  BY <1>2, <1>3 DEF Next, AllEnded

LEMMA AInit == Init => AInv
<1> SUFFICES ASSUME Init PROVE AInv
  OBVIOUS
<1>1. ContactIds = {}
  BY EmptySeq, LenProperties DEF Init, ContactIds
<1>2. \A d \in Deliveries : Attached(d) /\ Done(d)
  BY DEF Init, Attached, Done, HasCopy, Settled
<1>3. QED
  BY <1>1, <1>2, CInit DEF AInv

(* An answered delivery of a keyed submission left nothing undone, also    *)
(* when an earlier one had failed or crashed between any two writes, if    *)
(* every caller takes the lock and keeps it.                               *)
THEOREM AnsweredCorrect ==
  ASSUME MaxLosses = 0, TwoField = Submissions
  PROVE  Spec => []AnsweredIsComplete
<1>1. AInv => AnsweredIsComplete
  <2> SUFFICES ASSUME AInv, NEW d \in Deliveries, pc[d] = "answered", Of[d] \in Keyed
               PROVE  /\ Of[d] \in leads[lead[d]].keys /\ Of[d] \in captured
                      /\ LET c == contacts[leads[lead[d]].contact]
                         IN  /\ EmailsOf(Of[d]) \subseteq c.emails /\ PhonesOf(Of[d]) \subseteq c.phones
                             /\ Of[d] \in Noted => \E i \in DOMAIN c.notes : c.notes[i] = Of[d]
    BY DEF AnsweredIsComplete
  <2>1. Signed(d) /\ Done(d)
    BY DEF AInv, CInv, LInv
  <2>2. Of[d] \in leads[lead[d]].keys
    BY <2>1 DEF Signed, IsSettled, Settled
  <2>3. QED
    BY <2>1, <2>2 DEF Done, Settled, HasPerson, HasNote
<1>2. AInv /\ [Next]_vars => AInv'
  BY ANext
<1>3. QED
  BY <1>1, <1>2, AInit, PTL DEF Spec

-----------------------------------------------------------------------------
(***************************************************************************)
(* Twins.  The matcher makes two contacts that agree in two fields in one  *)
(* way only: a delivery leaves its submission's receipt on a contact       *)
(* before it merges its person into it, and if it ends in between, the     *)
(* next delivery of the submission follows the receipt past the look at    *)
(* the other contacts.  WInv says of a delivery on its way to a contact    *)
(* that the contact has the e-mail and phone of its person already, that   *)
(* no other contact has one of them, or that a receipt brought it there.   *)
(***************************************************************************)
Undisturbed == MaxFaults = 0 /\ MaxCrashes = 0

Two(A) == \E f, g \in A : f # g
Agree(b, c) == Agreement(b.name, b.emails, b.phones, c)
Reaches(s, c) == EmailsOf(s) \cap c.emails # {} \/ PhonesOf(s) \cap c.phones # {}

(* The row b remembers a submission of a person who reaches the row c.     *)
ByReceipt(b, c) == \E s \in b.receipts : Reaches(s, c)

KeysKnown == \A c \in ContactIds : contacts[c].key # None => HasPerson(contacts[c], contacts[c].key)
LeadsKnown ==
  \A l \in LeadIds : \A s \in leads[l].keys :
    HasPerson(contacts[leads[l].contact], s) /\ (s \in Noted => HasNote(contacts[leads[l].contact], s))

Merging(d) == pc[d] \in {"note", "remember", "recent", "enrich"}
Alone(s, c) == \A b \in ContactIds : b # c => ~Reaches(s, contacts[b])
MayMerge(s, c) ==
  \/ HasPerson(contacts[c], s)
  \/ Alone(s, c)
  \/ ~Undisturbed /\ s \in contacts[c].receipts
Checked(d) ==
  /\ pc[d] = "contact" => \A b \in ContactIds : ~Two(Matching(Of[d], b))
  /\ Merging(d) => MayMerge(Of[d], mine[d])

Completing(c, s) == \E d \in Deliveries : pc[d] \in {"recent", "enrich"} /\ mine[d] = c /\ Of[d] = s
ReceiptsKnown ==
  Undisturbed => \A c \in ContactIds : \A s \in contacts[c].receipts : HasPerson(contacts[c], s) \/ Completing(c, s)

Explained(b, c) == ~Undisturbed /\ (ByReceipt(b, c) \/ ByReceipt(c, b))
TwinsExplained ==
  \A b, c \in ContactIds : b # c /\ Two(Agree(contacts[b], contacts[c])) => Explained(contacts[b], contacts[c])

WInv ==
  /\ AInv
  /\ KeysKnown /\ LeadsKnown /\ ReceiptsKnown /\ TwinsExplained
  /\ \A d \in Deliveries : Checked(d)

-----------------------------------------------------------------------------
(* Sets of at most three fields.                                           *)
LEMMA TwoCard ==
  ASSUME NEW A, IsFiniteSet(A)
  PROVE  Cardinality(A) >= 2 <=> Two(A)
<1>1. Cardinality(A) \in Nat
  BY FS_CardinalityType
<1>2. Cardinality(A) = 0 => ~Two(A)
  BY FS_EmptySet DEF Two
<1>3. Cardinality(A) = 1 => ~Two(A)
  <2>1. Cardinality(A) = 1 => \E x : A = {x}
    BY FS_Singleton
  <2>2. QED
    BY <2>1 DEF Two
<1>4. ASSUME ~Two(A) PROVE A = {} \/ \E x : A = {x}
  BY <1>4 DEF Two
<1>5. ~Two(A) => Cardinality(A) \in {0, 1}
  BY <1>4, FS_EmptySet, FS_Singleton
<1>6. QED
  BY <1>1, <1>2, <1>3, <1>5

LEMMA FewFields ==
  ASSUME NEW name, NEW emails, NEW phones, NEW c
  PROVE  IsFiniteSet(Agreement(name, emails, phones, c))
<1>1. Agreement(name, emails, phones, c) \subseteq {"name", "email", "phone"}
  BY DEF Agreement
<1>2. IsFiniteSet({"name"} \cup {"email"})
  BY FS_AddElement, FS_Singleton
<1>3. IsFiniteSet(({"name"} \cup {"email"}) \cup {"phone"})
  BY <1>2, FS_AddElement
<1>4. Agreement(name, emails, phones, c) \subseteq ({"name"} \cup {"email"}) \cup {"phone"}
  BY <1>1
<1>5. QED
  BY <1>3, <1>4, FS_Subset

LEMMA AgreeBothWays ==
  ASSUME NEW b, NEW c
  PROVE  Agree(b, c) = Agree(c, b)
BY DEF Agree, Agreement

(* Who agrees in two fields agrees in the e-mail or the phone.             *)
LEMMA TwoIsStrong ==
  ASSUME NEW s, NEW c, Two(Matching(s, c))
  PROVE  Matching(s, c) \cap {"email", "phone"} # {}
BY DEF Two, Matching, Agreement

LEMMA StrongReaches ==
  ASSUME NEW s, NEW c
  PROVE  Matching(s, c) \cap {"email", "phone"} # {} <=> Reaches(s, contacts[c])
BY DEF Matching, Agreement, Reaches

LEMMA FieldsCounted ==
  ASSUME NEW s
  PROVE  /\ \A A \in {NameFields(Person[s].name), EmailsOf(s), PhonesOf(s)} : IsFiniteSet(A) /\ Cardinality(A) \in Nat
         /\ FieldCount(s) \in Nat
<1>1. \A x : IsFiniteSet({x} \ {None})
  BY FS_Singleton, FS_RemoveElement, Zenon
<1>2. IsFiniteSet(NameFields(Person[s].name))
  BY FS_Singleton, FS_EmptySet, Zenon DEF NameFields
<1>3. IsFiniteSet(EmailsOf(s)) /\ IsFiniteSet(PhonesOf(s))
  BY <1>1 DEF EmailsOf, PhonesOf
<1>4. \A A \in {NameFields(Person[s].name), EmailsOf(s), PhonesOf(s)} : IsFiniteSet(A) /\ Cardinality(A) \in Nat
  BY <1>2, <1>3, FS_CardinalityType
<1>5. QED
  BY <1>4 DEF FieldCount

(* An identity of a single field agrees with nobody in two.                *)
LEMMA TwoOfTwo ==
  ASSUME NEW s, NEW c, Two(Matching(s, c))
  PROVE  FieldCount(s) >= 2
<1> DEFINE n == NameFields(Person[s].name)
           e == EmailsOf(s)
           p == PhonesOf(s)
<1>1. /\ IsFiniteSet(n) /\ IsFiniteSet(e) /\ IsFiniteSet(p)
      /\ Cardinality(n) \in Nat /\ Cardinality(e) \in Nat /\ Cardinality(p) \in Nat
  BY FieldsCounted
<1>2. \/ n # {} /\ e # {}
      \/ n # {} /\ p # {}
      \/ e # {} /\ p # {}
  BY DEF Two, Matching, Agreement, NameFields
<1>3. FieldCount(s) = Cardinality(n) + Cardinality(e) + Cardinality(p)
  BY DEF FieldCount
<1> HIDE DEF n, e, p
<1>4. /\ n # {} => Cardinality(n) >= 1
      /\ e # {} => Cardinality(e) >= 1
      /\ p # {} => Cardinality(p) >= 1
  <2>1. \A S : IsFiniteSet(S) => (Cardinality(S) = 0 <=> S = {})
    BY FS_EmptySet
  <2>2. /\ n # {} => Cardinality(n) # 0
        /\ e # {} => Cardinality(e) # 0
        /\ p # {} => Cardinality(p) # 0
    BY <1>1, <2>1
  <2>3. QED
    BY <1>1, <2>2
<1>5. QED
  BY <1>1, <1>2, <1>3, <1>4

(* What the merge adds to a row makes it agree with another row in a new   *)
(* field only if the person reaches that row.                              *)
LEMMA EnrichedAgrees ==
  ASSUME NEW c \in Contact, NEW s \in Submissions, NEW y, Agree(Enriched(c, c, s), y) # Agree(c, y)
  PROVE  Reaches(s, y) /\ ~HasPerson(c, s)
<1> DEFINE x == Enriched(c, c, s)
<1>1. /\ x.emails = c.emails \cup EmailsOf(s) /\ x.phones = c.phones \cup PhonesOf(s) /\ x.name = c.name
  BY DEF Enriched, Contact
<1> HIDE DEF x
<1>2. HasPerson(c, s) => x.emails = c.emails /\ x.phones = c.phones
  BY <1>1 DEF HasPerson
<1>3. ~Reaches(s, y) => /\ x.emails \cap y.emails = c.emails \cap y.emails
                        /\ x.phones \cap y.phones = c.phones \cap y.phones
  BY <1>1 DEF Reaches
<1>4. x.emails \cap y.emails = c.emails \cap y.emails /\ x.phones \cap y.phones = c.phones \cap y.phones
        => Agree(x, y) = Agree(c, y)
  BY <1>1 DEF Agree, Agreement
<1>5. QED
  BY <1>2, <1>3, <1>4 DEF x

LEMMA GrownReaches ==
  ASSUME NEW c, NEW x, Grows(c, x), NEW s
  PROVE  Reaches(s, c) => Reaches(s, x)
BY DEF Grows, Reaches

-----------------------------------------------------------------------------
(* The matcher.  Who is matched by two fields of a person that is not      *)
(* ambiguous is the only one whom the person reaches.                      *)
LEMMA OneOwner ==
  ASSUME TInv, NEW s, ~Ambiguous(s), NEW c \in ContactIds, Two(Matching(s, c))
  PROVE  Alone(s, c)
<1>1. IsFiniteSet(StrongOwners(s)) /\ Cardinality(StrongOwners(s)) \in Nat
  <2>1. ContactIds = 1..Len(contacts) /\ Len(contacts) \in Nat
    BY LenProperties DEF TInv, TypeOK, ContactIds
  <2>2. IsFiniteSet(ContactIds)
    BY <2>1, FS_Interval
  <2>3. QED
    BY <2>2, FS_Subset, FS_CardinalityType DEF StrongOwners
<1>2. ~Two(StrongOwners(s))
  BY <1>1, TwoOfTwo, TwoCard DEF Ambiguous
<1>3. c \in StrongOwners(s)
  BY TwoIsStrong DEF StrongOwners
<1>4. ASSUME NEW b \in ContactIds, b # c PROVE ~Reaches(s, contacts[b])
  <2>1. b \notin StrongOwners(s)
    BY <1>2, <1>3, <1>4 DEF Two
  <2>2. QED
    BY <2>1, StrongReaches DEF StrongOwners
<1>5. QED
  BY <1>4 DEF Alone

(* A person nobody remembers or owns agrees with nobody in two fields; one *)
(* who goes on to a contact may be merged into it.                         *)
LEMMA MatchedWell ==
  ASSUME WInv, NEW s \in TwoField, Remembered(s) # {} \/ ~Ambiguous(s),
         Undisturbed => \A c \in ContactIds : ~Completing(c, s)
  PROVE  /\ Candidates(s) = {} => \A b \in ContactIds : ~Two(Matching(s, b))
         /\ \A c \in Candidates(s) : c \in ContactIds /\ MayMerge(s, c)
<1>1. \A c \in ContactIds : Cardinality(Matching(s, c)) >= 2 <=> Two(Matching(s, c))
  BY FewFields, TwoCard DEF Matching
<1>2. CASE Remembered(s) = {}
  <2>1. Candidates(s) = IF FieldCount(s) < 2 THEN {} ELSE TwoFieldOwners(s)
    BY <1>2 DEF Candidates, Owners
  <2>2. FieldCount(s) < 2 => \A b \in ContactIds : ~Two(Matching(s, b))
    <3>1. SUFFICES ASSUME FieldCount(s) < 2, NEW b \in ContactIds, Two(Matching(s, b)) PROVE FALSE
      OBVIOUS
    <3>2. FieldCount(s) >= 2
      BY <3>1, TwoOfTwo
    <3>3. FieldCount(s) \in Int
      BY FieldsCounted
    <3>4. QED
      BY <3>1, <3>2, <3>3
  <2>3. TwoFieldOwners(s) = {c \in ContactIds : Two(Matching(s, c))}
    BY <1>1 DEF TwoFieldOwners
  <2>4. \A c \in TwoFieldOwners(s) : c \in ContactIds /\ Alone(s, c)
    BY <1>2, <2>3, OneOwner DEF WInv, AInv, CInv, LInv
  <2>5. QED
    BY <2>1, <2>2, <2>3, <2>4 DEF MayMerge
<1>3. CASE Remembered(s) # {}
  <2>1. Candidates(s) = Remembered(s)
    BY <1>3 DEF Candidates
  <2>2. ASSUME NEW c \in Remembered(s) PROVE c \in ContactIds /\ MayMerge(s, c)
    <3>1. c \in ContactIds /\ s \in Keyed /\ (contacts[c].key = s \/ s \in contacts[c].receipts)
      BY <2>2 DEF Remembered
    <3>2. CASE contacts[c].key = s
      BY <3>1, <3>2, IntakeAssumption DEF WInv, KeysKnown, MayMerge
    <3>3. CASE s \in contacts[c].receipts
      BY <3>1, <3>3 DEF WInv, ReceiptsKnown, MayMerge
    <3>4. QED
      BY <3>1, <3>2, <3>3
  <2>3. QED
    BY <1>3, <2>1, <2>2
<1>4. QED
  BY <1>2, <1>3

-----------------------------------------------------------------------------
(* What the leads remember.                                                *)
LEMMA LeadsKnownNext ==
  ASSUME AInv, LeadsKnown, NothingLost, [Next]_vars
  PROVE  LeadsKnown'
<1>1. \A l \in LeadIds : leads[l].contact \in ContactIds /\ leads'[l].contact = leads[l].contact
  BY DEF AInv, CInv, LInv, TInv, LeadsPlaced, NothingLost
<1>2. \A l \in LeadIds : \A s \in leads[l].keys :
        HasPerson(contacts'[leads'[l].contact], s) /\ (s \in Noted => HasNote(contacts'[leads'[l].contact], s))
  BY <1>1, GrownHas DEF LeadsKnown, NothingLost, RowsGrow
<1>3. ASSUME LeadIds' = LeadIds, \A l \in LeadIds : leads'[l].keys \subseteq leads[l].keys PROVE LeadsKnown'
  BY <1>2, <1>3 DEF LeadsKnown
<1>4. ASSUME NEW d \in Deliveries, Step(d) PROVE LeadsKnown'
  <2>1. Placed(d) /\ OnPath(d) /\ Attached(d) /\ Of[d] \in Submissions /\ (Of[d] \in Keyed => Done(d))
    BY OwnReferences, IntakeAssumption DEF AInv, CInv, LInv
  <2>2. CASE Sign(d)
    <3> DEFINE x == [leads[lead[d]] EXCEPT !.keys = @ \cup ({Of[d]} \cap Keyed)]
    <3>1. pc[d] = "sign" /\ leads' = [leads EXCEPT ![lead[d]] = x] /\ lead[d] \in LeadIds /\ contacts' = contacts
      BY <2>1, <2>2 DEF Sign, Placed
    <3>2. x \in Lead /\ x.contact = leads[lead[d]].contact /\ x.keys = leads[lead[d]].keys \cup ({Of[d]} \cap Keyed)
      BY <3>1, RowOfId DEF AInv, CInv, LInv, Lead
    <3> HIDE DEF x
    <3>3. LeadIds' = LeadIds /\ leads'[lead[d]] = x /\ \A k \in LeadIds : k # lead[d] => leads'[k] = leads[k]
      BY <3>1, <3>2, LeadReplaced DEF AInv, CInv, LInv
    <3>4. leads[lead[d]].contact = mine[d]
      BY <2>1, <3>1 DEF Attached, OnPath
    <3>5. Of[d] \in Keyed => LET c == contacts[leads[lead[d]].contact]
                            IN  HasPerson(c, Of[d]) /\ (Of[d] \in Noted => HasNote(c, Of[d]))
      BY <2>1, <3>1, <3>4 DEF Done
    <3>6. QED
      BY <3>1, <3>2, <3>3, <3>5 DEF LeadsKnown
  <2>3. CASE CreateLead(d)
    <3> DEFINE x == NewLead(Of[d], mine[d])
               l == Len(leads) + 1
    <3>1. pc[d] = "lead" /\ leads' = Append(leads, x) /\ mine[d] \in Nat /\ contacts' = contacts
      BY <2>1, <2>3, IdsAreNumbers DEF CreateLead, AInv, CInv, LInv, TInv, Placed
    <3>2. x \in Lead /\ x.contact = mine[d] /\ x.keys = {Of[d]} \cap Keyed
      BY <2>1, <3>1, NewLeadTyped DEF NewLead
    <3> HIDE DEF x
    <3>3. LeadIds' = LeadIds \cup {l} /\ leads'[l] = x /\ \A k \in LeadIds : leads'[k] = leads[k]
      BY <3>1, <3>2, Appended DEF AInv, CInv, LInv, TInv, TypeOK, LeadIds
    <3>4. Of[d] \in Keyed => LET c == contacts[mine[d]]
                            IN  HasPerson(c, Of[d]) /\ (Of[d] \in Noted => HasNote(c, Of[d]))
      BY <2>1, <3>1 DEF Done
    <3> HIDE DEF l
    <3>5. \A s \in x.keys : HasPerson(contacts'[x.contact], s) /\ (s \in Noted => HasNote(contacts'[x.contact], s))
      BY <3>1, <3>2, <3>4
    <3>6. QED
      BY <1>2, <3>3, <3>5 DEF LeadsKnown
  <2>4. CASE ~(Sign(d) \/ CreateLead(d))
    <3>1. UNCHANGED leads
      BY <1>4, <2>4 DEF Step, Begin, ReadReceipt, Match, Note, Remember, FindRecent, Enrich, CreateContact, Conflict,
                        LookForCapture, Capture, Release, StartEffects, rows
    <3>2. QED
      BY <1>3, <3>1 DEF LeadIds
  <2>5. QED
    BY <2>2, <2>3, <2>4
<1>5. CASE (\E d \in Deliveries : Fail(d)) \/ (\E p \in Processes : Crash(p)) \/ LoseSession \/ UNCHANGED vars
  BY <1>3, <1>5 DEF Fail, Crash, LoseSession, vars, rows, LeadIds
<1>6. ASSUME NEW l \in LeadIds, Recede(l) PROVE LeadsKnown'
  <2> DEFINE x == [leads[l] EXCEPT !.recent = FALSE]
  <2>1. leads' = [leads EXCEPT ![l] = x]
    BY <1>6 DEF Recede
  <2>2. x \in Lead /\ x.keys = leads[l].keys
    BY RowOfId DEF AInv, CInv, LInv, Lead
  <2> HIDE DEF x
  <2>3. LeadIds' = LeadIds /\ leads'[l] = x /\ \A k \in LeadIds : k # l => leads'[k] = leads[k]
    BY <2>1, <2>2, LeadReplaced DEF AInv, CInv, LInv
  <2>4. QED
    BY <1>3, <2>2, <2>3
<1>7. QED
  BY <1>4, <1>5, <1>6 DEF Next, AllEnded

-----------------------------------------------------------------------------
(* Contacts.  A step that writes none, and one that writes the contact its *)
(* delivery is merging into.                                               *)
ContactsKnown == KeysKnown /\ ReceiptsKnown /\ TwinsExplained /\ \A d \in Deliveries : Checked(d)

LEMMA NoneWritten ==
  ASSUME WInv, UNCHANGED contacts,
         \A e \in Deliveries :
           \/ pc'[e] = pc[e] /\ mine'[e] = mine[e]
           \/ /\ Checked(e)'
              /\ Undisturbed /\ pc[e] \in {"recent", "enrich"} => pc'[e] = "enrich" /\ mine'[e] = mine[e]
  PROVE  ContactsKnown'
<1>1. \A e \in Deliveries : Checked(e)'
  BY DEF WInv, Checked, Merging, MayMerge, Alone, Undisturbed, ContactIds, Matching
<1>2. KeysKnown' /\ TwinsExplained'
  BY DEF WInv, KeysKnown, TwinsExplained, Explained, ContactIds, Undisturbed
<1>3. Undisturbed => \A c, s : Completing(c, s) => Completing(c, s)'
  BY DEF Completing
<1>4. ReceiptsKnown'
  BY <1>3 DEF WInv, ReceiptsKnown, ContactIds, Undisturbed
<1>5. QED
  BY <1>1, <1>2, <1>4 DEF ContactsKnown

LEMMA OneWritten ==
  ASSUME TwoField = Submissions, WInv, NEW d \in Deliveries, pc[d] \in Inside, mine[d] \in ContactIds,
         NEW x \in Contact, contacts' = [contacts EXCEPT ![mine[d]] = x],
         NEW w, pc' = [pc EXCEPT ![d] = w], mine' = mine,
         Grows(contacts[mine[d]], x), x.key = contacts[mine[d]].key, contacts[mine[d]].receipts \subseteq x.receipts,
         \A b \in ContactIds \ {mine[d]} :
           Agree(x, contacts[b]) = Agree(contacts[mine[d]], contacts[b]) \/ Explained(x, contacts[b]),
         Undisturbed => \A s \in x.receipts : \/ HasPerson(x, s)
                                              \/ s = Of[d] /\ w \in {"recent", "enrich"}
                                              \/ s # Of[d] /\ s \in contacts[mine[d]].receipts,
         w \in {"remember", "recent", "enrich"} => MayMerge(Of[d], mine[d]),
         w # "contact", w # "note"
  PROVE  ContactsKnown'
<1> DEFINE c == mine[d]
<1>1. /\ ContactIds' = ContactIds /\ contacts'[c] = x
      /\ \A b \in ContactIds : b # c => contacts'[b] = contacts[b]
  BY Replaced DEF WInv, AInv, CInv, LInv, TInv, TypeOK, ContactIds
<1>2. pc'[d] = w /\ \A e \in Deliveries : e # d => pc'[e] = pc[e] /\ pc[e] \notin Inside
  BY OnlyCopy DEF WInv, AInv, CInv, LInv, TInv, TypeOK
<1>3. KeysKnown'
  BY <1>1, GrownHas DEF WInv, KeysKnown
<1>4. \A b \in ContactIds \ {c} : \A s : ~Completing(b, s)
  BY <1>2 DEF Completing, Inside
<1>5. ReceiptsKnown'
  <2> SUFFICES ASSUME Undisturbed, NEW b \in ContactIds, NEW s \in contacts'[b].receipts
               PROVE  HasPerson(contacts'[b], s) \/ Completing(b, s)'
    BY <1>1 DEF ReceiptsKnown, Undisturbed
  <2>1. CASE b # c
    BY <1>1, <1>4, <2>1 DEF WInv, ReceiptsKnown
  <2>2. CASE b = c
    <3>1. CASE s \in contacts[c].receipts /\ s # Of[d]
      <4>1. ~Completing(c, s)
        BY <1>2, <3>1 DEF Completing, Inside
      <4>2. QED
        BY <1>1, <2>2, <3>1, <4>1, GrownHas DEF WInv, ReceiptsKnown
    <3>2. CASE w \in {"recent", "enrich"} /\ s = Of[d]
      BY <1>2, <2>2, <3>2 DEF Completing
    <3>3. QED
      BY <1>1, <2>2, <3>1, <3>2
  <2>3. QED
    BY <2>1, <2>2
<1>6. \A b \in ContactIds \ {c} : /\ ByReceipt(contacts[c], contacts[b]) => ByReceipt(x, contacts[b])
                                  /\ ByReceipt(contacts[b], contacts[c]) => ByReceipt(contacts[b], x)
  BY GrownReaches DEF ByReceipt
<1>7. \A b \in ContactIds \ {c} : Two(Agree(x, contacts[b])) => Explained(x, contacts[b])
  BY <1>6 DEF WInv, TwinsExplained, Explained
<1>8. TwinsExplained'
  <2> SUFFICES ASSUME NEW a \in ContactIds, NEW b \in ContactIds, a # b, Two(Agree(contacts'[a], contacts'[b]))
               PROVE  Explained(contacts'[a], contacts'[b])
    BY <1>1 DEF TwinsExplained, Explained, Undisturbed
  <2>1. CASE a # c /\ b # c
    BY <1>1, <2>1 DEF WInv, TwinsExplained
  <2>2. CASE a = c
    BY <1>1, <1>7, <2>2
  <2>3. CASE b = c
    BY <1>1, <1>7, <2>3, AgreeBothWays DEF Explained
  <2>4. QED
    BY <2>1, <2>2, <2>3
<1>9. ASSUME NEW e \in Deliveries PROVE Checked(e)'
  <2>1. CASE e # d
    BY <1>2, <2>1 DEF Checked, Merging, Inside
  <2>2. CASE e = d
    <3>1. MayMerge(Of[d], c) => MayMerge(Of[d], c)'
      BY <1>1, GrownHas DEF MayMerge, Alone, Undisturbed
    <3>2. QED
      BY <1>2, <2>2, <3>1 DEF Checked, Merging
  <2>3. QED
    BY <2>1, <2>2
<1>10. QED
  BY <1>3, <1>5, <1>8, <1>9 DEF ContactsKnown

-----------------------------------------------------------------------------
LEMMA WStep ==
  ASSUME TwoField = Submissions, WInv, NEW d \in Deliveries, Step(d)
  PROVE  ContactsKnown'
<1>1. /\ pc[d] \in Steps /\ Placed(d) /\ OnPath(d) /\ CopyIsRow(d) /\ Checked(d)
      /\ Of[d] \in Submissions /\ Of[d] \in TwoField
  BY OwnReferences, IntakeAssumption DEF WInv, AInv, CInv, LInv, TInv, TypeOK
<1>2. pc \in [Deliveries -> Steps] /\ mine \in [Deliveries -> OptionalOf(ContactIds)]
  BY DEF WInv, AInv, CInv, LInv, TInv, TypeOK
<1>3. ASSUME NEW e \in Deliveries, pc[d] \in Inside, pc[e] \in {"recent", "enrich"} PROVE e = d
  BY <1>3, OnlyCopy DEF WInv, AInv, CInv, HasCopy
<1>4. ASSUME UNCHANGED contacts, NEW w, pc' = [pc EXCEPT ![d] = w], \A e \in Deliveries : e # d => mine'[e] = mine[e],
             Checked(d)', pc[d] \in {"recent", "enrich"} => w = "enrich" /\ mine' = mine
      PROVE  ContactsKnown'
  <2>1. pc'[d] = w /\ \A e \in Deliveries : e # d => pc'[e] = pc[e] /\ mine'[e] = mine[e]
    BY <1>2, <1>4
  <2>2. QED
    BY <1>4, <2>1, NoneWritten
<1>5. CASE Begin(d) \/ Conflict(d) \/ Sign(d) \/ CreateLead(d) \/ LookForCapture(d) \/ Capture(d) \/ Release(d)
           \/ StartEffects(d)
  <2>1. PICK w \in {"receipt", "match", "idle", "failed", "capture", "insert", "release", "effects", "answered"} :
          pc' = [pc EXCEPT ![d] = w]
    BY <1>5 DEF Begin, Conflict, Sign, CreateLead, LookForCapture, Capture, Release, StartEffects, Goto
  <2>2. UNCHANGED <<contacts, mine>> /\ pc[d] \notin {"recent", "enrich"}
    BY <1>5 DEF Begin, Conflict, Sign, CreateLead, LookForCapture, Capture, Release, StartEffects, rows
  <2>3. Checked(d)'
    BY <1>2, <2>1 DEF Checked, Merging
  <2>4. QED
    BY <1>4, <2>1, <2>2, <2>3
<1>6. CASE ReadReceipt(d)
  <2>1. UNCHANGED <<contacts, leads>> /\ pc[d] = "receipt"
    BY <1>6 DEF ReadReceipt, rows
  <2>2. CASE Receipts(Of[d]) = {}
    <3>1. mine' = mine /\ pc' = [pc EXCEPT ![d] = "match"]
      BY <1>6, <2>2 DEF ReadReceipt, Goto
    <3>2. Checked(d)'
      BY <1>2, <3>1 DEF Checked, Merging
    <3>3. QED
      BY <1>4, <2>1, <3>1, <3>2
  <2>3. CASE Receipts(Of[d]) # {}
    <3>1. PICK l \in Receipts(Of[d]) : mine' = [mine EXCEPT ![d] = leads[l].contact] /\ pc' = [pc EXCEPT ![d] = "note"]
      BY <1>6, <2>3 DEF ReadReceipt, Goto
    <3>2. HasPerson(contacts[leads[l].contact], Of[d])
      BY DEF Receipts, WInv, LeadsKnown
    <3>3. pc'[d] = "note" /\ mine'[d] = leads[l].contact
      BY <1>2, <3>1
    <3>4. Checked(d)'
      BY <2>1, <3>2, <3>3 DEF Checked, Merging, MayMerge
    <3>5. QED
      BY <1>2, <1>4, <2>1, <3>1, <3>4
  <2>4. QED
    BY <2>2, <2>3
<1>7. CASE Match(d)
  <2>1. UNCHANGED contacts /\ pc[d] = "match"
    BY <1>7 DEF Match, rows
  <2>2. CASE Remembered(Of[d]) = {} /\ Ambiguous(Of[d])
    <3>1. mine' = mine /\ pc' = [pc EXCEPT ![d] = "failed"]
      BY <1>1, <1>7, <2>2 DEF Match, Goto
    <3>2. Checked(d)'
      BY <1>2, <3>1 DEF Checked, Merging
    <3>3. QED
      BY <1>4, <2>1, <3>1, <3>2
  <2>3. CASE ~(Remembered(Of[d]) = {} /\ Ambiguous(Of[d]))
    <3>1. \A c \in ContactIds : ~Completing(c, Of[d])
      BY <1>3, <2>1 DEF Completing, Inside
    <3>2. /\ Candidates(Of[d]) = {} => \A b \in ContactIds : ~Two(Matching(Of[d], b))
          /\ \A c \in Candidates(Of[d]) : c \in ContactIds /\ MayMerge(Of[d], c)
      BY <1>1, <2>3, <3>1, MatchedWell
    <3>3. CASE Candidates(Of[d]) = {}
      <4>1. mine' = mine /\ pc' = [pc EXCEPT ![d] = "contact"]
        BY <1>7, <2>3, <3>3 DEF Match, Goto
      <4>2. pc'[d] = "contact"
        BY <1>2, <4>1
      <4>3. Checked(d)'
        BY <2>1, <3>2, <3>3, <4>2 DEF Checked, Merging, ContactIds, Matching
      <4>4. QED
        BY <1>4, <2>1, <4>1, <4>3
    <3>4. CASE Candidates(Of[d]) # {}
      <4>1. PICK c \in Candidates(Of[d]) : mine' = [mine EXCEPT ![d] = c] /\ pc' = [pc EXCEPT ![d] = "note"]
        BY <1>7, <2>3, <3>4 DEF Match, Goto
      <4>2. pc'[d] = "note" /\ mine'[d] = c /\ \A e \in Deliveries : e # d => mine'[e] = mine[e]
        BY <1>2, <4>1
      <4>3. MayMerge(Of[d], c)'
        BY <2>1, <3>2 DEF MayMerge, Alone, ContactIds, Undisturbed
      <4>4. Checked(d)'
        BY <4>2, <4>3 DEF Checked, Merging, MayMerge, Alone, ContactIds
      <4>5. QED
        BY <1>4, <2>1, <4>1, <4>2, <4>4
    <3>5. QED
      BY <3>3, <3>4
  <2>4. QED
    BY <2>2, <2>3
<1>8. CASE FindRecent(d)
  <2>1. UNCHANGED <<contacts, mine>> /\ pc[d] = "recent" /\ pc' = [pc EXCEPT ![d] = "enrich"]
    BY <1>8 DEF FindRecent, Goto, rows
  <2>2. MayMerge(Of[d], mine[d]) /\ pc'[d] = "enrich"
    BY <1>1, <1>2, <2>1 DEF Checked, Merging
  <2>3. Checked(d)'
    BY <2>1, <2>2 DEF Checked, Merging, MayMerge, Alone, ContactIds, Undisturbed
  <2>4. QED
    BY <1>4, <2>1, <2>3
<1>9. CASE Note(d)
  <2> DEFINE c == contacts[mine[d]]
             x == WithNote(c, Of[d])
  <2>1. PICK w \in {"remember", "enrich"} :
          pc[d] = "note" /\ contacts' = [contacts EXCEPT ![mine[d]] = x] /\ mine' = mine /\ pc' = [pc EXCEPT ![d] = w]
    BY <1>9 DEF Note, Goto
  <2>2. mine[d] \in ContactIds /\ c \in Contact /\ MayMerge(Of[d], mine[d])
    BY <1>1, <2>1, RowOfId DEF WInv, AInv, CInv, LInv, Placed, Checked, Merging
  <2>3. x \in Contact /\ Grows(c, x)
    BY <1>1, <2>2, WithNoteTyped, NotedGrows
  <2>4. x.name = c.name /\ x.emails = c.emails /\ x.phones = c.phones /\ x.key = c.key /\ x.receipts = c.receipts
    BY <2>2 DEF WithNote, Contact
  <2>5. Undisturbed => \A s \in c.receipts : HasPerson(c, s)
    BY <1>3, <2>1, <2>2 DEF WInv, ReceiptsKnown, Completing, Inside
  <2> HIDE DEF x
  <2>6. Undisturbed => \A s \in x.receipts : HasPerson(x, s)
    BY <2>4, <2>5 DEF HasPerson
  <2>7. \A b \in ContactIds : Agree(x, contacts[b]) = Agree(c, contacts[b])
    BY <2>4 DEF Agree, Agreement
  <2>8. QED
    BY <2>1, <2>2, <2>3, <2>4, <2>6, <2>7, OneWritten DEF Inside
<1>10. CASE Remember(d)
  <2> DEFINE c == contacts[mine[d]]
             x == [c EXCEPT !.receipts = @ \cup {Of[d]}]
  <2>1. pc[d] = "remember" /\ mine' = mine /\ pc' = [pc EXCEPT ![d] = "recent"]
    BY <1>10 DEF Remember, Goto
  <2>2. mine[d] \in ContactIds /\ c \in Contact /\ MayMerge(Of[d], mine[d])
    BY <1>1, <2>1, RowOfId DEF WInv, AInv, CInv, LInv, Placed, Checked, Merging
  <2>3. CASE Of[d] \in Keyed /\ seen[d].key # Of[d]
    <3>1. contacts' = [contacts EXCEPT ![mine[d]] = x]
      BY <1>10, <2>3 DEF Remember
    <3>2. /\ x \in Contact /\ x.name = c.name /\ x.emails = c.emails /\ x.phones = c.phones /\ x.key = c.key
          /\ x.receipts = c.receipts \cup {Of[d]} /\ x.notes = c.notes /\ x.noteKeys = c.noteKeys
      BY <2>2, <2>3 DEF Contact
    <3> HIDE DEF x
    <3>3. Grows(c, x) /\ \A b \in ContactIds : Agree(x, contacts[b]) = Agree(c, contacts[b])
      BY <3>2 DEF Grows, Agree, Agreement
    <3>4. QED
      BY <2>1, <2>2, <3>1, <3>2, <3>3, OneWritten DEF Inside
  <2>4. CASE ~(Of[d] \in Keyed /\ seen[d].key # Of[d])
    <3>1. UNCHANGED contacts /\ pc'[d] = "recent"
      BY <1>2, <1>10, <2>1, <2>4 DEF Remember
    <3>2. Checked(d)'
      BY <2>1, <2>2, <3>1 DEF Checked, Merging, MayMerge, Alone, ContactIds, Undisturbed
    <3>3. QED
      BY <1>4, <2>1, <3>1, <3>2
  <2>5. QED
    BY <2>3, <2>4
<1>11. CASE Enrich(d)
  <2> DEFINE c == contacts[mine[d]]
             x == Enriched(c, c, Of[d])
  <2>1. /\ pc[d] = "enrich" /\ contacts' = [contacts EXCEPT ![mine[d]] = x] /\ mine' = mine
        /\ \E w \in {"capture", "sign", "lead"} : pc' = [pc EXCEPT ![d] = w]
    BY <1>1, <1>11 DEF Enrich, Goto, CopyIsRow, HasCopy
  <2>2. mine[d] \in ContactIds /\ c \in Contact /\ MayMerge(Of[d], mine[d])
    BY <1>1, <2>1, RowOfId DEF WInv, AInv, CInv, LInv, Placed, Checked, Merging
  <2>3. x \in Contact /\ Grows(c, x) /\ HasPerson(x, Of[d])
    BY <1>1, <2>2, EnrichedTyped, EnrichedGrows
  <2>4. x.key = c.key /\ x.receipts = c.receipts
    BY <2>2 DEF Enriched, Contact
  <2>5. ASSUME NEW b \in ContactIds \ {mine[d]}
        PROVE  Agree(x, contacts[b]) = Agree(c, contacts[b]) \/ Explained(x, contacts[b])
    <3>1. SUFFICES ASSUME Agree(x, contacts[b]) # Agree(c, contacts[b]) PROVE Explained(x, contacts[b])
      OBVIOUS
    <3>2. Reaches(Of[d], contacts[b]) /\ ~HasPerson(c, Of[d])
      BY <1>1, <2>2, <3>1, EnrichedAgrees
    <3>3. ~Undisturbed /\ Of[d] \in x.receipts
      BY <2>2, <2>4, <3>2 DEF MayMerge, Alone
    <3>4. QED
      BY <3>2, <3>3 DEF Explained, ByReceipt
  <2> HIDE DEF x
  <2>6. QED
    BY <2>1, <2>2, <2>3, <2>4, <2>5, OneWritten DEF Inside
<1>12. CASE CreateContact(d)
  <2> DEFINE x == NewContact(Of[d])
             c == Len(contacts) + 1
  <2>1. /\ pc[d] = "contact" /\ pc' = [pc EXCEPT ![d] = "lead"] /\ contacts' = Append(contacts, x)
        /\ mine' = [mine EXCEPT ![d] = c]
    BY <1>12 DEF CreateContact, Goto
  <2>2. /\ x \in Contact /\ HasPerson(x, Of[d]) /\ x.receipts = {} /\ x.key \in {None, Of[d]}
        /\ \A b \in ContactIds : Agree(x, contacts[b]) = Matching(Of[d], b)
    BY <1>1, NewContactTyped, NewContactHas DEF NewContact, Agree, Matching
  <2> HIDE DEF x
  <2>3. /\ ContactIds' = ContactIds \cup {c} /\ contacts'[c] = x /\ c \notin ContactIds
        /\ \A b \in ContactIds : contacts'[b] = contacts[b]
    <3>1. ContactIds = 1..Len(contacts) /\ Len(contacts) \in Nat
      BY LenProperties DEF WInv, AInv, CInv, LInv, TInv, TypeOK, ContactIds
    <3>2. QED
      BY <2>1, <2>2, <3>1, Appended DEF WInv, AInv, CInv, LInv, TInv, TypeOK, ContactIds
  <2> HIDE DEF c
  <2>4. \A e \in Deliveries : IF e = d THEN pc'[e] = "lead" ELSE pc'[e] = pc[e] /\ mine'[e] = mine[e] /\ pc[e] \notin Inside
    BY <1>2, <2>1, OnlyCopy DEF WInv, AInv, CInv, Inside
  <2>5. \A e \in Deliveries : Checked(e)'
    BY <2>4 DEF Checked, Merging, Inside
  <2>6. KeysKnown'
    BY <2>2, <2>3 DEF WInv, KeysKnown
  <2>7. ReceiptsKnown'
    <3>1. \A b \in ContactIds : \A s : ~Completing(b, s)
      BY <1>3, <2>1 DEF Completing, Inside
    <3>2. QED
      BY <2>2, <2>3, <3>1 DEF WInv, ReceiptsKnown, Undisturbed
  <2>8. \A b \in ContactIds : ~Two(Agree(x, contacts[b])) /\ ~Two(Agree(contacts[b], x))
    BY <1>1, <2>1, <2>2, AgreeBothWays DEF Checked
  <2>9. TwinsExplained'
    <3> SUFFICES ASSUME NEW a \in ContactIds', NEW b \in ContactIds', a # b, Two(Agree(contacts'[a], contacts'[b]))
                 PROVE  Explained(contacts'[a], contacts'[b])
      BY DEF TwinsExplained, Explained, Undisturbed
    <3>1. a \in ContactIds /\ b \in ContactIds
      BY <2>3, <2>8
    <3>2. QED
      BY <2>3, <3>1 DEF WInv, TwinsExplained
  <2>10. QED
    BY <2>5, <2>6, <2>7, <2>9 DEF ContactsKnown
<1>13. QED
  BY <1>5, <1>6, <1>7, <1>8, <1>9, <1>10, <1>11, <1>12 DEF Step

LEMMA WNext ==
  ASSUME MaxLosses = 0, TwoField = Submissions, WInv, [Next]_vars
  PROVE  WInv'
<1>1. AInv' /\ NothingLost
  BY ANext, NothingLostNext DEF WInv, AInv
<1>2. LeadsKnown'
  BY <1>1, LeadsKnownNext DEF WInv
<1>3. ASSUME NEW d \in Deliveries, Step(d) PROVE ContactsKnown'
  BY <1>3, WStep
<1>4. ASSUME \/ (\E d \in Deliveries : Fail(d)) \/ (\E p \in Processes : Crash(p)) \/ LoseSession
             \/ (\E l \in LeadIds : Recede(l)) \/ UNCHANGED vars
      PROVE  ContactsKnown'
  <2>1. UNCHANGED <<contacts, mine>> /\ \A d \in Deliveries : pc'[d] \in {pc[d], "failed"}
    BY <1>4 DEF Fail, Crash, LoseSession, Recede, Goto, vars, rows, local, WInv, AInv, CInv, LInv, TInv, TypeOK
  <2>2. Undisturbed => \A d \in Deliveries : pc'[d] = pc[d]
    <3>1. faults \in 0..MaxFaults /\ crashes \in 0..MaxCrashes
      BY DEF WInv, AInv, CInv, LInv, TInv, TypeOK
    <3>2. Undisturbed => ~(\E d \in Deliveries : Fail(d)) /\ ~(\E p \in Processes : Crash(p))
      BY <3>1 DEF Undisturbed, Fail, Crash
    <3>3. QED
      BY <1>4, <3>2 DEF LoseSession, Recede, vars, local
  <2>3. \A d \in Deliveries : pc'[d] = "failed" => Checked(d)'
    BY DEF Checked, Merging
  <2>4. \A e \in Deliveries :
           \/ pc'[e] = pc[e] /\ mine'[e] = mine[e]
           \/ /\ Checked(e)'
              /\ Undisturbed /\ pc[e] \in {"recent", "enrich"} => pc'[e] = "enrich" /\ mine'[e] = mine[e]
    BY <2>1, <2>2, <2>3
  <2>5. QED
    BY <2>1, <2>4, NoneWritten
<1>5. ContactsKnown'
  BY <1>3, <1>4 DEF Next, AllEnded
<1>6. QED
  BY <1>1, <1>2, <1>5 DEF WInv, ContactsKnown

LEMMA WInit == Init => WInv
<1> SUFFICES ASSUME Init PROVE WInv
  OBVIOUS
<1>1. ContactIds = {} /\ LeadIds = {}
  BY EmptySeq, LenProperties DEF Init, ContactIds, LeadIds
<1>2. \A d \in Deliveries : Checked(d)
  BY DEF Init, Checked, Merging
<1>3. QED
  BY <1>1, <1>2, AInit DEF WInv, KeysKnown, LeadsKnown, ReceiptsKnown, TwinsExplained

LEMMA WInvariant ==
  ASSUME MaxLosses = 0, TwoField = Submissions
  PROVE  Spec => []WInv
<1>1. WInv /\ [Next]_vars => WInv'
  BY WNext
<1>2. QED
  BY <1>1, WInit, PTL DEF Spec

(* Two contacts that agree in two identity fields.                         *)
AreTwins(b, c) ==
  b # c /\ Cardinality(Agreement(contacts[b].name, contacts[b].emails, contacts[b].phones, contacts[c])) >= 2

LEMMA TwinsHaveReason ==
  ASSUME WInv, NEW b \in ContactIds, NEW c \in ContactIds, AreTwins(b, c)
  PROVE  Explained(contacts[b], contacts[c])
<1>1. Two(Agree(contacts[b], contacts[c]))
  BY FewFields, TwoCard DEF AreTwins, Agree
<1>2. QED
  BY <1>1 DEF AreTwins, WInv, TwinsExplained

(* However deliveries fail and crash, two contacts of a contractor agree   *)
(* in two fields only if one remembers a submission whose e-mail or phone  *)
(* the other one has: the retry of an interrupted delivery, which follows  *)
(* the receipt past the matcher's look at the other contacts, is the only  *)
(* way to them, if every caller takes the lock and keeps it.               *)
TwinsOnlyByReceipt ==
  \A b, c \in ContactIds : AreTwins(b, c) => ByReceipt(contacts[b], contacts[c]) \/ ByReceipt(contacts[c], contacts[b])

THEOREM TwinsOnlyByReceiptCorrect ==
  ASSUME MaxLosses = 0, TwoField = Submissions
  PROVE  Spec => []TwinsOnlyByReceipt
<1>1. WInv => TwinsOnlyByReceipt
  BY TwinsHaveReason DEF TwinsOnlyByReceipt, Explained
<1>2. QED
  BY <1>1, WInvariant, PTL

(* If no delivery fails or crashes there are no twins: the matcher of      *)
(* ingestLead finds the one contact that agrees with a person, or refuses. *)
THEOREM NoTwinsCorrect ==
  ASSUME MaxLosses = 0, TwoField = Submissions, MaxFaults = 0, MaxCrashes = 0
  PROVE  Spec => []NoTwins
<1>1. WInv => NoTwins
  <2> SUFFICES ASSUME WInv, NEW b \in ContactIds, NEW c \in ContactIds, b # c,
                      ~(Cardinality(Agree(contacts[b], contacts[c])) < 2)
               PROVE  FALSE
    BY DEF NoTwins, Agree
  <2>1. Cardinality(Agree(contacts[b], contacts[c])) \in Nat
    BY FewFields, FS_CardinalityType DEF Agree
  <2>2. AreTwins(b, c)
    BY <2>1 DEF AreTwins, Agree
  <2>3. QED
    BY <2>2, TwinsHaveReason DEF Explained, Undisturbed
<1>2. QED
  BY <1>1, WInvariant, PTL

-----------------------------------------------------------------------------
(***************************************************************************)
(* Notes.  The note of a keyed submission is written before the receipt,   *)
(* so that a delivery that ends in between leaves a note without one.  The *)
(* retry still comes to the same contact: who bears the note is remembered *)
(* or agrees with the person in two fields (BearersFound), whom the        *)
(* contact remembers has left a note there (RememberedBear), and a         *)
(* delivery about to write one knows of no bearer but its own (Noting).    *)
(***************************************************************************)
Bearers(s) == {c \in ContactIds : HasNote(contacts[c], s)}
Finds(s, c) == c \in Remembered(s) \/ Two(Matching(s, c))
Noting(d, s) ==
  Of[d] = s =>
    /\ pc[d] = "note" => Bearers(s) \subseteq {mine[d]} /\ Finds(s, mine[d])
    /\ pc[d] = "contact" => Bearers(s) = {}
Once(s) ==
  /\ \A c \in Bearers(s) : Finds(s, c)
  /\ \A b, c \in Bearers(s) : b = c
  /\ Remembered(s) \subseteq Bearers(s)
  /\ \A d \in Deliveries : Noting(d, s)
BearInv == WInv /\ \A s \in Keyed \cap Noted : Once(s)

(* Whose notes the row builders add.                                       *)
LEMMA NoteAdds ==
  ASSUME NEW c \in Contact, NEW t \in Submissions, NEW s \in Keyed
  PROVE  /\ HasNote(WithNote(c, t), s) => HasNote(c, s) \/ s = t
         /\ HasNote(Enriched(c, c, t), s) => HasNote(c, s)
         /\ HasNote(NewContact(t), s) => s = t
<1>1. c.notes \in Seq(Submissions)
  BY DEF Contact
<1>2. \A i \in DOMAIN Append(c.notes, t) : Append(c.notes, t)[i] = s => HasNote(c, s) \/ s = t
  BY <1>1, AppendedNote DEF HasNote
<1>3. WithNote(c, t).notes \in {c.notes, Append(c.notes, t)}
  BY DEF WithNote, Contact
<1>4. Enriched(c, c, t).notes = IF t \in Noted \ Keyed THEN Append(c.notes, t) ELSE c.notes
  BY DEF Enriched, Contact
<1>5. \A i \in DOMAIN NewContact(t).notes : NewContact(t).notes[i] = t
  BY DEF NewContact
<1>6. QED
  BY <1>2, <1>3, <1>4, <1>5 DEF HasNote

(* Agreement only grows with a row that keeps its name.                    *)
LEMMA MatchGrows ==
  ASSUME NEW name, NEW emails, NEW phones, NEW c, NEW x, Grows(c, x), x.name = c.name,
         Two(Agreement(name, emails, phones, c))
  PROVE  Two(Agreement(name, emails, phones, x))
<1>1. Agreement(name, emails, phones, c) \subseteq Agreement(name, emails, phones, x)
  BY DEF Agreement, Grows
<1>2. QED
  BY <1>1 DEF Two

(* What a step of a delivery does to the names, receipts and notes of the  *)
(* contacts there are.                                                     *)
Touched(d, c) ==
  /\ contacts'[c].name = contacts[c].name /\ contacts'[c].key = contacts[c].key
  /\ \/ contacts'[c].receipts = contacts[c].receipts
     \/ pc[d] = "remember" /\ c = mine[d] /\ contacts'[c].receipts = contacts[c].receipts \cup {Of[d]}
  /\ \A s \in Keyed :
       HasNote(contacts'[c], s) => \/ HasNote(contacts[c], s)
                                   \/ pc[d] = "note" /\ c = mine[d] /\ s = Of[d]

LEMMA TouchedByStep ==
  ASSUME AInv, NEW d \in Deliveries, Step(d), NEW c \in ContactIds
  PROVE  Touched(d, c)
<1>1. Placed(d) /\ CopyIsRow(d) /\ Of[d] \in Submissions /\ contacts[c] \in Contact
  BY OwnReferences, RowOfId, IntakeAssumption DEF AInv, CInv, LInv
<1>2. \A x : contacts' = [contacts EXCEPT ![mine[d]] = x] => contacts'[c] = IF c = mine[d] THEN x ELSE contacts[c]
  BY DEF AInv, CInv, LInv, TInv, TypeOK, ContactIds
<1>3. CASE contacts'[c] = contacts[c]
  BY <1>3 DEF Touched
<1>4. CASE Note(d)
  <2> DEFINE x == WithNote(contacts[mine[d]], Of[d])
  <2>1. pc[d] = "note" /\ contacts' = [contacts EXCEPT ![mine[d]] = x]
    BY <1>4 DEF Note
  <2>2. CASE c = mine[d]
    <3>1. contacts'[c] = WithNote(contacts[c], Of[d])
      BY <1>2, <2>1, <2>2
    <3>2. LET y == WithNote(contacts[c], Of[d])
          IN  y.name = contacts[c].name /\ y.key = contacts[c].key /\ y.receipts = contacts[c].receipts
      BY <1>1 DEF WithNote, Contact
    <3>3. QED
      BY <1>1, <2>1, <2>2, <3>1, <3>2, NoteAdds DEF Touched
  <2>3. QED
    BY <1>2, <1>3, <2>1, <2>2
<1>5. CASE Remember(d)
  <2>1. CASE Of[d] \in Keyed /\ seen[d].key # Of[d]
    <3> DEFINE x == [contacts[mine[d]] EXCEPT !.receipts = @ \cup {Of[d]}]
    <3>1. pc[d] = "remember" /\ contacts' = [contacts EXCEPT ![mine[d]] = x]
      BY <1>5, <2>1 DEF Remember
    <3>2. CASE c = mine[d]
      <4>1. contacts'[c] = x
        BY <1>2, <3>1, <3>2
      <4>2. /\ x.name = contacts[c].name /\ x.key = contacts[c].key /\ x.notes = contacts[c].notes
            /\ x.receipts = contacts[c].receipts \cup {Of[d]}
        BY <1>1, <3>2 DEF Contact
      <4>3. QED
        BY <3>1, <3>2, <4>1, <4>2 DEF Touched, HasNote
    <3>3. QED
      BY <1>2, <1>3, <3>1, <3>2
  <2>2. CASE ~(Of[d] \in Keyed /\ seen[d].key # Of[d])
    BY <1>3, <1>5, <2>2 DEF Remember
  <2>3. QED
    BY <2>1, <2>2
<1>6. CASE Enrich(d)
  <2> DEFINE x == Enriched(contacts[mine[d]], contacts[mine[d]], Of[d])
  <2>1. pc[d] = "enrich" /\ contacts' = [contacts EXCEPT ![mine[d]] = x]
    BY <1>1, <1>6 DEF Enrich, CopyIsRow, HasCopy
  <2>2. CASE c = mine[d]
    <3>1. contacts'[c] = Enriched(contacts[c], contacts[c], Of[d])
      BY <1>2, <2>1, <2>2
    <3>2. LET y == Enriched(contacts[c], contacts[c], Of[d])
          IN  y.name = contacts[c].name /\ y.key = contacts[c].key /\ y.receipts = contacts[c].receipts
      BY <1>1 DEF Enriched, Contact
    <3>3. QED
      BY <1>1, <3>1, <3>2, NoteAdds DEF Touched
  <2>3. QED
    BY <1>2, <1>3, <2>1, <2>2
<1>7. CASE CreateContact(d)
  <2>1. contacts' = Append(contacts, NewContact(Of[d]))
    BY <1>7 DEF CreateContact
  <2>2. contacts'[c] = contacts[c]
    BY <1>1, <2>1, NewContactTyped, Appended DEF AInv, CInv, LInv, TInv, TypeOK, ContactIds
  <2>3. QED
    BY <1>3, <2>2
<1>8. CASE ~(Note(d) \/ Remember(d) \/ Enrich(d) \/ CreateContact(d))
  <2>1. UNCHANGED contacts
    BY <1>8 DEF Step, Begin, ReadReceipt, Match, FindRecent, Sign, Conflict, CreateLead, LookForCapture, Capture,
                Release, StartEffects, rows
  <2>2. QED
    BY <1>3, <2>1
<1>9. QED
  BY <1>4, <1>5, <1>6, <1>7, <1>8

-----------------------------------------------------------------------------
(* The matcher leads a delivery to the one who bears its note.             *)
LEMMA MatchedToBearer ==
  ASSUME BearInv, NEW s \in Keyed \cap Noted, Remembered(s) # {} \/ ~Ambiguous(s)
  PROVE  /\ Candidates(s) = {} => Bearers(s) = {}
         /\ \A c \in Candidates(s) : Bearers(s) \subseteq {c} /\ Finds(s, c)
<1>1. Once(s) /\ s \in TwoField
  BY IntakeAssumption DEF BearInv
<1>2. CASE Remembered(s) # {}
  BY <1>1, <1>2 DEF Candidates, Once, Finds
<1>3. CASE Remembered(s) = {}
  <2>1. \A c \in Bearers(s) : c \in ContactIds /\ Two(Matching(s, c))
    BY <1>1, <1>3 DEF Once, Finds, Bearers
  <2>2. Candidates(s) = IF FieldCount(s) < 2 THEN {} ELSE TwoFieldOwners(s)
    BY <1>1, <1>3 DEF Candidates, Owners
  <2>3. \A c \in TwoFieldOwners(s) : c \in ContactIds /\ Two(Matching(s, c))
    BY FewFields, TwoCard DEF TwoFieldOwners, Matching
  <2>4. ASSUME NEW b \in Bearers(s) PROVE b \in Candidates(s)
    <3>1. FieldCount(s) >= 2 /\ FieldCount(s) \in Nat
      BY <2>1, TwoOfTwo, FieldsCounted
    <3>2. Cardinality(Matching(s, b)) >= 2
      BY <2>1, FewFields, TwoCard DEF Matching
    <3>3. QED
      BY <2>1, <2>2, <3>1, <3>2 DEF TwoFieldOwners
  <2>5. ASSUME NEW b \in Bearers(s), NEW c \in Candidates(s) PROVE b = c
    <3>1. SUFFICES ASSUME b # c PROVE FALSE
      OBVIOUS
    <3>2. Alone(s, b)
      BY <1>3, <2>1, OneOwner DEF BearInv, WInv, AInv, CInv, LInv
    <3>3. c \in ContactIds /\ Two(Matching(s, c))
      BY <2>2, <2>3
    <3>4. Reaches(s, contacts[c])
      BY <3>3, TwoIsStrong, StrongReaches
    <3>5. QED
      BY <3>1, <3>2, <3>3, <3>4 DEF Alone
  <2>6. QED
    BY <2>2, <2>3, <2>4, <2>5 DEF Finds
<1>4. QED
  BY <1>2, <1>3

-----------------------------------------------------------------------------
LEMMA OnceKept ==
  ASSUME BearInv, UNCHANGED contacts, NEW s \in Keyed \cap Noted,
         \A e \in Deliveries : (pc'[e] = pc[e] /\ mine'[e] = mine[e]) \/ Noting(e, s)'
  PROVE  Once(s)'
<1>1. Bearers(s)' = Bearers(s) /\ Remembered(s)' = Remembered(s) /\ \A c : Finds(s, c)' <=> Finds(s, c)
  BY DEF Bearers, Remembered, Finds, Matching, ContactIds
<1>2. Once(s)
  BY DEF BearInv
<1>3. \A e \in Deliveries : Noting(e, s)'
  BY <1>1, <1>2 DEF Once, Noting
<1>4. QED
  BY <1>1, <1>2, <1>3 DEF Once

LEMMA OnceStep ==
  ASSUME TwoField = Submissions, BearInv, NothingLost, NEW d \in Deliveries, Step(d), NEW s \in Keyed \cap Noted
  PROVE  Once(s)'
<1>1. /\ pc[d] \in Steps /\ Placed(d) /\ OnPath(d) /\ Of[d] \in Submissions /\ Of[d] \in TwoField
      /\ Of[d] \in Keyed => Done(d)
      /\ Once(s)
  BY OwnReferences, IntakeAssumption DEF BearInv, WInv, AInv, CInv, LInv, TInv, TypeOK
<1>2. pc \in [Deliveries -> Steps] /\ mine \in [Deliveries -> OptionalOf(ContactIds)]
  BY DEF BearInv, WInv, AInv, CInv, LInv, TInv, TypeOK
<1>3. ASSUME UNCHANGED contacts, NEW w, pc' = [pc EXCEPT ![d] = w], \A e \in Deliveries : e # d => mine'[e] = mine[e],
             Noting(d, s)'
      PROVE  Once(s)'
  BY <1>2, <1>3, OnceKept
<1>4. CASE Begin(d) \/ Conflict(d) \/ Sign(d) \/ CreateLead(d) \/ LookForCapture(d) \/ Capture(d) \/ Release(d)
           \/ StartEffects(d) \/ FindRecent(d)
  <2>1. PICK w \in {"receipt", "match", "idle", "failed", "enrich", "capture", "insert", "release", "effects", "answered"} :
          pc' = [pc EXCEPT ![d] = w]
    BY <1>4 DEF Begin, Conflict, Sign, CreateLead, LookForCapture, Capture, Release, StartEffects, FindRecent, Goto
  <2>2. UNCHANGED <<contacts, mine>>
    BY <1>4 DEF Begin, Conflict, Sign, CreateLead, LookForCapture, Capture, Release, StartEffects, FindRecent, rows
  <2>3. Noting(d, s)'
    BY <1>2, <2>1 DEF Noting
  <2>4. QED
    BY <1>3, <2>1, <2>2, <2>3
<1>5. CASE ReadReceipt(d)
  <2>1. UNCHANGED <<contacts, leads>>
    BY <1>5 DEF ReadReceipt, rows
  <2>2. CASE Receipts(Of[d]) = {}
    <3>1. mine' = mine /\ pc' = [pc EXCEPT ![d] = "match"]
      BY <1>5, <2>2 DEF ReadReceipt, Goto
    <3>2. Noting(d, s)'
      BY <1>2, <3>1 DEF Noting
    <3>3. QED
      BY <1>3, <2>1, <3>1, <3>2
  <2>3. CASE Receipts(Of[d]) # {}
    <3>1. PICK l \in Receipts(Of[d]) : mine' = [mine EXCEPT ![d] = leads[l].contact] /\ pc' = [pc EXCEPT ![d] = "note"]
      BY <1>5, <2>3 DEF ReadReceipt, Goto
    <3>2. pc'[d] = "note" /\ mine'[d] = leads[l].contact /\ \A e \in Deliveries : e # d => mine'[e] = mine[e]
      BY <1>2, <3>1
    <3>3. Of[d] = s => leads[l].contact \in Bearers(s)
      <4>1. l \in LeadIds /\ leads[l].contact \in ContactIds /\ Of[d] \in leads[l].keys
        BY DEF Receipts, BearInv, WInv, AInv, CInv, LInv, TInv, LeadsPlaced
      <4>2. QED
        BY <4>1 DEF BearInv, WInv, LeadsKnown, Bearers
    <3>4. Of[d] = s => Bearers(s) \subseteq {leads[l].contact} /\ Finds(s, leads[l].contact)
      BY <1>1, <3>3 DEF Once
    <3>5. Noting(d, s)'
      BY <2>1, <3>2, <3>4 DEF Noting, Bearers, Finds, Remembered, Matching, ContactIds
    <3>6. QED
      BY <1>3, <2>1, <3>1, <3>2, <3>5
  <2>4. QED
    BY <2>2, <2>3
<1>6. CASE Match(d)
  <2>1. UNCHANGED contacts
    BY <1>6 DEF Match, rows
  <2>2. CASE Remembered(Of[d]) = {} /\ Ambiguous(Of[d])
    <3>1. mine' = mine /\ pc' = [pc EXCEPT ![d] = "failed"]
      BY <1>1, <1>6, <2>2 DEF Match, Goto
    <3>2. Noting(d, s)'
      BY <1>2, <3>1 DEF Noting
    <3>3. QED
      BY <1>3, <2>1, <3>1, <3>2
  <2>3. CASE ~(Remembered(Of[d]) = {} /\ Ambiguous(Of[d]))
    <3>1. Of[d] = s => /\ Candidates(s) = {} => Bearers(s) = {}
                       /\ \A c \in Candidates(s) : Bearers(s) \subseteq {c} /\ Finds(s, c)
      BY <2>3, MatchedToBearer
    <3>2. CASE Candidates(Of[d]) = {}
      <4>1. mine' = mine /\ pc' = [pc EXCEPT ![d] = "contact"]
        BY <1>6, <2>3, <3>2 DEF Match, Goto
      <4>2. pc'[d] = "contact"
        BY <1>2, <4>1
      <4>3. Noting(d, s)'
        BY <2>1, <3>1, <3>2, <4>2 DEF Noting, Bearers, ContactIds
      <4>4. QED
        BY <1>3, <2>1, <4>1, <4>3
    <3>3. CASE Candidates(Of[d]) # {}
      <4>1. PICK c \in Candidates(Of[d]) : mine' = [mine EXCEPT ![d] = c] /\ pc' = [pc EXCEPT ![d] = "note"]
        BY <1>6, <2>3, <3>3 DEF Match, Goto
      <4>2. pc'[d] = "note" /\ mine'[d] = c /\ \A e \in Deliveries : e # d => mine'[e] = mine[e]
        BY <1>2, <4>1
      <4>3. Noting(d, s)'
        BY <2>1, <3>1, <4>2 DEF Noting, Bearers, Finds, Remembered, Matching, ContactIds
      <4>4. QED
        BY <1>3, <2>1, <4>1, <4>2, <4>3
    <3>4. QED
      BY <3>2, <3>3
  <2>4. QED
    BY <2>2, <2>3
<1>7. \A c \in ContactIds : c \in ContactIds' /\ Touched(d, c) /\ Grows(contacts[c], contacts'[c])
  BY TouchedByStep DEF BearInv, WInv, NothingLost, RowsGrow
<1>8. ASSUME NEW c \in ContactIds PROVE Finds(s, c) => Finds(s, c)'
  <2>1. c \in Remembered(s) => c \in Remembered(s)'
    BY <1>7 DEF Remembered, Touched
  <2>2. Two(Matching(s, c)) => Two(Matching(s, c)')
    <3>1. contacts'[c].name = contacts[c].name /\ Grows(contacts[c], contacts'[c])
      BY <1>7 DEF Touched
    <3>2. QED
      BY <3>1, MatchGrows DEF Matching
  <2>3. QED
    BY <2>1, <2>2 DEF Finds, Two
<1>9. \A c \in ContactIds : c \in Bearers(s) => c \in Bearers(s)'
  BY <1>7, GrownHas DEF Bearers
<1>10. \A c \in ContactIds : c \in Bearers(s)' => c \in Bearers(s) \/ (pc[d] = "note" /\ c = mine[d] /\ Of[d] = s)
  BY <1>7 DEF Bearers, Touched
<1>11. \A c \in ContactIds : c \in Remembered(s)' => c \in Remembered(s) \/ (pc[d] = "remember" /\ c = mine[d] /\ Of[d] = s)
  BY <1>7 DEF Remembered, Touched
<1>12. CASE Note(d) \/ Remember(d) \/ Enrich(d)
  <2>1. /\ pc[d] \in {"note", "remember", "enrich"} /\ mine' = mine
        /\ \E w \in {"remember", "recent", "capture", "sign", "lead", "enrich"} : pc' = [pc EXCEPT ![d] = w]
    BY <1>12 DEF Note, Remember, Enrich, Goto
  <2>2. ContactIds' = ContactIds
    BY <1>12 DEF Note, Remember, Enrich, ContactIds, BearInv, WInv, AInv, CInv, LInv, TInv, TypeOK
  <2>3. mine[d] \in ContactIds
    BY <1>1, <2>1 DEF Placed
  <2>4. \A c \in Bearers(s)' : c \in ContactIds
    BY <2>2 DEF Bearers
  <2>5. \A e \in Deliveries : Noting(e, s)'
    <3> SUFFICES ASSUME NEW e \in Deliveries PROVE Noting(e, s)'
      OBVIOUS
    <3>1. e # d => pc[e] \notin Inside /\ pc'[e] = pc[e]
      BY <1>2, <2>1, OnlyCopy DEF Inside, BearInv, WInv, AInv, CInv
    <3>2. pc'[d] \in {"remember", "recent", "capture", "sign", "lead", "enrich"}
      BY <1>2, <2>1
    <3>3. QED
      BY <3>1, <3>2 DEF Noting, Inside
  <2>6. pc[d] = "note" /\ Of[d] = s => Bearers(s) \subseteq {mine[d]} /\ Finds(s, mine[d])
    BY <1>1 DEF Once, Noting
  <2>7. \A c \in Bearers(s)' : Finds(s, c)'
    BY <1>1, <1>8, <1>10, <2>4, <2>6 DEF Once
  <2>8. \A b, c \in Bearers(s)' : b = c
    BY <1>1, <1>10, <2>4, <2>6 DEF Once
  <2>9. Remembered(s)' \subseteq Bearers(s)'
    <3> SUFFICES ASSUME NEW c \in Remembered(s)' PROVE c \in Bearers(s)'
      OBVIOUS
    <3>1. c \in ContactIds
      BY <2>2 DEF Remembered
    <3>2. CASE c \in Remembered(s)
      BY <1>1, <1>9, <3>1, <3>2 DEF Once
    <3>3. CASE pc[d] = "remember" /\ c = mine[d] /\ Of[d] = s
      <4>1. HasNote(contacts[c], s)
        BY <1>1, <3>3 DEF Done, HasCopy
      <4>2. QED
        BY <1>9, <3>1, <4>1 DEF Bearers
    <3>4. QED
      BY <1>11, <3>1, <3>2, <3>3
  <2>10. QED
    BY <2>5, <2>7, <2>8, <2>9 DEF Once
<1>13. CASE CreateContact(d)
  <2> DEFINE x == NewContact(Of[d])
             n == Len(contacts) + 1
  <2>1. /\ pc[d] = "contact" /\ pc' = [pc EXCEPT ![d] = "lead"] /\ contacts' = Append(contacts, x)
    BY <1>13 DEF CreateContact, Goto
  <2>2. /\ x \in Contact /\ x.receipts = {} /\ x.key = (IF Of[d] \in Keyed THEN Of[d] ELSE None)
        /\ HasNote(x, s) <=> Of[d] = s
    <3>1. x \in Contact
      BY <1>1, NewContactTyped
    <3>2. Of[d] = s => HasNote(x, s)
      BY <1>1, NewContactHas
    <3>3. HasNote(x, s) => Of[d] = s
      BY DEF NewContact, HasNote
    <3>4. QED
      BY <3>1, <3>2, <3>3 DEF NewContact
  <2> HIDE DEF x
  <2>3. ContactIds' = ContactIds \cup {n} /\ contacts'[n] = x
    BY <2>1, <2>2, Appended DEF BearInv, WInv, AInv, CInv, LInv, TInv, TypeOK, ContactIds
  <2> HIDE DEF n
  <2>4. \A e \in Deliveries : Noting(e, s)'
    <3> SUFFICES ASSUME NEW e \in Deliveries PROVE Noting(e, s)'
      OBVIOUS
    <3>1. e # d => pc[e] \notin Inside /\ pc'[e] = pc[e]
      BY <1>2, <2>1, OnlyCopy DEF Inside, BearInv, WInv, AInv, CInv
    <3>2. pc'[d] = "lead"
      BY <1>2, <2>1
    <3>3. QED
      BY <3>1, <3>2 DEF Noting, Inside
  <2>5. Of[d] = s => Bearers(s) = {}
    BY <1>1, <2>1 DEF Once, Noting
  <2>6. Bearers(s)' = IF Of[d] = s THEN {n} ELSE Bearers(s)
    <3>1. Bearers(s)' \subseteq ContactIds \cup {n} /\ Bearers(s) \subseteq ContactIds
      BY <2>3 DEF Bearers
    <3>2. n \in Bearers(s)' <=> Of[d] = s
      BY <2>2, <2>3 DEF Bearers
    <3>3. \A c \in ContactIds : c \in Bearers(s)' <=> c \in Bearers(s)
      BY <1>9, <1>10, <2>1
    <3>4. n \in ContactIds => (n \in Bearers(s) <=> Of[d] = s)
      BY <3>2, <3>3
    <3>5. QED
      BY <2>5, <3>1, <3>2, <3>3, <3>4
  <2>7. \A c \in Remembered(s)' : c \in Remembered(s) \/ (c = n /\ Of[d] = s)
    <3> SUFFICES ASSUME NEW c \in Remembered(s)' PROVE c \in Remembered(s) \/ (c = n /\ Of[d] = s)
      OBVIOUS
    <3>1. CASE c \in ContactIds
      BY <1>11, <2>1, <3>1
    <3>2. CASE c = n
      BY <2>2, <2>3, <3>2, IntakeAssumption DEF Remembered
    <3>3. QED
      BY <2>3, <3>1, <3>2 DEF Remembered
  <2>8. Of[d] = s => n \in Remembered(s)'
    BY <2>2, <2>3 DEF Remembered
  <2>9. \A c \in Bearers(s)' : Finds(s, c)'
    BY <1>1, <1>8, <2>6, <2>8 DEF Once, Finds, Bearers
  <2>10. /\ \A b, c \in Bearers(s)' : b = c
         /\ Remembered(s)' \subseteq Bearers(s)'
    BY <1>1, <2>5, <2>6, <2>7 DEF Once
  <2>11. QED
    BY <2>4, <2>9, <2>10 DEF Once
<1>14. QED
  BY <1>4, <1>5, <1>6, <1>12, <1>13 DEF Step

LEMMA BearNext ==
  ASSUME MaxLosses = 0, TwoField = Submissions, BearInv, [Next]_vars
  PROVE  BearInv'
<1>1. WInv' /\ NothingLost
  BY WNext, NothingLostNext DEF BearInv, WInv, AInv
<1>2. ASSUME NEW d \in Deliveries, Step(d) PROVE \A s \in Keyed \cap Noted : Once(s)'
  BY <1>1, <1>2, OnceStep
<1>3. ASSUME \/ (\E d \in Deliveries : Fail(d)) \/ (\E p \in Processes : Crash(p)) \/ LoseSession
             \/ (\E l \in LeadIds : Recede(l)) \/ UNCHANGED vars
      PROVE  \A s \in Keyed \cap Noted : Once(s)'
  <2>1. UNCHANGED <<contacts, mine>> /\ \A d \in Deliveries : pc'[d] \in {pc[d], "failed"}
    BY <1>3 DEF Fail, Crash, LoseSession, Recede, Goto, vars, rows, local, BearInv, WInv, AInv, CInv, LInv, TInv, TypeOK
  <2>2. \A s \in Keyed \cap Noted : \A e \in Deliveries : (pc'[e] = pc[e] /\ mine'[e] = mine[e]) \/ Noting(e, s)'
    BY <2>1 DEF Noting
  <2>3. QED
    BY <2>1, <2>2, OnceKept
<1>4. \A s \in Keyed \cap Noted : Once(s)'
  BY <1>2, <1>3 DEF Next, AllEnded
<1>5. QED
  BY <1>1, <1>4 DEF BearInv

LEMMA BearInit == Init => BearInv
<1> SUFFICES ASSUME Init PROVE BearInv
  OBVIOUS
<1>1. ContactIds = {}
  BY EmptySeq, LenProperties DEF Init, ContactIds
<1>2. \A d \in Deliveries, s \in Keyed \cap Noted : Noting(d, s)
  BY DEF Init, Noting
<1>3. QED
  BY <1>1, <1>2, WInit DEF BearInv, Once, Bearers, Remembered

(* The note of a keyed submission stands once in all contacts together,    *)
(* whatever fails or crashes between the note, the receipt and the rest of *)
(* a delivery, if every caller takes the lock and keeps it.                *)
THEOREM NoteOnceCorrect ==
  ASSUME MaxLosses = 0, TwoField = Submissions
  PROVE  Spec => []NoteOnce
<1>1. BearInv /\ NoteOncePerContact /\ NInv => NoteOnce
  <2> SUFFICES ASSUME BearInv, NoteOncePerContact, NInv, NEW s \in Keyed, NEW b \in ContactIds, NEW c \in ContactIds,
                      NEW i \in DOMAIN contacts[b].notes, NEW j \in DOMAIN contacts[c].notes,
                      contacts[b].notes[i] = s, contacts[c].notes[j] = s
               PROVE  b = c /\ i = j
    BY DEF NoteOnce
  <2>1. s \in Noted
    <3>1. s \in contacts[b].noteKeys /\ contacts[b] \in Contact
      BY RowOfId DEF NInv, NotesInOrder
    <3>2. QED
      BY <3>1 DEF Contact
  <2>2. b = c
    BY <2>1 DEF BearInv, Once, Bearers, HasNote
  <2>3. QED
    BY <2>2 DEF NoteOncePerContact
<1>2. BearInv /\ [Next]_vars => BearInv'
  BY BearNext
<1>3. NInv /\ [Next]_vars => NInv'
  BY NNext
<1>4. QED
  BY <1>1, <1>2, <1>3, BearInit, NInit, NoteOncePerContactCorrect, PTL DEF Spec
=============================================================================
