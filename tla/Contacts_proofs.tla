-------------------------- MODULE Contacts_proofs --------------------------
(***************************************************************************)
(* Proofs about the passes that pull leads, Facebook Lead Ads (as FP), the *)
(* lead-capture inbox (as MP) and Google Local Services (as GP), for any   *)
(* number of passes, leads, mails and forms and through every failure; and *)
(* about the bookings, for any number of calls, contacts, dates and        *)
(* salespeople.  Each theorem is about one of them on its own; no two that *)
(* are given the same constants are ever used together.                    *)
(***************************************************************************)
EXTENDS MCContacts, FiniteSetTheorems, SequenceTheorems, TLAPS

CONSTANTS
  Doubtful, Lookback, Delay, PageSize, Clerk, CallerOf, Matched,
  MaxClock, MaxFaults, MaxMissed, MaxArchived, MaxCrashes, MaxRetries, MaxRows, MaxDeletes, MaxDisputes

FP == INSTANCE FacebookPull WITH
        pc <- fpc, since <- fsince, doubtful <- fdoubtful, faults <- ffaults,
        Lead <- FbLead, Caller <- Puller

MP == INSTANCE InboxPull WITH
        pc <- mpc, todo <- mtodo, faults <- mfaults, crashes <- mcrashes, Pass <- Puller

GP == INSTANCE GlsPull WITH
        pc <- gpc, found <- gfound, faults <- gfaults, crashes <- gcrashes,
        Pass <- Puller, Caller <- CallerOf

-----------------------------------------------------------------------------
(* Facebook. *)

(* Facebook lists a lead within the overlap of two polls.                   *)
FAssumption ==
  /\ Overlap \in Nat /\ Delay \in Nat /\ Delay < Overlap /\ Lookback \in Nat \ {0}
  /\ FormOf \in [FbLead -> Form]

FTypes ==
  /\ clock \in Int /\ created \in [FbLead -> Int] /\ visible \subseteq FbLead
  /\ page \in [Form -> {"draft", "listed", "gone"}] /\ cursor \in Int /\ horizon \in Int
  /\ fpc \in [Puller -> {"idle", "list", "form"}] /\ kind \in [Puller -> {"poll", "first", "manual"}]
  /\ started \in [Puller -> Int] /\ fsince \in [Puller -> Int]
  /\ forms \in [Puller -> SUBSET Form] /\ leads \in [Puller -> SUBSET FbLead]
  /\ errors \in [Puller -> BOOLEAN]

Reported(l) == l \in entered \cup deferred
Due(l, t) == created[l] > horizon /\ created[l] <= t /\ page[FormOf[l]] # "gone"

(* The world: a lead was filled in on a form that is public, and what       *)
(* Facebook does not list yet is new.                                       *)
FWorld ==
  /\ clock >= 0 /\ cursor <= clock /\ horizon >= -1
  /\ \A l \in FbLead : created[l] # -1 =>
       page[FormOf[l]] # "draft" /\ (l \notin visible => clock <= created[l] + Delay)

(* A poll: what it will not list was dealt with before it began, unless it  *)
(* is the first; of the rest, all that is older than the overlap is dealt   *)
(* with, in a form it has yet to list, or in hand, unless something failed. *)
LookedFor(p, l) == kind[p] = "first" => created[l] > fsince[p]

FCall(p) ==
  /\ started[p] <= clock /\ fsince[p] < clock
  /\ kind[p] = "poll" => \A l \in FbLead : Due(l, fsince[p]) => Reported(l)
  /\ fpc[p] = "form" /\ ~errors[p] =>
       \A l \in FbLead : Due(l, started[p] - Overlap) /\ LookedFor(p, l) =>
         Reported(l) \/ FormOf[l] \in forms[p] \/ l \in leads[p]

FCallOK(p) ==
  /\ leads[p] # {} => fpc[p] = "form"
  /\ fpc[p] # "idle" /\ kind[p] # "manual" => FCall(p)

FInv == FTypes /\ FWorld /\ NothingPassed /\ \A p \in Puller : FCallOK(p)

(* What a step leaves alone: Facebook's leads only get older, a form that   *)
(* is deleted stays so, and what is in the CRM or reported stays so.        *)
FGrows ==
  /\ clock <= clock' /\ horizon <= horizon'
  /\ \A l \in FbLead : created'[l] = created[l] \/ (created[l] = -1 /\ created'[l] = clock)
  /\ \A f \in Form : page[f] = "gone" => page'[f] = "gone"
  /\ entered \subseteq entered' /\ deferred \subseteq deferred'

FSame(q) ==
  /\ fpc'[q] = fpc[q] /\ kind'[q] = kind[q] /\ started'[q] = started[q] /\ fsince'[q] = fsince[q]
  /\ forms'[q] = forms[q] /\ leads'[q] = leads[q] /\ errors'[q] = errors[q]

(* A step adds nothing to what is due before now.                           *)
LEMMA FDue ==
  ASSUME FAssumption, FTypes, FTypes', FWorld, FGrows, NEW t \in Int, t < clock,
         NEW l \in FbLead, created'[l] > horizon', created'[l] <= t, page'[FormOf[l]] # "gone"
  PROVE  Due(l, t) /\ created'[l] = created[l] /\ (Reported(l) => Reported(l)')
<1>1. /\ created[l] \in Int /\ created'[l] \in Int /\ horizon \in Int /\ horizon' \in Int
      /\ clock \in Int /\ FormOf[l] \in Form
  BY DEF FTypes, FAssumption
<1>2. created'[l] = created[l]
  BY <1>1 DEF FGrows
<1>3. page[FormOf[l]] # "gone"
  BY <1>1 DEF FGrows
<1>4. created[l] > horizon
  BY <1>1, <1>2 DEF FGrows
<1> QED
  BY <1>2, <1>3, <1>4 DEF Due, Reported, FGrows

LEMMA FKept ==
  ASSUME FAssumption, FInv, FTypes', FGrows, NEW q \in Puller, FSame(q)
  PROVE  FCallOK(q)'
<1> SUFFICES ASSUME fpc[q] # "idle", kind[q] # "manual" PROVE FCall(q)'
  BY DEF FSame, FCallOK, FInv
<1>1. FCall(q)
  BY DEF FInv, FCallOK
<1>2. /\ clock \in Int /\ clock' \in Int /\ started[q] \in Int /\ fsince[q] \in Int
      /\ Overlap \in Nat /\ Overlap > 0
  BY DEF FInv, FTypes, FAssumption
<1>3. started[q] <= clock /\ fsince[q] < clock
  BY <1>1 DEF FCall
<1>4. started'[q] <= clock' /\ fsince'[q] < clock'
  BY <1>2, <1>3 DEF FGrows, FSame
<1>5. ASSUME kind[q] = "poll", NEW l \in FbLead, Due(l, fsince[q])'
      PROVE  Reported(l)'
  <2>1. created'[l] > horizon' /\ created'[l] <= fsince[q] /\ page'[FormOf[l]] # "gone"
    BY <1>5 DEF FSame, Due
  <2>2. Due(l, fsince[q]) /\ (Reported(l) => Reported(l)')
    BY <1>2, <1>3, <2>1, FDue DEF FInv
  <2> QED
    BY <1>1, <1>5, <2>2 DEF FCall
<1>6. ASSUME fpc[q] = "form", ~errors[q],
             NEW l \in FbLead, Due(l, started[q] - Overlap)', LookedFor(q, l)'
      PROVE  (Reported(l) \/ FormOf[l] \in forms[q] \/ l \in leads[q])'
  <2>1. started[q] - Overlap \in Int /\ started[q] - Overlap < clock
    BY <1>2, <1>3
  <2>2. created'[l] > horizon' /\ created'[l] <= started[q] - Overlap /\ page'[FormOf[l]] # "gone"
    BY <1>6 DEF Due, FSame
  <2>5. Due(l, started[q] - Overlap) /\ created'[l] = created[l] /\ (Reported(l) => Reported(l)')
    BY <2>1, <2>2, FDue DEF FInv
  <2>6. LookedFor(q, l)
    BY <1>6, <2>5 DEF LookedFor, FSame
  <2>7. Reported(l) \/ FormOf[l] \in forms[q] \/ l \in leads[q]
    BY <1>1, <1>6, <2>5, <2>6 DEF FCall
  <2> QED
    BY <2>5, <2>7 DEF FSame
<1> QED
  BY <1>4, <1>5, <1>6 DEF FCall, FSame

LEMMA FCalls ==
  ASSUME FAssumption, FInv, FTypes', FGrows, NEW p \in Puller,
         \A q \in Puller \ {p} : FSame(q), FCallOK(p)'
  PROVE  \A q \in Puller : FCallOK(q)'
<1> SUFFICES ASSUME NEW q \in Puller PROVE FCallOK(q)'
  OBVIOUS
<1>1. CASE q = p
  BY <1>1
<1>2. CASE q # p
  BY <1>2, FKept
<1> QED
  BY <1>1, <1>2

(* NothingPassed survives unless the cursor moves on.                       *)
LEMMA FPassed ==
  ASSUME FAssumption, FInv, FTypes', FGrows, cursor' = cursor \/ cursor' = F!NoCursor
  PROVE  NothingPassed'
<1> SUFFICES ASSUME cursor' # F!NoCursor, NEW l \in FbLead, created'[l] > horizon',
                    created'[l] <= cursor' - Overlap, page'[FormOf[l]] # "gone"
             PROVE  l \in entered' \cup deferred'
  BY DEF NothingPassed, F!NothingPassed, F!NoCursor
<1>1. cursor' = cursor /\ cursor # F!NoCursor
  OBVIOUS
<1>2. cursor - Overlap \in Int /\ cursor - Overlap < clock
  BY DEF FInv, FTypes, FAssumption, FWorld
<1>3. Due(l, cursor - Overlap) /\ (Reported(l) => Reported(l)')
  BY <1>1, <1>2, FDue DEF FInv
<1>4. Reported(l)
  BY <1>1, <1>3 DEF FInv, NothingPassed, F!NothingPassed, Due, Reported
<1> QED
  BY <1>3, <1>4 DEF Reported

(* A step of one call that leaves the world and the cursor alone.           *)
LEMMA FOfOne ==
  ASSUME FAssumption, FInv, FTypes', NEW p \in Puller,
         UNCHANGED <<clock, created, visible, page, cursor, horizon>>,
         entered \subseteq entered', deferred \subseteq deferred',
         \A q \in Puller \ {p} : FSame(q), FCallOK(p)'
  PROVE  FInv'
<1>1. FGrows
  BY DEF FGrows, FInv, FTypes
<1>2. FWorld'
  BY DEF FInv, FWorld
<1> QED
  BY <1>1, <1>2, FCalls, FPassed DEF FInv

LEMMA FStart ==
  ASSUME FAssumption, FInv, NEW p \in Puller, FP!Start(p)
  PROVE  FInv'
<1>1. PICK k \in {IF cursor = -1 THEN "first" ELSE "poll", "manual"} :
        /\ kind' = [kind EXCEPT ![p] = k]
        /\ fsince' = [fsince EXCEPT ![p] = CASE k = "manual" -> -1
                                             [] k = "poll" -> cursor - Overlap
                                             [] k = "first" -> clock - Lookback]
        /\ started' = [started EXCEPT ![p] = IF k = "manual" THEN 0 ELSE clock]
  BY DEF FP!Start, FP!NoCursor, FP!Now
<1>2. /\ fpc' = [fpc EXCEPT ![p] = "list"]
      /\ UNCHANGED <<clock, created, visible, page, cursor, horizon, entered, deferred, forms, leads, errors>>
  BY DEF FP!Start, FP!Goto, FP!worldVars, FP!cursorVars, FP!rowVars
<1>3. k \in {"poll", "first", "manual"} /\ (k = "poll" => cursor # -1)
  BY <1>1
<1>4. PICK s \in Int : /\ fsince' = [fsince EXCEPT ![p] = s]
                       /\ k = "poll" => s = cursor - Overlap
                       /\ k = "first" => s = clock - Lookback
  <2>1. /\ cursor - Overlap \in Int /\ clock - Lookback \in Int
    BY DEF FInv, FTypes, FAssumption
  <2>2. CASE k = "poll"
    BY <1>1, <2>1, <2>2
  <2>3. CASE k = "first"
    BY <1>1, <2>1, <2>3
  <2>4. CASE k = "manual"
    <3>1. fsince' = [fsince EXCEPT ![p] = -1]
      BY <1>1, <2>4
    <3>2. -1 \in Int /\ k # "poll" /\ k # "first"
      BY <2>4
    <3> QED
      BY <3>1, <3>2, Zenon
  <2> QED
    BY <1>3, <2>2, <2>3, <2>4
<1>5. PICK b \in Int : started' = [started EXCEPT ![p] = b] /\ (k # "manual" => b = clock)
  <2>1. clock \in Int /\ 0 \in Int
    BY DEF FInv, FTypes
  <2>2. CASE k = "manual"
    BY <1>1, <2>1, <2>2
  <2>3. CASE k # "manual"
    BY <1>1, <2>1, <2>3
  <2> QED
    BY <2>2, <2>3
<1>6. FTypes'
  BY <1>1, <1>2, <1>3, <1>4, <1>5 DEF FInv, FTypes
<1>7. \A q \in Puller \ {p} : FSame(q)
  BY <1>1, <1>2, <1>4, <1>5 DEF FSame, FInv, FTypes
<1>8. /\ fpc'[p] = "list" /\ kind'[p] = k /\ fsince'[p] = s /\ started'[p] = b
  BY <1>1, <1>2, <1>4, <1>5 DEF FInv, FTypes
<1>9. FCallOK(p)'
  <2>0. leads'[p] = {}
    BY <1>2 DEF FP!Start, FInv, FCallOK
  <2> SUFFICES ASSUME k # "manual" PROVE FCall(p)'
    BY <1>8, <2>0 DEF FCallOK
  <2>1. started'[p] <= clock' /\ fsince'[p] < clock'
    BY <1>2, <1>3, <1>4, <1>5, <1>8 DEF FInv, FTypes, FWorld, FAssumption
  <2>2. ASSUME k = "poll", NEW l \in FbLead, Due(l, fsince[p])' PROVE Reported(l)'
    <3>1. Due(l, cursor - Overlap)
      BY <1>2, <1>4, <1>8, <2>2 DEF Due
    <3> QED
      BY <1>2, <1>3, <2>2, <3>1 DEF FInv, NothingPassed, F!NothingPassed, F!NoCursor, Due, Reported
  <2> QED
    BY <1>8, <2>1, <2>2 DEF FCall
<1> QED
  BY <1>2, <1>6, <1>7, <1>9, FOfOne

(* What a poll does between its listing and its end: it keeps what it read  *)
(* when it began.                                                           *)
LEMMA FGoesOn ==
  ASSUME FAssumption, FInv, NEW p \in Puller, NEW fs, NEW ls, NEW failed \in BOOLEAN,
         fs \subseteq Form, ls \subseteq FbLead, errors[p] = TRUE => failed = TRUE,
         UNCHANGED <<clock, created, visible, page, cursor, horizon, kind, started, fsince>>,
         fpc[p] # "idle", fpc' = [fpc EXCEPT ![p] = "form"], forms' = [forms EXCEPT ![p] = fs],
         leads' = [leads EXCEPT ![p] = ls], errors' = [errors EXCEPT ![p] = failed],
         entered \subseteq entered', deferred \subseteq deferred',
         FCall(p) /\ kind[p] # "manual" /\ failed # TRUE =>
           \A l \in FbLead : Due(l, started[p] - Overlap) /\ LookedFor(p, l) =>
             Reported(l)' \/ FormOf[l] \in fs \/ l \in ls
  PROVE  FInv'
<1>1. FTypes'
  BY DEF FInv, FTypes
<1>2. \A q \in Puller \ {p} : FSame(q)
  BY DEF FSame, FInv, FTypes
<1>3. /\ fpc'[p] = "form" /\ forms'[p] = fs /\ leads'[p] = ls /\ errors'[p] = failed
      /\ kind'[p] = kind[p] /\ started'[p] = started[p] /\ fsince'[p] = fsince[p]
  BY DEF FInv, FTypes
<1>4. FCallOK(p)'
  <2> SUFFICES ASSUME kind[p] # "manual" PROVE FCall(p)'
    BY <1>3 DEF FCallOK
  <2>1. FCall(p)
    BY DEF FInv, FCallOK
  <2>2. kind[p] = "poll" => \A l \in FbLead : Due(l, fsince[p])' => Reported(l)'
    BY <1>3, <2>1 DEF FCall, Due, Reported
  <2>3. ASSUME failed # TRUE, NEW l \in FbLead, Due(l, started[p] - Overlap)', LookedFor(p, l)'
        PROVE  Reported(l)' \/ FormOf[l] \in fs \/ l \in ls
    <3>1. Due(l, started[p] - Overlap) /\ LookedFor(p, l)
      BY <1>3, <2>3 DEF Due, LookedFor
    <3> QED
      BY <2>1, <2>3, <3>1
  <2> QED
    BY <1>3, <2>1, <2>2, <2>3 DEF FCall
<1> QED
  BY <1>1, <1>2, <1>4, FOfOne

(* The listing has the form of every lead that is due.                      *)
LEMMA FListForms ==
  ASSUME FAssumption, FInv, NEW p \in Puller, FP!ListForms(p)
  PROVE  FInv'
<1> DEFINE fs == {f \in Form : page[f] = "listed"}
<1>1. /\ fpc[p] = "list" /\ fpc' = [fpc EXCEPT ![p] = "form"] /\ forms' = [forms EXCEPT ![p] = fs]
      /\ UNCHANGED <<clock, created, visible, page, cursor, horizon, entered, deferred,
                     kind, started, fsince, leads, errors>>
  BY DEF FP!ListForms, FP!Listed, FP!Goto, FP!worldVars, FP!cursorVars, FP!rowVars, FP!readVars
<1>2. fs \subseteq Form /\ leads[p] \subseteq FbLead /\ errors[p] \in BOOLEAN
      /\ leads' = [leads EXCEPT ![p] = leads[p]] /\ errors' = [errors EXCEPT ![p] = errors[p]]
  BY <1>1 DEF FInv, FTypes
<1>3. ASSUME NEW l \in FbLead, Due(l, started[p] - Overlap)
      PROVE  FormOf[l] \in fs
  <2>1. FormOf[l] \in Form /\ created[l] # -1
    BY <1>3 DEF FInv, FTypes, FWorld, FAssumption, Due
  <2> QED
    BY <1>3, <2>1 DEF FInv, FTypes, FWorld, Due
<1> HIDE DEF fs
<1> QED
  BY <1>1, <1>2, <1>3, FGoesOn

(* A listing has every lead older than the overlap that the poll looks for. *)
LEMMA FNextForm ==
  ASSUME FAssumption, FInv, NEW p \in Puller, NEW f \in Form, FP!NextForm(p, f)
  PROVE  FInv'
<1> DEFINE ls == {l \in visible : FormOf[l] = f /\ created[l] > fsince[p]}
           fs == forms[p] \ {f}
<1>1. /\ fpc[p] = "form" /\ leads[p] = {}
      /\ forms' = [forms EXCEPT ![p] = fs] /\ leads' = [leads EXCEPT ![p] = ls]
      /\ UNCHANGED <<clock, created, visible, page, cursor, horizon, entered, deferred,
                     fpc, kind, started, fsince, errors>>
  BY DEF FP!NextForm, FP!worldVars, FP!cursorVars, FP!rowVars, FP!readVars
<1>2. fs \subseteq Form /\ ls \subseteq FbLead /\ errors[p] \in BOOLEAN
      /\ errors' = [errors EXCEPT ![p] = errors[p]] /\ fpc' = [fpc EXCEPT ![p] = "form"]
  BY <1>1 DEF FInv, FTypes
<1>3. ASSUME FCall(p), kind[p] # "manual", errors[p] # TRUE,
             NEW l \in FbLead, Due(l, started[p] - Overlap), LookedFor(p, l)
      PROVE  Reported(l)' \/ FormOf[l] \in fs \/ l \in ls
  <2>1. CASE Reported(l)
    BY <1>1, <2>1 DEF Reported
  <2>2. CASE ~Reported(l)
    <3>1. FormOf[l] \in forms[p]
      BY <1>1, <1>3, <2>2 DEF FCall
    <3>2. /\ created[l] \in Int /\ clock \in Int /\ started[p] \in Int /\ fsince[p] \in Int
          /\ started[p] <= clock /\ horizon >= -1 /\ horizon \in Int
      BY <1>3 DEF FCall, FInv, FTypes, FWorld
    <3>3. l \in visible
      BY <1>3, <3>2 DEF Due, FInv, FWorld, FAssumption
    <3>4. created[l] > fsince[p]
      <4>1. CASE kind[p] = "first"
        BY <1>3, <4>1 DEF LookedFor
      <4>2. CASE kind[p] = "poll"
        <5>1. ~Due(l, fsince[p])
          BY <1>3, <2>2, <4>2 DEF FCall
        <5> QED
          BY <1>3, <3>2, <5>1 DEF Due
      <4> QED
        BY <1>3, <4>1, <4>2 DEF FInv, FTypes
    <3> QED
      BY <3>1, <3>3, <3>4
  <2> QED
    BY <2>1, <2>2
<1> HIDE DEF ls, fs
<1> QED
  BY <1>1, <1>2, <1>3, FGoesOn

(* A call that ends without moving the cursor.                              *)
LEMMA FForgets ==
  ASSUME FAssumption, FInv, NEW p \in Puller, FP!Forget(p),
         UNCHANGED <<clock, created, visible, page, cursor, horizon>>,
         entered \subseteq entered', deferred \subseteq deferred'
  PROVE  FInv'
<1>1. /\ fpc' = [fpc EXCEPT ![p] = "idle"] /\ kind' = [kind EXCEPT ![p] = "poll"]
      /\ started' = [started EXCEPT ![p] = 0] /\ fsince' = [fsince EXCEPT ![p] = 0]
      /\ forms' = [forms EXCEPT ![p] = {}] /\ leads' = [leads EXCEPT ![p] = {}]
      /\ errors' = [errors EXCEPT ![p] = FALSE]
  BY DEF FP!Forget, FP!Goto
<1>2. FTypes'
  BY <1>1 DEF FInv, FTypes
<1>3. \A q \in Puller \ {p} : FSame(q)
  BY <1>1 DEF FSame, FInv, FTypes
<1>4. FCallOK(p)'
  BY <1>1 DEF FCallOK, FInv, FTypes
<1> QED
  BY <1>2, <1>3, <1>4, FOfOne

LEMMA FFormFails ==
  ASSUME FAssumption, FInv, NEW p \in Puller, NEW f \in Form, FP!FormFails(p, f)
  PROVE  FInv'
<1>1. /\ fpc[p] = "form"
      /\ UNCHANGED <<clock, created, visible, page, cursor, horizon, entered, deferred>>
  BY DEF FP!FormFails, FP!worldVars, FP!cursorVars, FP!rowVars
<1>2. CASE FP!Forget(p)
  BY <1>1, <1>2, FForgets
<1>3. CASE ~FP!Forget(p)
  <2>1. /\ forms' = [forms EXCEPT ![p] = forms[p] \ {f}] /\ errors' = [errors EXCEPT ![p] = TRUE]
        /\ UNCHANGED <<fpc, kind, started, fsince, leads>>
    BY <1>3 DEF FP!FormFails, FP!readVars
  <2>2. /\ forms[p] \ {f} \subseteq Form /\ leads[p] \subseteq FbLead
        /\ leads' = [leads EXCEPT ![p] = leads[p]] /\ fpc' = [fpc EXCEPT ![p] = "form"]
    BY <1>1, <2>1 DEF FInv, FTypes
  <2>3. PICK failed \in BOOLEAN : failed = TRUE
    OBVIOUS
  <2>4. errors' = [errors EXCEPT ![p] = failed]
    BY <2>1, <2>3
  <2> QED
    BY <1>1, <2>1, <2>2, <2>3, <2>4, FGoesOn
<1> QED
  BY <1>2, <1>3

LEMMA FLead ==
  ASSUME FAssumption, FInv, NEW p \in Puller, NEW l \in FbLead,
         FP!Enter(p, l) \/ FP!Ambiguous(p, l) \/ FP!LeadFails(p, l)
  PROVE  FInv'
<1>0. fpc[p] = "form"
  BY DEF FP!Enter, FP!Ambiguous, FP!LeadFails, FP!Take, FInv, FCallOK
<1>1. /\ UNCHANGED <<clock, created, visible, page, cursor, horizon>>
      /\ entered \subseteq entered' /\ deferred \subseteq deferred'
  BY DEF FP!Enter, FP!Ambiguous, FP!LeadFails, FP!worldVars, FP!cursorVars, FP!rowVars
<1>2. CASE FP!Forget(p)
  BY <1>1, <1>2, FForgets
<1>3. CASE ~FP!Forget(p)
  <2>1. /\ leads' = [leads EXCEPT ![p] = leads[p] \ {l}]
        /\ UNCHANGED <<fpc, kind, started, fsince, forms>>
    BY <1>3 DEF FP!Enter, FP!Ambiguous, FP!LeadFails, FP!Take, FP!readVars
  <2>2. \/ errors' = errors /\ Reported(l)'
        \/ errors' = [errors EXCEPT ![p] = TRUE]
    BY <1>3 DEF FP!Enter, FP!Ambiguous, FP!LeadFails, Reported
  <2>3. /\ forms[p] \subseteq Form /\ leads[p] \ {l} \subseteq FbLead /\ errors[p] \in BOOLEAN
        /\ forms' = [forms EXCEPT ![p] = forms[p]] /\ errors = [errors EXCEPT ![p] = errors[p]]
        /\ fpc' = [fpc EXCEPT ![p] = "form"]
    BY <1>0, <2>1 DEF FInv, FTypes
  <2>4. PICK failed \in BOOLEAN : /\ errors' = [errors EXCEPT ![p] = failed]
                                  /\ errors[p] = TRUE => failed = TRUE
                                  /\ failed = TRUE \/ (errors[p] = failed /\ Reported(l)')
    BY <2>2, <2>3
  <2>5. ASSUME FCall(p), failed # TRUE,
               NEW k \in FbLead, Due(k, started[p] - Overlap), LookedFor(p, k)
        PROVE  Reported(k)' \/ FormOf[k] \in forms[p] \/ k \in leads[p] \ {l}
    <3>1. Reported(k) \/ FormOf[k] \in forms[p] \/ k \in leads[p]
      BY <1>0, <2>3, <2>4, <2>5 DEF FCall
    <3>2. Reported(k) => Reported(k)'
      BY <1>1 DEF Reported
    <3> QED
      BY <2>4, <2>5, <3>1, <3>2
  <2>6. fpc[p] # "idle"
    BY <1>0
  <2> HIDE DEF Due, LookedFor, Reported, FCall
  <2> QED
    BY <1>1, <2>1, <2>3, <2>4, <2>5, <2>6, FGoesOn
<1> QED
  BY <1>2, <1>3

(* A poll ends: it moves the cursor to its beginning if nothing failed.     *)
LEMMA FEnd ==
  ASSUME FAssumption, FInv, NEW p \in Puller, FP!End(p)
  PROVE  FInv'
<1>1. /\ UNCHANGED <<clock, created, visible, page, entered, deferred>>
      /\ fpc[p] = "form" /\ forms[p] = {} /\ leads[p] = {} /\ FP!Forget(p)
  BY DEF FP!End, FP!worldVars, FP!rowVars
<1>2. CASE ~FP!Succeeds(p)
  <2>1. UNCHANGED <<cursor, horizon>>
    BY <1>2 DEF FP!End, FP!Advance
  <2> QED
    BY <1>1, <2>1, FForgets
<1>3. CASE FP!Succeeds(p)
  <2>1. /\ cursor' = started[p] /\ kind[p] # "manual" /\ ~errors[p]
        /\ horizon' = IF kind[p] = "first" /\ fsince[p] > horizon THEN fsince[p] ELSE horizon
    BY <1>3 DEF FP!End, FP!Advance, FP!Succeeds
  <2>2. /\ fpc' = [fpc EXCEPT ![p] = "idle"] /\ kind' = [kind EXCEPT ![p] = "poll"]
        /\ started' = [started EXCEPT ![p] = 0] /\ fsince' = [fsince EXCEPT ![p] = 0]
        /\ forms' = [forms EXCEPT ![p] = {}] /\ leads' = [leads EXCEPT ![p] = {}]
        /\ errors' = [errors EXCEPT ![p] = FALSE]
    BY <1>1 DEF FP!Forget, FP!Goto
  <2>3. FTypes'
    BY <1>1, <2>1, <2>2 DEF FInv, FTypes
  <2>4. horizon \in Int /\ fsince[p] \in Int /\ horizon <= horizon' /\ (kind[p] = "first" => fsince[p] <= horizon')
    BY <2>1 DEF FInv, FTypes
  <2>5. FGrows
    BY <1>1, <2>4 DEF FGrows, FInv, FTypes
  <2>6. FCall(p)
    BY <1>1, <2>1 DEF FInv, FCallOK
  <2>7. FWorld'
    BY <1>1, <2>1, <2>3, <2>4, <2>6 DEF FInv, FTypes, FWorld, FCall
  <2>8. \A q \in Puller : FCallOK(q)'
    <3>1. \A q \in Puller \ {p} : FSame(q)
      BY <2>2 DEF FSame, FInv, FTypes
    <3>2. FCallOK(p)'
      BY <2>2 DEF FCallOK, FInv, FTypes
    <3> QED
      BY <2>3, <2>5, <3>1, <3>2, FCalls
  <2>9. ASSUME NEW l \in FbLead, created'[l] > horizon', created'[l] <= cursor' - Overlap,
               page'[FormOf[l]] # "gone"
        PROVE  l \in entered' \cup deferred'
    <3>1. /\ created[l] \in Int /\ horizon' \in Int /\ created[l] > horizon
          /\ created[l] <= started[p] - Overlap /\ (kind[p] = "first" => created[l] > fsince[p])
      BY <1>1, <2>1, <2>3, <2>4, <2>9 DEF FInv, FTypes
    <3>2. Due(l, started[p] - Overlap) /\ LookedFor(p, l)
      BY <1>1, <2>9, <3>1 DEF Due, LookedFor
    <3>3. Reported(l)
      BY <1>1, <2>1, <2>6, <3>2 DEF FCall
    <3> QED
      BY <1>1, <3>3 DEF Reported
  <2>10. NothingPassed'
    BY <2>9 DEF NothingPassed, F!NothingPassed
  <2> QED
    BY <2>3, <2>7, <2>8, <2>10 DEF FInv
<1> QED
  BY <1>2, <1>3

(* A step of the world, of the webhook or of who connects the page.         *)
LEMMA FElsewhere ==
  ASSUME FAssumption, FInv,
         UNCHANGED <<horizon, fpc, kind, started, fsince, forms, leads, errors>>,
         cursor' = cursor \/ cursor' = -1, clock' \in Int, created' \in [FbLead -> Int],
         visible' \subseteq FbLead, page' \in [Form -> {"draft", "listed", "gone"}], FGrows, FWorld'
  PROVE  FInv'
<1>1. FTypes'
  BY DEF FInv, FTypes
<1>2. \A q \in Puller : FSame(q)
  BY DEF FSame
<1>3. \A q \in Puller : FCallOK(q)'
  BY <1>1, <1>2, FKept
<1> QED
  BY <1>1, <1>3, FPassed DEF FInv, F!NoCursor

LEMMA FWorldStep ==
  ASSUME FAssumption, FInv,
         \/ FP!Tick \/ FP!Disconnect
         \/ \E f \in Form : FP!Publish(f) \/ FP!Withdraw(f)
         \/ \E l \in FbLead : FP!Webhook(l) \/ FP!Create(l) \/ FP!Appear(l) \/ FP!Merge(l)
  PROVE  FInv'
<1>1. UNCHANGED <<horizon, fpc, kind, started, fsince, forms, leads, errors>>
  BY DEF FP!Tick, FP!Disconnect, FP!Publish, FP!Withdraw, FP!Webhook, FP!Create, FP!Appear,
         FP!Merge, FP!readVars, FP!cursorVars
<1>2. /\ clock \in Int /\ cursor \in Int /\ Delay \in Nat /\ horizon \in Int
      /\ created \in [FbLead -> Int] /\ visible \subseteq FbLead
      /\ page \in [Form -> {"draft", "listed", "gone"}] /\ FormOf \in [FbLead -> Form]
  BY DEF FInv, FTypes, FAssumption
<1>3. CASE FP!Tick
  <2>1. /\ clock' = clock + 1 /\ UNCHANGED <<created, visible, page, cursor, entered, deferred>>
        /\ \A l \in FbLead : created[l] # -1 /\ l \notin visible => clock < created[l] + Delay
    BY <1>3 DEF FP!Tick, FP!rowVars, FP!cursorVars
  <2>2. FGrows
    BY <1>1, <1>2, <2>1 DEF FGrows
  <2>3. FWorld'
    BY <1>1, <1>2, <2>1 DEF FWorld, FInv
  <2> QED
    BY <1>1, <1>2, <2>1, <2>2, <2>3, FElsewhere
<1>4. ASSUME NEW l \in FbLead, FP!Create(l)
      PROVE  FInv'
  <2>1. /\ created[l] = -1 /\ created' = [created EXCEPT ![l] = clock] /\ page[FormOf[l]] = "listed"
        /\ UNCHANGED <<clock, visible, page, cursor, entered, deferred>>
    BY <1>4 DEF FP!Create, FP!Now, FP!rowVars, FP!cursorVars
  <2>2. created' \in [FbLead -> Int] /\ \A k \in FbLead : created'[k] = IF k = l THEN clock ELSE created[k]
    BY <1>2, <2>1
  <2>3. FGrows
    BY <1>1, <1>2, <2>1, <2>2 DEF FGrows
  <2>4. FWorld'
    BY <1>1, <1>2, <2>1, <2>2 DEF FWorld, FInv
  <2> QED
    BY <1>1, <1>2, <2>1, <2>2, <2>3, <2>4, FElsewhere
<1>5. ASSUME NEW f \in Form, FP!Publish(f) \/ FP!Withdraw(f)
      PROVE  FInv'
  <2>1. PICK s \in {"listed", "gone"} : page' = [page EXCEPT ![f] = s] /\ (page[f] = "gone" => s = "gone")
    BY <1>5 DEF FP!Publish, FP!Withdraw
  <2>2. UNCHANGED <<clock, created, visible, cursor, entered, deferred>>
    BY <1>5 DEF FP!Publish, FP!Withdraw, FP!rowVars, FP!cursorVars
  <2>3. /\ page' \in [Form -> {"draft", "listed", "gone"}]
        /\ \A g \in Form : page'[g] = IF g = f THEN s ELSE page[g]
    BY <1>2, <2>1
  <2>4. FGrows
    BY <1>1, <1>2, <2>1, <2>2, <2>3 DEF FGrows
  <2>5. FWorld'
    BY <1>1, <1>2, <2>1, <2>2, <2>3 DEF FWorld, FInv
  <2> QED
    BY <1>1, <1>2, <2>2, <2>3, <2>4, <2>5, FElsewhere
<1>6. ASSUME NEW l \in FbLead, FP!Webhook(l) \/ FP!Appear(l) \/ FP!Merge(l)
      PROVE  FInv'
  <2>1. /\ UNCHANGED <<clock, created, page, cursor>>
        /\ visible \subseteq visible' /\ visible' \subseteq visible \cup {l}
        /\ entered \subseteq entered' /\ deferred \subseteq deferred'
    BY <1>6 DEF FP!Webhook, FP!Appear, FP!Merge, FP!worldVars, FP!rowVars, FP!cursorVars
  <2>2. visible' \subseteq FbLead
    BY <1>2, <2>1
  <2>3. FGrows
    BY <1>1, <1>2, <2>1 DEF FGrows
  <2>4. FWorld'
    BY <1>1, <2>1 DEF FInv, FWorld
  <2> QED
    BY <1>1, <1>2, <2>1, <2>2, <2>3, <2>4, FElsewhere
<1>7. CASE FP!Disconnect
  <2>1. cursor' = -1 /\ UNCHANGED <<clock, created, visible, page, entered, deferred>>
    BY <1>7 DEF FP!Disconnect, FP!NoCursor, FP!worldVars, FP!rowVars
  <2>2. FGrows
    BY <1>1, <1>2, <2>1 DEF FGrows
  <2>3. FWorld'
    BY <1>1, <1>2, <2>1 DEF FInv, FWorld
  <2> QED
    BY <1>1, <1>2, <2>1, <2>2, <2>3, FElsewhere
<1> QED
  BY <1>3, <1>4, <1>5, <1>6, <1>7

LEMMA FInvariance ==
  ASSUME FAssumption
  PROVE  FP!Spec => []FInv
<1>1. ASSUME FP!Init PROVE FInv
  <2>1. FTypes
    BY <1>1 DEF FP!Init, FP!NoCursor, FTypes
  <2>2. FWorld
    BY <1>1 DEF FP!Init, FP!NoCursor, FWorld
  <2>3. NothingPassed
    BY <1>1 DEF FP!Init, FP!NoCursor, F!NoCursor, NothingPassed, F!NothingPassed
  <2>4. \A p \in Puller : fpc[p] = "idle" /\ leads[p] = {}
    BY <1>1 DEF FP!Init
  <2> QED
    BY <2>1, <2>2, <2>3, <2>4 DEF FInv, FCallOK
<1>2. ASSUME FInv, [FP!Next]_(FP!vars)
      PROVE  FInv'
  <2>1. CASE UNCHANGED FP!vars
    <3>1. UNCHANGED <<clock, created, visible, page, cursor, horizon, entered, deferred, fpc, kind,
                      started, fsince, forms, leads, errors>>
      BY <2>1 DEF FP!vars, FP!worldVars, FP!cursorVars, FP!rowVars, FP!readVars
    <3>2. /\ clock' \in Int /\ created' \in [FbLead -> Int] /\ visible' \subseteq FbLead
          /\ page' \in [Form -> {"draft", "listed", "gone"}]
      BY <1>2, <3>1 DEF FInv, FTypes
    <3>3. FGrows /\ FWorld'
      BY <1>2, <3>1 DEF FInv, FTypes, FGrows, FWorld
    <3> QED
      BY <1>2, <3>1, <3>2, <3>3, FElsewhere
  <2>2. ASSUME NEW p \in Puller, NEW f \in Form, FP!NextForm(p, f) \/ FP!FormFails(p, f)
        PROVE  FInv'
    BY <1>2, <2>2, FNextForm, FFormFails
  <2>3. ASSUME NEW p \in Puller, NEW l \in FbLead,
               FP!Enter(p, l) \/ FP!Ambiguous(p, l) \/ FP!LeadFails(p, l)
        PROVE  FInv'
    BY <1>2, <2>3, FLead
  <2>4. ASSUME NEW p \in Puller, FP!Crash(p)
        PROVE  FInv'
    BY <1>2, <2>4, FForgets DEF FP!Crash, FP!worldVars, FP!cursorVars, FP!rowVars
  <2>5. ASSUME NEW p \in Puller, FP!Start(p) \/ FP!ListForms(p) \/ FP!End(p)
        PROVE  FInv'
    BY <1>2, <2>5, FStart, FListForms, FEnd
  <2>6. CASE \/ FP!Tick \/ FP!Disconnect
             \/ \E f \in Form : FP!Publish(f) \/ FP!Withdraw(f)
             \/ \E l \in FbLead : FP!Webhook(l) \/ FP!Create(l) \/ FP!Appear(l) \/ FP!Merge(l)
    BY <1>2, <2>6, FWorldStep
  <2> QED
    BY <1>2, <2>1, <2>2, <2>3, <2>4, <2>5, <2>6 DEF FP!Next
<1>3. FP!Init => FInv
  BY <1>1
<1>4. FInv /\ [FP!Next]_(FP!vars) => FInv'
  BY <1>2
<1> QED
  BY <1>3, <1>4, PTL DEF FP!Spec

(* For any number of polls, manual syncs, leads and forms, from the first   *)
(* connection on, through every failure and disconnection: once a poll has  *)
(* written a cursor, a lead of a form the page still has that no later poll *)
(* will list is in the CRM or was reported to the admins, if Facebook lists *)
(* a lead within the overlap; save for leads already older than the         *)
(* look-back when a poll without a cursor began that then wrote one         *)
(* (syncFacebookLeads).                                                     *)
THEOREM NothingPassedCorrect ==
  ASSUME FAssumption
  PROVE  FP!Spec => []NothingPassed
<1>1. FInv => NothingPassed
  BY DEF FInv
<1> QED
  BY <1>1, FInvariance, PTL
-----------------------------------------------------------------------------
(* The inbox. *)

MLabel == {"idle", "pending", "list", "known", "next", "resolve"}

MTypes ==
  /\ mailbox \in Seq(Mail) /\ checkpoint \in Nat /\ checkpoint <= Len(mailbox)
  /\ saved \in [Mail -> {"none", "pending", "resolved"}]
  /\ mpc \in [Puller -> MLabel] /\ only \in [Puller -> Mail \cup {None}]
  /\ since \in [Puller -> Nat] /\ pending \in [Puller -> SUBSET Mail]
  /\ listedAt \in [Puller -> Nat] /\ unlisted \in [Puller -> SUBSET Mail]
  /\ mtodo \in [Puller -> SUBSET Mail] /\ known \in [Puller -> SUBSET Mail]
  /\ hand \in [Puller -> Mail \cup {None}] /\ trouble \in [Puller -> BOOLEAN]

DealtWith(m) == m \in filed \/ m \in dropped
Safe(m) == DealtWith(m) \/ saved[m] = "pending" \/ m \in excused

(* Up to its checkpoint every mail is safe; up to its listing every mail is *)
(* safe, in hand, or was not in the answer, unless something failed.        *)
MCall(p) ==
  /\ known[p] \subseteq filed
  /\ since[p] <= Len(mailbox) /\ listedAt[p] <= Len(mailbox)
  /\ mpc[p] = "resolve" => hand[p] \in Mail /\ DealtWith(hand[p])
  /\ mpc[p] \in {"pending", "list"} => \A i \in 1..since[p] : Safe(mailbox[i])
  /\ only[p] = None /\ mpc[p] \in {"known", "next", "resolve"} /\ ~trouble[p] =>
       \A i \in 1..listedAt[p] : Safe(mailbox[i]) \/ mailbox[i] \in mtodo[p] \cup unlisted[p]

Resolved == \A m \in Mail : saved[m] = "resolved" => DealtWith(m)
Passed == \A i \in 1..checkpoint : Safe(mailbox[i])

MInv == MTypes /\ Passed /\ Resolved /\ \A p \in Puller : MCall(p)

(* What every step keeps: mails stay in the mailbox, in order, and a safe   *)
(* one stays safe.                                                          *)
MGrows ==
  /\ Len(mailbox) <= Len(mailbox') /\ \A i \in 1..Len(mailbox) : mailbox'[i] = mailbox[i]
  /\ filed \subseteq filed' /\ dropped \subseteq dropped' /\ excused \subseteq excused'
  /\ \A m \in Mail : saved[m] = "pending" => saved'[m] = "pending" \/ DealtWith(m)

MSame(q) ==
  /\ mpc'[q] = mpc[q] /\ only'[q] = only[q] /\ since'[q] = since[q] /\ listedAt'[q] = listedAt[q]
  /\ unlisted'[q] = unlisted[q] /\ mtodo'[q] = mtodo[q] /\ known'[q] = known[q]
  /\ hand'[q] = hand[q] /\ trouble'[q] = trouble[q]

LEMMA MSafe ==
  ASSUME MTypes, MGrows, NEW i \in 1..Len(mailbox), Safe(mailbox[i])
  PROVE  Safe(mailbox[i])'
<1>1. mailbox[i] \in Mail /\ mailbox'[i] = mailbox[i]
  BY DEF MTypes, MGrows
<1> QED
  BY <1>1 DEF Safe, DealtWith, MGrows

LEMMA MKept ==
  ASSUME MInv, MTypes', MGrows, NEW q \in Puller, MSame(q)
  PROVE  MCall(q)'
<1>1. MCall(q) /\ MTypes
  BY DEF MInv
<1>2. since[q] \in Nat /\ listedAt[q] \in Nat /\ Len(mailbox) \in Nat /\ Len(mailbox') \in Nat
  BY DEF MInv, MTypes
<1>3. known'[q] \subseteq filed' /\ since'[q] <= Len(mailbox') /\ listedAt'[q] <= Len(mailbox')
  BY <1>1, <1>2 DEF MCall, MSame, MGrows
<1>4. mpc'[q] = "resolve" => hand'[q] \in Mail /\ DealtWith(hand[q])'
  BY <1>1 DEF MCall, MSame, MGrows, DealtWith
<1>5. ASSUME mpc'[q] \in {"pending", "list"}, NEW i \in 1..since'[q]
      PROVE  Safe(mailbox[i])'
  <2>1. i \in 1..since[q] /\ i \in 1..Len(mailbox) /\ Safe(mailbox[i])
    BY <1>1, <1>2, <1>5 DEF MCall, MSame
  <2> QED
    BY <1>1, <2>1, MSafe
<1>6. ASSUME only'[q] = None, mpc'[q] \in {"known", "next", "resolve"}, ~trouble'[q],
             NEW i \in 1..listedAt'[q]
      PROVE  (Safe(mailbox[i]) \/ mailbox[i] \in mtodo[q] \cup unlisted[q])'
  <2>1. i \in 1..Len(mailbox) /\ (Safe(mailbox[i]) \/ mailbox[i] \in mtodo[q] \cup unlisted[q])
    BY <1>1, <1>2, <1>6 DEF MCall, MSame
  <2>2. CASE Safe(mailbox[i])
    BY <1>1, <2>1, <2>2, MSafe
  <2>3. CASE mailbox[i] \in mtodo[q] \cup unlisted[q]
    BY <2>1, <2>3 DEF MSame, MGrows
  <2> QED
    BY <2>1, <2>2, <2>3
<1> QED
  BY <1>3, <1>4, <1>5, <1>6 DEF MCall

LEMMA MPassed ==
  ASSUME MInv, MGrows, checkpoint' = checkpoint
  PROVE  Passed'
<1> SUFFICES ASSUME NEW i \in 1..checkpoint PROVE Safe(mailbox[i])'
  BY DEF Passed
<1>1. i \in 1..Len(mailbox) /\ Safe(mailbox[i])
  BY DEF MInv, MTypes, Passed
<1> QED
  BY <1>1, MSafe DEF MInv

(* A step of one pass that leaves the checkpoint alone.                     *)
LEMMA MOfOne ==
  ASSUME MInv, MTypes', MGrows, Resolved', NEW p \in Puller, checkpoint' = checkpoint,
         \A q \in Puller \ {p} : MSame(q), MCall(p)'
  PROVE  MInv'
<1>1. \A q \in Puller : MCall(q)'
  <2> SUFFICES ASSUME NEW q \in Puller PROVE MCall(q)'
    OBVIOUS
  <2>1. CASE q = p
    BY <2>1
  <2>2. CASE q # p
    BY <2>2, MKept
  <2> QED
    BY <2>1, <2>2
<1> QED
  BY <1>1, MPassed DEF MInv

LEMMA MQuiet ==
  ASSUME MInv, UNCHANGED <<mailbox, checkpoint, filed, dropped, saved, excused>>
  PROVE  MGrows /\ Resolved'
BY DEF MInv, MTypes, MGrows, Resolved, DealtWith

LEMMA MStart ==
  ASSUME MInv, NEW p \in Puller, MP!Start(p)
  PROVE  MInv'
<1>1. /\ since' = [since EXCEPT ![p] = checkpoint] /\ mpc' = [mpc EXCEPT ![p] = "pending"]
      /\ UNCHANGED <<mailbox, checkpoint, filed, dropped, saved, excused, pending, listedAt, unlisted,
                     mtodo, known, hand, trouble>>
  BY DEF MP!Start, MP!Goto, MP!mailVars, MP!rowVars, MP!workVars
<1>2. PICK o \in Mail \cup {None} : only' = [only EXCEPT ![p] = o]
  BY DEF MP!Start, MP!Pending
<1>3. MTypes'
  BY <1>1, <1>2 DEF MInv, MTypes, MLabel
<1>4. \A q \in Puller \ {p} : MSame(q)
  BY <1>1, <1>2 DEF MInv, MTypes, MSame
<1>5. MGrows /\ Resolved'
  BY <1>1, MQuiet
<1>6. mpc'[p] = "pending" /\ since'[p] = checkpoint
  BY <1>1 DEF MInv, MTypes
<1>7. MCall(p)'
  <2>1. MCall(p) /\ Passed /\ checkpoint <= Len(mailbox)
    BY DEF MInv, MTypes
  <2>2. \A i \in 1..checkpoint : Safe(mailbox[i])'
    BY <1>1, <2>1 DEF Passed, Safe, DealtWith
  <2> QED
    BY <1>1, <1>6, <2>1, <2>2 DEF MCall
<1> QED
  BY <1>1, <1>3, <1>4, <1>5, <1>7, MOfOne

LEMMA MListPending ==
  ASSUME MInv, NEW p \in Puller, MP!ListPending(p)
  PROVE  MInv'
<1>1. /\ mpc[p] = "pending" /\ mpc' = [mpc EXCEPT ![p] = "list"]
      /\ pending' = [pending EXCEPT ![p] = MP!Pending]
      /\ UNCHANGED <<mailbox, checkpoint, filed, dropped, saved, excused, only, since, listedAt, unlisted,
                     mtodo, known, hand, trouble>>
  BY DEF MP!ListPending, MP!Goto, MP!mailVars, MP!rowVars, MP!workVars
<1>2. MP!Pending \subseteq Mail
  BY DEF MP!Pending
<1>3. MTypes'
  BY <1>1, <1>2 DEF MInv, MTypes, MLabel
<1>4. \A q \in Puller \ {p} : MSame(q)
  BY <1>1 DEF MInv, MTypes, MSame
<1>5. MGrows /\ Resolved'
  BY <1>1, MQuiet
<1>6. mpc'[p] = "list"
  BY <1>1 DEF MInv, MTypes
<1>7. MCall(p)'
  <2>1. MCall(p)
    BY DEF MInv
  <2>2. \A i \in 1..since[p] : Safe(mailbox[i])'
    BY <1>1, <2>1 DEF MCall, Safe, DealtWith
  <2> QED
    BY <1>1, <1>6, <2>1, <2>2 DEF MCall
<1> QED
  BY <1>1, <1>3, <1>4, <1>5, <1>7, MOfOne

(* What a listing lacks of the mails since the checkpoint is known to be    *)
(* unlisted.                                                                *)
LEMMA MList ==
  ASSUME MInv, NEW p \in Puller, MP!List(p)
  PROVE  MInv'
<1> DEFINE Later == MP!Since(since[p])
<1>1. /\ mpc[p] = "list" /\ mpc' = [mpc EXCEPT ![p] = "known"] /\ since' = [since EXCEPT ![p] = 0]
      /\ UNCHANGED <<mailbox, checkpoint, filed, dropped, saved, excused, only, pending, known, hand, trouble>>
  BY DEF MP!List, MP!Goto, MP!mailVars, MP!rowVars
<1>2. PICK batch \in SUBSET Later :
        \/ /\ only[p] # None /\ mtodo' = [mtodo EXCEPT ![p] = {only[p]}]
           /\ UNCHANGED <<listedAt, unlisted>>
        \/ /\ mtodo' = [mtodo EXCEPT ![p] = batch \cup pending[p]]
           /\ unlisted' = [unlisted EXCEPT ![p] = Later \ (batch \cup pending[p])]
           /\ listedAt' = [listedAt EXCEPT ![p] = Len(mailbox)]
  <2>1. CASE only[p] # None
    BY <2>1 DEF MP!List
  <2>2. CASE only[p] = None
    <3>1. PICK lost \in SUBSET Later :
            LET batch == (Later \cap MP!Newest(PageSize)) \ (lost \cup archived) IN
              /\ mtodo' = [mtodo EXCEPT ![p] = batch \cup pending[p]]
              /\ unlisted' = [unlisted EXCEPT ![p] = Later \ (batch \cup pending[p])]
              /\ listedAt' = [listedAt EXCEPT ![p] = Len(mailbox)]
      BY <2>2 DEF MP!List
    <3> QED
      BY <3>1
  <2> QED
    BY <2>1, <2>2
<1>3. Later \subseteq Mail
  BY DEF MInv, MTypes, MP!Since
<1>4. Len(mailbox) \in Nat /\ batch \cup pending[p] \subseteq Mail /\ Later \ (batch \cup pending[p]) \subseteq Mail
  BY <1>3 DEF MInv, MTypes
<1>5. MTypes'
  <2>1. mtodo' \in [Puller -> SUBSET Mail] /\ unlisted' \in [Puller -> SUBSET Mail] /\ listedAt' \in [Puller -> Nat]
    <3>1. only[p] # None => {only[p]} \subseteq Mail
      BY DEF MInv, MTypes
    <3>2. /\ mtodo \in [Puller -> SUBSET Mail] /\ unlisted \in [Puller -> SUBSET Mail]
          /\ listedAt \in [Puller -> Nat]
      BY DEF MInv, MTypes
    <3>3. CASE only[p] # None /\ mtodo' = [mtodo EXCEPT ![p] = {only[p]}] /\ UNCHANGED <<listedAt, unlisted>>
      BY <3>1, <3>2, <3>3
    <3>4. CASE /\ mtodo' = [mtodo EXCEPT ![p] = batch \cup pending[p]]
               /\ unlisted' = [unlisted EXCEPT ![p] = Later \ (batch \cup pending[p])]
               /\ listedAt' = [listedAt EXCEPT ![p] = Len(mailbox)]
      <4> HIDE DEF Later
      <4> QED
        BY <1>4, <3>2, <3>4
    <3> QED
      BY <1>2, <3>3, <3>4
  <2> QED
    BY <1>1, <2>1 DEF MInv, MTypes, MLabel
<1>6. \A q \in Puller \ {p} : MSame(q)
  BY <1>1, <1>2 DEF MInv, MTypes, MSame
<1>7. MGrows /\ Resolved'
  BY <1>1, MQuiet
<1>8. mpc'[p] = "known" /\ since'[p] = 0
  BY <1>1 DEF MInv, MTypes
<1>9. MCall(p)'
  <2>1. MCall(p)
    BY DEF MInv
  <2>2. listedAt'[p] <= Len(mailbox)
    BY <1>2, <1>4, <2>1 DEF MCall, MInv, MTypes
  <2>3. ASSUME only[p] = None, NEW i \in 1..listedAt'[p]
        PROVE  (Safe(mailbox[i]) \/ mailbox[i] \in mtodo[p] \cup unlisted[p])'
    <3>1. /\ mtodo'[p] = batch \cup pending[p] /\ unlisted'[p] = Later \ (batch \cup pending[p])
          /\ listedAt'[p] = Len(mailbox)
      BY <1>2, <2>3 DEF MInv, MTypes
    <3>2. i \in 1..since[p] \/ i \in (since[p] + 1)..Len(mailbox)
      BY <3>1 DEF MInv, MTypes
    <3>3. CASE i \in 1..since[p]
      BY <1>1, <2>1, <3>3 DEF MCall, Safe, DealtWith
    <3>4. CASE i \in (since[p] + 1)..Len(mailbox)
      BY <1>1, <3>1, <3>4 DEF MP!Since
    <3> QED
      BY <3>2, <3>3, <3>4
  <2> QED
    BY <1>1, <1>4, <1>8, <2>1, <2>2, <2>3 DEF MCall
<1> QED
  BY <1>1, <1>5, <1>6, <1>7, <1>9, MOfOne

LEMMA MReadKnown ==
  ASSUME MInv, NEW p \in Puller, MP!ReadKnown(p)
  PROVE  MInv'
<1>1. /\ mpc[p] = "known" /\ mpc' = [mpc EXCEPT ![p] = "next"]
      /\ known' = [known EXCEPT ![p] = mtodo[p] \cap filed]
      /\ UNCHANGED <<mailbox, checkpoint, filed, dropped, saved, excused, only, since, pending, listedAt,
                     unlisted, mtodo, hand, trouble>>
  BY DEF MP!ReadKnown, MP!Goto, MP!mailVars, MP!rowVars, MP!readVars
<1>2. MTypes'
  <2>1. mtodo[p] \cap filed \subseteq Mail
    BY DEF MInv, MTypes
  <2> QED
    BY <1>1, <2>1 DEF MInv, MTypes, MLabel
<1>3. \A q \in Puller \ {p} : MSame(q)
  BY <1>1 DEF MInv, MTypes, MSame
<1>4. MGrows /\ Resolved'
  BY <1>1, MQuiet
<1>5. mpc'[p] = "next" /\ known'[p] \subseteq filed
  BY <1>1 DEF MInv, MTypes
<1>6. MCall(p)'
  <2>1. MCall(p)
    BY DEF MInv
  <2>2. only[p] = None /\ ~trouble[p] =>
          \A i \in 1..listedAt[p] : Safe(mailbox[i])' \/ mailbox[i] \in mtodo[p] \cup unlisted[p]
    BY <1>1, <2>1 DEF MCall, Safe, DealtWith
  <2> QED
    BY <1>1, <1>5, <2>1, <2>2 DEF MCall
<1> QED
  BY <1>1, <1>2, <1>3, <1>4, <1>6, MOfOne

(* A mail leaves the hands of a pass safe, or with the pass in trouble.     *)
LEMMA MTaken ==
  ASSUME MInv, MTypes', MGrows, Resolved', NEW p \in Puller, NEW m \in Mail,
         mpc[p] = "next", mtodo' = [mtodo EXCEPT ![p] = mtodo[p] \ {m}],
         UNCHANGED <<mailbox, checkpoint, only, since, listedAt, unlisted, known>>,
         \A q \in Puller \ {p} : mpc'[q] = mpc[q] /\ hand'[q] = hand[q] /\ trouble'[q] = trouble[q],
         mpc'[p] = "next" \/ (mpc'[p] = "resolve" /\ hand'[p] \in Mail /\ DealtWith(hand[p])'),
         trouble'[p] = TRUE \/ (trouble'[p] = trouble[p] /\ Safe(m)')
  PROVE  MInv'
<1>1. \A q \in Puller \ {p} : MSame(q)
  BY DEF MInv, MTypes, MSame
<1>2. MCall(p)'
  <2>1. MCall(p)
    BY DEF MInv
  <2>2. ASSUME only[p] = None, ~trouble'[p], NEW i \in 1..listedAt[p]
        PROVE  Safe(mailbox[i])' \/ mailbox[i] \in mtodo'[p] \cup unlisted[p]
    <3>1. ~trouble[p] /\ Safe(m)'
      BY <2>2
    <3>2. Safe(mailbox[i]) \/ mailbox[i] \in mtodo[p] \cup unlisted[p]
      BY <2>1, <2>2, <3>1 DEF MCall
    <3>3. i \in 1..Len(mailbox)
      BY <2>1 DEF MCall, MInv, MTypes
    <3>4. CASE Safe(mailbox[i])
      BY <3>3, <3>4, MSafe DEF MInv
    <3>5. CASE mailbox[i] \in mtodo[p] \cup unlisted[p]
      <4>1. mtodo'[p] = mtodo[p] \ {m}
        BY DEF MInv, MTypes
      <4>2. mailbox'[i] = mailbox[i]
        OBVIOUS
      <4>3. CASE mailbox[i] = m
        BY <3>1, <4>2, <4>3
      <4> QED
        BY <3>5, <4>1, <4>3
    <3> QED
      BY <3>2, <3>4, <3>5
  <2>3. known'[p] \subseteq filed'
    BY <2>1 DEF MCall, MGrows
  <2> QED
    BY <2>1, <2>2, <2>3 DEF MCall
<1> QED
  BY <1>1, <1>2, MOfOne

LEMMA MTakes ==
  ASSUME MInv, NEW p \in Puller, NEW m \in Mail, MP!OneMail(p, m)
  PROVE  /\ mpc[p] = "next" /\ m \in mtodo[p] /\ mtodo' = [mtodo EXCEPT ![p] = mtodo[p] \ {m}]
         /\ UNCHANGED <<mailbox, checkpoint, excused, only, since, pending, listedAt, unlisted, known>>
BY DEF MP!OneMail, MP!Skip, MP!Drop, MP!FileReply, MP!File, MP!ParseFails, MP!Ambiguous, MP!MailFails,
       MP!Take, MP!mailVars, MP!rowVars, MP!readVars

LEMMA MOneMail ==
  ASSUME MInv, NEW p \in Puller, NEW m \in Mail, MP!OneMail(p, m)
  PROVE  MInv'
<1>1. /\ mpc[p] = "next" /\ m \in mtodo[p] /\ mtodo' = [mtodo EXCEPT ![p] = mtodo[p] \ {m}]
      /\ UNCHANGED <<mailbox, checkpoint, excused, only, since, pending, listedAt, unlisted, known>>
  BY MTakes
<1>2. CASE MP!Skip(p, m) \/ MP!Drop(p, m) \/ MP!FileReply(p, m) \/ MP!File(p, m)
  <2>1. MP!Settled(p, m) /\ filed \subseteq filed' /\ dropped \subseteq dropped' /\ DealtWith(m)'
    BY <1>2 DEF MP!Skip, MP!Drop, MP!FileReply, MP!File, MInv, MCall, DealtWith
  <2>2. /\ saved' = saved /\ trouble' = trouble
        /\ \/ hand' = [hand EXCEPT ![p] = m] /\ mpc' = [mpc EXCEPT ![p] = "resolve"]
           \/ hand' = hand /\ mpc' = mpc
    BY <2>1 DEF MP!Settled, MP!Goto
  <2>3. MTypes'
    <3>1. mtodo' \in [Puller -> SUBSET Mail]
      BY <1>1 DEF MInv, MTypes
    <3>2. hand' \in [Puller -> Mail \cup {None}] /\ mpc' \in [Puller -> MLabel]
      <4>1. /\ hand \in [Puller -> Mail \cup {None}] /\ mpc \in [Puller -> MLabel]
            /\ "resolve" \in MLabel /\ m \in Mail \cup {None}
        BY DEF MInv, MTypes, MLabel
      <4> QED
        BY <2>2, <4>1
    <3> QED
      BY <1>1, <2>2, <3>1, <3>2 DEF MInv, MTypes
  <2>4. MGrows /\ Resolved'
    BY <1>1, <2>1, <2>2 DEF MInv, MTypes, MGrows, Resolved, DealtWith
  <2>5. /\ \A q \in Puller \ {p} : mpc'[q] = mpc[q] /\ hand'[q] = hand[q] /\ trouble'[q] = trouble[q]
        /\ mpc'[p] = "next" \/ (mpc'[p] = "resolve" /\ hand'[p] = m)
    BY <1>1, <2>2 DEF MInv, MTypes
  <2>6. Safe(m)'
    BY <2>1 DEF Safe
  <2>7. mpc'[p] = "next" \/ (mpc'[p] = "resolve" /\ hand'[p] \in Mail /\ DealtWith(hand[p])')
    BY <2>1, <2>5
  <2> QED
    BY <1>1, <2>2, <2>3, <2>4, <2>5, <2>6, <2>7, MTaken
<1>3. CASE MP!ParseFails(p, m)
  <2>1. /\ saved' = [saved EXCEPT ![m] = IF saved[m] = "resolved" THEN saved[m] ELSE "pending"]
        /\ UNCHANGED <<filed, dropped, mpc, hand, trouble>>
    BY <1>3 DEF MP!ParseFails
  <2>2. MTypes'
    BY <1>1, <2>1 DEF MInv, MTypes
  <2>3. MGrows /\ Resolved' /\ Safe(m)'
    BY <1>1, <2>1 DEF MInv, MTypes, MGrows, Resolved, DealtWith, Safe
  <2> QED
    BY <1>1, <2>1, <2>2, <2>3, MTaken
<1>4. CASE MP!Ambiguous(p, m) \/ MP!MailFails(p, m)
  <2>1. /\ trouble' = [trouble EXCEPT ![p] = TRUE]
        /\ UNCHANGED <<filed, dropped, saved, mpc, hand>>
    BY <1>4 DEF MP!Ambiguous, MP!MailFails, MP!rowVars
  <2>2. MTypes'
    BY <1>1, <2>1 DEF MInv, MTypes
  <2>3. MGrows /\ Resolved'
    BY <1>1, <2>1, MQuiet
  <2>4. trouble'[p] = TRUE /\ \A q \in Puller \ {p} : trouble'[q] = trouble[q]
    BY <2>1 DEF MInv, MTypes
  <2> QED
    BY <1>1, <2>1, <2>2, <2>3, <2>4, MTaken
<1> QED
  BY <1>2, <1>3, <1>4 DEF MP!OneMail

(* The saved failure in hand is resolved: its mail was dealt with.          *)
LEMMA MResolve ==
  ASSUME MInv, NEW p \in Puller, MP!Resolve(p)
  PROVE  MInv'
<1>1. /\ mpc[p] = "resolve" /\ mpc' = [mpc EXCEPT ![p] = "next"] /\ hand' = [hand EXCEPT ![p] = None]
      /\ saved' = [saved EXCEPT ![hand[p]] = IF saved[hand[p]] = "pending" THEN "resolved" ELSE saved[hand[p]]]
      /\ UNCHANGED <<mailbox, checkpoint, filed, dropped, excused, only, since, pending, listedAt, unlisted,
                     mtodo, known, trouble>>
  BY DEF MP!Resolve, MP!Goto, MP!mailVars, MP!readVars
<1>2. MCall(p) /\ hand[p] \in Mail /\ DealtWith(hand[p])
  BY <1>1 DEF MInv, MCall
<1>3. MTypes'
  <2>1. saved' \in [Mail -> {"none", "pending", "resolved"}]
    BY <1>1, <1>2 DEF MInv, MTypes
  <2> QED
    BY <1>1, <2>1 DEF MInv, MTypes, MLabel
<1>4. \A m \in Mail : saved'[m] = saved[m] \/ m = hand[p]
  BY <1>1, <1>2 DEF MInv, MTypes
<1>5. MGrows
  BY <1>1, <1>2, <1>4 DEF MInv, MTypes, MGrows
<1>6. Resolved'
  BY <1>1, <1>2, <1>4 DEF MInv, Resolved, DealtWith
<1>7. \A q \in Puller \ {p} : MSame(q)
  BY <1>1 DEF MInv, MTypes, MSame
<1>8. mpc'[p] = "next"
  BY <1>1 DEF MInv, MTypes
<1>9. MCall(p)'
  <2>1. ASSUME only[p] = None, ~trouble[p], NEW i \in 1..listedAt[p]
        PROVE  Safe(mailbox[i])' \/ mailbox[i] \in mtodo[p] \cup unlisted[p]
    <3>1. i \in 1..Len(mailbox)
      BY <1>2 DEF MCall, MInv, MTypes
    <3>2. Safe(mailbox[i]) \/ mailbox[i] \in mtodo[p] \cup unlisted[p]
      BY <1>1, <1>2, <2>1 DEF MCall
    <3> QED
      BY <1>5, <3>1, <3>2, MSafe DEF MInv
  <2> QED
    BY <1>1, <1>2, <1>8, <2>1 DEF MCall
<1> QED
  BY <1>1, <1>3, <1>5, <1>6, <1>7, <1>9, MOfOne

(* A pass ends.                                                             *)
LEMMA MForget ==
  ASSUME MInv, NEW p \in Puller, MP!Forget(p), UNCHANGED <<mailbox, filed, dropped, saved>>,
         checkpoint' \in Nat, checkpoint' <= Len(mailbox), excused \subseteq excused'
  PROVE  MTypes' /\ MGrows /\ Resolved' /\ \A q \in Puller : MCall(q)'
<1>1. /\ mpc' = [mpc EXCEPT ![p] = "idle"] /\ only' = [only EXCEPT ![p] = None]
      /\ since' = [since EXCEPT ![p] = 0] /\ pending' = [pending EXCEPT ![p] = {}]
      /\ listedAt' = [listedAt EXCEPT ![p] = 0] /\ unlisted' = [unlisted EXCEPT ![p] = {}]
      /\ mtodo' = [mtodo EXCEPT ![p] = {}] /\ known' = [known EXCEPT ![p] = {}]
      /\ hand' = [hand EXCEPT ![p] = None] /\ trouble' = [trouble EXCEPT ![p] = FALSE]
  BY DEF MP!Forget, MP!Goto, MP!Cleared
<1>2. MTypes'
  <2>1. mpc' \in [Puller -> MLabel] /\ only' \in [Puller -> Mail \cup {None}] /\ since' \in [Puller -> Nat]
    BY <1>1 DEF MInv, MTypes, MLabel
  <2>2. pending' \in [Puller -> SUBSET Mail] /\ listedAt' \in [Puller -> Nat] /\ unlisted' \in [Puller -> SUBSET Mail]
    BY <1>1 DEF MInv, MTypes
  <2>3. mtodo' \in [Puller -> SUBSET Mail] /\ known' \in [Puller -> SUBSET Mail]
    BY <1>1 DEF MInv, MTypes
  <2>4. hand' \in [Puller -> Mail \cup {None}] /\ trouble' \in [Puller -> BOOLEAN]
    BY <1>1 DEF MInv, MTypes
  <2> QED
    BY <2>1, <2>2, <2>3, <2>4 DEF MInv, MTypes
<1>3. MGrows /\ Resolved'
  BY DEF MInv, MTypes, MGrows, Resolved, DealtWith
<1>4. \A q \in Puller \ {p} : MSame(q)
  BY <1>1 DEF MInv, MTypes, MSame
<1>5. MCall(p)'
  <2>1. mpc'[p] = "idle" /\ known'[p] = {} /\ since'[p] = 0 /\ listedAt'[p] = 0
    BY <1>1 DEF MInv, MTypes
  <2>2. Len(mailbox') \in Nat
    BY <1>2 DEF MTypes
  <2> QED
    BY <2>1, <2>2 DEF MCall
<1>6. \A q \in Puller : MCall(q)'
  <2> SUFFICES ASSUME NEW q \in Puller, q # p PROVE MCall(q)'
    BY <1>5
  <2> QED
    BY <1>2, <1>3, <1>4, MKept
<1> QED
  BY <1>2, <1>3, <1>6

LEMMA MEnds ==
  ASSUME MInv, NEW p \in Puller, MP!End(p) \/ MP!Fail(p) \/ MP!Crash(p)
  PROVE  MInv'
<1>1. /\ MP!Forget(p) /\ UNCHANGED <<mailbox, filed, dropped, saved>>
      /\ \/ UNCHANGED <<checkpoint, excused>>
         \/ MP!Stamp(p) /\ mpc[p] = "next" /\ mtodo[p] = {} /\ only[p] = None /\ ~trouble[p]
  BY DEF MP!End, MP!Fail, MP!Crash, MP!mailVars, MP!rowVars
<1>2. /\ checkpoint' \in Nat /\ checkpoint' <= Len(mailbox) /\ excused \subseteq excused'
  BY <1>1 DEF MInv, MTypes, MP!Stamp
<1>3. MTypes' /\ MGrows /\ Resolved' /\ \A q \in Puller : MCall(q)'
  BY <1>1, <1>2, MForget
<1>4. CASE UNCHANGED <<checkpoint, excused>>
  BY <1>3, <1>4, MPassed DEF MInv
<1>5. CASE MP!Stamp(p) /\ mpc[p] = "next" /\ mtodo[p] = {} /\ only[p] = None /\ ~trouble[p]
  <2>1. /\ checkpoint' = Len(mailbox)
        /\ excused' = excused \cup ((unlisted[p] \cup MP!Since(listedAt[p])) \ (filed \cup dropped))
    BY <1>5 DEF MP!Stamp
  <2>2. ASSUME NEW i \in 1..Len(mailbox) PROVE Safe(mailbox[i])'
    <3>1. mailbox'[i] = mailbox[i]
      BY <1>1
    <3>2. \/ Safe(mailbox[i]) \/ mailbox[i] \in unlisted[p] \/ mailbox[i] \in MP!Since(listedAt[p])
      <4>1. i \in 1..listedAt[p] \/ i \in (listedAt[p] + 1)..Len(mailbox)
        BY DEF MInv, MTypes
      <4>2. CASE i \in 1..listedAt[p]
        BY <1>5, <4>2 DEF MInv, MCall
      <4>3. CASE i \in (listedAt[p] + 1)..Len(mailbox)
        BY <4>3 DEF MP!Since
      <4> QED
        BY <4>1, <4>2, <4>3
    <3> QED
      BY <1>1, <2>1, <3>1, <3>2 DEF Safe, DealtWith
  <2>3. Passed'
    BY <2>1, <2>2 DEF Passed
  <2> QED
    BY <1>3, <2>3 DEF MInv
<1> QED
  BY <1>1, <1>4, <1>5

(* A step of the world, or none.                                            *)
LEMMA MElsewhere ==
  ASSUME MInv, UNCHANGED <<checkpoint, filed, dropped, saved, excused, mpc, only, since, pending, listedAt,
                           unlisted, mtodo, known, hand, trouble>>,
         mailbox' = mailbox \/ \E m \in Mail : mailbox' = Append(mailbox, m)
  PROVE  MInv'
<1>1. /\ mailbox' \in Seq(Mail) /\ Len(mailbox) <= Len(mailbox')
      /\ \A i \in 1..Len(mailbox) : mailbox'[i] = mailbox[i]
  <2>1. mailbox \in Seq(Mail) /\ Len(mailbox) \in Nat
    BY DEF MInv, MTypes
  <2>2. ASSUME NEW m \in Mail, mailbox' = Append(mailbox, m)
        PROVE  /\ mailbox' \in Seq(Mail) /\ Len(mailbox) <= Len(mailbox')
               /\ \A i \in 1..Len(mailbox) : mailbox'[i] = mailbox[i]
    <3>1. mailbox' \in Seq(Mail) /\ Len(mailbox') = Len(mailbox) + 1
      BY <2>1, <2>2
    <3>2. \A i \in 1..Len(mailbox) : mailbox'[i] = mailbox[i]
      BY <2>1, <2>2
    <3> QED
      BY <2>1, <3>1, <3>2
  <2> QED
    BY <2>1, <2>2
<1>2. MTypes'
  BY <1>1 DEF MInv, MTypes
<1>3. MGrows /\ Resolved'
  BY <1>1 DEF MInv, MGrows, Resolved, DealtWith
<1>4. \A q \in Puller : MCall(q)'
  BY <1>2, <1>3, MKept DEF MSame
<1> QED
  BY <1>2, <1>3, <1>4, MPassed DEF MInv

LEMMA MInvariance == MP!Spec => []MInv
<1>1. ASSUME MP!Init PROVE MInv
  <2>1. MTypes
    BY <1>1 DEF MP!Init, MTypes, MLabel
  <2>2. /\ checkpoint = 0 /\ \A m \in Mail : saved[m] = "none"
        /\ \A p \in Puller : mpc[p] = "idle" /\ known[p] = {} /\ since[p] = 0 /\ listedAt[p] = 0
    BY <1>1 DEF MP!Init
  <2>3. Len(mailbox) \in Nat
    BY <2>1 DEF MTypes
  <2>4. Passed /\ Resolved
    BY <2>2 DEF Passed, Resolved
  <2>5. \A p \in Puller : MCall(p)
    BY <2>2, <2>3 DEF MCall
  <2> QED
    BY <2>1, <2>4, <2>5 DEF MInv
<1>2. ASSUME MInv, [MP!Next]_(MP!vars)
      PROVE  MInv'
  <2>1. ASSUME NEW p \in Puller, MP!Start(p) \/ MP!ListPending(p) \/ MP!List(p) \/ MP!ReadKnown(p)
        PROVE  MInv'
    BY <1>2, <2>1, MStart, MListPending, MList, MReadKnown
  <2>2. ASSUME NEW p \in Puller, NEW m \in Mail, MP!OneMail(p, m)
        PROVE  MInv'
    BY <1>2, <2>2, MOneMail
  <2>3. ASSUME NEW p \in Puller, MP!Resolve(p) \/ MP!End(p) \/ MP!Fail(p) \/ MP!Crash(p)
        PROVE  MInv'
    BY <1>2, <2>3, MResolve, MEnds
  <2>4. CASE \/ UNCHANGED MP!vars
             \/ \E m \in Mail : MP!Arrive(m) \/ MP!Archive(m) \/ MP!Merge(m)
    <3>1. UNCHANGED <<checkpoint, filed, dropped, saved, excused, mpc, only, since, pending, listedAt,
                      unlisted, mtodo, known, hand, trouble>>
      BY <2>4 DEF MP!vars, MP!Arrive, MP!Archive, MP!Merge, MP!mailVars, MP!rowVars, MP!readVars, MP!workVars
    <3>2. mailbox' = mailbox \/ \E m \in Mail : mailbox' = Append(mailbox, m)
      BY <2>4 DEF MP!vars, MP!Arrive, MP!Archive, MP!Merge, MP!mailVars
    <3> QED
      BY <1>2, <3>1, <3>2, MElsewhere
  <2> QED
    BY <1>2, <2>1, <2>2, <2>3, <2>4 DEF MP!Next
<1>3. MP!Init => MInv
  BY <1>1
<1>4. MInv /\ [MP!Next]_(MP!vars) => MInv'
  BY <1>2
<1> QED
  BY <1>3, <1>4, PTL DEF MP!Spec

(* For any number of passes, retries and mails, of any page size, and       *)
(* through every failure and crash: a mail up to the checkpoint was dealt   *)
(* with, is saved, or was in no listing; and a saved failure is resolved    *)
(* only when its mail was dealt with (syncLeadCaptureInbox, record and      *)
(* resolve of email-parse-failures).                                        *)
THEOREM NoMailForgottenCorrect == MP!Spec => []NoMailForgotten
<1>1. MInv => NoMailForgotten
  BY DEF MInv, Passed, Resolved, Safe, DealtWith, NoMailForgotten, M!PassedIsDealtWith,
         M!ResolvedIsDealtWith, M!DealtWith
<1> QED
  BY <1>1, MInvariance, PTL
-----------------------------------------------------------------------------
(* Google Local Services. *)

Raw == {"none", "disputed", "approved", "rejected"}
GLabel == {"idle", "next", "update", "recent", "create", "stamp", "read", "call", "write", "done"}
Row == [of : GoogleLead, stamp : GoogleLead \cup {None}, recent : BOOLEAN,
        status : {"new", "disqualified"}, payload : GP!Payload]

GAssumption ==
  /\ IsFiniteSet(Puller) /\ Puller \cap Clerk = {}
  /\ None \notin GoogleLead /\ None \notin Row

GTypes ==
  /\ google \in [GoogleLead -> Raw \cup {"absent"}] /\ row \in Seq(Row \cup {None})
  /\ gpc \in [GP!Worker -> GLabel] /\ this \in [GP!Worker -> GoogleLead \cup {None}]
  /\ gfound \in [GP!Worker -> Nat \cup {None}] /\ base \in [GP!Worker -> GP!Payload]
  /\ answer \in [GP!Worker -> {"none", "submitted", "failed"}]
  /\ \A p \in Puller : /\ DOMAIN listed[p] \subseteq GoogleLead
                       /\ \A g \in DOMAIN listed[p] : listed[p][g] \in Raw
  /\ DOMAIN listed = Puller
  /\ autoCalls \in [GoogleLead -> Nat] /\ deleted \in [GoogleLead -> Nat]

(* What a call refers to at which step: a lead of its listing, a row, and   *)
(* until it stamps it, a row of its own without a stamp.                    *)
GPlace(w) ==
  /\ gpc[w] \in {"update", "recent", "create"} => w \in Puller /\ this[w] \in DOMAIN listed[w]
  /\ gpc[w] = "stamp" => w \in Puller
  /\ gpc[w] \in {"stamp", "call"} => this[w] \in GoogleLead
  /\ gpc[w] \in {"update", "stamp", "read", "call", "write"} => gfound[w] \in DOMAIN row
  /\ w \in Puller /\ gpc[w] \in {"stamp", "read"} /\ GP!Live(gfound[w]) => row[gfound[w]].of = this[w]
  /\ gpc[w] = "stamp" /\ GP!Live(gfound[w]) => row[gfound[w]].stamp = None

GApart == \A v, w \in GP!Worker : gpc[v] = "stamp" /\ gpc[w] = "stamp" /\ gfound[v] = gfound[w] => v = w

(* The passes that are on their way to dispute a lead automatically.        *)
Bound(p, g) == this[p] = g /\ (gpc[p] = "call" \/ (gpc[p] = "read" /\ GP!Live(gfound[p])))
Owed(g) == {p \in Puller : Bound(p, g)}
Marked(g) == IF GP!Stamped(g) = {} THEN 0 ELSE 1

(* Each dispute filed or on its way is paid for by a stamp that stands or   *)
(* by one that was deleted with its row.                                    *)
GCount == \A g \in GoogleLead : autoCalls[g] + Cardinality(Owed(g)) <= deleted[g] + Marked(g)

GInv == GTypes /\ (\A w \in GP!Worker : GPlace(w)) /\ GApart /\ GCount

(* How rows change but for stamps and deletions.                            *)
RowsKept ==
  /\ DOMAIN row \subseteq DOMAIN row'
  /\ \A r \in DOMAIN row : GP!Live(r)' => GP!Live(r) /\ row'[r].of = row[r].of /\ row'[r].stamp = row[r].stamp
RowsStay == RowsKept /\ \A r \in DOMAIN row : GP!Live(r) => GP!Live(r)'

GSame(v) ==
  /\ gpc'[v] = gpc[v] /\ this'[v] = this[v] /\ gfound'[v] = gfound[v]
  /\ v \in Puller => listed'[v] = listed[v]

LEMMA GKept ==
  ASSUME GInv, NEW v \in GP!Worker, GSame(v), RowsKept
  PROVE  GPlace(v)'
BY DEF GInv, GPlace, GSame, RowsKept, GP!Live

LEMMA GStays ==
  ASSUME GInv, NEW v \in Puller, NEW g, GSame(v), RowsKept, Bound(v, g)'
  PROVE  Bound(v, g)
<1>1. v \in GP!Worker /\ GPlace(v)
  BY DEF GInv, GP!Worker
<1> QED
  BY <1>1 DEF Bound, GSame, RowsKept, GPlace, GP!Live

LEMMA OwedFinite ==
  ASSUME GAssumption, NEW g
  PROVE  IsFiniteSet(Owed(g)) /\ Cardinality(Owed(g)) \in Nat
<1>1. Owed(g) \subseteq Puller /\ IsFiniteSet(Puller)
  BY DEF Owed, GAssumption
<1> QED
  BY <1>1, FS_Subset, FS_CardinalityType

(* The same at the end of a step.                                           *)
LEMMA OwedFiniteNext ==
  ASSUME GAssumption, NEW g
  PROVE  IsFiniteSet(Owed(g)') /\ Cardinality(Owed(g)') \in Nat
<1>1. Owed(g)' \subseteq Puller /\ IsFiniteSet(Puller)
  BY DEF Owed, GAssumption
<1> QED
  BY <1>1, FS_Subset, FS_CardinalityType

LEMMA StampsStay ==
  ASSUME GTypes, RowsStay, NEW g
  PROVE  GP!Stamped(g) \subseteq GP!Stamped(g)'
<1> SUFFICES ASSUME NEW r \in GP!Stamped(g) PROVE r \in GP!Stamped(g)'
  OBVIOUS
<1>1. r \in DOMAIN row /\ GP!Live(r) /\ row[r].stamp = g
  BY DEF GP!Stamped
<1>2. r \in DOMAIN row' /\ GP!Live(r)' /\ row'[r].stamp = g
  BY <1>1 DEF RowsStay, RowsKept
<1> QED
  BY <1>2 DEF GP!Stamped

(* A step of the calls in W, or of the world if there are none, that files  *)
(* no dispute and stamps and deletes no row.                                *)
LEMMA GQuiet ==
  ASSUME GAssumption, GInv, GTypes', NEW W \in SUBSET GP!Worker,
         \A v \in GP!Worker \ W : GSame(v), RowsStay, UNCHANGED <<autoCalls, deleted>>,
         \A w \in W : GPlace(w)',
         \A w \in W, v \in GP!Worker : gpc'[w] = "stamp" /\ gpc'[v] = "stamp" /\ gfound'[w] = gfound'[v] => v = w,
         \A w \in W \cap Puller, g \in GoogleLead : Bound(w, g)' => Bound(w, g)
  PROVE  GInv'
<1>1. \A v \in GP!Worker : GPlace(v)'
  <2> SUFFICES ASSUME NEW v \in GP!Worker, v \notin W PROVE GPlace(v)'
    OBVIOUS
  <2> QED
    BY GKept DEF RowsStay
<1>2. GApart'
  <2> SUFFICES ASSUME NEW v \in GP!Worker, NEW w \in GP!Worker,
                      gpc'[v] = "stamp", gpc'[w] = "stamp", gfound'[v] = gfound'[w]
               PROVE  v = w
    BY DEF GApart
  <2>1. CASE v \in W \/ w \in W
    BY <2>1
  <2>2. CASE v \notin W /\ w \notin W
    BY <2>2 DEF GInv, GApart, GSame
  <2> QED
    BY <2>1, <2>2
<1>3. ASSUME NEW g \in GoogleLead
      PROVE  autoCalls'[g] + Cardinality(Owed(g)') <= deleted'[g] + Marked(g)'
  <2>1. Owed(g)' \subseteq Owed(g)
    <3> SUFFICES ASSUME NEW v \in Puller, Bound(v, g)' PROVE Bound(v, g)
      BY DEF Owed
    <3>1. v \in GP!Worker
      BY DEF GP!Worker
    <3>2. CASE v \in W
      BY <3>2
    <3>3. CASE v \notin W
      BY <3>1, <3>3, GStays DEF RowsStay
    <3> QED
      BY <3>2, <3>3
  <2>2. Cardinality(Owed(g)') <= Cardinality(Owed(g))
    BY <2>1, OwedFinite, FS_Subset
  <2>3. Marked(g) <= Marked(g)' /\ Marked(g) \in Nat /\ Marked(g)' \in Nat
    BY StampsStay DEF Marked, GInv
  <2>4. /\ autoCalls[g] + Cardinality(Owed(g)) <= deleted[g] + Marked(g)
        /\ autoCalls[g] \in Nat /\ deleted[g] \in Nat
        /\ autoCalls'[g] = autoCalls[g] /\ deleted'[g] = deleted[g]
    BY DEF GInv, GTypes, GCount
  <2>5. Cardinality(Owed(g)) \in Nat /\ Cardinality(Owed(g)') \in Nat
    BY OwedFinite, OwedFiniteNext
  <2> QED
    BY <2>2, <2>3, <2>4, <2>5
<1> QED
  BY <1>1, <1>2, <1>3 DEF GInv, GCount

LEMMA GOfOne ==
  ASSUME GAssumption, GInv, GTypes', NEW w \in GP!Worker,
         \A v \in GP!Worker \ {w} : GSame(v), RowsStay, UNCHANGED <<autoCalls, deleted>>,
         GPlace(w)',
         gpc'[w] = "stamp" => \A v \in GP!Worker \ {w} : gpc[v] = "stamp" => gfound'[w] # gfound[v],
         w \in Puller => \A g \in GoogleLead : Bound(w, g)' => Bound(w, g)
  PROVE  GInv'
<1> DEFINE W == {w}
<1>1. W \in SUBSET GP!Worker /\ \A v \in GP!Worker \ W : GSame(v)
  OBVIOUS
<1>2. \A u \in W : GPlace(u)'
  OBVIOUS
<1>3. ASSUME NEW u \in W, NEW v \in GP!Worker,
             gpc'[u] = "stamp", gpc'[v] = "stamp", gfound'[u] = gfound'[v]
      PROVE  v = u
  BY <1>1, <1>3 DEF GSame
<1>4. \A u \in W \cap Puller, g \in GoogleLead : Bound(u, g)' => Bound(u, g)
  OBVIOUS
<1> HIDE DEF W
<1> QED
  BY <1>1, <1>2, <1>3, <1>4, GQuiet

LEMMA GOfNobody ==
  ASSUME GAssumption, GInv, GTypes',
         \A v \in GP!Worker : GSame(v), RowsStay, UNCHANGED <<autoCalls, deleted>>
  PROVE  GInv'
<1> DEFINE W == {}
<1>1. W \in SUBSET GP!Worker /\ \A v \in GP!Worker \ W : GSame(v)
  OBVIOUS
<1>2. /\ \A w \in W : GPlace(w)'
      /\ \A w \in W, v \in GP!Worker : gpc'[w] = "stamp" /\ gpc'[v] = "stamp" /\ gfound'[w] = gfound'[v] => v = w
      /\ \A w \in W \cap Puller, g \in GoogleLead : Bound(w, g)' => Bound(w, g)
  OBVIOUS
<1> HIDE DEF W
<1> QED
  BY <1>1, <1>2, GQuiet

(* Rows and payloads.                                                       *)
LEMMA MergedPayload ==
  ASSUME NEW x \in GP!Payload, NEW s \in Raw
  PROVE  GP!Merged(x, s) \in GP!Payload
<1>1. x.marker \in {"none", "submitted", "failed"} \cup GP!Decided /\ s \in {"none", "disputed"} \cup GP!Decided
  BY DEF GP!Payload, Raw, GP!Decided
<1>2. GP!Mirrored(x.marker, s) \in {"none", "submitted", "failed"} \cup GP!Decided
  BY <1>1 DEF GP!Mirrored, GP!Decided
<1> QED
  BY <1>1, <1>2 DEF GP!Merged, GP!Payload

LEMMA OtherRow ==
  ASSUME GTypes, NEW r \in DOMAIN row, GP!Live(r), NEW n \in Row,
         n.of = row[r].of, n.stamp = row[r].stamp, row' = [row EXCEPT ![r] = n]
  PROVE  row' \in Seq(Row \cup {None}) /\ RowsKept
<1>1. row \in Seq(Row \cup {None})
  BY DEF GTypes
<1>2. row' \in Seq(Row \cup {None}) /\ DOMAIN row' = DOMAIN row
  BY <1>1
<1>3. ASSUME NEW k \in DOMAIN row, GP!Live(k)'
      PROVE  GP!Live(k) /\ row'[k].of = row[k].of /\ row'[k].stamp = row[k].stamp
  <2>1. row'[k] = IF k = r THEN n ELSE row[k]
    BY <1>3
  <2> QED
    BY <1>3, <2>1 DEF GP!Live
<1> QED
  BY <1>2, <1>3 DEF RowsKept

LEMMA OtherRowStays ==
  ASSUME GAssumption, GTypes, NEW r \in DOMAIN row, GP!Live(r), NEW n \in Row,
         n.of = row[r].of, n.stamp = row[r].stamp, row' = [row EXCEPT ![r] = n]
  PROVE  row' \in Seq(Row \cup {None}) /\ RowsStay
<1>1. n # None
  BY DEF GAssumption
<1>2. \A k \in DOMAIN row : GP!Live(k) => GP!Live(k)'
  BY <1>1 DEF GP!Live, GTypes
<1> QED
  BY <1>2, OtherRow DEF RowsStay

LEMMA LiveRow ==
  ASSUME GTypes, NEW r, GP!Live(r)
  PROVE  r \in DOMAIN row /\ row[r] \in Row
BY DEF GTypes, GP!Live

LEMMA SameRows ==
  ASSUME UNCHANGED row
  PROVE  RowsStay
BY DEF RowsStay, RowsKept, GP!Live

(* A step of one call to a place that refers to no row.                     *)
Resting == {"idle", "next", "done"}

LEMMA GRests ==
  ASSUME GAssumption, GInv, GTypes', NEW w \in GP!Worker, gpc'[w] \in Resting,
         \A v \in GP!Worker \ {w} : GSame(v), RowsStay, UNCHANGED <<autoCalls, deleted>>
  PROVE  GInv'
<1>1. GPlace(w)'
  BY DEF GPlace, Resting
<1>2. \A g \in GoogleLead : ~Bound(w, g)'
  BY DEF Bound, Resting
<1>3. gpc'[w] # "stamp"
  BY DEF Resting
<1> QED
  BY <1>1, <1>2, <1>3, GOfOne

LEMMA GFetch ==
  ASSUME GAssumption, GInv, NEW p \in Puller, GP!Fetch(p) \/ GP!EndPass(p)
  PROVE  GInv'
<1>1. /\ gpc' = [gpc EXCEPT ![p] = IF gpc[p] = "idle" THEN "next" ELSE "idle"]
      /\ UNCHANGED <<google, row, this, gfound, base, answer, autoCalls, deleted>>
      /\ \/ listed' = listed
         \/ listed' = [listed EXCEPT ![p] = [g \in {h \in GoogleLead : google[h] # "absent"} |-> google[g]]]
  BY DEF GP!Fetch, GP!EndPass, GP!Goto, GP!history
<1>2. p \in GP!Worker /\ GTypes
  BY DEF GP!Worker, GInv
<1>3. GTypes'
  <2>1. gpc' \in [GP!Worker -> GLabel]
    BY <1>1, <1>2 DEF GTypes, GLabel
  <2>2. DOMAIN listed' = Puller
    BY <1>1, <1>2 DEF GTypes
  <2>3. ASSUME NEW q \in Puller
        PROVE  DOMAIN listed'[q] \subseteq GoogleLead /\ \A g \in DOMAIN listed'[q] : listed'[q][g] \in Raw
    <3>1. CASE listed'[q] = listed[q]
      BY <1>2, <3>1 DEF GTypes
    <3>2. CASE listed'[q] = [g \in {h \in GoogleLead : google[h] # "absent"} |-> google[g]]
      BY <1>2, <3>2 DEF GTypes
    <3> QED
      BY <1>1, <1>2, <3>1, <3>2 DEF GTypes
  <2> QED
    BY <1>1, <1>2, <2>1, <2>2, <2>3 DEF GTypes
<1>4. \A v \in GP!Worker \ {p} : GSame(v)
  BY <1>1, <1>2 DEF GTypes, GSame
<1>5. gpc'[p] \in Resting
  BY <1>1, <1>2 DEF GTypes, Resting
<1> QED
  BY <1>1, <1>2, <1>3, <1>4, <1>5, SameRows, GRests

LEMMA GFind ==
  ASSUME GAssumption, GInv, NEW p \in Puller, NEW g \in GoogleLead, GP!Find(p, g)
  PROVE  GInv'
<1>1. /\ gpc[p] = "next" /\ g \in DOMAIN listed[p] /\ this' = [this EXCEPT ![p] = g]
      /\ UNCHANGED <<google, row, listed, answer, autoCalls, deleted>>
  BY DEF GP!Find, GP!history
<1>2. p \in GP!Worker /\ GTypes
  BY DEF GP!Worker, GInv
<1>3. \/ gpc' = [gpc EXCEPT ![p] = "recent"] /\ UNCHANGED <<gfound, base>>
      \/ \E r \in GP!Stamped(g), at \in {"done", "update"} :
           /\ gfound' = [gfound EXCEPT ![p] = r] /\ base' = [base EXCEPT ![p] = row[r].payload]
           /\ gpc' = [gpc EXCEPT ![p] = at]
  <2>1. CASE GP!Stamped(g) = {}
    BY <2>1 DEF GP!Find, GP!Goto
  <2>2. CASE GP!Stamped(g) # {}
    <3>1. PICK r \in GP!Stamped(g) : r = (CHOOSE k \in GP!Stamped(g) : TRUE)
      BY <2>2
    <3>2. /\ gfound' = [gfound EXCEPT ![p] = r] /\ base' = [base EXCEPT ![p] = row[r].payload]
          /\ gpc' = [gpc EXCEPT ![p] = IF row[r].payload = GP!Merged(row[r].payload, listed[p][g])
                            /\ (listed[p][g] = "approved" => row[r].status = "disqualified")
                         THEN "done" ELSE "update"]
      BY <2>2, <3>1 DEF GP!Find, GP!Goto
    <3> QED
      BY <3>2
  <2> QED
    BY <2>1, <2>2
<1>4. \A r \in GP!Stamped(g) : r \in Nat /\ r \in DOMAIN row /\ row[r].payload \in GP!Payload
  <2> SUFFICES ASSUME NEW r \in GP!Stamped(g)
               PROVE  r \in Nat /\ r \in DOMAIN row /\ row[r].payload \in GP!Payload
    OBVIOUS
  <2>1. r \in DOMAIN row /\ GP!Live(r)
    BY DEF GP!Stamped
  <2>2. row[r] \in Row /\ r \in Nat
    BY <1>2, <2>1, LiveRow DEF GTypes
  <2> QED
    BY <2>1, <2>2 DEF Row
<1>5. GTypes'
  <2>1. this' \in [GP!Worker -> GoogleLead \cup {None}]
    BY <1>1, <1>2 DEF GTypes
  <2>2. /\ gpc' \in [GP!Worker -> GLabel] /\ gfound' \in [GP!Worker -> Nat \cup {None}]
        /\ base' \in [GP!Worker -> GP!Payload]
    <3>1. /\ gpc \in [GP!Worker -> GLabel] /\ gfound \in [GP!Worker -> Nat \cup {None}]
          /\ base \in [GP!Worker -> GP!Payload]
          /\ "recent" \in GLabel /\ \A at \in {"done", "update"} : at \in GLabel
      BY <1>2 DEF GTypes, GLabel
    <3> QED
      BY <1>3, <1>4, <3>1
  <2> QED
    BY <1>1, <1>2, <2>1, <2>2 DEF GTypes
<1>6. \A v \in GP!Worker \ {p} : GSame(v)
  BY <1>1, <1>2, <1>3 DEF GTypes, GSame
<1>7. this'[p] = g /\ gpc'[p] \in {"recent", "done", "update"}
      /\ (gpc'[p] = "update" => gfound'[p] \in DOMAIN row)
  BY <1>1, <1>2, <1>3, <1>4 DEF GTypes
<1>8. GPlace(p)'
  BY <1>1, <1>7 DEF GPlace
<1>9. \A h \in GoogleLead : ~Bound(p, h)'
  BY <1>7 DEF Bound
<1> QED
  BY <1>1, <1>2, <1>5, <1>6, <1>7, <1>8, <1>9, SameRows, GOfOne

(* Google's state is mirrored into the row that was found.                  *)
LEMMA GUpdate ==
  ASSUME GAssumption, GInv, NEW p \in Puller, GP!Update(p)
  PROVE  GInv'
<1>1. /\ gpc[p] = "update" /\ gpc' = [gpc EXCEPT ![p] = "done"]
      /\ row' = IF GP!Live(gfound[p]) THEN [row EXCEPT ![gfound[p]] = GP!Rewritten(p)] ELSE row
      /\ UNCHANGED <<google, listed, this, gfound, base, answer, autoCalls, deleted>>
  BY DEF GP!Update, GP!Goto, GP!history
<1>2. p \in GP!Worker /\ GTypes /\ GPlace(p)
  BY DEF GP!Worker, GInv
<1>3. row' \in Seq(Row \cup {None}) /\ RowsStay
  <2>1. CASE ~GP!Live(gfound[p])
    BY <1>1, <1>2, <2>1, SameRows DEF GTypes
  <2>2. CASE GP!Live(gfound[p])
    <3>1. gfound[p] \in DOMAIN row /\ row[gfound[p]] \in Row
      BY <1>2, <2>2, LiveRow
    <3>2. listed[p][this[p]] \in Raw /\ base[p] \in GP!Payload
      BY <1>1, <1>2 DEF GPlace, GTypes
    <3>3. GP!Merged(base[p], listed[p][this[p]]) \in GP!Payload
      BY <3>2, MergedPayload
    <3>4. PICK x \in GP!Payload, s \in {"new", "disqualified"} :
            GP!Rewritten(p) = [row[gfound[p]] EXCEPT !.payload = x, !.status = s]
      <4>1. PICK x \in GP!Payload :
              x = IF GP!Merged(base[p], listed[p][this[p]]) = base[p]
                  THEN row[gfound[p]].payload ELSE GP!Merged(base[p], listed[p][this[p]])
        BY <3>1, <3>3 DEF Row
      <4>2. PICK s \in {"new", "disqualified"} :
              s = IF listed[p][this[p]] = "approved" THEN "disqualified" ELSE row[gfound[p]].status
        BY <3>1 DEF Row
      <4> QED
        BY <4>1, <4>2 DEF GP!Rewritten
    <3>5. GP!Rewritten(p) \in Row
      BY <3>1, <3>4 DEF Row
    <3>6. GP!Rewritten(p).of = row[gfound[p]].of /\ GP!Rewritten(p).stamp = row[gfound[p]].stamp
      BY <3>1, <3>4 DEF Row
    <3> QED
      BY <1>1, <1>2, <2>2, <3>1, <3>5, <3>6, OtherRowStays
  <2> QED
    BY <2>1, <2>2
<1>4. GTypes'
  <2>1. gpc' \in [GP!Worker -> GLabel]
    BY <1>1, <1>2 DEF GTypes, GLabel
  <2> QED
    BY <1>1, <1>2, <1>3, <2>1 DEF GTypes
<1>5. \A v \in GP!Worker \ {p} : GSame(v)
  BY <1>1, <1>2 DEF GTypes, GSame
<1>6. gpc'[p] \in Resting
  BY <1>1, <1>2 DEF GTypes, Resting
<1> QED
  BY <1>1, <1>2, <1>3, <1>4, <1>5, <1>6, GRests

LEMMA GFindRecent ==
  ASSUME GAssumption, GInv, NEW p \in Puller, GP!FindRecent(p)
  PROVE  GInv'
<1>1. /\ gpc[p] = "recent" /\ UNCHANGED <<google, row, listed, this, gfound, base, answer, autoCalls, deleted>>
      /\ \E at \in {"done", "create"} : gpc' = [gpc EXCEPT ![p] = at]
  BY DEF GP!FindRecent, GP!Goto, GP!history
<1>2. p \in GP!Worker /\ GTypes /\ GPlace(p)
  BY DEF GP!Worker, GInv
<1>3. GTypes'
  <2>1. gpc' \in [GP!Worker -> GLabel]
    BY <1>1, <1>2 DEF GTypes, GLabel
  <2> QED
    BY <1>1, <1>2, <2>1 DEF GTypes
<1>4. \A v \in GP!Worker \ {p} : GSame(v)
  BY <1>1, <1>2 DEF GTypes, GSame
<1>5. gpc'[p] \in {"done", "create"}
  BY <1>1, <1>2 DEF GTypes
<1>6. GPlace(p)'
  BY <1>1, <1>2, <1>5 DEF GPlace
<1>7. \A h \in GoogleLead : ~Bound(p, h)'
  BY <1>5 DEF Bound
<1> QED
  BY <1>1, <1>2, <1>3, <1>4, <1>5, <1>6, <1>7, SameRows, GOfOne

(* The new row has no stamp and is nobody else's.                           *)
LEMMA GCreate ==
  ASSUME GAssumption, GInv, NEW p \in Puller, GP!Create(p)
  PROVE  GInv'
<1>1. PICK n : n = [of |-> this[p], stamp |-> None, recent |-> TRUE, status |-> "new",
                    payload |-> GP!Merged(GP!NoPayload, listed[p][this[p]])]
  OBVIOUS
<1>2. /\ gpc[p] = "create" /\ gpc' = [gpc EXCEPT ![p] = "stamp"]
      /\ row' = Append(row, n) /\ gfound' = [gfound EXCEPT ![p] = Len(row) + 1]
      /\ UNCHANGED <<google, listed, this, base, answer, autoCalls, deleted>>
  BY <1>1 DEF GP!Create, GP!Goto, GP!history
<1>3. p \in GP!Worker /\ GTypes /\ GPlace(p)
  BY DEF GP!Worker, GInv
<1>4. this[p] \in GoogleLead /\ listed[p][this[p]] \in Raw
  BY <1>2, <1>3 DEF GPlace, GTypes
<1>5. n \in Row /\ n.of = this[p] /\ n.stamp = None
  <2>1. GP!NoPayload \in GP!Payload
    BY DEF GP!NoPayload, GP!Payload
  <2>2. GP!Merged(GP!NoPayload, listed[p][this[p]]) \in GP!Payload
    BY <1>4, <2>1, MergedPayload
  <2> QED
    BY <1>1, <1>4, <2>2 DEF Row
<1>6. row \in Seq(Row \cup {None}) /\ Len(row) \in Nat /\ DOMAIN row = 1..Len(row)
  BY <1>3 DEF GTypes
<1>7. /\ row' \in Seq(Row \cup {None}) /\ DOMAIN row' = 1..(Len(row) + 1)
      /\ row'[Len(row) + 1] = n /\ \A r \in DOMAIN row : row'[r] = row[r]
  BY <1>2, <1>5, <1>6
<1>8. RowsStay
  BY <1>6, <1>7 DEF RowsStay, RowsKept, GP!Live
<1>9. GTypes'
  <2>1. gpc' \in [GP!Worker -> GLabel]
    BY <1>2, <1>3 DEF GTypes, GLabel
  <2>2. gfound' \in [GP!Worker -> Nat \cup {None}]
    BY <1>2, <1>3, <1>6 DEF GTypes
  <2> QED
    BY <1>2, <1>3, <1>7, <2>1, <2>2 DEF GTypes
<1>10. \A v \in GP!Worker \ {p} : GSame(v)
  BY <1>2, <1>3 DEF GTypes, GSame
<1>11. gpc'[p] = "stamp" /\ gfound'[p] = Len(row) + 1 /\ this'[p] = this[p]
  BY <1>2, <1>3 DEF GTypes
<1>12. GPlace(p)'
  BY <1>4, <1>5, <1>6, <1>7, <1>11 DEF GPlace
<1>13. \A v \in GP!Worker \ {p} : gpc[v] = "stamp" => gfound'[p] # gfound[v]
  <2>1. \A v \in GP!Worker : gpc[v] = "stamp" => gfound[v] \in 1..Len(row)
    BY <1>6 DEF GInv, GPlace
  <2> QED
    BY <1>6, <1>11, <2>1
<1>14. \A h \in GoogleLead : ~Bound(p, h)'
  BY <1>11 DEF Bound
<1> QED
  BY <1>2, <1>3, <1>8, <1>9, <1>10, <1>12, <1>13, <1>14, GOfOne

LEMMA GRestSteps ==
  ASSUME GAssumption, GInv, NEW w \in GP!Worker,
         \/ GP!Fail(w) \/ GP!Crash(w)
         \/ w \in Puller /\ GP!NextLead(w)
         \/ w \in Clerk /\ GP!EndDispute(w)
  PROVE  GInv'
<1>1. UNCHANGED <<google, row, autoCalls, deleted>>
  BY DEF GP!Fail, GP!Crash, GP!NextLead, GP!EndDispute, GP!history
<1>2. GTypes
  BY DEF GInv
<1>3. \E at \in {"done", "idle", "next"} : gpc' = [gpc EXCEPT ![w] = at]
  BY DEF GP!Fail, GP!Crash, GP!NextLead, GP!EndDispute, GP!Goto
<1>4. /\ this' = this \/ this' = [this EXCEPT ![w] = None]
      /\ gfound' = gfound \/ gfound' = [gfound EXCEPT ![w] = None]
      /\ base' = base \/ base' = [base EXCEPT ![w] = GP!NoPayload]
      /\ answer' = answer \/ answer' = [answer EXCEPT ![w] = "none"]
  BY DEF GP!Fail, GP!Crash, GP!NextLead, GP!EndDispute
<1>5. /\ DOMAIN listed' = Puller
      /\ \A p \in Puller : /\ p # w => listed'[p] = listed[p]
                           /\ DOMAIN listed'[p] \subseteq DOMAIN listed[p]
                           /\ \A g \in DOMAIN listed'[p] : listed'[p][g] = listed[p][g]
  <2>1. CASE listed' = listed
    BY <1>2, <2>1 DEF GTypes
  <2>2. CASE GP!Crash(w)
    <3>1. listed' = [p \in Puller |-> IF p = w THEN <<>> ELSE listed[p]]
      BY <2>2 DEF GP!Crash
    <3> QED
      BY <3>1
  <2>3. CASE w \in Puller /\ GP!NextLead(w)
    <3>1. listed' = [listed EXCEPT ![w] = [g \in DOMAIN listed[w] \ {this[w]} |-> listed[w][g]]]
      BY <2>3 DEF GP!NextLead
    <3> QED
      BY <1>2, <2>3, <3>1 DEF GTypes
  <2> QED
    BY <2>1, <2>2, <2>3 DEF GP!Fail, GP!EndDispute
<1>6. GTypes'
  <2>1. gpc' \in [GP!Worker -> GLabel]
    BY <1>2, <1>3 DEF GTypes, GLabel
  <2>2. this' \in [GP!Worker -> GoogleLead \cup {None}] /\ gfound' \in [GP!Worker -> Nat \cup {None}]
    BY <1>2, <1>4 DEF GTypes
  <2>3. base' \in [GP!Worker -> GP!Payload]
    <3>1. GP!NoPayload \in GP!Payload
      BY DEF GP!NoPayload, GP!Payload
    <3> QED
      BY <1>2, <1>4, <3>1 DEF GTypes
  <2>4. answer' \in [GP!Worker -> {"none", "submitted", "failed"}]
    BY <1>2, <1>4 DEF GTypes
  <2>5. \A p \in Puller : /\ DOMAIN listed'[p] \subseteq GoogleLead
                          /\ \A g \in DOMAIN listed'[p] : listed'[p][g] \in Raw
    BY <1>2, <1>5 DEF GTypes
  <2> QED
    BY <1>1, <1>2, <1>5, <2>1, <2>2, <2>3, <2>4, <2>5 DEF GTypes
<1>7. \A v \in GP!Worker \ {w} : GSame(v)
  BY <1>2, <1>3, <1>4, <1>5 DEF GTypes, GSame
<1>8. gpc'[w] \in Resting
  BY <1>2, <1>3 DEF GTypes, Resting
<1> QED
  BY <1>1, <1>6, <1>7, <1>8, SameRows, GRests

(* A clerk names a row.                                                     *)
LEMMA GAsk ==
  ASSUME GAssumption, GInv, NEW c \in Clerk, GP!Ask(c)
  PROVE  GInv'
<1>1. /\ gpc[c] = "idle" /\ gpc' = [gpc EXCEPT ![c] = "read"]
      /\ UNCHANGED <<google, row, listed, this, base, answer, autoCalls, deleted>>
  BY DEF GP!Ask, GP!Goto, GP!history
<1>2. c \in GP!Worker /\ GTypes /\ c \notin Puller
  BY DEF GP!Worker, GInv, GAssumption
<1>3. PICK r \in DOMAIN row : gfound' = [gfound EXCEPT ![c] = r]
  BY DEF GP!Ask
<1>4. r \in Nat
  BY <1>2 DEF GTypes
<1>5. GTypes'
  <2>1. gpc' \in [GP!Worker -> GLabel]
    BY <1>1, <1>2 DEF GTypes, GLabel
  <2>2. gfound' \in [GP!Worker -> Nat \cup {None}]
    BY <1>2, <1>3, <1>4 DEF GTypes
  <2> QED
    BY <1>1, <1>2, <2>1, <2>2 DEF GTypes
<1>6. \A v \in GP!Worker \ {c} : GSame(v)
  BY <1>1, <1>2, <1>3 DEF GTypes, GSame
<1>7. gpc'[c] = "read" /\ gfound'[c] = r
  BY <1>1, <1>2, <1>3 DEF GTypes
<1>8. GPlace(c)'
  BY <1>1, <1>2, <1>7 DEF GPlace
<1> QED
  BY <1>1, <1>2, <1>5, <1>6, <1>7, <1>8, SameRows, GOfOne

LEMMA GReadLead ==
  ASSUME GAssumption, GInv, NEW w \in GP!Worker, GP!ReadLead(w)
  PROVE  GInv'
<1>1. /\ gpc[w] = "read" /\ UNCHANGED <<google, row, listed, gfound, answer, autoCalls, deleted>>
      /\ IF GP!Live(gfound[w])
         THEN /\ base' = [base EXCEPT ![w] = row[gfound[w]].payload]
              /\ this' = [this EXCEPT ![w] = row[gfound[w]].of]
              /\ gpc' = [gpc EXCEPT ![w] = "call"]
         ELSE UNCHANGED <<base, this>> /\ gpc' = [gpc EXCEPT ![w] = "done"]
  BY DEF GP!ReadLead, GP!Goto, GP!history
<1>2. GTypes /\ GPlace(w)
  BY DEF GInv
<1>3. CASE ~GP!Live(gfound[w])
  <2>1. gpc' \in [GP!Worker -> GLabel]
    BY <1>1, <1>2, <1>3 DEF GTypes, GLabel
  <2>2. GTypes'
    BY <1>1, <1>2, <1>3, <2>1 DEF GTypes
  <2>3. \A v \in GP!Worker \ {w} : GSame(v)
    BY <1>1, <1>2, <1>3 DEF GTypes, GSame
  <2>4. gpc'[w] \in Resting
    BY <1>1, <1>2, <1>3 DEF GTypes, Resting
  <2> QED
    BY <1>1, <2>2, <2>3, <2>4, SameRows, GRests
<1>4. CASE GP!Live(gfound[w])
  <2>1. /\ base' = [base EXCEPT ![w] = row[gfound[w]].payload]
        /\ this' = [this EXCEPT ![w] = row[gfound[w]].of] /\ gpc' = [gpc EXCEPT ![w] = "call"]
    BY <1>1, <1>4
  <2>2. row[gfound[w]] \in Row
    BY <1>2, <1>4, LiveRow
  <2>3. row[gfound[w]].payload \in GP!Payload /\ row[gfound[w]].of \in GoogleLead
    BY <2>2 DEF Row
  <2>4. GTypes'
    <3>1. gpc' \in [GP!Worker -> GLabel]
      BY <1>2, <2>1 DEF GTypes, GLabel
    <3>2. base' \in [GP!Worker -> GP!Payload]
      BY <1>2, <2>1, <2>3 DEF GTypes
    <3>3. this' \in [GP!Worker -> GoogleLead \cup {None}]
      BY <1>2, <2>1, <2>3 DEF GTypes
    <3> QED
      BY <1>1, <1>2, <3>1, <3>2, <3>3 DEF GTypes
  <2>5. \A v \in GP!Worker \ {w} : GSame(v)
    BY <1>1, <1>2, <2>1 DEF GTypes, GSame
  <2>6. gpc'[w] = "call" /\ this'[w] = row[gfound[w]].of
    BY <1>2, <2>1 DEF GTypes
  <2>7. GPlace(w)'
    BY <1>1, <1>2, <2>3, <2>6 DEF GPlace
  <2>8. ASSUME w \in Puller, NEW h \in GoogleLead, Bound(w, h)'
        PROVE  Bound(w, h)
    <3>1. this[w] = row[gfound[w]].of
      BY <1>1, <1>2, <1>4, <2>8 DEF GPlace
    <3> QED
      BY <1>1, <1>4, <2>6, <2>8, <3>1 DEF Bound
  <2> QED
    BY <1>1, <2>4, <2>5, <2>6, <2>7, <2>8, SameRows, GOfOne
<1> QED
  BY <1>3, <1>4

LEMMA GWrite ==
  ASSUME GAssumption, GInv, NEW w \in GP!Worker, GP!Write(w)
  PROVE  GInv'
<1>1. /\ gpc[w] = "write" /\ gpc' = [gpc EXCEPT ![w] = "done"]
      /\ row' = IF GP!Live(gfound[w]) THEN [row EXCEPT ![gfound[w]].payload = GP!Disputed(w)] ELSE row
      /\ UNCHANGED <<google, listed, this, gfound, base, answer, autoCalls, deleted>>
  BY DEF GP!Write, GP!Goto, GP!history
<1>2. GTypes
  BY DEF GInv
<1>3. row' \in Seq(Row \cup {None}) /\ RowsStay
  <2>1. CASE ~GP!Live(gfound[w])
    BY <1>1, <1>2, <2>1, SameRows DEF GTypes
  <2>2. CASE GP!Live(gfound[w])
    <3>1. gfound[w] \in DOMAIN row /\ row[gfound[w]] \in Row
      BY <1>2, <2>2, LiveRow
    <3>2. GP!Disputed(w) \in GP!Payload
      <4>1. base[w].raw \in {"none", "disputed"} \cup GP!Decided /\ base[w].auto \in BOOLEAN
        BY <1>2 DEF GTypes, GP!Payload
      <4>2. answer[w] \in {"none", "submitted", "failed"} \cup GP!Decided
        BY <1>2 DEF GTypes
      <4> QED
        BY <4>1, <4>2 DEF GP!Disputed, GP!Payload
    <3>3. PICK n : n = [row[gfound[w]] EXCEPT !.payload = GP!Disputed(w)]
      OBVIOUS
    <3>4. n \in Row /\ n.of = row[gfound[w]].of /\ n.stamp = row[gfound[w]].stamp
      BY <3>1, <3>2, <3>3 DEF Row
    <3>5. row' = [row EXCEPT ![gfound[w]] = n]
      BY <1>1, <2>2, <3>3
    <3> QED
      BY <1>2, <2>2, <3>1, <3>4, <3>5, OtherRowStays
  <2> QED
    BY <2>1, <2>2
<1>4. GTypes'
  <2>1. gpc' \in [GP!Worker -> GLabel]
    BY <1>1, <1>2 DEF GTypes, GLabel
  <2> QED
    BY <1>1, <1>2, <1>3, <2>1 DEF GTypes
<1>5. \A v \in GP!Worker \ {w} : GSame(v)
  BY <1>1, <1>2 DEF GTypes, GSame
<1>6. gpc'[w] \in Resting
  BY <1>1, <1>2 DEF GTypes, Resting
<1> QED
  BY <1>1, <1>3, <1>4, <1>5, <1>6, GRests

LEMMA GAnswered ==
  ASSUME GAssumption, GInv, NEW p \in Puller, GP!WriteFailsOnce(p)
  PROVE  GInv'
<1>1. /\ answer' = [answer EXCEPT ![p] = "failed"]
      /\ UNCHANGED <<google, row, gpc, listed, this, gfound, base, autoCalls, deleted>>
  BY DEF GP!WriteFailsOnce, GP!history
<1>2. GTypes'
  BY <1>1 DEF GInv, GTypes
<1>3. \A v \in GP!Worker : GSame(v)
  BY <1>1 DEF GSame
<1> QED
  BY <1>1, <1>2, <1>3, SameRows, GOfNobody

(* What Google does, and a lead gets old.                                   *)
LEMMA GWorld ==
  ASSUME GAssumption, GInv,
         \/ \E g \in GoogleLead : GP!Google(g)
         \/ \E r \in GP!Id : GP!Age(r)
         \/ UNCHANGED GP!vars
  PROVE  GInv'
<1>1. UNCHANGED <<gpc, listed, this, gfound, base, answer, autoCalls, deleted>>
  BY DEF GP!Google, GP!Age, GP!history, GP!vars
<1>2. GTypes
  BY DEF GInv
<1>3. google' \in [GoogleLead -> Raw \cup {"absent"}]
  <2>1. \/ google' = google
        \/ \E g \in GoogleLead, s \in Raw : google' = [google EXCEPT ![g] = s]
    BY DEF GP!Google, GP!Age, GP!vars, Raw, GP!Decided
  <2> QED
    BY <1>2, <2>1 DEF GTypes
<1>4. row' \in Seq(Row \cup {None}) /\ RowsStay
  <2>1. CASE row' = row
    BY <1>2, <2>1, SameRows DEF GTypes
  <2>2. ASSUME NEW r \in GP!Id, GP!Age(r)
        PROVE  row' \in Seq(Row \cup {None}) /\ RowsStay
    <3>1. GP!Live(r) /\ row' = [row EXCEPT ![r].recent = FALSE]
      BY <2>2 DEF GP!Age
    <3>2. r \in DOMAIN row /\ row[r] \in Row
      BY <1>2, <3>1, LiveRow
    <3>3. PICK n : n = [row[r] EXCEPT !.recent = FALSE]
      OBVIOUS
    <3>4. n \in Row /\ n.of = row[r].of /\ n.stamp = row[r].stamp
      BY <3>2, <3>3 DEF Row
    <3>5. row' = [row EXCEPT ![r] = n]
      BY <3>1, <3>3
    <3> QED
      BY <1>2, <3>1, <3>2, <3>4, <3>5, OtherRowStays
  <2> QED
    BY <2>1, <2>2 DEF GP!Google, GP!vars
<1>5. GTypes'
  BY <1>1, <1>2, <1>3, <1>4 DEF GTypes
<1>6. \A v \in GP!Worker : GSame(v)
  BY <1>1 DEF GSame
<1> QED
  BY <1>1, <1>4, <1>5, <1>6, GOfNobody

(* A dispute is filed: what was on its way is now counted.                  *)
LEMMA GAskGoogle ==
  ASSUME GAssumption, GInv, NEW w \in GP!Worker, GP!AskGoogle(w)
  PROVE  GInv'
<1>1. /\ gpc[w] = "call" /\ gpc' = [gpc EXCEPT ![w] = "write"]
      /\ autoCalls' = IF w \in Puller THEN [autoCalls EXCEPT ![this[w]] = @ + 1] ELSE autoCalls
      /\ UNCHANGED <<row, listed, this, gfound, base, deleted>>
  BY DEF GP!AskGoogle, GP!Goto
<1>2. PICK outcome \in {"submitted", "failed"} :
        /\ answer' = [answer EXCEPT ![w] = outcome]
        /\ google' = google \/ google' = [google EXCEPT ![this[w]] = "disputed"]
  BY DEF GP!AskGoogle
<1>3. GTypes /\ GPlace(w) /\ this[w] \in GoogleLead
  BY <1>1 DEF GInv, GPlace
<1>4. GTypes'
  <2>1. gpc' \in [GP!Worker -> GLabel]
    BY <1>1, <1>3 DEF GTypes, GLabel
  <2>2. answer' \in [GP!Worker -> {"none", "submitted", "failed"}]
    BY <1>2, <1>3 DEF GTypes
  <2>3. google' \in [GoogleLead -> Raw \cup {"absent"}]
    BY <1>2, <1>3 DEF GTypes, Raw
  <2>4. autoCalls' \in [GoogleLead -> Nat]
    BY <1>1, <1>3 DEF GTypes
  <2> QED
    BY <1>1, <1>3, <2>1, <2>2, <2>3, <2>4 DEF GTypes
<1>5. \A v \in GP!Worker \ {w} : GSame(v)
  BY <1>1, <1>3 DEF GTypes, GSame
<1>6. gpc'[w] = "write"
  BY <1>1, <1>3 DEF GTypes
<1>7. RowsKept
  BY <1>1, SameRows DEF RowsStay
<1>8. \A v \in GP!Worker : GPlace(v)'
  <2>1. GPlace(w)'
    BY <1>1, <1>3, <1>6 DEF GPlace
  <2> QED
    BY <1>5, <1>7, <2>1, GKept
<1>9. GApart'
  BY <1>5, <1>6 DEF GInv, GApart, GSame
<1>10. ASSUME NEW g \in GoogleLead
       PROVE  autoCalls'[g] + Cardinality(Owed(g)') <= deleted'[g] + Marked(g)'
  <2>1. /\ autoCalls[g] + Cardinality(Owed(g)) <= deleted[g] + Marked(g)
        /\ autoCalls[g] \in Nat /\ deleted[g] \in Nat /\ deleted'[g] = deleted[g]
    BY <1>1 DEF GInv, GTypes, GCount
  <2>2. Marked(g)' = Marked(g) /\ Marked(g) \in Nat
    BY <1>1 DEF Marked, GP!Stamped, GP!Live
  <2>3. Owed(g)' \subseteq Owed(g) \ {w}
    <3> SUFFICES ASSUME NEW v \in Puller, Bound(v, g)' PROVE v # w /\ Bound(v, g)
      BY DEF Owed
    <3>1. v # w
      BY <1>6 DEF Bound
    <3>2. v \in GP!Worker
      BY DEF GP!Worker
    <3> QED
      BY <1>5, <1>7, <3>1, <3>2, GStays
  <2>4. Cardinality(Owed(g)) \in Nat /\ Cardinality(Owed(g)') \in Nat /\ IsFiniteSet(Owed(g))
    BY OwedFinite, OwedFiniteNext
  <2>5. CASE w \in Puller /\ this[w] = g
    <3>1. w \in Owed(g)
      BY <1>1, <2>5 DEF Owed, Bound
    <3>2. Cardinality(Owed(g) \ {w}) = Cardinality(Owed(g)) - 1 /\ IsFiniteSet(Owed(g) \ {w})
      BY <2>4, <3>1, FS_RemoveElement
    <3>3. Cardinality(Owed(g)') <= Cardinality(Owed(g) \ {w})
      BY <2>3, <3>2, FS_Subset
    <3>4. autoCalls'[g] = autoCalls[g] + 1
      BY <1>1, <1>3, <2>5 DEF GTypes
    <3> QED
      BY <2>1, <2>2, <2>4, <3>2, <3>3, <3>4
  <2>6. CASE ~(w \in Puller /\ this[w] = g)
    <3>1. Cardinality(Owed(g)') <= Cardinality(Owed(g))
      <4>1. Owed(g)' \subseteq Owed(g)
        BY <2>3
      <4> QED
        BY <2>4, <4>1, FS_Subset
    <3>2. autoCalls'[g] = autoCalls[g]
      BY <1>1, <1>3, <2>6 DEF GTypes
    <3> QED
      BY <2>1, <2>2, <2>4, <3>1, <3>2
  <2> QED
    BY <2>5, <2>6
<1> QED
  BY <1>4, <1>8, <1>9, <1>10 DEF GInv, GCount

(* A row gets its stamp: it is the only one of its lead, and one dispute    *)
(* is on its way at most.                                                   *)
LEMMA GStamp ==
  ASSUME GAssumption, GInv, NEW p \in Puller, GP!Stamp(p)
  PROVE  GInv'
<1>1. gpc[p] = "stamp" /\ UNCHANGED <<google, listed, this, gfound, base, answer, autoCalls, deleted>>
  BY DEF GP!Stamp, GP!history
<1>2. p \in GP!Worker /\ GTypes /\ GPlace(p)
  BY DEF GP!Worker, GInv
<1>3. PICK at \in {"read", "done"} : gpc' = [gpc EXCEPT ![p] = at]
  BY DEF GP!Stamp, GP!Goto
<1>4. /\ gpc' \in [GP!Worker -> GLabel] /\ gpc'[p] = at
      /\ \A v \in GP!Worker \ {p} : GSame(v)
  BY <1>1, <1>2, <1>3 DEF GTypes, GLabel, GSame
<1>5. gfound[p] \in DOMAIN row /\ this[p] \in GoogleLead
  BY <1>1, <1>2 DEF GPlace
<1>6. CASE ~GP!Live(gfound[p])
  <2>1. row' = row
    BY <1>6 DEF GP!Stamp
  <2>2. GTypes'
    BY <1>1, <1>2, <1>4, <2>1 DEF GTypes
  <2>3. GPlace(p)'
    BY <1>1, <1>4, <1>5, <1>6, <2>1 DEF GPlace, GP!Live
  <2>4. \A h \in GoogleLead : ~Bound(p, h)'
    BY <1>1, <1>4, <1>6, <2>1 DEF Bound, GP!Live
  <2> QED
    BY <1>1, <1>2, <1>4, <2>1, <2>2, <2>3, <2>4, SameRows, GOfOne
<1>7. CASE GP!Live(gfound[p]) /\ GP!Stamped(this[p]) # {}
  <2>1. row' = row /\ gpc' = [gpc EXCEPT ![p] = "done"]
    BY <1>7 DEF GP!Stamp, GP!Goto
  <2>2. GTypes'
    BY <1>1, <1>2, <1>4, <2>1 DEF GTypes
  <2>3. gpc'[p] \in Resting
    BY <1>2, <2>1 DEF GTypes, Resting
  <2> QED
    BY <1>1, <1>2, <1>4, <2>1, <2>2, <2>3, SameRows, GRests
<1>8. CASE GP!Live(gfound[p]) /\ GP!Stamped(this[p]) = {}
  <2>1. row' = [row EXCEPT ![gfound[p]].stamp = this[p]]
    BY <1>8 DEF GP!Stamp
  <2>2. row[gfound[p]] \in Row /\ row[gfound[p]].of = this[p] /\ row[gfound[p]].stamp = None
    BY <1>1, <1>2, <1>8, LiveRow DEF GPlace
  <2>3. PICK n : n = [row[gfound[p]] EXCEPT !.stamp = this[p]]
    OBVIOUS
  <2>4. n \in Row /\ n.of = this[p] /\ n.stamp = this[p] /\ n # None
    BY <1>5, <2>2, <2>3 DEF Row, GAssumption
  <2>5. row' = [row EXCEPT ![gfound[p]] = n] /\ row \in Seq(Row \cup {None})
    BY <1>2, <2>1, <2>3 DEF GTypes
  <2>6. row' \in Seq(Row \cup {None}) /\ DOMAIN row' = DOMAIN row
    BY <1>5, <2>4, <2>5
  <2>7. /\ row'[gfound[p]] = n /\ \A r \in DOMAIN row : r # gfound[p] => row'[r] = row[r]
        /\ \A r \in DOMAIN row : GP!Live(r)' <=> GP!Live(r)
    BY <1>5, <1>8, <2>4, <2>5, <2>6 DEF GP!Live
  <2>8. GTypes'
    BY <1>1, <1>2, <1>4, <2>6 DEF GTypes
  <2>9. \A v \in GP!Worker : GPlace(v)'
    <3> SUFFICES ASSUME NEW v \in GP!Worker PROVE GPlace(v)'
      OBVIOUS
    <3>1. CASE v = p
      BY <1>1, <1>2, <1>4, <1>5, <2>4, <2>6, <2>7, <3>1 DEF GPlace
    <3>2. CASE v # p
      <4>1. GPlace(v) /\ GSame(v)
        BY <1>4, <3>2 DEF GInv
      <4>2. gpc[v] = "stamp" => gfound[v] # gfound[p]
        BY <1>1, <1>2, <3>2 DEF GInv, GApart
      <4>3. \A r \in DOMAIN row : row'[r].of = row[r].of \/ ~GP!Live(r)
        BY <2>2, <2>4, <2>7
      <4>4. gpc[v] \in {"update", "stamp", "read", "call", "write"} => gfound[v] \in DOMAIN row
        BY <4>1 DEF GPlace
      <4>5. v \in Puller /\ gpc'[v] \in {"stamp", "read"} /\ GP!Live(gfound[v])' =>
              row'[gfound'[v]].of = this'[v]
        BY <2>7, <4>1, <4>3, <4>4 DEF GPlace, GSame
      <4>6. gpc'[v] = "stamp" /\ GP!Live(gfound[v])' => row'[gfound'[v]].stamp = None
        BY <2>7, <4>1, <4>2, <4>4 DEF GPlace, GSame
      <4> QED
        BY <2>6, <4>1, <4>5, <4>6 DEF GPlace, GSame
    <3> QED
      BY <3>1, <3>2
  <2>10. GApart'
    BY <1>2, <1>4 DEF GInv, GApart, GSame
  <2>11. ASSUME NEW g \in GoogleLead
         PROVE  autoCalls'[g] + Cardinality(Owed(g)') <= deleted'[g] + Marked(g)'
    <3>1. /\ autoCalls[g] + Cardinality(Owed(g)) <= deleted[g] + Marked(g)
          /\ autoCalls[g] \in Nat /\ deleted[g] \in Nat
          /\ autoCalls'[g] = autoCalls[g] /\ deleted'[g] = deleted[g]
      BY <1>1 DEF GInv, GTypes, GCount
    <3>2. Cardinality(Owed(g)) \in Nat /\ Cardinality(Owed(g)') \in Nat /\ IsFiniteSet(Owed(g))
      BY OwedFinite, OwedFiniteNext
    <3>3. \A v \in Puller : v # p /\ Bound(v, g)' => Bound(v, g)
      <4> SUFFICES ASSUME NEW v \in Puller, v # p, Bound(v, g)' PROVE Bound(v, g)
        OBVIOUS
      <4>1. v \in GP!Worker /\ GSame(v) /\ GPlace(v)
        BY <1>4 DEF GP!Worker, GInv
      <4> QED
        BY <2>7, <4>1 DEF Bound, GSame, GPlace
    <3>4. GP!Stamped(g) \subseteq GP!Stamped(g)'
      BY <2>2, <2>6, <2>7, <1>2 DEF GP!Stamped, GAssumption
    <3>5. CASE g = this[p]
      <4>1. Owed(g)' \subseteq Owed(g) \cup {p}
        BY <3>3 DEF Owed
      <4>2. IsFiniteSet(Owed(g) \cup {p}) /\ Cardinality(Owed(g) \cup {p}) <= Cardinality(Owed(g)) + 1
        BY <3>2, FS_AddElement
      <4>3. Cardinality(Owed(g) \cup {p}) \in Nat
        BY <4>2, FS_CardinalityType
      <4>4. Cardinality(Owed(g)') <= Cardinality(Owed(g) \cup {p})
        BY <4>1, <4>2, FS_Subset
      <4>5. Marked(g) = 0
        BY <1>8, <3>5 DEF Marked
      <4>6. gfound[p] \in GP!Stamped(g)'
        BY <1>5, <1>8, <2>4, <2>6, <2>7, <3>5 DEF GP!Stamped
      <4>7. Marked(g)' = 1
        BY <4>6 DEF Marked
      <4> QED
        BY <3>1, <3>2, <4>2, <4>3, <4>4, <4>5, <4>7
    <3>6. CASE g # this[p]
      <4>1. Owed(g)' \subseteq Owed(g)
        BY <1>1, <3>3, <3>6 DEF Owed, Bound
      <4>2. Cardinality(Owed(g)') <= Cardinality(Owed(g))
        BY <3>2, <4>1, FS_Subset
      <4>3. Marked(g) <= Marked(g)' /\ Marked(g) \in Nat /\ Marked(g)' \in Nat
        BY <3>4 DEF Marked
      <4> QED
        BY <3>1, <3>2, <4>2, <4>3
    <3> QED
      BY <3>5, <3>6
  <2> QED
    BY <2>8, <2>9, <2>10, <2>11 DEF GInv, GCount
<1> QED
  BY <1>6, <1>7, <1>8

(* A row is deleted: its stamp no longer stands, and is counted as deleted. *)
LEMMA GDelete ==
  ASSUME GAssumption, GInv, NEW r, GP!Delete(r)
  PROVE  GInv'
<1>1. /\ GP!Live(r) /\ row' = [row EXCEPT ![r] = None]
      /\ deleted' = IF row[r].stamp = None THEN deleted ELSE [deleted EXCEPT ![row[r].stamp] = @ + 1]
      /\ UNCHANGED <<google, gpc, listed, this, gfound, base, answer, autoCalls>>
  BY DEF GP!Delete
<1>2. GTypes
  BY DEF GInv
<1>3. r \in DOMAIN row /\ row[r] \in Row /\ row \in Seq(Row \cup {None})
  BY <1>1, <1>2, LiveRow DEF GTypes
<1>4. row[r].stamp \in GoogleLead \cup {None}
  BY <1>3 DEF Row
<1>5. row' \in Seq(Row \cup {None}) /\ DOMAIN row' = DOMAIN row
  BY <1>1, <1>3
<1>6. /\ row'[r] = None /\ \A k \in DOMAIN row : k # r => row'[k] = row[k]
      /\ RowsKept
  <2>1. row'[r] = None /\ \A k \in DOMAIN row : k # r => row'[k] = row[k]
    BY <1>1, <1>3
  <2> QED
    BY <1>5, <2>1 DEF RowsKept, GP!Live
<1>7. /\ deleted' \in [GoogleLead -> Nat]
      /\ \A g \in GoogleLead : deleted'[g] = IF row[r].stamp = g THEN deleted[g] + 1 ELSE deleted[g]
  BY <1>1, <1>2, <1>4 DEF GTypes, GAssumption
<1>8. GTypes'
  BY <1>1, <1>2, <1>5, <1>7 DEF GTypes
<1>9. \A v \in GP!Worker : GSame(v)
  BY <1>1 DEF GSame
<1>10. \A v \in GP!Worker : GPlace(v)'
  BY <1>6, <1>9, GKept
<1>11. GApart'
  BY <1>1 DEF GInv, GApart
<1>12. ASSUME NEW g \in GoogleLead
       PROVE  autoCalls'[g] + Cardinality(Owed(g)') <= deleted'[g] + Marked(g)'
  <2>1. /\ autoCalls[g] + Cardinality(Owed(g)) <= deleted[g] + Marked(g)
        /\ autoCalls[g] \in Nat /\ deleted[g] \in Nat /\ autoCalls'[g] = autoCalls[g]
    BY <1>1 DEF GInv, GTypes, GCount
  <2>2. Cardinality(Owed(g)) \in Nat /\ Cardinality(Owed(g)') \in Nat /\ IsFiniteSet(Owed(g))
    BY OwedFinite, OwedFiniteNext
  <2>3. Cardinality(Owed(g)') <= Cardinality(Owed(g))
    <3>1. Owed(g)' \subseteq Owed(g)
      <4> SUFFICES ASSUME NEW v \in Puller, Bound(v, g)' PROVE Bound(v, g)
        BY DEF Owed
      <4> QED
        BY <1>6, <1>9, GStays DEF GP!Worker
    <3> QED
      BY <2>2, <3>1, FS_Subset
  <2>4. CASE row[r].stamp = g
    <3>1. deleted'[g] = deleted[g] + 1
      BY <1>7, <2>4
    <3>2. Marked(g) \in 0..1 /\ Marked(g)' \in 0..1
      BY DEF Marked
    <3> QED
      BY <2>1, <2>2, <2>3, <3>1, <3>2
  <2>5. CASE row[r].stamp # g
    <3>1. deleted'[g] = deleted[g]
      BY <1>7, <2>5
    <3>2. GP!Stamped(g) \subseteq GP!Stamped(g)'
      <4> SUFFICES ASSUME NEW k \in GP!Stamped(g) PROVE k \in GP!Stamped(g)'
        OBVIOUS
      <4>1. k \in DOMAIN row /\ GP!Live(k) /\ row[k].stamp = g /\ k # r
        BY <2>5 DEF GP!Stamped
      <4>2. k \in DOMAIN row' /\ row'[k] = row[k]
        BY <1>5, <1>6, <4>1
      <4> QED
        BY <4>1, <4>2 DEF GP!Stamped, GP!Live
    <3>3. Marked(g) <= Marked(g)' /\ Marked(g) \in Nat /\ Marked(g)' \in Nat
      BY <3>2 DEF Marked
    <3> QED
      BY <2>1, <2>2, <2>3, <3>1, <3>3
  <2> QED
    BY <2>4, <2>5
<1> QED
  BY <1>8, <1>10, <1>11, <1>12 DEF GInv, GCount

LEMMA GInitial ==
  ASSUME GAssumption, GP!Init
  PROVE  GInv
<1>1. /\ google = [g \in GoogleLead |-> "absent"] /\ row = <<>>
      /\ gpc = [w \in GP!Worker |-> "idle"]
      /\ listed = [p \in Puller |-> <<>>] /\ this = [w \in GP!Worker |-> None]
      /\ gfound = [w \in GP!Worker |-> None] /\ base = [w \in GP!Worker |-> GP!NoPayload]
      /\ answer = [w \in GP!Worker |-> "none"]
      /\ autoCalls = [g \in GoogleLead |-> 0] /\ deleted = [g \in GoogleLead |-> 0]
  BY DEF GP!Init
<1>2. GP!NoPayload \in GP!Payload
  BY DEF GP!NoPayload, GP!Payload
<1>3. GTypes
  <2>1. google \in [GoogleLead -> Raw \cup {"absent"}] /\ gpc \in [GP!Worker -> GLabel]
    BY <1>1 DEF GLabel
  <2>2. row \in Seq(Row \cup {None})
    BY <1>1
  <2>3. \A p \in Puller : DOMAIN listed[p] = {}
    BY <1>1
  <2> QED
    BY <1>1, <1>2, <2>1, <2>2, <2>3 DEF GTypes
<1>4. \A w \in GP!Worker : gpc[w] = "idle"
  BY <1>1
<1>5. (\A w \in GP!Worker : GPlace(w)) /\ GApart
  BY <1>4 DEF GPlace, GApart
<1>6. GCount
  <2> SUFFICES ASSUME NEW g \in GoogleLead
               PROVE  autoCalls[g] + Cardinality(Owed(g)) <= deleted[g] + Marked(g)
    BY DEF GCount
  <2>1. Owed(g) = {}
    BY <1>4 DEF Owed, Bound, GP!Worker
  <2>2. Cardinality(Owed(g)) = 0
    BY <2>1, FS_EmptySet
  <2>3. Marked(g) \in 0..1
    BY DEF Marked
  <2> QED
    BY <1>1, <2>2, <2>3
<1> QED
  BY <1>3, <1>5, <1>6 DEF GInv

LEMMA GInvariance == GAssumption => (GP!Spec => []GInv)
<1> SUFFICES ASSUME GAssumption PROVE GP!Spec => []GInv
  OBVIOUS
<1>1. ASSUME GInv, [GP!Next]_(GP!vars)
      PROVE  GInv'
  <2>1. ASSUME NEW p \in Puller, GP!PassStep(p)
        PROVE  GInv'
    <3>1. p \in GP!Worker
      BY DEF GP!Worker
    <3>2. ASSUME NEW g \in GoogleLead, GP!Find(p, g)
          PROVE  GInv'
      BY <1>1, <3>2, GFind
    <3>3. ASSUME GP!ReadLead(p) \/ GP!AskGoogle(p) \/ GP!Write(p) \/ GP!NextLead(p)
          PROVE  GInv'
      BY <1>1, <3>1, <3>3, GReadLead, GAskGoogle, GWrite, GRestSteps
    <3>4. ASSUME GP!Fetch(p) \/ GP!EndPass(p) \/ GP!Update(p) \/ GP!FindRecent(p) \/ GP!Create(p) \/ GP!Stamp(p)
          PROVE  GInv'
      BY <1>1, <3>4, GFetch, GUpdate, GFindRecent, GCreate, GStamp
    <3> QED
      BY <2>1, <3>2, <3>3, <3>4 DEF GP!PassStep
  <2>2. ASSUME NEW p \in Puller, GP!WriteFailsOnce(p)
        PROVE  GInv'
    BY <1>1, <2>2, GAnswered
  <2>3. ASSUME NEW c \in Clerk, GP!Ask(c) \/ GP!ClerkStep(c)
        PROVE  GInv'
    <3>1. c \in GP!Worker
      BY DEF GP!Worker
    <3> QED
      BY <1>1, <2>3, <3>1, GAsk, GReadLead, GAskGoogle, GWrite, GRestSteps DEF GP!ClerkStep
  <2>4. ASSUME NEW w \in GP!Worker, GP!Fail(w) \/ GP!Crash(w)
        PROVE  GInv'
    BY <1>1, <2>4, GRestSteps
  <2>5. ASSUME NEW r \in GP!Id, GP!Delete(r)
        PROVE  GInv'
    BY <1>1, <2>5, GDelete
  <2>6. CASE \/ \E g \in GoogleLead : GP!Google(g)
             \/ \E r \in GP!Id : GP!Age(r)
             \/ UNCHANGED GP!vars
    BY <1>1, <2>6, GWorld
  <2> QED
    BY <1>1, <2>1, <2>2, <2>3, <2>4, <2>5, <2>6 DEF GP!Next
<1>2. GP!Init => GInv
  BY GInitial
<1>3. GInv /\ [GP!Next]_(GP!vars) => GInv'
  BY <1>1
<1> QED
  BY <1>2, <1>3, PTL DEF GP!Spec

(* For any number of passes, leads of Google and clerks, and through every  *)
(* failed query, crash and deletion: "disputes never fire twice for the     *)
(* same Google lead", but for one more per deleted lead (processGlsLead and *)
(* the automatic dispute).                                                  *)
THEOREM AutoDisputedOnceCorrect ==
  ASSUME GAssumption
  PROVE  GP!Spec => []AutoDisputedOnce
<1>1. ASSUME GInv PROVE AutoDisputedOnce
  <2> SUFFICES ASSUME NEW g \in GoogleLead PROVE autoCalls[g] <= 1 + deleted[g]
    BY DEF AutoDisputedOnce, G!AutoDisputedOnce
  <2>1. autoCalls[g] + Cardinality(Owed(g)) <= deleted[g] + Marked(g) /\ autoCalls[g] \in Nat /\ deleted[g] \in Nat
    BY <1>1 DEF GInv, GTypes, GCount
  <2>2. Cardinality(Owed(g)) \in Nat /\ Marked(g) \in 0..1
    BY OwedFinite DEF Marked
  <2> QED
    BY <2>1, <2>2
<1>2. GInv => AutoDisputedOnce
  BY <1>1
<1>3. GP!Spec => []GInv
  BY GInvariance
<1> QED
  BY <1>2, <1>3, PTL

-----------------------------------------------------------------------------
(* Bookings: what holds of the calls, the invariant and its steps. *)

BLabel ==
  {"idle", "choose", "lookup", "hcp", "crm", "markRead", "markWrite", "markFire", "insert", "finish",
   "cancelRow", "cancelTold", "clearRead", "clearSelect", "clearEach", "done"}

BJob == [kind : {"none", "book", "mark", "clear"}, contact : Customer \cup {None},
         slot : Slot \cup {None}, asked : Person \cup {None}]

BTypes ==
  /\ pc \in [Call -> BLabel] /\ job \in [Call -> BJob] /\ person \in [Call -> Person \cup {None}]
  /\ est \in [Call -> Call \cup {None}] /\ saw \in [Call -> BOOLEAN] /\ todo \in [Call -> SUBSET Call]
  /\ booking \in [Call -> {None, "confirmed", "cancelled"}]
  /\ estimate \in [Call -> [slot : Slot, person : Person] \cup {None}]
  /\ rows \in Seq(Call) /\ inHcp \subseteq Call /\ met \subseteq SUBSET Call /\ faulty \subseteq Call
  /\ status \in [Customer -> {"new", "scheduled"}]
  /\ flips \in [Customer -> Nat] /\ fires \in [Customer -> Nat]
  /\ entry \in [Watched -> (SUBSET Person) \cup {None}]
  /\ flight \in [Watched -> {"none", "reading", "read"}]
  /\ found \in [Watched -> (SUBSET Person) \cup {None}]

(* Where a call of each kind can be, and what it has there.                 *)
BPlace(p) ==
  /\ pc[p] = "idle" <=> job[p].contact = None
  /\ pc[p] \in {"choose", "lookup", "hcp", "crm", "insert", "finish"} => job[p].kind = "book"
  /\ pc[p] \in {"markRead", "markWrite", "markFire"} => job[p].kind \in {"book", "mark"}
  /\ pc[p] \in {"cancelRow", "cancelTold", "clearRead", "clearSelect", "clearEach"} => job[p].kind = "clear"
  /\ job[p].kind = "book" => job[p].slot \in Slot
  /\ job[p].kind = "mark" => job[p].slot = None
  /\ pc[p] \in {"lookup", "hcp", "crm"} => person[p] \in Person
  /\ booking[p] # None => pc[p] \in {"finish", "done"}
  /\ \A b \in todo[p] : booking[b] # None /\ (pc[p] = "cancelRow" => job[b].slot = job[p].slot)

BHistory ==
  /\ \A p, q \in Call : p # q /\ Active(p) /\ Active(q) => Met(p, q)
  /\ \A x \in met : \A p \in x : pc[p] # "idle"
  /\ \A p \in faulty : pc[p] # "idle"

BBase == BTypes /\ (\A p \in Call : BPlace(p)) /\ BHistory

(* A call that has chosen and not failed yet, or whose booking stands.      *)
MayStand(b) ==
  \/ booking[b] = "confirmed"
  \/ job[b].kind = "book"
      /\ pc[b] \in {"lookup", "hcp", "crm", "markRead", "markWrite", "markFire", "insert"}

BTwice ==
  \A b, c \in Call :
    (/\ b # c /\ MayStand(b) /\ MayStand(c)
     /\ job[b].asked = None /\ job[c].asked = None
     /\ job[b].slot = job[c].slot /\ person[b] = person[c]) => Met(b, c)

(* What a computation of a date read is as good as an entry.                *)
Free(d) == {s \in Person : ~Busy(s, d)}
Excused(d) == Unannounced(d) \/ d \in debts
BFresh ==
  \A d \in Watched :
    /\ entry[d] # None /\ entry[d] # Free(d) => Excused(d) \/ d \in late
    /\ flight[d] = "read" /\ found[d] # Free(d) => Excused(d) \/ d \in overtaken

(* A clear that may have taken the status of b's contact.                   *)
MayBeCleared(b) ==
  \E p \in Call : /\ job[p].kind = "clear" /\ job[p].contact = job[b].contact
                  /\ p \in faulty \/ Met(p, b)

HasMarked(b) ==
  \/ pc[b] \in {"markFire", "insert", "finish"} \/ booking[b] = "confirmed"
  \/ pc[b] = "markWrite" /\ saw[b]

BMarked ==
  /\ \A b \in Call : HasMarked(b) /\ b \notin faulty
      /\ ~MayBeCleared(b) => status[job[b].contact] = "scheduled"
  /\ \A p \in Call : pc[p] = "clearEach" /\ p \notin faulty =>
       \A b \in Call : booking[b] = "confirmed" /\ job[b].contact = job[p].contact /\ ~Met(p, b)
                       => b \in todo[p]

(* An estimate of a call that did not fail is on its way into a row, where  *)
(* the next call of the contact finds it.                                   *)
Making(e) == e \in inHcp \/ pc[e] = "hcp"
InRows(e) == \E i \in 1..Len(rows) : rows[i] = e

BEstimates ==
  /\ \A e \in inHcp : pc[e] # "idle"
  /\ \A e \in inHcp : e \in faulty \/ InRows(e) \/ (pc[e] = "crm" /\ est[e] = e)
  /\ \A e \in Call : estimate[e] # None => InRows(e)
  /\ \A e, f \in Call :
       (/\ e # f /\ Making(e) /\ Making(f) /\ job[e].contact = job[f].contact
        /\ e \notin aged /\ f \notin aged) => Met(e, f) \/ {e, f} \cap faulty # {}

(* A mark of the contact failed, or two of them overlapped.                 *)
Muddled(k) ==
  \/ \E p \in Call : p \in faulty /\ job[p].contact = k
  \/ \E p, q \in Call : /\ p # q /\ Met(p, q)
                        /\ job[p].contact = k /\ job[q].contact = k
                        /\ job[p].kind # "clear" /\ job[q].kind # "clear"

Firing(k) == \E p \in Call : pc[p] = "markFire" /\ job[p].contact = k

BAnnounced ==
  \A k \in Customer : ~Muddled(k) =>
    /\ flips[k] = fires[k] + IF Firing(k) THEN 1 ELSE 0
    /\ \A p \in Call : pc[p] = "markWrite" /\ job[p].contact = k /\ ~saw[p] => status[k] # "scheduled"

BInv == BBase /\ BTwice /\ BFresh /\ BMarked /\ BEstimates /\ BAnnounced

(* A call that a step does not touch stays where it is.                     *)
LEMMA BKept ==
  ASSUME BBase, NEW q \in Call, pc'[q] = pc[q], job'[q] = job[q], person'[q] = person[q],
         todo'[q] = todo[q], booking'[q] = None <=> booking[q] = None,
         \A b \in Call : booking[b] # None => booking'[b] # None /\ job'[b] = job[b]
  PROVE  BPlace(q)'
<1>1. BPlace(q) /\ todo[q] \subseteq Call
  BY DEF BBase, BTypes
<1> QED
  BY <1>1 DEF BPlace

(* A step of a call that is active.                                         *)
LEMMA BMoved ==
  ASSUME BBase, NEW p \in Call, Active(p), NEW l \in BLabel \ {"idle"}, pc' = [pc EXCEPT ![p] = l],
         job' = job, met' = met, faulty' \subseteq faulty \cup {p},
         \A q \in Call : q # p => person'[q] = person[q] /\ todo'[q] = todo[q],
         \A b \in Call : b # p => (booking'[b] = None <=> booking[b] = None),
         booking[p] # None => booking'[p] # None,
         BTypes', BPlace(p)'
  PROVE  BBase'
<1>1. \A q \in Call : pc'[q] = IF q = p THEN l ELSE pc[q]
  BY DEF BBase, BTypes
<1>2. \A q \in Call : BPlace(q)'
  <2> SUFFICES ASSUME NEW q \in Call, q # p PROVE BPlace(q)'
    OBVIOUS
  <2> QED
    BY <1>1, BKept
<1>3. BHistory'
  <2>1. \A q \in Call : pc[q] # "idle" => pc'[q] # "idle"
    BY <1>1
  <2>2. \A q \in Call : Active(q)' => Active(q)
    BY <1>1 DEF Active
  <2>3. \A q \in faulty' : pc'[q] # "idle"
    BY <1>1, <2>1 DEF BBase, BHistory, Active
  <2>4. \A x \in met' : \A q \in x : pc'[q] # "idle"
    <3> SUFFICES ASSUME NEW x \in met, NEW q \in x PROVE pc'[q] # "idle"
      OBVIOUS
    <3>1. pc[q] # "idle"
      BY DEF BBase, BHistory
    <3> QED
      BY <3>1 DEF BBase, BTypes
  <2> QED
    BY <2>2, <2>3, <2>4 DEF BBase, BHistory, Met
<1> QED
  BY <1>2, <1>3 DEF BBase

(* A call begins.                                                           *)
LEMMA BBegins ==
  ASSUME BBase, NEW p \in Call, NEW l \in BLabel \ {"idle", "done"}, NEW j \in BJob, Begin(p, l, j),
         todo' \in [Call -> SUBSET Call], \A q \in Call : q # p => todo'[q] = todo[q],
         UNCHANGED <<person, est, saw, rowVars, contactVars, faulty, entry, flight, found>>,
         BPlace(p)'
  PROVE  BBase'
<1>1. /\ pc[p] = "idle" /\ job' = [job EXCEPT ![p] = j]
      /\ met' = met \cup {{p, q} : q \in {r \in Call : Active(r)}}
  BY DEF Begin
<1>2. \A q \in Call : pc'[q] = (IF q = p THEN l ELSE pc[q]) /\ job'[q] = IF q = p THEN j ELSE job[q]
  BY DEF Begin, Goto, BBase, BTypes
<1>3. \A q \in Call : BPlace(q)'
  <2> SUFFICES ASSUME NEW q \in Call, q # p PROVE BPlace(q)'
    OBVIOUS
  <2>1. \A b \in Call : booking[b] # None => job'[b] = job[b]
    BY <1>1, <1>2 DEF BBase, BPlace
  <2> QED
    BY <1>2, <2>1, BKept DEF rowVars
<1>4. BHistory'
  <2>1. ASSUME NEW q \in Call, NEW r \in Call, q # r, Active(q)', Active(r)'
        PROVE  {q, r} \in met'
    <3>1. CASE q # p /\ r # p
      BY <1>1, <1>2, <2>1, <3>1 DEF BBase, BHistory, Met, Active
    <3>2. CASE q = p
      BY <1>1, <1>2, <2>1, <3>2 DEF Active
    <3>3. CASE r = p
      <4>1. {q, r} = {p, q}
        BY <3>3
      <4> QED
        BY <1>1, <1>2, <2>1, <3>3, <4>1 DEF Active
    <3> QED
      BY <3>1, <3>2, <3>3
  <2>2. \A q \in Call : pc[q] # "idle" => pc'[q] # "idle"
    BY <1>2
  <2>3. ASSUME NEW x \in met', NEW q \in x
        PROVE  pc'[q] # "idle"
    <3>1. CASE x \in met
      BY <2>2, <2>3, <3>1 DEF BBase, BHistory, BTypes
    <3>2. CASE x \notin met
      <4>1. PICK r \in Call : Active(r) /\ x = {p, r}
        BY <1>1, <2>3, <3>2
      <4> QED
        BY <1>2, <2>2, <2>3, <4>1 DEF Active
    <3> QED
      BY <3>1, <3>2
  <2>4. \A q \in faulty' : pc'[q] # "idle"
    BY <1>2 DEF BBase, BHistory, BTypes, rowVars
  <2> QED
    BY <2>1, <2>3, <2>4 DEF BHistory, Met
<1>5. met' \subseteq SUBSET Call
  <2>1. \A q \in Call : {p, q} \in SUBSET Call
    OBVIOUS
  <2>2. met \subseteq SUBSET Call
    BY DEF BBase, BTypes
  <2> QED
    BY <1>1, <2>1, <2>2
<1>6. BTypes'
  <2>1. pc' \in [Call -> BLabel] /\ job' \in [Call -> BJob]
    BY <1>1 DEF BBase, BTypes, Begin, Goto
  <2> QED
    BY <1>5, <2>1 DEF BBase, BTypes, rowVars, contactVars
<1> QED
  BY <1>3, <1>4, <1>6 DEF BBase

LEMMA BBook ==
  ASSUME BBase, NEW p \in Call, Book(p)
  PROVE  BBase'
<1>1. PICK k \in Customer, d \in Slot, s \in Person \cup {None} :
        Begin(p, "choose", [kind |-> "book", contact |-> k, slot |-> d, asked |-> s])
  BY DEF Book
<1> DEFINE j == [kind |-> "book", contact |-> k, slot |-> d, asked |-> s]
<1>2. j \in BJob
  BY DEF BJob
<1>3. pc[p] = "idle" /\ pc' = [pc EXCEPT ![p] = "choose"] /\ job' = [job EXCEPT ![p] = j]
      /\ met' = met \cup {{p, q} : q \in {r \in Call : Active(r)}}
  BY <1>1 DEF Begin, Goto
<1>4. todo' \in [Call -> SUBSET Call]
  BY DEF BBase, BTypes, Book
<1>5. BPlace(p)'
  BY <1>3, NoneAssumption DEF BBase, BTypes, BPlace, Book, rowVars
<1>6. \A q \in Call : q # p => todo'[q] = todo[q]
  BY DEF Book
<1> QED
  BY <1>1, <1>2, <1>4, <1>5, <1>6, BBegins DEF Book, rowVars, contactVars, cacheVars, BLabel

LEMMA BMark ==
  ASSUME BBase, NEW p \in Call, Mark(p)
  PROVE  BBase'
<1>1. PICK k \in Customer :
        Begin(p, "markRead", [kind |-> "mark", contact |-> k, slot |-> None, asked |-> None])
  BY DEF Mark
<1> DEFINE j == [kind |-> "mark", contact |-> k, slot |-> None, asked |-> None]
<1>2. j \in BJob
  BY DEF BJob
<1>3. pc[p] = "idle" /\ pc' = [pc EXCEPT ![p] = "markRead"] /\ job' = [job EXCEPT ![p] = j]
      /\ met' = met \cup {{p, q} : q \in {r \in Call : Active(r)}}
  BY <1>1 DEF Begin, Goto
<1>4. todo' \in [Call -> SUBSET Call]
  BY DEF BBase, BTypes, Mark
<1>5. BPlace(p)'
  BY <1>2, <1>3, NoneAssumption DEF BBase, BTypes, BPlace, Mark, rowVars
<1>6. \A q \in Call : q # p => todo'[q] = todo[q]
  BY DEF Mark
<1> QED
  BY <1>1, <1>2, <1>4, <1>5, <1>6, BBegins DEF Mark, rowVars, contactVars, cacheVars, BLabel

LEMMA BUnschedule ==
  ASSUME BBase, NEW p \in Call, Unschedule(p)
  PROVE  BBase'
<1>1. PICK k \in Customer :
        Begin(p, "clearRead", [kind |-> "clear", contact |-> k, slot |-> None, asked |-> None])
  BY DEF Unschedule
<1> DEFINE j == [kind |-> "clear", contact |-> k, slot |-> None, asked |-> None]
<1>2. j \in BJob
  BY DEF BJob
<1>3. pc[p] = "idle" /\ pc' = [pc EXCEPT ![p] = "clearRead"] /\ job' = [job EXCEPT ![p] = j]
      /\ met' = met \cup {{p, q} : q \in {r \in Call : Active(r)}}
  BY <1>1 DEF Begin, Goto
<1>4. todo' \in [Call -> SUBSET Call]
  BY DEF BBase, BTypes, Unschedule
<1>5. BPlace(p)'
  BY <1>2, <1>3, NoneAssumption DEF BBase, BTypes, BPlace, Unschedule, rowVars
<1>6. \A q \in Call : q # p => todo'[q] = todo[q]
  BY DEF Unschedule
<1> QED
  BY <1>1, <1>2, <1>4, <1>5, <1>6, BBegins DEF Unschedule, rowVars, contactVars, cacheVars, BLabel

LEMMA BCancel ==
  ASSUME BBase, NEW p \in Call, Cancel(p)
  PROVE  BBase'
<1>1. PICK b \in Call :
        /\ booking[b] # None
        /\ Begin(p, "cancelRow", [kind |-> "clear", contact |-> job[b].contact,
                                  slot |-> job[b].slot, asked |-> None])
        /\ todo' = [todo EXCEPT ![p] = {b}]
  BY DEF Cancel
<1> DEFINE j == [kind |-> "clear", contact |-> job[b].contact, slot |-> job[b].slot, asked |-> None]
<1>2. j \in BJob /\ job[b].contact # None /\ pc[b] # "idle"
  BY <1>1 DEF BJob, BBase, BTypes, BPlace
<1>3. pc[p] = "idle" /\ pc' = [pc EXCEPT ![p] = "cancelRow"] /\ job' = [job EXCEPT ![p] = j]
      /\ met' = met \cup {{p, q} : q \in {r \in Call : Active(r)}}
  BY <1>1 DEF Begin, Goto
<1>4. todo' \in [Call -> SUBSET Call]
  BY <1>1 DEF BBase, BTypes, Cancel
<1>5. BPlace(p)'
  <2>1. b # p /\ job'[b] = job[b] /\ job'[p] = j /\ pc'[p] = "cancelRow" /\ todo'[p] = {b}
       /\ booking' = booking
        /\ booking[p] = None
    BY <1>1, <1>2, <1>3 DEF BBase, BTypes, BPlace, Cancel, rowVars
  <2> QED
    BY <1>1, <1>2, <2>1 DEF BPlace
<1>6. \A q \in Call : q # p => todo'[q] = todo[q]
  BY <1>1 DEF BBase, BTypes
<1> QED
  BY <1>1, <1>2, <1>4, <1>5, <1>6, BBegins DEF Cancel, rowVars, contactVars, cacheVars, BLabel

(* Steps of an active call.                                                 *)
LEMMA BChoose ==
  ASSUME BBase, NEW p \in Call, Choose(p)
  PROVE  BBase'
<1>1. PICK l \in BLabel \ {"idle"} :
        pc' = [pc EXCEPT ![p] = l] /\ l = IF person'[p] \in HcpStaff THEN "lookup" ELSE "crm"
  BY DEF Choose, Goto, BLabel
<1>2. Active(p)
  BY DEF Choose, Active
<1>3. BTypes'
  <2>1. PICK s \in Person : person' = [person EXCEPT ![p] = s]
    <3>1. job[p].asked \in Person \cup {None}
      BY DEF BBase, BTypes, BJob
    <3>2. CASE job[p].asked = None
      BY <3>2 DEF Choose, Eligible
    <3>3. CASE job[p].asked # None
      BY <3>1, <3>3 DEF Choose
    <3> QED
      BY <3>2, <3>3
  <2> QED
    BY <1>1, <2>1 DEF BBase, BTypes, Choose, rowVars, contactVars, histVars, cacheVars
<1>4. BPlace(p)'
  <2>1. BPlace(p) /\ pc'[p] = l
    BY <1>1 DEF BBase, BTypes
  <2>2. person'[p] \in Person /\ pc[p] = "choose"
    BY DEF BBase, BTypes, BJob, Choose, Eligible
  <2>3. job' = job /\ booking' = booking /\ todo' = todo
    BY DEF Choose, rowVars
  <2> QED
    BY <1>1, <2>1, <2>2, <2>3 DEF BPlace
<1> QED
  <2>1. \A q \in Call : q # p => person'[q] = person[q]
    BY DEF BBase, BTypes, Choose
  <2> QED
    BY <1>1, <1>2, <1>3, <1>4, <2>1, BMoved DEF Choose, rowVars, histVars

LEMMA BFail ==
  ASSUME BBase, NEW p \in Call, Fail(p)
  PROVE  BBase'
<1>1. PICK l \in BLabel \ {"idle"} : pc' = [pc EXCEPT ![p] = l] /\ l = "done"
  BY DEF Fail, Goto, BLabel
<1>2. Active(p)
  BY DEF Fail, Active
<1>3. BTypes'
  BY <1>1 DEF BBase, BTypes, Fail, rowVars, contactVars, histVars, cacheVars
<1>4. BPlace(p)'
  <2>1. BPlace(p) /\ pc'[p] = l
    BY <1>1 DEF BBase, BTypes
  <2> QED
    BY <1>1, <2>1 DEF BPlace, Fail, rowVars
<1> QED
  BY <1>1, <1>2, <1>3, <1>4, BMoved DEF Fail, rowVars, histVars

LEMMA BLookupNone ==
  ASSUME BBase, NEW p \in Call, LookupNone(p)
  PROVE  BBase'
<1>1. PICK l \in BLabel \ {"idle"} : pc' = [pc EXCEPT ![p] = l] /\ l = "hcp"
  BY DEF LookupNone, Goto, BLabel
<1>2. Active(p)
  BY DEF LookupNone, Active
<1>3. BTypes'
  BY <1>1 DEF BBase, BTypes, LookupNone, rowVars, contactVars, histVars, cacheVars
<1>4. BPlace(p)'
  <2>1. BPlace(p) /\ pc'[p] = l
    BY <1>1 DEF BBase, BTypes
  <2> QED
    BY <1>1, <2>1 DEF BPlace, LookupNone, rowVars
<1> QED
  BY <1>1, <1>2, <1>3, <1>4, BMoved DEF LookupNone, rowVars, histVars

LEMMA BLookup ==
  ASSUME BBase, NEW p \in Call, Lookup(p)
  PROVE  BBase'
<1>1. PICK l \in BLabel \ {"idle"} : pc' = [pc EXCEPT ![p] = l] /\ l \in {"crm", "hcp"}
  BY DEF Lookup, Goto, BLabel
<1>2. Active(p)
  BY DEF Lookup, Active
<1>3. BTypes'
  <2>1. est' \in [Call -> Call \cup {None}]
    <3>1. \A i \in 1..Len(rows) : rows[i] \in Call
      BY DEF BBase, BTypes
    <3> QED
      BY <3>1 DEF BBase, BTypes, Lookup, Mine
  <2>2. faulty' \subseteq Call
    BY DEF BBase, BTypes, Lookup
  <2> QED
    BY <1>1, <2>1, <2>2 DEF BBase, BTypes, Lookup, contactVars, cacheVars
<1>4. BPlace(p)'
  <2>1. BPlace(p) /\ pc'[p] = l
    BY <1>1 DEF BBase, BTypes
  <2> QED
    BY <1>1, <2>1 DEF BPlace, Lookup, rowVars
<1> QED
  BY <1>1, <1>2, <1>3, <1>4, BMoved DEF Lookup, rowVars, histVars

LEMMA BCreateInHcp ==
  ASSUME BBase, NEW p \in Call, CreateInHcp(p)
  PROVE  BBase'
<1>1. PICK l \in BLabel \ {"idle"} : pc' = [pc EXCEPT ![p] = l] /\ l = "crm"
  BY DEF CreateInHcp, Goto, BLabel
<1>2. Active(p)
  BY DEF CreateInHcp, Active
<1>3. BTypes'
  BY <1>1 DEF BBase, BTypes, CreateInHcp, rowVars, contactVars, histVars, cacheVars
<1>4. BPlace(p)'
  <2>1. BPlace(p) /\ pc'[p] = l
    BY <1>1 DEF BBase, BTypes
  <2> QED
    BY <1>1, <2>1 DEF BPlace, CreateInHcp, rowVars
<1> QED
  BY <1>1, <1>2, <1>3, <1>4, BMoved DEF CreateInHcp, rowVars, histVars

LEMMA BHcpFails ==
  ASSUME BBase, NEW p \in Call, HcpFails(p)
  PROVE  BBase'
<1>1. PICK l \in BLabel \ {"idle"} : pc' = [pc EXCEPT ![p] = l] /\ l = "done"
  BY DEF HcpFails, Goto, BLabel
<1>2. Active(p)
  BY DEF HcpFails, Active
<1>3. BTypes'
  BY <1>1 DEF BBase, BTypes, HcpFails, rowVars, contactVars, histVars, cacheVars
<1>4. BPlace(p)'
  <2>1. BPlace(p) /\ pc'[p] = l
    BY <1>1 DEF BBase, BTypes
  <2> QED
    BY <1>1, <2>1 DEF BPlace, HcpFails, rowVars
<1> QED
  BY <1>1, <1>2, <1>3, <1>4, BMoved DEF HcpFails, rowVars, histVars

LEMMA BCreateCrmEstimate ==
  ASSUME BBase, NEW p \in Call, CreateCrmEstimate(p)
  PROVE  BBase'
<1>1. PICK l \in BLabel \ {"idle"} : pc' = [pc EXCEPT ![p] = l] /\ l = "markRead"
  BY DEF CreateCrmEstimate, Goto, BLabel
<1>2. Active(p)
  BY DEF CreateCrmEstimate, Active
<1>3. BTypes'
  <2>1. person[p] \in Person /\ job[p].slot \in Slot
    BY DEF CreateCrmEstimate, BBase, BPlace
  <2>2. CASE est[p] = None
    BY <1>1, <2>2 DEF BBase, BTypes, CreateCrmEstimate, contactVars, histVars, cacheVars
  <2>3. CASE est[p] # None
    <3>1. est[p] \in Call
      BY <2>3 DEF BBase, BTypes
    <3>2. /\ estimate' = [estimate EXCEPT ![est[p]] = [slot |-> job[p].slot, person |-> person[p]]]
          /\ rows' = rows \/ rows' = Append(rows, est[p])
      BY <2>3 DEF CreateCrmEstimate
    <3>3. [slot |-> job[p].slot, person |-> person[p]] \in [slot : Slot, person : Person]
      BY <2>1
    <3>4. estimate' \in [Call -> [slot : Slot, person : Person] \cup {None}]
      BY <3>1, <3>2, <3>3 DEF BBase, BTypes
    <3>5. rows' \in Seq(Call)
      <4>1. rows \in Seq(Call)
        BY DEF BBase, BTypes
      <4> QED
        BY <3>1, <3>2, <4>1, AppendProperties
    <3> QED
      BY <1>1, <3>4, <3>5 DEF BBase, BTypes, CreateCrmEstimate, contactVars, histVars, cacheVars
  <2> QED
    BY <2>2, <2>3
<1>4. BPlace(p)'
  <2>1. BPlace(p) /\ pc'[p] = l
    BY <1>1 DEF BBase, BTypes
  <2> QED
    BY <1>1, <2>1 DEF BPlace, CreateCrmEstimate, rowVars
<1> QED
  BY <1>1, <1>2, <1>3, <1>4, BMoved DEF CreateCrmEstimate, rowVars, histVars

LEMMA BInsert ==
  ASSUME BBase, NEW p \in Call, Insert(p)
  PROVE  BBase'
<1>1. PICK l \in BLabel \ {"idle"} : pc' = [pc EXCEPT ![p] = l] /\ l = "finish"
  BY DEF Insert, Goto, BLabel
<1>2. Active(p)
  BY DEF Insert, Active
<1>3. BTypes'
  BY <1>1 DEF BBase, BTypes, Insert, rowVars, contactVars, histVars, cacheVars
<1>4. BPlace(p)'
  <2>1. BPlace(p) /\ pc'[p] = l
    BY <1>1 DEF BBase, BTypes
  <2>2. booking'[p] = "confirmed" /\ \A b \in Call : booking[b] # None => booking'[b] # None
    BY NoneAssumption DEF BBase, BTypes, Insert
  <2>3. job' = job /\ todo' = todo /\ pc[p] = "insert" /\ todo[p] \subseteq Call
    BY DEF BBase, BTypes, Insert
  <2> QED
    BY <1>1, <2>1, <2>2, <2>3 DEF BPlace
<1> QED
  <2>1. \A b \in Call : b # p => booking'[b] = booking[b]
    BY DEF BBase, BTypes, Insert
  <2>2. booking'[p] # None
    BY NoneAssumption DEF BBase, BTypes, Insert
  <2> QED
    BY <1>1, <1>2, <1>3, <1>4, <2>1, <2>2, BMoved DEF Insert, histVars

LEMMA BFinish ==
  ASSUME BBase, NEW p \in Call, Finish(p)
  PROVE  BBase'
<1>1. PICK l \in BLabel \ {"idle"} : pc' = [pc EXCEPT ![p] = l] /\ l = "done"
  BY DEF Finish, Goto, BLabel
<1>2. Active(p)
  BY DEF Finish, Active
<1>3. BTypes'
  BY <1>1 DEF BBase, BTypes, Finish, rowVars, contactVars, histVars, Announce, Cache!Invalidate
<1>4. BPlace(p)'
  <2>1. BPlace(p) /\ pc'[p] = l
    BY <1>1 DEF BBase, BTypes
  <2> QED
    BY <1>1, <2>1 DEF BPlace, Finish, rowVars
<1> QED
  BY <1>1, <1>2, <1>3, <1>4, BMoved DEF Finish, rowVars, histVars

LEMMA BMarkRead ==
  ASSUME BBase, NEW p \in Call, MarkRead(p)
  PROVE  BBase'
<1>1. PICK l \in BLabel \ {"idle"} : pc' = [pc EXCEPT ![p] = l] /\ l = "markWrite"
  BY DEF MarkRead, Goto, BLabel
<1>2. Active(p)
  BY DEF MarkRead, Active
<1>3. BTypes'
  BY <1>1 DEF BBase, BTypes, MarkRead, rowVars, contactVars, histVars, cacheVars
<1>4. BPlace(p)'
  <2>1. BPlace(p) /\ pc'[p] = l
    BY <1>1 DEF BBase, BTypes
  <2> QED
    BY <1>1, <2>1 DEF BPlace, MarkRead, rowVars
<1> QED
  BY <1>1, <1>2, <1>3, <1>4, BMoved DEF MarkRead, rowVars, histVars

LEMMA BMarkWrite ==
  ASSUME BBase, NEW p \in Call, MarkWrite(p)
  PROVE  BBase'
<1>1. PICK l \in BLabel \ {"idle"} :
        pc' = [pc EXCEPT ![p] = l]
      /\ (l = "markFire" \/ l = IF job[p].kind = "book" THEN "insert" ELSE "done")
  BY DEF MarkWrite, Goto, BLabel, AfterMark
<1>2. Active(p)
  BY DEF MarkWrite, Active
<1>3. BTypes'
  <2>1. job[p].contact \in Customer
    BY <1>2 DEF BBase, BTypes, BJob, BPlace, Active
  <2>2. status' \in [Customer -> {"new", "scheduled"}]
    BY <2>1 DEF BBase, BTypes, MarkWrite
  <2>3. flips' \in [Customer -> Nat]
    <3>1. flips[job[p].contact] \in Nat /\ flips[job[p].contact] + 1 \in Nat
      BY <2>1 DEF BBase, BTypes
    <3>2. \/ flips' = flips
          \/ flips' = [flips EXCEPT ![job[p].contact] = flips[job[p].contact]]
          \/ flips' = [flips EXCEPT ![job[p].contact] = flips[job[p].contact] + 1]
      BY DEF MarkWrite
    <3> QED
      BY <2>1, <3>1, <3>2 DEF BBase, BTypes
  <2> QED
    BY <1>1, <2>2, <2>3 DEF BBase, BTypes, MarkWrite, rowVars, histVars, cacheVars
<1>4. BPlace(p)'
  <2>1. BPlace(p) /\ pc'[p] = l
    BY <1>1 DEF BBase, BTypes
  <2> QED
    BY <1>1, <2>1 DEF BPlace, MarkWrite, rowVars
<1> QED
  BY <1>1, <1>2, <1>3, <1>4, BMoved DEF MarkWrite, rowVars, histVars

LEMMA BMarkFire ==
  ASSUME BBase, NEW p \in Call, MarkFire(p)
  PROVE  BBase'
<1>1. PICK l \in BLabel \ {"idle"} :
        pc' = [pc EXCEPT ![p] = l] /\ l = IF job[p].kind = "book" THEN "insert" ELSE "done"
  BY DEF MarkFire, Goto, BLabel, AfterMark
<1>2. Active(p)
  BY DEF MarkFire, Active
<1>3. BTypes'
  <2>1. job[p].contact \in Customer
    BY <1>2 DEF BBase, BTypes, BJob, BPlace, Active
  <2>2. fires' \in [Customer -> Nat]
    BY <2>1 DEF BBase, BTypes, MarkFire
  <2> QED
    BY <1>1, <2>2 DEF BBase, BTypes, MarkFire, rowVars, histVars, cacheVars
<1>4. BPlace(p)'
  <2>1. BPlace(p) /\ pc'[p] = l
    BY <1>1 DEF BBase, BTypes
  <2> QED
    BY <1>1, <2>1 DEF BPlace, MarkFire, rowVars
<1> QED
  BY <1>1, <1>2, <1>3, <1>4, BMoved DEF MarkFire, rowVars, histVars

LEMMA BMarkFails ==
  ASSUME BBase, NEW p \in Call, MarkFails(p)
  PROVE  BBase'
<1>1. PICK l \in BLabel \ {"idle"} :
        pc' = [pc EXCEPT ![p] = l] /\ l = IF job[p].kind = "book" THEN "insert" ELSE "done"
  BY DEF MarkFails, Goto, BLabel, AfterMark
<1>2. Active(p)
  BY DEF MarkFails, Active
<1>3. BTypes'
  BY <1>1 DEF BBase, BTypes, MarkFails, rowVars, contactVars, histVars, cacheVars
<1>4. BPlace(p)'
  <2>1. BPlace(p) /\ pc'[p] = l
    BY <1>1 DEF BBase, BTypes
  <2> QED
    BY <1>1, <2>1 DEF BPlace, MarkFails, rowVars
<1> QED
  BY <1>1, <1>2, <1>3, <1>4, BMoved DEF MarkFails, rowVars, histVars

LEMMA BCancelRow ==
  ASSUME BBase, NEW p \in Call, CancelRow(p)
  PROVE  BBase'
<1>1. PICK l \in BLabel \ {"idle"} : pc' = [pc EXCEPT ![p] = l] /\ l = "cancelTold"
  BY DEF CancelRow, Goto, BLabel
<1>2. Active(p)
  BY DEF CancelRow, Active
<1>3. BTypes'
  BY <1>1 DEF BBase, BTypes, CancelRow, rowVars, contactVars, histVars, cacheVars, CancelIn
<1>4. BPlace(p)'
  <2>1. BPlace(p) /\ pc'[p] = l
    BY <1>1 DEF BBase, BTypes
  <2>2. \A b \in Call : booking'[b] = None <=> booking[b] = None
    <3>1. \A b \in todo[p] : booking[b] # None
      BY <2>1 DEF BPlace
    <3> QED
      BY <3>1, NoneAssumption DEF CancelRow, CancelIn
  <2>3. job' = job /\ todo' = todo /\ pc[p] = "cancelRow" /\ todo[p] \subseteq Call
    BY DEF BBase, BTypes, CancelRow
  <2> QED
    BY <1>1, <2>1, <2>2, <2>3 DEF BPlace
<1> QED
  <2>1. \A b \in Call : booking'[b] = None <=> booking[b] = None
    <3>1. \A b \in todo[p] : booking[b] # None
      BY DEF BBase, BPlace
    <3> QED
      BY <3>1, NoneAssumption DEF CancelRow, CancelIn
  <2> QED
    BY <1>1, <1>2, <1>3, <1>4, <2>1, BMoved DEF CancelRow, histVars

LEMMA BCancelTold ==
  ASSUME BBase, NEW p \in Call, CancelTold(p)
  PROVE  BBase'
<1>1. PICK l \in BLabel \ {"idle"} : pc' = [pc EXCEPT ![p] = l] /\ l = "clearRead"
  BY DEF CancelTold, Goto, BLabel
<1>2. Active(p)
  BY DEF CancelTold, Active
<1>3. BTypes'
  BY <1>1 DEF BBase, BTypes, CancelTold, rowVars, contactVars, histVars, Announce, Cache!Invalidate
<1>4. BPlace(p)'
  <2>1. BPlace(p) /\ pc'[p] = l
    BY <1>1 DEF BBase, BTypes
  <2>2. todo'[p] = {} /\ job' = job /\ booking' = booking
       /\ pc[p] \in {"cancelTold", "clearSelect", "clearEach"}
    BY <1>2 DEF BBase, BTypes, CancelTold, rowVars
  <2> QED
    BY <1>1, <2>1, <2>2 DEF BPlace
<1> QED
  <2>1. \A q \in Call : q # p => todo'[q] = todo[q]
    BY DEF BBase, BTypes, CancelTold
  <2> QED
    BY <1>1, <1>2, <1>3, <1>4, <2>1, BMoved DEF CancelTold, rowVars, histVars

LEMMA BClearRead ==
  ASSUME BBase, NEW p \in Call, ClearRead(p)
  PROVE  BBase'
<1>1. PICK l \in BLabel \ {"idle"} : pc' = [pc EXCEPT ![p] = l] /\ l = "clearSelect"
  BY DEF ClearRead, Goto, BLabel
<1>2. Active(p)
  BY DEF ClearRead, Active
<1>3. BTypes'
  BY <1>1 DEF BBase, BTypes, ClearRead, rowVars, contactVars, histVars, cacheVars
<1>4. BPlace(p)'
  <2>1. BPlace(p) /\ pc'[p] = l
    BY <1>1 DEF BBase, BTypes
  <2> QED
    BY <1>1, <2>1 DEF BPlace, ClearRead, rowVars
<1> QED
  BY <1>1, <1>2, <1>3, <1>4, BMoved DEF ClearRead, rowVars, histVars

LEMMA BClearSelect ==
  ASSUME BBase, NEW p \in Call, ClearSelect(p)
  PROVE  BBase'
<1>1. PICK l \in BLabel \ {"idle"} : pc' = [pc EXCEPT ![p] = l] /\ l = "clearEach"
  BY DEF ClearSelect, Goto, BLabel
<1>2. Active(p)
  BY DEF ClearSelect, Active
<1>3. BTypes'
  BY <1>1 DEF BBase, BTypes, ClearSelect, rowVars, contactVars, histVars, cacheVars
<1>4. BPlace(p)'
  <2>1. BPlace(p) /\ pc'[p] = l
    BY <1>1 DEF BBase, BTypes
  <2>2. (\A b \in todo'[p] : booking[b] # None) /\ job' = job /\ booking' = booking
       /\ pc[p] \in {"cancelTold", "clearSelect", "clearEach"}
    BY <1>2, NoneAssumption DEF BBase, BTypes, ClearSelect, rowVars
  <2> QED
    BY <1>1, <2>1, <2>2 DEF BPlace
<1> QED
  <2>1. \A q \in Call : q # p => todo'[q] = todo[q]
    BY DEF BBase, BTypes, ClearSelect
  <2> QED
    BY <1>1, <1>2, <1>3, <1>4, <2>1, BMoved DEF ClearSelect, rowVars, histVars

LEMMA BClearWrite ==
  ASSUME BBase, NEW p \in Call, ClearWrite(p)
  PROVE  BBase'
<1>1. PICK l \in BLabel \ {"idle"} : pc' = [pc EXCEPT ![p] = l] /\ l = "done"
  BY DEF ClearWrite, Goto, BLabel
<1>2. Active(p)
  BY DEF ClearWrite, Active
<1>3. BTypes'
  BY <1>1 DEF BBase, BTypes, ClearWrite, rowVars, contactVars, histVars, cacheVars
<1>4. BPlace(p)'
  <2>1. BPlace(p) /\ pc'[p] = l
    BY <1>1 DEF BBase, BTypes
  <2> QED
    BY <1>1, <2>1 DEF BPlace, ClearWrite, rowVars
<1> QED
  BY <1>1, <1>2, <1>3, <1>4, BMoved DEF ClearWrite, rowVars, histVars

LEMMA BClearGivesUp ==
  ASSUME BBase, NEW p \in Call, ClearGivesUp(p)
  PROVE  BBase'
<1>1. PICK l \in BLabel \ {"idle"} : pc' = [pc EXCEPT ![p] = l] /\ l = "clearEach"
  BY DEF ClearGivesUp, Goto, BLabel
<1>2. Active(p)
  BY DEF ClearGivesUp, Active
<1>3. BTypes'
  BY <1>1 DEF BBase, BTypes, ClearGivesUp, rowVars, contactVars, histVars, cacheVars
<1>4. BPlace(p)'
  <2>1. BPlace(p) /\ pc'[p] = l
    BY <1>1 DEF BBase, BTypes
  <2>2. todo'[p] = {} /\ job' = job /\ booking' = booking
       /\ pc[p] \in {"cancelTold", "clearSelect", "clearEach"}
    BY <1>2 DEF BBase, BTypes, ClearGivesUp, rowVars
  <2> QED
    BY <1>1, <2>1, <2>2 DEF BPlace
<1> QED
  <2>1. \A q \in Call : q # p => todo'[q] = todo[q]
    BY DEF BBase, BTypes, ClearGivesUp
  <2> QED
    BY <1>1, <1>2, <1>3, <1>4, <2>1, BMoved DEF ClearGivesUp, rowVars, histVars

LEMMA BClearFails ==
  ASSUME BBase, NEW p \in Call, ClearFails(p)
  PROVE  BBase'
<1>1. PICK l \in BLabel \ {"idle"} : pc' = [pc EXCEPT ![p] = l] /\ l = "done"
  BY DEF ClearFails, Goto, BLabel
<1>2. Active(p)
  BY DEF ClearFails, Active
<1>3. BTypes'
  BY <1>1 DEF BBase, BTypes, ClearFails, rowVars, contactVars, histVars, cacheVars
<1>4. BPlace(p)'
  <2>1. BPlace(p) /\ pc'[p] = l
    BY <1>1 DEF BBase, BTypes
  <2> QED
    BY <1>1, <2>1 DEF BPlace, ClearFails, rowVars
<1> QED
  BY <1>1, <1>2, <1>3, <1>4, BMoved DEF ClearFails, rowVars, histVars

LEMMA BCacheTypes ==
  ASSUME BBase, CacheStep
  PROVE  BTypes'
<1>1. /\ entry' \in [Watched -> (SUBSET Person) \cup {None}]
      /\ flight' \in [Watched -> {"none", "reading", "read"}]
      /\ found' \in [Watched -> (SUBSET Person) \cup {None}]
  <2>0. /\ entry \in [Watched -> (SUBSET Person) \cup {None}]
        /\ flight \in [Watched -> {"none", "reading", "read"}]
        /\ found \in [Watched -> (SUBSET Person) \cup {None}]
    BY DEF BBase, BTypes
  <2>1. PICK d \in Watched :
          Cache!Ask(d) \/ Cache!Look(d) \/ Cache!Fill(d) \/ Cache!FillFails(d) \/ Cache!Expire(d)
    BY DEF CacheStep, Cache!Next
  <2>2. CASE Cache!Ask(d)
    BY <2>0, <2>2 DEF Cache!Ask
  <2>3. CASE Cache!Look(d)
    <3>1. found' = [found EXCEPT ![d] = {s \in Person : ~Busy(s, d)}]
      BY <2>3 DEF Cache!Look
    <3> QED
      BY <2>0, <2>3, <3>1 DEF Cache!Look
  <2>4. CASE Cache!Fill(d)
    BY <2>0, <2>4 DEF Cache!Fill
  <2>5. CASE Cache!FillFails(d)
    BY <2>0, <2>5 DEF Cache!FillFails
  <2>6. CASE Cache!Expire(d)
    BY <2>0, <2>6 DEF Cache!Expire
  <2> QED
    BY <2>1, <2>2, <2>3, <2>4, <2>5, <2>6
<1> QED
  BY <1>1 DEF BBase, BTypes, CacheStep, callVars, rowVars, contactVars, histVars

LEMMA BClearEach ==
  ASSUME BBase, NEW p \in Call, ClearEach(p)
  PROVE  BBase'
<1>1. PICK b \in todo[p] :
        CancelIn({b}) /\ Announce({job[b].slot}) /\ todo' = [todo EXCEPT ![p] = @ \ {b}]
  BY DEF ClearEach
<1>2. b \in Call /\ todo[p] \subseteq Call /\ todo'[p] = todo[p] \ {b} /\ pc[p] = "clearEach"
  BY <1>1 DEF BBase, BTypes, ClearEach
<1>3. Active(p) /\ pc' = [pc EXCEPT ![p] = "clearEach"] /\ pc' = pc /\ "clearEach" \in BLabel \ {"idle"}
  BY <1>2 DEF ClearEach, Active, BBase, BTypes, BLabel
<1>4. \A c \in Call : booking'[c] = None <=> booking[c] = None
  <2>1. booking[b] # None
    BY <1>1 DEF BBase, BPlace
  <2> QED
    BY <1>1, <2>1, NoneAssumption DEF CancelIn
<1>5. BTypes'
  <2>1. todo' \in [Call -> SUBSET Call]
    BY <1>1, <1>2 DEF BBase, BTypes
  <2>2. booking' \in [Call -> {None, "confirmed", "cancelled"}]
    BY <1>1 DEF BBase, BTypes, CancelIn
  <2>3. entry' \in [Watched -> (SUBSET Person) \cup {None}] /\ flight' = flight /\ found' = found
    BY <1>1 DEF BBase, BTypes, Announce, Cache!Invalidate
  <2> QED
    BY <2>1, <2>2, <2>3 DEF BBase, BTypes, ClearEach, contactVars, histVars
<1>6. BPlace(p)'
  <2>1. BPlace(p) /\ job' = job /\ person' = person
    BY DEF BBase, ClearEach
  <2> QED
    BY <1>2, <1>3, <1>4, <2>1 DEF BPlace
<1>7. \A q \in Call : q # p => todo'[q] = todo[q]
  BY <1>1 DEF BBase, BTypes
<1> QED
  BY <1>3, <1>4, <1>5, <1>6, <1>7, BMoved DEF ClearEach, histVars

(* Steps of nobody.                                                         *)
LEMMA BStays ==
  ASSUME BBase, UNCHANGED <<pc, job, person, todo, histVars>>, BTypes',
         \A b \in Call : booking'[b] = None <=> booking[b] = None
  PROVE  BBase'
<1>1. \A q \in Call : BPlace(q)'
  BY BKept
<1>2. BHistory'
  BY DEF BBase, BHistory, Met, Active, histVars
<1> QED
  BY <1>1, <1>2 DEF BBase

LEMMA BReconcile ==
  ASSUME BBase, NEW b \in Call, NEW here \in BOOLEAN, Reconcile(b, here)
  PROVE  BBase'
<1>1. \A c \in Call : booking'[c] = None <=> booking[c] = None
  BY NoneAssumption DEF Reconcile, CancelIn
<1>2. booking' \in [Call -> {None, "confirmed", "cancelled"}]
  BY DEF Reconcile, CancelIn, BBase, BTypes
<1>3. entry' \in [Watched -> (SUBSET Person) \cup {None}] /\ flight' = flight /\ found' = found
  BY DEF BBase, BTypes, Reconcile, Announce, Cache!Invalidate, cacheVars
<1>4. BTypes'
  BY <1>2, <1>3 DEF BBase, BTypes, Reconcile, callVars, contactVars, histVars
<1> QED
  BY <1>1, <1>4, BStays DEF Reconcile, callVars

LEMMA BWebhook ==
  ASSUME BBase, Webhook
  PROVE  BBase'
<1>1. entry' \in [Watched -> (SUBSET Person) \cup {None}] /\ flight' = flight /\ found' = found
  BY DEF BBase, BTypes, Webhook, Announce, Cache!Invalidate
<1>2. BTypes'
  BY <1>1 DEF BBase, BTypes, Webhook, callVars, rowVars, contactVars, histVars
<1> QED
  BY <1>2, BStays DEF Webhook, callVars, rowVars

LEMMA BCacheStep ==
  ASSUME BBase, CacheStep
  PROVE  BBase'
BY BCacheTypes, BStays DEF CacheStep, callVars, rowVars

LEMMA BStutter ==
  ASSUME BBase, UNCHANGED vars
  PROVE  BBase'
<1>1. BTypes'
  BY DEF BBase, BTypes, vars, callVars, rowVars, contactVars, histVars, cacheVars
<1> QED
  BY <1>1, BStays DEF vars, callVars, rowVars

LEMMA BExit ==
  ASSUME BBase, Exit
  PROVE  BBase'
<1>1. \A q \in Call : pc'[q] = (IF Active(q) THEN "done" ELSE pc[q])
  BY DEF Exit
<1>2. BTypes'
  <2>1. pc' \in [Call -> BLabel] /\ faulty' \subseteq Call
    BY DEF Exit, BBase, BTypes, BLabel
  <2>2. /\ entry' \in [Watched -> (SUBSET Person) \cup {None}]
        /\ flight' \in [Watched -> {"none", "reading", "read"}]
        /\ found' \in [Watched -> (SUBSET Person) \cup {None}]
    BY DEF Exit, Cache!Forget
  <2> QED
    BY <2>1, <2>2 DEF Exit, BBase, BTypes, rowVars, contactVars
<1>3. ASSUME NEW q \in Call
      PROVE  BPlace(q)'
  <2>1. BPlace(q) /\ ((pc'[q] = "done" /\ pc[q] # "idle") \/ pc'[q] = pc[q]) /\ pc'[q] # "cancelRow"
    BY <1>1 DEF BBase, Active
  <2>2. job' = job /\ person' = person /\ booking' = booking /\ todo' = todo
    BY DEF Exit, rowVars
  <2> QED
    BY <2>1, <2>2 DEF BPlace
<1>4. BHistory'
  <2>1. \A q \in Call : ~Active(q)'
    BY <1>1 DEF Active
  <2>2. \A q \in Call : pc[q] # "idle" => pc'[q] # "idle"
    BY <1>1
  <2>3. \A q \in faulty' : pc'[q] # "idle"
    <3>1. \A q \in faulty' : q \in Call /\ pc[q] # "idle"
      BY DEF Exit, BBase, BHistory, BTypes, Active
    <3> QED
      BY <2>2, <3>1
  <2>4. \A x \in met' : \A q \in x : pc'[q] # "idle"
    <3>1. met' = met
      BY DEF Exit
    <3>2. \A x \in met : \A q \in x : q \in Call /\ pc[q] # "idle"
      BY DEF BBase, BHistory, BTypes
    <3> QED
      BY <2>2, <3>1, <3>2
  <2> QED
    BY <2>1, <2>3, <2>4 DEF BHistory
<1> QED
  BY <1>2, <1>3, <1>4 DEF BBase

LEMMA BInit ==
  ASSUME Init
  PROVE  BBase
<1>1. BTypes
  <2>1. pc \in [Call -> BLabel] /\ job \in [Call -> BJob]
    BY DEF Init, BLabel, BJob, NoJob
  <2>2. saw \in [Call -> BOOLEAN] /\ todo \in [Call -> SUBSET Call]
    BY DEF Init
  <2>3. rows \in Seq(Call)
    BY DEF Init
  <2>4. status \in [Customer -> {"new", "scheduled"}] /\ flips \in [Customer -> Nat]
       /\ fires \in [Customer -> Nat]
    BY DEF Init
  <2>5. /\ entry \in [Watched -> (SUBSET Person) \cup {None}]
        /\ flight \in [Watched -> {"none", "reading", "read"}]
        /\ found \in [Watched -> (SUBSET Person) \cup {None}]
    BY DEF Init, Cache!Init
  <2>6. /\ person \in [Call -> Person \cup {None}] /\ est \in [Call -> Call \cup {None}]
        /\ booking \in [Call -> {None, "confirmed", "cancelled"}]
        /\ estimate \in [Call -> [slot : Slot, person : Person] \cup {None}]
        /\ inHcp \subseteq Call /\ met \subseteq SUBSET Call /\ faulty \subseteq Call
    BY DEF Init
  <2> QED
    BY <2>1, <2>2, <2>3, <2>4, <2>5, <2>6 DEF BTypes
<1>2. \A p \in Call : BPlace(p)
  <2>1. \A p \in Call : pc[p] = "idle" /\ job[p] = NoJob /\ booking[p] = None /\ todo[p] = {}
    BY DEF Init
  <2> QED
    BY <2>1 DEF BPlace, NoJob
<1>3. BHistory
  BY DEF Init, BHistory, Active
<1> QED
  BY <1>1, <1>2, <1>3 DEF BBase

(* What the beginning of a call has in common.                              *)
Begins(p) == Book(p) \/ Mark(p) \/ Unschedule(p) \/ Cancel(p)

LEMMA BBegun ==
  ASSUME BBase, NEW p \in Call, Begins(p)
  PROVE  /\ pc[p] = "idle" /\ booking[p] = None
         /\ \A q \in Call : q # p => pc'[q] = pc[q] /\ job'[q] = job[q] /\ todo'[q] = todo[q]
         /\ pc'[p] \in {"choose", "markRead", "clearRead", "cancelRow"}
         /\ pc'[p] = "markRead" => job'[p].kind = "mark"
         /\ met' = met \cup {{p, q} : q \in {r \in Call : Active(r)}} /\ met \subseteq met'
         /\ UNCHANGED <<person, est, saw, rowVars, contactVars, rotation, faulty, debts, cacheVars>>
<1>1. PICK l, j : /\ l \in {"choose", "markRead", "clearRead", "cancelRow"}
                    /\ Begin(p, l, j) /\ (l = "markRead" => j.kind = "mark")
  <2>1. CASE Book(p)
    BY <2>1 DEF Book
  <2>2. CASE Mark(p)
    <3>1. PICK k \in Customer :
            Begin(p, "markRead", [kind |-> "mark", contact |-> k, slot |-> None, asked |-> None])
      BY <2>2 DEF Mark
    <3> QED
      BY <3>1
  <2>3. CASE Unschedule(p)
    BY <2>3 DEF Unschedule
  <2>4. CASE Cancel(p)
    BY <2>4 DEF Cancel
  <2> QED
    BY <2>1, <2>2, <2>3, <2>4 DEF Begins
<1>2. \A q \in Call : pc'[q] = (IF q = p THEN l ELSE pc[q]) /\ job'[q] = IF q = p THEN j ELSE job[q]
  BY <1>1 DEF Begin, Goto, BBase, BTypes
<1>3. pc[p] = "idle" /\ booking[p] = None
  BY <1>1 DEF Begin, BBase, BPlace
<1>4. UNCHANGED <<person, est, saw, rowVars, contactVars, rotation, faulty, debts, cacheVars>>
  BY DEF Begins, Book, Mark, Unschedule, Cancel
<1>5. \A q \in Call : q # p => todo'[q] = todo[q]
  BY DEF Begins, Book, Mark, Unschedule, Cancel, BBase, BTypes
<1> QED
  BY <1>1, <1>2, <1>3, <1>4, <1>5 DEF Begin

-----------------------------------------------------------------------------
(* One salesperson, one appointment. *)

TwiceQuiet ==
  /\ met \subseteq met'
  /\ \A b \in Call : MayStand(b)' => MayStand(b) /\ job'[b] = job[b] /\ person'[b] = person[b]

LEMMA TwiceKept ==
  ASSUME BTwice, TwiceQuiet
  PROVE  BTwice'
BY DEF BTwice, TwiceQuiet, Met

LEMMA TwiceCalls ==
  ASSUME BBase, NEW p \in Call
  PROVE  /\ Begins(p) => TwiceQuiet
         /\ Fail(p) \/ LookupNone(p) \/ Lookup(p) \/ CreateInHcp(p) \/ HcpFails(p) \/
            CreateCrmEstimate(p) \/ Insert(p) \/ Finish(p) \/ MarkRead(p) \/ MarkWrite(p) \/
            MarkFire(p) \/ MarkFails(p) \/ CancelRow(p) \/ CancelTold(p) \/ ClearRead(p) \/
            ClearSelect(p) \/ ClearEach(p) \/ ClearWrite(p) \/ ClearGivesUp(p) \/ ClearFails(p) => TwiceQuiet
<1>1. ASSUME Begins(p) PROVE TwiceQuiet
  BY <1>1, BBegun, NoneAssumption DEF BBase, BPlace, TwiceQuiet, MayStand, rowVars
<1>2. ASSUME Fail(p) PROVE TwiceQuiet
  BY <1>2 DEF BBase, BTypes, BPlace, TwiceQuiet, MayStand, Fail, Goto, rowVars, histVars
<1>3. ASSUME LookupNone(p) PROVE TwiceQuiet
  BY <1>3 DEF BBase, BTypes, BPlace, TwiceQuiet, MayStand, LookupNone, Goto, rowVars, histVars
<1>4. ASSUME Lookup(p) PROVE TwiceQuiet
  BY <1>4 DEF BBase, BTypes, BPlace, TwiceQuiet, MayStand, Lookup, Goto, rowVars, histVars
<1>5. ASSUME CreateInHcp(p) PROVE TwiceQuiet
  BY <1>5 DEF BBase, BTypes, BPlace, TwiceQuiet, MayStand, CreateInHcp, Goto, rowVars, histVars
<1>6. ASSUME HcpFails(p) PROVE TwiceQuiet
  BY <1>6 DEF BBase, BTypes, BPlace, TwiceQuiet, MayStand, HcpFails, Goto, rowVars, histVars
<1>7. ASSUME CreateCrmEstimate(p) PROVE TwiceQuiet
  BY <1>7 DEF BBase, BTypes, BPlace, TwiceQuiet, MayStand, CreateCrmEstimate, Goto, rowVars, histVars
<1>8. ASSUME Insert(p) PROVE TwiceQuiet
  BY <1>8 DEF BBase, BTypes, BPlace, TwiceQuiet, MayStand, Insert, Goto, rowVars, histVars
<1>9. ASSUME Finish(p) PROVE TwiceQuiet
  BY <1>9 DEF BBase, BTypes, BPlace, TwiceQuiet, MayStand, Finish, Goto, rowVars, histVars
<1>10. ASSUME MarkRead(p) PROVE TwiceQuiet
  BY <1>10 DEF BBase, BTypes, BPlace, TwiceQuiet, MayStand, MarkRead, Goto, rowVars, histVars
<1>11. ASSUME MarkWrite(p) PROVE TwiceQuiet
  BY <1>11 DEF BBase, BTypes, BPlace, TwiceQuiet, MayStand, MarkWrite, Goto, rowVars, histVars, AfterMark
<1>12. ASSUME MarkFire(p) PROVE TwiceQuiet
  BY <1>12 DEF BBase, BTypes, BPlace, TwiceQuiet, MayStand, MarkFire, Goto, rowVars, histVars, AfterMark
<1>13. ASSUME MarkFails(p) PROVE TwiceQuiet
  BY <1>13 DEF BBase, BTypes, BPlace, TwiceQuiet, MayStand, MarkFails, Goto, rowVars, histVars, AfterMark
<1>14. ASSUME CancelRow(p) PROVE TwiceQuiet
  BY <1>14 DEF BBase, BTypes, BPlace, TwiceQuiet, MayStand, CancelRow, Goto, rowVars, histVars, CancelIn
<1>15. ASSUME CancelTold(p) PROVE TwiceQuiet
  BY <1>15 DEF BBase, BTypes, BPlace, TwiceQuiet, MayStand, CancelTold, Goto, rowVars, histVars
<1>16. ASSUME ClearRead(p) PROVE TwiceQuiet
  BY <1>16 DEF BBase, BTypes, BPlace, TwiceQuiet, MayStand, ClearRead, Goto, rowVars, histVars
<1>17. ASSUME ClearSelect(p) PROVE TwiceQuiet
  BY <1>17 DEF BBase, BTypes, BPlace, TwiceQuiet, MayStand, ClearSelect, Goto, rowVars, histVars
<1>18. ASSUME ClearEach(p) PROVE TwiceQuiet
  BY <1>18 DEF BBase, BTypes, BPlace, TwiceQuiet, MayStand, ClearEach, Goto, rowVars, histVars, CancelIn
<1>19. ASSUME ClearWrite(p) PROVE TwiceQuiet
  BY <1>19 DEF BBase, BTypes, BPlace, TwiceQuiet, MayStand, ClearWrite, Goto, rowVars, histVars
<1>20. ASSUME ClearGivesUp(p) PROVE TwiceQuiet
  BY <1>20 DEF BBase, BTypes, BPlace, TwiceQuiet, MayStand, ClearGivesUp, Goto, rowVars, histVars
<1>21. ASSUME ClearFails(p) PROVE TwiceQuiet
  BY <1>21 DEF BBase, BTypes, BPlace, TwiceQuiet, MayStand, ClearFails, Goto, rowVars, histVars
<1> QED
  BY <1>1, <1>2, <1>3, <1>4, <1>5, <1>6, <1>7, <1>8, <1>9, <1>10, <1>11, <1>12, <1>13, <1>14,
       <1>15, <1>16, <1>17, <1>18, <1>19, <1>20, <1>21

LEMMA TwiceChoose ==
  ASSUME BBase, BBase', BTwice, NEW p \in Call, Choose(p)
  PROVE  BTwice'
<1>1. /\ pc[p] = "choose" /\ job' = job /\ booking' = booking /\ met' = met
      /\ \A q \in Call : q # p => pc'[q] = pc[q] /\ person'[q] = person[q]
  BY DEF Choose, Goto, BBase, BTypes, rowVars, histVars
<1>2. job[p].asked = None => ~Busy(person'[p], job[p].slot)
  BY DEF Choose, Eligible, BBase, BTypes
<1>3. ASSUME NEW c \in Call, c # p, MayStand(c), job[c].asked = None, job[p].asked = None,
             job[c].slot = job[p].slot, person[c] = person'[p]
      PROVE  Met(p, c)
  <2>1. booking[c] # "confirmed"
    BY <1>2, <1>3 DEF Busy
  <2>2. Active(c) /\ Active(p)
    BY <1>1, <1>3, <2>1 DEF MayStand, Active
  <2> QED
    BY <1>3, <2>2 DEF BBase, BHistory
<1>4. \A c \in Call : c # p => (MayStand(c)' <=> MayStand(c))
  BY <1>1 DEF MayStand
<1>5. SUFFICES ASSUME NEW b \in Call, NEW c \in Call, b # c, MayStand(b)', MayStand(c)',
                      job[b].asked = None, job[c].asked = None,
                      job[b].slot = job[c].slot, person'[b] = person'[c]
               PROVE  {b, c} \in met
  BY <1>1 DEF BTwice, Met
<1>6. CASE b = p
  BY <1>1, <1>3, <1>4, <1>5, <1>6 DEF Met
<1>7. CASE c = p
  <2>1. {b, c} = {p, b}
    BY <1>7
  <2> QED
    BY <1>1, <1>3, <1>4, <1>5, <1>7, <2>1 DEF Met
<1>8. CASE b # p /\ c # p
  BY <1>1, <1>4, <1>5, <1>8 DEF BTwice, Met
<1> QED
  BY <1>6, <1>7, <1>8

LEMMA TwiceElsewhere ==
  ASSUME BBase
  PROVE  /\ \A b \in Call, here \in BOOLEAN : Reconcile(b, here) => TwiceQuiet
         /\ Webhook \/ Exit \/ CacheStep \/ UNCHANGED vars => TwiceQuiet
<1>1. ASSUME NEW b \in Call, NEW here \in BOOLEAN, Reconcile(b, here) PROVE TwiceQuiet
  BY <1>1 DEF TwiceQuiet, MayStand, Reconcile, CancelIn, callVars, histVars
<1>2. ASSUME Webhook \/ CacheStep \/ UNCHANGED vars PROVE TwiceQuiet
  BY <1>2 DEF TwiceQuiet, MayStand, Webhook, CacheStep, vars, callVars, rowVars, histVars
<1>3. ASSUME Exit PROVE TwiceQuiet
  BY <1>3 DEF TwiceQuiet, MayStand, Exit, rowVars
<1> QED
  BY <1>1, <1>2, <1>3

-----------------------------------------------------------------------------
(* A confirmed booking leaves its contact scheduled. *)

(* The calls that have begun keep their job, and the history grows.         *)
Grows ==
  /\ met \subseteq met' /\ faulty \subseteq faulty'
  /\ \A p \in Call : pc[p] # "idle" => job'[p] = job[p]

LEMMA ClearedStays ==
  ASSUME BBase, Grows, NEW b \in Call, pc[b] # "idle", MayBeCleared(b)
  PROVE  MayBeCleared(b)'
<1>1. PICK p \in Call : /\ job[p].kind = "clear" /\ job[p].contact = job[b].contact
                        /\ p \in faulty \/ Met(p, b)
  BY DEF MayBeCleared
<1>2. pc[p] # "idle"
  BY <1>1 DEF BBase, BHistory, Met
<1> QED
  BY <1>1, <1>2 DEF Grows, MayBeCleared, Met

MarkedQuiet ==
  /\ Grows /\ status' = status
  /\ \A b \in Call : HasMarked(b)' /\ b \notin faulty' => HasMarked(b)
  /\ \A b \in Call : booking'[b] = "confirmed" => booking[b] = "confirmed"
  /\ \A p \in Call : pc'[p] = "clearEach" /\ p \notin faulty' => pc[p] = "clearEach" /\ todo'[p] = todo[p]

LEMMA HasMarkedBegun ==
  ASSUME BBase, NEW b \in Call, HasMarked(b) \/ booking[b] = "confirmed"
  PROVE  pc[b] # "idle"
BY NoneAssumption DEF BBase, BPlace, HasMarked

LEMMA MarkedKept ==
  ASSUME BBase, BMarked, MarkedQuiet
  PROVE  BMarked'
<1>1. ASSUME NEW b \in Call, HasMarked(b)', b \notin faulty', ~MayBeCleared(b)'
      PROVE  status'[job'[b].contact] = "scheduled"
  <2>1. HasMarked(b) /\ b \notin faulty /\ pc[b] # "idle"
    BY <1>1, HasMarkedBegun DEF MarkedQuiet, Grows
  <2>2. ~MayBeCleared(b) /\ job'[b] = job[b]
    BY <1>1, <2>1, ClearedStays DEF MarkedQuiet, Grows
  <2> QED
    BY <2>1, <2>2 DEF BMarked, MarkedQuiet
<1>2. ASSUME NEW p \in Call, pc'[p] = "clearEach", p \notin faulty', NEW b \in Call,
             booking'[b] = "confirmed", job'[b].contact = job'[p].contact, ~Met(p, b)'
      PROVE  b \in todo'[p]
  <2>1. pc[p] = "clearEach" /\ todo'[p] = todo[p] /\ booking[b] = "confirmed" /\ pc[b] # "idle"
    BY <1>2, HasMarkedBegun DEF MarkedQuiet
  <2>2. job'[p] = job[p] /\ job'[b] = job[b] /\ ~Met(p, b) /\ p \notin faulty
    BY <1>2, <2>1 DEF MarkedQuiet, Grows, Met
  <2> QED
    BY <1>2, <2>1, <2>2 DEF BMarked
<1> QED
  BY <1>1, <1>2 DEF BMarked

LEMMA MarkedCalls ==
  ASSUME BBase, NEW p \in Call,
         Begins(p) \/ Choose(p) \/
         Fail(p) \/ LookupNone(p) \/ Lookup(p) \/ CreateInHcp(p) \/ HcpFails(p) \/
         CreateCrmEstimate(p) \/ Finish(p) \/ MarkFire(p) \/ MarkFails(p) \/ CancelRow(p) \/
         CancelTold(p) \/ ClearRead(p) \/ ClearGivesUp(p) \/ ClearFails(p)
  PROVE  MarkedQuiet
<1>1. ASSUME Begins(p) PROVE MarkedQuiet
  <2>1. /\ pc[p] = "idle" /\ booking[p] = None
        /\ \A q \in Call : q # p => pc'[q] = pc[q] /\ job'[q] = job[q] /\ todo'[q] = todo[q]
        /\ pc'[p] \in {"choose", "markRead", "clearRead", "cancelRow"}
        /\ pc'[p] = "markRead" => job'[p].kind = "mark"
        /\ met \subseteq met' /\ faulty' = faulty
    BY <1>1, BBegun
  <2>2. UNCHANGED <<person, est, saw, rowVars, contactVars, debts, cacheVars>>
    BY <1>1, BBegun
  <2> QED
    BY <2>1, <2>2, NoneAssumption DEF MarkedQuiet, Grows, HasMarked, rowVars, contactVars
<1>2. ASSUME Choose(p) PROVE MarkedQuiet
  BY <1>2 DEF BBase, BTypes, BPlace, MarkedQuiet, Grows, HasMarked, Choose, Goto, rowVars,
         contactVars, histVars
<1>3. ASSUME Fail(p) PROVE MarkedQuiet
  BY <1>3 DEF BBase, BTypes, BPlace, MarkedQuiet, Grows, HasMarked, Fail, Goto, rowVars,
         contactVars, histVars
<1>4. ASSUME LookupNone(p) PROVE MarkedQuiet
  BY <1>4 DEF BBase, BTypes, BPlace, MarkedQuiet, Grows, HasMarked, LookupNone, Goto, rowVars,
         contactVars, histVars
<1>5. ASSUME Lookup(p) PROVE MarkedQuiet
  BY <1>5 DEF BBase, BTypes, BPlace, MarkedQuiet, Grows, HasMarked, Lookup, Goto, rowVars,
         contactVars, histVars
<1>6. ASSUME CreateInHcp(p) PROVE MarkedQuiet
  BY <1>6 DEF BBase, BTypes, BPlace, MarkedQuiet, Grows, HasMarked, CreateInHcp, Goto, rowVars,
         contactVars, histVars
<1>7. ASSUME HcpFails(p) PROVE MarkedQuiet
  BY <1>7 DEF BBase, BTypes, BPlace, MarkedQuiet, Grows, HasMarked, HcpFails, Goto, rowVars,
         contactVars, histVars
<1>8. ASSUME CreateCrmEstimate(p) PROVE MarkedQuiet
  BY <1>8 DEF BBase, BTypes, BPlace, MarkedQuiet, Grows, HasMarked, CreateCrmEstimate, Goto,
         rowVars, contactVars, histVars
<1>9. ASSUME Finish(p) PROVE MarkedQuiet
  BY <1>9 DEF BBase, BTypes, BPlace, MarkedQuiet, Grows, HasMarked, Finish, Goto, rowVars,
         contactVars, histVars
<1>10. ASSUME MarkFire(p) PROVE MarkedQuiet
  BY <1>10 DEF BBase, BTypes, BPlace, MarkedQuiet, Grows, HasMarked, MarkFire, Goto, rowVars,
         contactVars, histVars, AfterMark
<1>11. ASSUME MarkFails(p) PROVE MarkedQuiet
  BY <1>11 DEF BBase, BTypes, BPlace, MarkedQuiet, Grows, HasMarked, MarkFails, Goto, rowVars,
         contactVars, histVars, AfterMark
<1>12. ASSUME CancelRow(p) PROVE MarkedQuiet
  BY <1>12 DEF BBase, BTypes, BPlace, MarkedQuiet, Grows, HasMarked, CancelRow, Goto, rowVars,
         contactVars, histVars, CancelIn
<1>13. ASSUME CancelTold(p) PROVE MarkedQuiet
  BY <1>13 DEF BBase, BTypes, BPlace, MarkedQuiet, Grows, HasMarked, CancelTold, Goto, rowVars,
         contactVars, histVars
<1>14. ASSUME ClearRead(p) PROVE MarkedQuiet
  BY <1>14 DEF BBase, BTypes, BPlace, MarkedQuiet, Grows, HasMarked, ClearRead, Goto, rowVars,
         contactVars, histVars
<1>15. ASSUME ClearGivesUp(p) PROVE MarkedQuiet
  BY <1>15 DEF BBase, BTypes, BPlace, MarkedQuiet, Grows, HasMarked, ClearGivesUp, Goto, rowVars,
         contactVars, histVars
<1>16. ASSUME ClearFails(p) PROVE MarkedQuiet
  BY <1>16 DEF BBase, BTypes, BPlace, MarkedQuiet, Grows, HasMarked, ClearFails, Goto, rowVars,
         contactVars, histVars
<1> QED
  BY <1>1, <1>2, <1>3, <1>4, <1>5, <1>6, <1>7, <1>8, <1>9, <1>10, <1>11, <1>12, <1>13, <1>14,
     <1>15, <1>16

(* The pieces of BMarked. *)
KeepsStatus ==
  \A b \in Call : HasMarked(b) /\ b \notin faulty
      /\ ~MayBeCleared(b) => status[job[b].contact] = "scheduled"
ClearsAll ==
  \A p \in Call : pc[p] = "clearEach" /\ p \notin faulty =>
    \A b \in Call : booking[b] = "confirmed" /\ job[b].contact = job[p].contact /\ ~Met(p, b)
                    => b \in todo[p]

LEMMA MarkedReads ==
  ASSUME BBase, BMarked, NEW p \in Call, MarkRead(p)
  PROVE  BMarked'
<1>1. /\ pc[p] = "markRead" /\ job' = job /\ status' = status /\ met' = met /\ faulty' = faulty
      /\ booking' = booking /\ todo' = todo
      /\ \A q \in Call : pc'[q] = (IF q = p THEN "markWrite" ELSE pc[q])
                         /\ saw'[q] = IF q = p THEN status[job[p].contact] = "scheduled" ELSE saw[q]
  BY DEF MarkRead, Goto, BBase, BTypes, rowVars, contactVars, histVars
<1>2. \A b \in Call : MayBeCleared(b)' <=> MayBeCleared(b)
  BY <1>1 DEF MayBeCleared, Met
<1>3. \A b \in Call : b # p => (HasMarked(b)' <=> HasMarked(b))
  BY <1>1 DEF HasMarked
<1>4. HasMarked(p)' => booking[p] = "confirmed" \/ status[job[p].contact] = "scheduled"
  BY <1>1 DEF HasMarked
<1>5. booking[p] # "confirmed"
  BY <1>1, NoneAssumption DEF BBase, BPlace
<1>6. KeepsStatus'
  BY <1>1, <1>2, <1>3, <1>4, <1>5 DEF KeepsStatus, BMarked
<1>7. ClearsAll'
  BY <1>1 DEF ClearsAll, BMarked, Met
<1> QED
  BY <1>6, <1>7 DEF BMarked, KeepsStatus, ClearsAll

LEMMA MarkedWrites ==
  ASSUME BBase, BMarked, NEW p \in Call, MarkWrite(p)
  PROVE  BMarked'
<1>1. /\ pc[p] = "markWrite" /\ job' = job /\ met' = met /\ faulty' = faulty
      /\ booking' = booking /\ todo' = todo /\ saw' = saw
      /\ \A q \in Call : q # p => pc'[q] = pc[q]
      /\ pc'[p] \in {"insert", "done", "markFire"}
  BY DEF MarkWrite, AfterMark, Goto, BBase, BTypes, rowVars, contactVars, histVars
<1>2. /\ saw[p] => pc'[p] # "markFire" /\ status' = status
      /\ ~saw[p] => status' = [status EXCEPT ![job[p].contact] = "scheduled"]
  BY DEF MarkWrite, AfterMark, Goto, BBase, BTypes
<1>3. status \in [Customer -> {"new", "scheduled"}] /\ job[p].contact \in Customer
  BY <1>1 DEF BBase, BTypes, BPlace, BJob
<1>4. \A b \in Call : MayBeCleared(b)' <=> MayBeCleared(b)
  BY <1>1 DEF MayBeCleared, Met
<1>5. \A b \in Call : b # p => (HasMarked(b)' <=> HasMarked(b))
  BY <1>1 DEF HasMarked
<1>6. \A k \in Customer : status[k] = "scheduled" => status'[k] = "scheduled"
  BY <1>2, <1>3
<1>7. HasMarked(p)' /\ ~saw[p] => status'[job[p].contact] = "scheduled"
  BY <1>2, <1>3
<1>8. saw[p] => HasMarked(p)
  BY <1>1 DEF HasMarked
<1>9. \A b \in Call : HasMarked(b) => job[b].contact \in Customer
  BY HasMarkedBegun DEF BBase, BTypes, BPlace, BJob
<1>10. KeepsStatus'
  BY <1>1, <1>4, <1>5, <1>6, <1>7, <1>8, <1>9 DEF KeepsStatus, BMarked
<1>11. ClearsAll'
  BY <1>1 DEF ClearsAll, BMarked, Met
<1> QED
  BY <1>10, <1>11 DEF BMarked, KeepsStatus, ClearsAll

(* The booking is written while the clear runs: the two have met.           *)
LEMMA MarkedInserts ==
  ASSUME BBase, BMarked, NEW p \in Call, Insert(p)
  PROVE  BMarked'
<1>1. /\ pc[p] = "insert" /\ job' = job /\ met' = met /\ faulty' = faulty /\ todo' = todo /\ saw' = saw
      /\ status' = status
      /\ \A q \in Call : pc'[q] = IF q = p THEN "finish" ELSE pc[q]
      /\ \A q \in Call : booking'[q] = IF q = p THEN "confirmed" ELSE booking[q]
  BY DEF Insert, Goto, BBase, BTypes, contactVars, histVars
<1>2. \A b \in Call : MayBeCleared(b)' <=> MayBeCleared(b)
  BY <1>1 DEF MayBeCleared, Met
<1>3. \A b \in Call : HasMarked(b)' => HasMarked(b)
  BY <1>1 DEF HasMarked
<1>4. KeepsStatus'
  BY <1>1, <1>2, <1>3 DEF KeepsStatus, BMarked
<1>5. ClearsAll'
  <2>1. \A q \in Call : pc[q] = "clearEach" => Met(q, p)
    BY <1>1 DEF BBase, BHistory, Active
  <2> QED
    BY <1>1, <2>1 DEF ClearsAll, BMarked, Met
<1> QED
  BY <1>4, <1>5 DEF BMarked, KeepsStatus, ClearsAll

LEMMA MarkedSelects ==
  ASSUME BBase, BMarked, NEW p \in Call, ClearSelect(p)
  PROVE  BMarked'
<1>1. /\ pc[p] = "clearSelect" /\ job' = job /\ met' = met /\ faulty' = faulty /\ saw' = saw
      /\ status' = status /\ booking' = booking
      /\ \A q \in Call : pc'[q] = IF q = p THEN "clearEach" ELSE pc[q]
      /\ \A q \in Call : q # p => todo'[q] = todo[q]
      /\ todo'[p] = {b \in Call : booking[b] = "confirmed" /\ job[b].contact = job[p].contact}
  BY DEF ClearSelect, Goto, BBase, BTypes, rowVars, contactVars, histVars
<1>2. \A b \in Call : MayBeCleared(b)' <=> MayBeCleared(b)
  BY <1>1 DEF MayBeCleared, Met
<1>3. \A b \in Call : HasMarked(b)' => HasMarked(b)
  BY <1>1 DEF HasMarked
<1>4. KeepsStatus'
  BY <1>1, <1>2, <1>3 DEF KeepsStatus, BMarked
<1>5. ClearsAll'
  BY <1>1 DEF ClearsAll, BMarked, Met
<1> QED
  BY <1>4, <1>5 DEF BMarked, KeepsStatus, ClearsAll

LEMMA MarkedCancels ==
  ASSUME BBase, BMarked, NEW p \in Call, ClearEach(p)
  PROVE  BMarked'
<1>1. PICK c \in todo[p] : CancelIn({c}) /\ todo' = [todo EXCEPT ![p] = @ \ {c}]
  BY DEF ClearEach
<1>2. /\ pc' = pc /\ job' = job /\ met' = met /\ faulty' = faulty /\ saw' = saw /\ status' = status
      /\ \A q \in Call : booking'[q] = IF q = c THEN "cancelled" ELSE booking[q]
      /\ \A q \in Call : todo'[q] = IF q = p THEN todo[p] \ {c} ELSE todo[q]
  BY <1>1 DEF ClearEach, CancelIn, BBase, BTypes, contactVars, histVars
<1>3. \A b \in Call : MayBeCleared(b)' <=> MayBeCleared(b)
  BY <1>2 DEF MayBeCleared, Met
<1>4. \A b \in Call : HasMarked(b)' => HasMarked(b)
  BY <1>2 DEF HasMarked
<1>5. KeepsStatus'
  BY <1>2, <1>3, <1>4 DEF KeepsStatus, BMarked
<1>6. ClearsAll'
  BY <1>2 DEF ClearsAll, BMarked, Met
<1> QED
  BY <1>5, <1>6 DEF BMarked, KeepsStatus, ClearsAll

(* The status goes only when every booking of the contact is cancelled that *)
(* the clear did not meet.                                                  *)
LEMMA MarkedClears ==
  ASSUME BBase, BMarked, NEW p \in Call, ClearWrite(p)
  PROVE  BMarked'
<1>1. /\ pc[p] = "clearEach" /\ todo[p] = {} /\ job' = job /\ met' = met /\ faulty' = faulty /\ saw' = saw
      /\ booking' = booking /\ todo' = todo
      /\ \A q \in Call : pc'[q] = IF q = p THEN "done" ELSE pc[q]
      /\ \A k \in Customer : k # job[p].contact => status'[k] = status[k]
  BY DEF ClearWrite, Goto, BBase, BTypes, rowVars, contactVars, histVars
<1>2. \A b \in Call : MayBeCleared(b)' <=> MayBeCleared(b)
  BY <1>1 DEF MayBeCleared, Met
<1>3. \A b \in Call : HasMarked(b)' => HasMarked(b) /\ job[b].contact \in Customer
  <2>1. \A b \in Call : HasMarked(b)' => HasMarked(b)
    BY <1>1 DEF HasMarked
  <2> QED
    BY <2>1, HasMarkedBegun DEF BBase, BTypes, BPlace, BJob
<1>4. ASSUME NEW b \in Call, HasMarked(b), job[b].contact = job[p].contact, b \notin faulty
      PROVE  MayBeCleared(b)
  <2>1. job[p].kind = "clear"
    BY <1>1 DEF BBase, BPlace
  <2>2. CASE p \in faulty
    BY <1>4, <2>1, <2>2 DEF MayBeCleared
  <2>3. CASE p \notin faulty /\ booking[b] = "confirmed"
    BY <1>1, <1>4, <2>1, <2>3 DEF BMarked, MayBeCleared
  <2>4. CASE booking[b] # "confirmed"
    <3>1. b # p /\ Active(b) /\ Active(p)
      BY <1>1, <1>4, <2>4 DEF HasMarked, Active
    <3> QED
      BY <1>4, <2>1, <3>1 DEF BBase, BHistory, MayBeCleared
  <2> QED
    BY <2>2, <2>3, <2>4
<1>5. KeepsStatus'
  BY <1>1, <1>2, <1>3, <1>4 DEF KeepsStatus, BMarked
<1>6. ClearsAll'
  BY <1>1 DEF ClearsAll, BMarked, Met
<1> QED
  BY <1>5, <1>6 DEF BMarked, KeepsStatus, ClearsAll

LEMMA MarkedElsewhere ==
  ASSUME BBase,
         \/ \E b \in Call, here \in BOOLEAN : Reconcile(b, here)
         \/ Webhook \/ Exit \/ CacheStep \/ UNCHANGED vars
  PROVE  MarkedQuiet
<1>1. ASSUME NEW b \in Call, NEW here \in BOOLEAN, Reconcile(b, here) PROVE MarkedQuiet
  BY <1>1 DEF MarkedQuiet, Grows, HasMarked, Reconcile, CancelIn, callVars, contactVars, histVars
<1>2. ASSUME Webhook \/ CacheStep \/ UNCHANGED vars PROVE MarkedQuiet
  BY <1>2 DEF MarkedQuiet, Grows, HasMarked, Webhook, CacheStep, vars, callVars, rowVars,
       contactVars, histVars
<1>3. ASSUME Exit PROVE MarkedQuiet
  BY <1>3 DEF MarkedQuiet, Grows, HasMarked, Exit, rowVars, contactVars, Active
<1> QED
  BY <1>1, <1>2, <1>3

LEMMA MarkedStep ==
  ASSUME BBase, BMarked, [Next]_vars
  PROVE  BMarked'
<1>1. ASSUME NEW p \in Call,
             MarkRead(p) \/ MarkWrite(p) \/ Insert(p) \/ ClearSelect(p) \/ ClearEach(p) \/ ClearWrite(p)
      PROVE  BMarked'
  BY <1>1, MarkedReads, MarkedWrites, MarkedInserts, MarkedSelects, MarkedCancels, MarkedClears
<1>2. CASE MarkedQuiet
  BY <1>2, MarkedKept
<1> QED
  BY <1>1, <1>2, MarkedCalls, MarkedElsewhere DEF Next, Begins

-----------------------------------------------------------------------------
(* One estimate in Housecall Pro for a booking and its retry. *)

EstimatesQuiet ==
  /\ Grows /\ aged \subseteq aged' /\ inHcp' = inHcp /\ rows' = rows /\ estimate' = estimate /\ est' = est
  /\ \A e \in Call : pc[e] # "idle" => pc'[e] # "idle"
  /\ \A e \in Call : pc'[e] = "hcp" => pc[e] = "hcp"
  /\ \A e \in Call : pc[e] = "crm" => pc'[e] = "crm" \/ e \in faulty'

LEMMA EstimatesKept ==
  ASSUME BBase, BEstimates, EstimatesQuiet
  PROVE  BEstimates'
<1>1. inHcp \subseteq Call
  BY DEF BBase, BTypes
<1>2. \A e \in Call : Making(e)' => Making(e) /\ pc[e] # "idle" /\ job'[e] = job[e]
  BY DEF EstimatesQuiet, Grows, Making, BEstimates
<1>3. \A e \in Call : InRows(e)' <=> InRows(e)
  BY DEF EstimatesQuiet, InRows
<1>4. \A e \in inHcp : e \in faulty' \/ InRows(e)' \/ (pc'[e] = "crm" /\ est'[e] = e)
  BY <1>1, <1>3 DEF EstimatesQuiet, Grows, BEstimates
<1>5. ASSUME NEW e \in Call, NEW f \in Call, e # f, Making(e)', Making(f)',
             job'[e].contact = job'[f].contact, e \notin aged', f \notin aged'
      PROVE  {e, f} \in met' \/ {e, f} \cap faulty' # {}
  <2>1. Met(e, f) \/ {e, f} \cap faulty # {}
    BY <1>2, <1>5 DEF BEstimates, EstimatesQuiet
  <2> QED
    BY <2>1 DEF Met, EstimatesQuiet, Grows
<1> QED
  BY <1>1, <1>3, <1>4, <1>5 DEF BEstimates, Met, EstimatesQuiet

LEMMA EstimatesCalls ==
  ASSUME BBase, NEW p \in Call,
         Begins(p) \/ Choose(p) \/
         Fail(p) \/ Insert(p) \/ Finish(p) \/ MarkRead(p) \/ MarkWrite(p) \/ MarkFire(p) \/
         MarkFails(p) \/ CancelRow(p) \/ CancelTold(p) \/ ClearRead(p) \/ ClearSelect(p) \/
         ClearEach(p) \/ ClearWrite(p) \/ ClearGivesUp(p) \/ ClearFails(p)
  PROVE  EstimatesQuiet
<1>1. ASSUME Begins(p) PROVE EstimatesQuiet
  <2>1. /\ pc[p] = "idle" /\ booking[p] = None
        /\ \A q \in Call : q # p => pc'[q] = pc[q] /\ job'[q] = job[q] /\ todo'[q] = todo[q]
        /\ pc'[p] \in {"choose", "markRead", "clearRead", "cancelRow"}
        /\ pc'[p] = "markRead" => job'[p].kind = "mark"
        /\ met \subseteq met' /\ faulty' = faulty
    BY <1>1, BBegun
  <2>2. UNCHANGED <<person, est, saw, rowVars, contactVars, debts, cacheVars>>
    BY <1>1, BBegun
  <2> QED
    BY <2>1, <2>2, NoneAssumption DEF EstimatesQuiet, Grows, rowVars, contactVars
<1>2. ASSUME Choose(p) PROVE EstimatesQuiet
  BY <1>2 DEF BBase, BTypes, BPlace, EstimatesQuiet, Grows, Choose, Goto, rowVars, contactVars,
         histVars
<1>3. ASSUME Fail(p) PROVE EstimatesQuiet
  BY <1>3 DEF BBase, BTypes, BPlace, EstimatesQuiet, Grows, Fail, Goto, rowVars, contactVars,
         histVars
<1>4. ASSUME Insert(p) PROVE EstimatesQuiet
  BY <1>4 DEF BBase, BTypes, BPlace, EstimatesQuiet, Grows, Insert, Goto, rowVars, contactVars,
         histVars
<1>5. ASSUME Finish(p) PROVE EstimatesQuiet
  BY <1>5 DEF BBase, BTypes, BPlace, EstimatesQuiet, Grows, Finish, Goto, rowVars, contactVars,
         histVars
<1>6. ASSUME MarkRead(p) PROVE EstimatesQuiet
  BY <1>6 DEF BBase, BTypes, BPlace, EstimatesQuiet, Grows, MarkRead, Goto, rowVars, contactVars,
         histVars
<1>7. ASSUME MarkWrite(p) PROVE EstimatesQuiet
  BY <1>7 DEF BBase, BTypes, BPlace, EstimatesQuiet, Grows, MarkWrite, Goto, rowVars,
         contactVars, histVars, AfterMark
<1>8. ASSUME MarkFire(p) PROVE EstimatesQuiet
  BY <1>8 DEF BBase, BTypes, BPlace, EstimatesQuiet, Grows, MarkFire, Goto, rowVars, contactVars,
         histVars, AfterMark
<1>9. ASSUME MarkFails(p) PROVE EstimatesQuiet
  BY <1>9 DEF BBase, BTypes, BPlace, EstimatesQuiet, Grows, MarkFails, Goto, rowVars,
         contactVars, histVars, AfterMark
<1>10. ASSUME CancelRow(p) PROVE EstimatesQuiet
  BY <1>10 DEF BBase, BTypes, BPlace, EstimatesQuiet, Grows, CancelRow, Goto, rowVars,
         contactVars, histVars, CancelIn
<1>11. ASSUME CancelTold(p) PROVE EstimatesQuiet
  BY <1>11 DEF BBase, BTypes, BPlace, EstimatesQuiet, Grows, CancelTold, Goto, rowVars,
         contactVars, histVars
<1>12. ASSUME ClearRead(p) PROVE EstimatesQuiet
  BY <1>12 DEF BBase, BTypes, BPlace, EstimatesQuiet, Grows, ClearRead, Goto, rowVars,
         contactVars, histVars
<1>13. ASSUME ClearSelect(p) PROVE EstimatesQuiet
  BY <1>13 DEF BBase, BTypes, BPlace, EstimatesQuiet, Grows, ClearSelect, Goto, rowVars,
         contactVars, histVars
<1>14. ASSUME ClearEach(p) PROVE EstimatesQuiet
  BY <1>14 DEF BBase, BTypes, BPlace, EstimatesQuiet, Grows, ClearEach, Goto, rowVars,
         contactVars, histVars, CancelIn
<1>15. ASSUME ClearWrite(p) PROVE EstimatesQuiet
  BY <1>15 DEF BBase, BTypes, BPlace, EstimatesQuiet, Grows, ClearWrite, Goto, rowVars,
         contactVars, histVars
<1>16. ASSUME ClearGivesUp(p) PROVE EstimatesQuiet
  BY <1>16 DEF BBase, BTypes, BPlace, EstimatesQuiet, Grows, ClearGivesUp, Goto, rowVars,
         contactVars, histVars
<1>17. ASSUME ClearFails(p) PROVE EstimatesQuiet
  BY <1>17 DEF BBase, BTypes, BPlace, EstimatesQuiet, Grows, ClearFails, Goto, rowVars,
         contactVars, histVars
<1> QED
  BY <1>1, <1>2, <1>3, <1>4, <1>5, <1>6, <1>7, <1>8, <1>9, <1>10, <1>11, <1>12, <1>13, <1>14,
     <1>15, <1>16, <1>17

LEMMA EstimatesElsewhere ==
  ASSUME BBase,
         \/ \E b \in Call, here \in BOOLEAN : Reconcile(b, here)
         \/ Webhook \/ Exit \/ CacheStep \/ UNCHANGED vars
  PROVE  EstimatesQuiet
<1>1. ASSUME NEW b \in Call, NEW here \in BOOLEAN, Reconcile(b, here) PROVE EstimatesQuiet
  BY <1>1 DEF EstimatesQuiet, Grows, Reconcile, callVars, histVars
<1>2. ASSUME Webhook \/ CacheStep \/ UNCHANGED vars PROVE EstimatesQuiet
  BY <1>2 DEF EstimatesQuiet, Grows, Webhook, CacheStep, vars, callVars, rowVars, histVars
<1>3. ASSUME Exit PROVE EstimatesQuiet
  BY <1>3 DEF EstimatesQuiet, Grows, Exit, rowVars, Active
<1> QED
  BY <1>1, <1>2, <1>3

(* A call that finds no estimate to use again: those of its contact are old *)
(* or of a call that failed or still runs.                                  *)
LEMMA EstimatesFresh ==
  ASSUME BBase, BEstimates, NEW p \in Call, pc[p] = "lookup", pc' = [pc EXCEPT ![p] = "hcp"],
         job' = job, met' = met, est' = est, inHcp' = inHcp, rows' = rows, estimate' = estimate,
         faulty \subseteq faulty', aged \subseteq aged',
         p \in faulty' \/ (\A e \in Call : InRows(e) /\ job[e].contact = job[p].contact => e \in aged')
  PROVE  BEstimates'
<1>1. \A e \in Call : pc'[e] = IF e = p THEN "hcp" ELSE pc[e]
  BY DEF BBase, BTypes
<1>2. inHcp \subseteq Call
  BY DEF BBase, BTypes
<1>3. \A e \in Call : InRows(e)' <=> InRows(e)
  BY DEF InRows
<1>4. \A e \in Call : e # p => (Making(e)' <=> Making(e))
  BY <1>1 DEF Making
<1>5. ASSUME NEW e \in Call, e # p, Making(e), job[e].contact = job[p].contact, e \notin aged'
      PROVE  Met(p, e) \/ {p, e} \cap faulty' # {}
  <2>1. CASE p \in faulty' \/ e \in faulty
    BY <2>1
  <2>2. CASE p \notin faulty' /\ e \notin faulty
    <3>1. ~InRows(e)
      BY <1>5, <2>2
    <3>2. Active(e) /\ Active(p)
      BY <1>5, <2>2, <3>1 DEF Making, BEstimates, Active
    <3> QED
      BY <1>5, <3>2 DEF BBase, BHistory
  <2> QED
    BY <2>1, <2>2
<1>6. ASSUME NEW e \in Call, NEW f \in Call, e # f, Making(e)', Making(f)',
             job[e].contact = job[f].contact, e \notin aged', f \notin aged'
      PROVE  {e, f} \in met \/ {e, f} \cap faulty' # {}
  <2>1. CASE e = p
    BY <1>4, <1>5, <1>6, <2>1 DEF Met
  <2>2. CASE f = p
    <3>1. {e, f} = {p, e}
      BY <2>2
    <3> QED
      BY <1>4, <1>5, <1>6, <2>2, <3>1 DEF Met
  <2>3. CASE e # p /\ f # p
    <3>1. Met(e, f) \/ {e, f} \cap faulty # {}
      BY <1>4, <1>6, <2>3 DEF BEstimates
    <3> QED
      BY <3>1 DEF Met
  <2> QED
    BY <2>1, <2>2, <2>3
<1>7. \A e \in inHcp : pc'[e] # "idle" /\ (e \in faulty' \/ InRows(e)' \/ (pc'[e] = "crm" /\ est'[e] = e))
  BY <1>1, <1>2, <1>3 DEF BEstimates
<1> QED
  BY <1>3, <1>6, <1>7 DEF BEstimates, Met

LEMMA EstimatesLookup ==
  ASSUME BBase, BEstimates, NEW p \in Call, LookupNone(p) \/ Lookup(p)
  PROVE  BEstimates'
<1> DEFINE mine == Mine(job[p].contact)
<1>1. \A e \in Call : InRows(e) /\ job[e].contact = job[p].contact => \E i \in mine : rows[i] = e
  BY DEF InRows, Mine
<1>2. CASE LookupNone(p)
  BY <1>1, <1>2, EstimatesFresh DEF LookupNone, Goto, rowVars, histVars
<1>3. CASE Lookup(p)
  <2>1. /\ pc[p] = "lookup"
        /\ job' = job /\ met' = met /\ inHcp' = inHcp /\ rows' = rows /\ estimate' = estimate
    BY <1>3 DEF Lookup
  <2>2. PICK i \in mine :
          \/ /\ rows[i] \notin aged /\ est' = [est EXCEPT ![p] = rows[i]]
             /\ pc' = [pc EXCEPT ![p] = "crm"] /\ aged' = aged /\ faulty' = faulty
          \/ /\ faulty' = faulty \cup {p} /\ pc' = [pc EXCEPT ![p] = "hcp"] /\ aged' = aged /\ est' = est
          \/ /\ aged' = aged \cup {rows[j] : j \in mine} /\ pc' = [pc EXCEPT ![p] = "hcp"]
             /\ est' = est /\ faulty' = faulty
    BY <1>3 DEF Lookup, Goto
  <2>3. CASE pc' = [pc EXCEPT ![p] = "hcp"] /\ est' = est /\ p \in faulty' /\ aged' = aged
       /\ faulty \subseteq faulty'
    BY <2>1, <2>3, EstimatesFresh
  <2>4. CASE /\ aged' = aged \cup {rows[j] : j \in mine} /\ pc' = [pc EXCEPT ![p] = "hcp"]
             /\ est' = est /\ faulty' = faulty
    BY <1>1, <2>1, <2>4, EstimatesFresh
  <2>5. CASE /\ est' = [est EXCEPT ![p] = rows[i]]
             /\ pc' = [pc EXCEPT ![p] = "crm"] /\ aged' = aged /\ faulty' = faulty
    <3>1. \A e \in Call : /\ pc'[e] = (IF e = p THEN "crm" ELSE pc[e])
                          /\ e # p => est'[e] = est[e]
      BY <2>5 DEF BBase, BTypes
    <3>2. \A e \in Call : Making(e)' <=> Making(e)
      BY <2>1, <3>1 DEF Making
    <3>3. \A e \in Call : InRows(e)' <=> InRows(e)
      BY <2>1 DEF InRows
    <3>4. inHcp \subseteq Call
      BY DEF BBase, BTypes
    <3> QED
      BY <2>1, <2>5, <3>1, <3>2, <3>3, <3>4 DEF BEstimates, Met
  <2> QED
    BY <2>2, <2>3, <2>4, <2>5
<1> QED
  BY <1>2, <1>3

LEMMA EstimatesCreate ==
  ASSUME BBase, BEstimates, NEW p \in Call, CreateInHcp(p) \/ HcpFails(p)
  PROVE  BEstimates'
<1>1. /\ pc[p] = "hcp" /\ job' = job /\ met' = met /\ rows' = rows /\ estimate' = estimate /\ aged' = aged
      /\ inHcp' \subseteq inHcp \cup {p} /\ faulty \subseteq faulty' /\ inHcp \subseteq Call
      /\ \A e \in Call : e # p => pc'[e] = pc[e] /\ est'[e] = est[e]
      /\ pc'[p] # "idle" /\ pc'[p] # "hcp"
      /\ p \in faulty' \/ (pc'[p] = "crm" /\ est'[p] = p)
  BY DEF CreateInHcp, HcpFails, Goto, BBase, BTypes, histVars
<1>2. \A e \in Call : Making(e)' => Making(e)
  BY <1>1 DEF Making
<1>3. \A e \in Call : InRows(e)' <=> InRows(e)
  BY <1>1 DEF InRows
<1>4. \A e \in inHcp' : pc'[e] # "idle" /\ (e \in faulty' \/ InRows(e)' \/ (pc'[e] = "crm" /\ est'[e] = e))
  BY <1>1, <1>3 DEF BEstimates
<1>5. ASSUME NEW e \in Call, NEW f \in Call, e # f, Making(e)', Making(f)',
             job[e].contact = job[f].contact, e \notin aged, f \notin aged
      PROVE  {e, f} \in met \/ {e, f} \cap faulty' # {}
  <2>1. Met(e, f) \/ {e, f} \cap faulty # {}
    BY <1>2, <1>5 DEF BEstimates
  <2> QED
    BY <1>1, <2>1 DEF Met
<1> QED
  BY <1>1, <1>3, <1>4, <1>5 DEF BEstimates, Met

LEMMA EstimatesRow ==
  ASSUME BBase, BEstimates, NEW p \in Call, CreateCrmEstimate(p)
  PROVE  BEstimates'
<1>1. /\ pc[p] = "crm" /\ job' = job /\ met' = met /\ aged' = aged /\ inHcp' = inHcp /\ est' = est
      /\ faulty' = faulty /\ \A e \in Call : pc'[e] = IF e = p THEN "markRead" ELSE pc[e]
  BY DEF CreateCrmEstimate, Goto, BBase, BTypes, histVars
<1>2. rows \in Seq(Call) /\ inHcp \subseteq Call /\ est[p] \in Call \cup {None}
      /\ estimate \in [Call -> [slot : Slot, person : Person] \cup {None}]
  BY DEF BBase, BTypes
<1>3. \A e \in Call : InRows(e) => InRows(e)'
  <2>1. CASE rows' = rows
    BY <2>1 DEF InRows
  <2>2. CASE rows' # rows
    <3>1. est[p] \in Call /\ rows' = Append(rows, est[p])
      BY <1>2, <2>2 DEF CreateCrmEstimate
    <3> QED
      BY <1>2, <3>1 DEF InRows
  <2> QED
    BY <2>1, <2>2
<1>4. est[p] \in Call => InRows(est[p])'
  <2>1. CASE est[p] \in Call /\ estimate[est[p]] = None
    <3>1. rows' = Append(rows, est[p])
      BY <2>1, NoneAssumption DEF CreateCrmEstimate
    <3>2. Len(rows') = Len(rows) + 1 /\ rows'[Len(rows) + 1] = est[p] /\ Len(rows) \in Nat
      BY <1>2, <2>1, <3>1
    <3> QED
      BY <1>1, <3>2 DEF InRows
  <2>2. CASE est[p] \in Call /\ estimate[est[p]] # None
    BY <1>1, <1>3, <2>2 DEF BEstimates
  <2> QED
    BY <2>1, <2>2
<1>5. \A e \in Call : estimate'[e] # None => estimate[e] # None \/ e = est[p]
  BY <1>2 DEF CreateCrmEstimate
<1>6. \A e \in Call : Making(e)' <=> Making(e)
  BY <1>1 DEF Making
<1>7. \A e \in inHcp : pc'[e] # "idle" /\ (e \in faulty' \/ InRows(e)' \/ (pc'[e] = "crm" /\ est'[e] = e))
  BY <1>1, <1>2, <1>3, <1>4 DEF BEstimates
<1>8. \A e \in Call : estimate'[e] # None => InRows(e)'
  BY <1>1, <1>3, <1>4, <1>5 DEF BEstimates
<1> QED
  BY <1>1, <1>6, <1>7, <1>8 DEF BEstimates, Met

LEMMA EstimatesStep ==
  ASSUME BBase, BEstimates, [Next]_vars
  PROVE  BEstimates'
<1>1. ASSUME NEW p \in Call,
             LookupNone(p) \/ Lookup(p) \/ CreateInHcp(p) \/ HcpFails(p) \/ CreateCrmEstimate(p)
      PROVE  BEstimates'
  BY <1>1, EstimatesLookup, EstimatesCreate, EstimatesRow
<1>2. CASE EstimatesQuiet
  BY <1>2, EstimatesKept
<1> QED
  BY <1>1, <1>2, EstimatesCalls, EstimatesElsewhere DEF Next, Begins

-----------------------------------------------------------------------------
(* A contact is announced as often as it became scheduled. *)

AnnouncedQuiet ==
  /\ Grows /\ flips' = flips /\ fires' = fires
  /\ \A p \in Call : (pc'[p] = "markFire" <=> pc[p] = "markFire") \/ p \in faulty'
  /\ \A p \in Call : pc'[p] = "markWrite" => pc[p] = "markWrite" /\ saw'[p] = saw[p]
  /\ \A k \in Customer : status'[k] = "scheduled" => status[k] = "scheduled"
  /\ \A p \in Call : pc'[p] # "idle" \/ pc[p] = "idle"

LEMMA MuddledStays ==
  ASSUME BBase, Grows, NEW k \in Customer, Muddled(k)
  PROVE  Muddled(k)'
<1>1. CASE \E p \in Call : p \in faulty /\ job[p].contact = k
  <2>1. PICK p \in Call : p \in faulty /\ job[p].contact = k
    BY <1>1
  <2>2. p \in faulty' /\ job'[p] = job[p]
    BY <2>1 DEF BBase, BHistory, Grows
  <2> QED
    BY <2>1, <2>2 DEF Muddled
<1>2. CASE \E p, q \in Call : /\ p # q /\ Met(p, q)
                              /\ job[p].contact = k /\ job[q].contact = k
                              /\ job[p].kind # "clear" /\ job[q].kind # "clear"
  <2>1. PICK p \in Call, q \in Call : /\ p # q /\ Met(p, q)
                                    /\ job[p].contact = k /\ job[q].contact = k
                                    /\ job[p].kind # "clear" /\ job[q].kind # "clear"
    BY <1>2
  <2>2. Met(p, q)' /\ job'[p] = job[p] /\ job'[q] = job[q]
    BY <2>1 DEF BBase, BHistory, Grows, Met
  <2> QED
    BY <2>1, <2>2 DEF Muddled
<1> QED
  BY <1>1, <1>2 DEF Muddled

LEMMA AnnouncedKept ==
  ASSUME BBase, BAnnounced, AnnouncedQuiet
  PROVE  BAnnounced'
<1> SUFFICES ASSUME NEW k \in Customer, ~Muddled(k)'
             PROVE  /\ flips'[k] = fires'[k] + IF Firing(k)' THEN 1 ELSE 0
                    /\ \A p \in Call : pc'[p] = "markWrite" /\ job'[p].contact = k /\ ~saw'[p]
                                      => status'[k] # "scheduled"
  BY DEF BAnnounced
<1>1. ~Muddled(k)
  BY MuddledStays DEF AnnouncedQuiet
<1>2. Firing(k)' <=> Firing(k)
  <2>1. ASSUME NEW p \in Call, pc'[p] = "markFire", job'[p].contact = k
        PROVE  pc[p] = "markFire" /\ job[p].contact = k
    <3>1. p \notin faulty'
      BY <2>1 DEF Muddled
    <3> QED
      BY <2>1, <3>1 DEF AnnouncedQuiet, Grows
  <2>2. ASSUME NEW p \in Call, pc[p] = "markFire", job[p].contact = k
        PROVE  pc'[p] = "markFire" /\ job'[p].contact = k
    <3>1. job'[p] = job[p]
      BY <2>2 DEF AnnouncedQuiet, Grows
    <3>2. p \notin faulty'
      BY <2>2, <3>1 DEF Muddled
    <3> QED
      BY <2>2, <3>1, <3>2 DEF AnnouncedQuiet
  <2> QED
    BY <2>1, <2>2 DEF Firing
<1>3. flips'[k] = fires'[k] + IF Firing(k)' THEN 1 ELSE 0
  BY <1>1, <1>2 DEF BAnnounced, AnnouncedQuiet
<1>4. ASSUME NEW p \in Call, pc'[p] = "markWrite", job'[p].contact = k, ~saw'[p]
      PROVE  status'[k] # "scheduled"
  <2>1. pc[p] = "markWrite" /\ job[p].contact = k /\ ~saw[p]
    BY <1>4 DEF AnnouncedQuiet, Grows
  <2> QED
    BY <1>1, <2>1 DEF BAnnounced, AnnouncedQuiet
<1> QED
  BY <1>3, <1>4

LEMMA AnnouncedCalls ==
  ASSUME BBase, NEW p \in Call,
         Begins(p) \/ Choose(p) \/
         Fail(p) \/ LookupNone(p) \/ Lookup(p) \/ CreateInHcp(p) \/ HcpFails(p) \/
         CreateCrmEstimate(p) \/ Insert(p) \/ Finish(p) \/ MarkFails(p) \/ CancelRow(p) \/
         CancelTold(p) \/ ClearRead(p) \/ ClearSelect(p) \/ ClearEach(p) \/ ClearWrite(p) \/
         ClearGivesUp(p) \/ ClearFails(p)
  PROVE  AnnouncedQuiet
<1>1. ASSUME Begins(p) PROVE AnnouncedQuiet
  <2>1. /\ pc[p] = "idle" /\ booking[p] = None
        /\ \A q \in Call : q # p => pc'[q] = pc[q] /\ job'[q] = job[q] /\ todo'[q] = todo[q]
        /\ pc'[p] \in {"choose", "markRead", "clearRead", "cancelRow"}
        /\ pc'[p] = "markRead" => job'[p].kind = "mark"
        /\ met \subseteq met' /\ faulty' = faulty
    BY <1>1, BBegun
  <2>2. UNCHANGED <<person, est, saw, rowVars, contactVars, debts, cacheVars>>
    BY <1>1, BBegun
  <2> QED
    BY <2>1, <2>2, NoneAssumption DEF AnnouncedQuiet, Grows, rowVars, contactVars
<1>2. ASSUME Choose(p) PROVE AnnouncedQuiet
  BY <1>2 DEF BBase, BTypes, BPlace, AnnouncedQuiet, Grows, Choose, Goto, rowVars, contactVars,
         histVars
<1>3. ASSUME Fail(p) PROVE AnnouncedQuiet
  BY <1>3 DEF BBase, BTypes, BPlace, AnnouncedQuiet, Grows, Fail, Goto, rowVars, contactVars,
         histVars
<1>4. ASSUME LookupNone(p) PROVE AnnouncedQuiet
  BY <1>4 DEF BBase, BTypes, BPlace, AnnouncedQuiet, Grows, LookupNone, Goto, rowVars,
         contactVars, histVars
<1>5. ASSUME Lookup(p) PROVE AnnouncedQuiet
  BY <1>5 DEF BBase, BTypes, BPlace, AnnouncedQuiet, Grows, Lookup, Goto, rowVars, contactVars,
         histVars
<1>6. ASSUME CreateInHcp(p) PROVE AnnouncedQuiet
  BY <1>6 DEF BBase, BTypes, BPlace, AnnouncedQuiet, Grows, CreateInHcp, Goto, rowVars,
         contactVars, histVars
<1>7. ASSUME HcpFails(p) PROVE AnnouncedQuiet
  BY <1>7 DEF BBase, BTypes, BPlace, AnnouncedQuiet, Grows, HcpFails, Goto, rowVars, contactVars,
         histVars
<1>8. ASSUME CreateCrmEstimate(p) PROVE AnnouncedQuiet
  BY <1>8 DEF BBase, BTypes, BPlace, AnnouncedQuiet, Grows, CreateCrmEstimate, Goto, rowVars,
         contactVars, histVars
<1>9. ASSUME Insert(p) PROVE AnnouncedQuiet
  BY <1>9 DEF BBase, BTypes, BPlace, AnnouncedQuiet, Grows, Insert, Goto, rowVars, contactVars,
         histVars
<1>10. ASSUME Finish(p) PROVE AnnouncedQuiet
  BY <1>10 DEF BBase, BTypes, BPlace, AnnouncedQuiet, Grows, Finish, Goto, rowVars, contactVars,
         histVars
<1>11. ASSUME MarkFails(p) PROVE AnnouncedQuiet
  BY <1>11 DEF BBase, BTypes, BPlace, AnnouncedQuiet, Grows, MarkFails, Goto, rowVars,
         contactVars, histVars, AfterMark
<1>12. ASSUME CancelRow(p) PROVE AnnouncedQuiet
  BY <1>12 DEF BBase, BTypes, BPlace, AnnouncedQuiet, Grows, CancelRow, Goto, rowVars,
         contactVars, histVars, CancelIn
<1>13. ASSUME CancelTold(p) PROVE AnnouncedQuiet
  BY <1>13 DEF BBase, BTypes, BPlace, AnnouncedQuiet, Grows, CancelTold, Goto, rowVars,
         contactVars, histVars
<1>14. ASSUME ClearRead(p) PROVE AnnouncedQuiet
  BY <1>14 DEF BBase, BTypes, BPlace, AnnouncedQuiet, Grows, ClearRead, Goto, rowVars,
         contactVars, histVars
<1>15. ASSUME ClearSelect(p) PROVE AnnouncedQuiet
  BY <1>15 DEF BBase, BTypes, BPlace, AnnouncedQuiet, Grows, ClearSelect, Goto, rowVars,
         contactVars, histVars
<1>16. ASSUME ClearEach(p) PROVE AnnouncedQuiet
  BY <1>16 DEF BBase, BTypes, BPlace, AnnouncedQuiet, Grows, ClearEach, Goto, rowVars,
         contactVars, histVars, CancelIn
<1>17. ASSUME ClearWrite(p) PROVE AnnouncedQuiet
  BY <1>17 DEF BBase, BTypes, BPlace, AnnouncedQuiet, Grows, ClearWrite, Goto, rowVars,
         contactVars, histVars
<1>18. ASSUME ClearGivesUp(p) PROVE AnnouncedQuiet
  BY <1>18 DEF BBase, BTypes, BPlace, AnnouncedQuiet, Grows, ClearGivesUp, Goto, rowVars,
         contactVars, histVars
<1>19. ASSUME ClearFails(p) PROVE AnnouncedQuiet
  BY <1>19 DEF BBase, BTypes, BPlace, AnnouncedQuiet, Grows, ClearFails, Goto, rowVars,
         contactVars, histVars
<1> QED
  BY <1>1, <1>2, <1>3, <1>4, <1>5, <1>6, <1>7, <1>8, <1>9, <1>10, <1>11, <1>12, <1>13, <1>14,
     <1>15, <1>16, <1>17, <1>18, <1>19

LEMMA AnnouncedElsewhere ==
  ASSUME BBase,
         \/ \E b \in Call, here \in BOOLEAN : Reconcile(b, here)
         \/ Webhook \/ Exit \/ CacheStep \/ UNCHANGED vars
  PROVE  AnnouncedQuiet
<1>1. ASSUME NEW b \in Call, NEW here \in BOOLEAN, Reconcile(b, here) PROVE AnnouncedQuiet
  BY <1>1 DEF AnnouncedQuiet, Grows, Reconcile, callVars, contactVars, histVars
<1>2. ASSUME Webhook \/ CacheStep \/ UNCHANGED vars PROVE AnnouncedQuiet
  BY <1>2 DEF AnnouncedQuiet, Grows, Webhook, CacheStep, vars, callVars, rowVars, contactVars, histVars
<1>3. ASSUME Exit PROVE AnnouncedQuiet
  BY <1>3 DEF AnnouncedQuiet, Grows, Exit, rowVars, contactVars, Active
<1> QED
  BY <1>1, <1>2, <1>3

(* A contact of which nothing muddled the marks has one mark at a time.     *)
LEMMA AloneMarking ==
  ASSUME BBase, NEW k \in Customer, ~Muddled(k), NEW p \in Call, NEW q \in Call,
         job[p].contact = k, job[q].contact = k, p # q,
         pc[p] \in {"markRead", "markWrite", "markFire"}
  PROVE  pc[q] \notin {"markRead", "markWrite", "markFire"}
<1> SUFFICES ASSUME pc[q] \in {"markRead", "markWrite", "markFire"} PROVE FALSE
  OBVIOUS
<1>1. Met(p, q)
  BY DEF BBase, BHistory, Active
<1>2. job[p].kind # "clear" /\ job[q].kind # "clear"
  BY DEF BBase, BPlace
<1> QED
  BY <1>1, <1>2 DEF Muddled

LEMMA AnnouncedReads ==
  ASSUME BBase, BAnnounced, NEW p \in Call, MarkRead(p)
  PROVE  BAnnounced'
<1>1. /\ pc[p] = "markRead" /\ job' = job /\ status' = status /\ met' = met /\ faulty' = faulty
      /\ flips' = flips /\ fires' = fires
      /\ \A q \in Call : pc'[q] = (IF q = p THEN "markWrite" ELSE pc[q])
                         /\ saw'[q] = IF q = p THEN status[job[p].contact] = "scheduled" ELSE saw[q]
  BY DEF MarkRead, Goto, BBase, BTypes, contactVars, histVars
<1>2. \A k \in Customer : (Muddled(k)' <=> Muddled(k)) /\ (Firing(k)' <=> Firing(k))
  BY <1>1 DEF Muddled, Met, Firing
<1> SUFFICES ASSUME NEW k \in Customer, ~Muddled(k)
             PROVE  /\ flips'[k] = fires'[k] + IF Firing(k)' THEN 1 ELSE 0
                    /\ \A q \in Call : pc'[q] = "markWrite" /\ job'[q].contact = k /\ ~saw'[q]
                                      => status'[k] # "scheduled"
  BY <1>2 DEF BAnnounced
<1>3. flips'[k] = fires'[k] + IF Firing(k)' THEN 1 ELSE 0
  BY <1>1, <1>2 DEF BAnnounced
<1>4. ASSUME NEW q \in Call, pc'[q] = "markWrite", job'[q].contact = k, ~saw'[q]
      PROVE  status'[k] # "scheduled"
  BY <1>1, <1>4 DEF BAnnounced
<1> QED
  BY <1>3, <1>4

LEMMA AnnouncedWrites ==
  ASSUME BBase, BAnnounced, NEW p \in Call, MarkWrite(p)
  PROVE  BAnnounced'
<1> DEFINE c == job[p].contact
<1>1. /\ pc[p] = "markWrite" /\ job' = job /\ met' = met /\ faulty' = faulty
      /\ fires' = fires /\ saw' = saw
      /\ \A q \in Call : q # p => pc'[q] = pc[q]
      /\ pc'[p] \in {"insert", "done", "markFire"}
  BY DEF MarkWrite, AfterMark, Goto, BBase, BTypes, histVars
<1>2. /\ saw[p] => pc'[p] # "markFire" /\ status' = status /\ flips' = flips
      /\ ~saw[p] => /\ status' = [status EXCEPT ![c] = "scheduled"] /\ pc'[p] = "markFire"
                    /\ flips' = [flips EXCEPT ![c] = IF status[c] = "scheduled" THEN @ ELSE @ + 1]
  BY DEF MarkWrite, AfterMark, Goto, BBase, BTypes
<1>3. /\ status \in [Customer -> {"new", "scheduled"}] /\ c \in Customer
      /\ flips \in [Customer -> Nat] /\ fires \in [Customer -> Nat]
  BY <1>1 DEF BBase, BTypes, BPlace, BJob
<1>4. \A k \in Customer : Muddled(k)' <=> Muddled(k)
  BY <1>1 DEF Muddled, Met
<1> SUFFICES ASSUME NEW k \in Customer, ~Muddled(k)
             PROVE  /\ flips'[k] = fires'[k] + IF Firing(k)' THEN 1 ELSE 0
                    /\ \A q \in Call : pc'[q] = "markWrite" /\ job'[q].contact = k /\ ~saw'[q]
                                      => status'[k] # "scheduled"
  BY <1>4 DEF BAnnounced
<1>5. CASE saw[p] \/ k # c
  <2>1. Firing(k)' <=> Firing(k)
    BY <1>1, <1>2, <1>5 DEF Firing
  <2>2. flips'[k] = flips[k] /\ status'[k] = status[k]
    BY <1>2, <1>3, <1>5
  <2> QED
    BY <1>1, <2>1, <2>2 DEF BAnnounced
<1>6. CASE ~saw[p] /\ k = c
  <2>1. \A q \in Call : q # p /\ job[q].contact = k => pc[q] \notin {"markRead", "markWrite", "markFire"}
    BY <1>1, <1>6, AloneMarking
  <2>2. ~Firing(k) /\ Firing(k)'
    BY <1>1, <1>2, <1>6, <2>1 DEF Firing
  <2>3. status[k] # "scheduled"
    BY <1>1, <1>6 DEF BAnnounced
  <2>4. flips'[k] = flips[k] + 1
    BY <1>2, <1>3, <1>6, <2>3
  <2>5. flips[k] = fires[k]
    BY <1>3, <2>2 DEF BAnnounced
  <2>6. flips'[k] = fires'[k] + IF Firing(k)' THEN 1 ELSE 0
    BY <1>1, <2>2, <2>4, <2>5
  <2>7. \A q \in Call : job'[q].contact = k => pc'[q] # "markWrite"
    BY <1>1, <2>1
  <2> QED
    BY <2>6, <2>7
<1> QED
  BY <1>5, <1>6

LEMMA AnnouncedFires ==
  ASSUME BBase, BAnnounced, NEW p \in Call, MarkFire(p)
  PROVE  BAnnounced'
<1> DEFINE c == job[p].contact
<1>1. /\ pc[p] = "markFire" /\ job' = job /\ met' = met /\ faulty' = faulty
      /\ flips' = flips /\ status' = status /\ saw' = saw
      /\ \A q \in Call : q # p => pc'[q] = pc[q]
      /\ pc'[p] \in {"insert", "done"} /\ fires' = [fires EXCEPT ![c] = @ + 1]
  BY DEF MarkFire, AfterMark, Goto, BBase, BTypes, histVars
<1>2. c \in Customer /\ flips \in [Customer -> Nat] /\ fires \in [Customer -> Nat]
  BY <1>1 DEF BBase, BTypes, BPlace, BJob
<1>3. \A k \in Customer : Muddled(k)' <=> Muddled(k)
  BY <1>1 DEF Muddled, Met
<1> SUFFICES ASSUME NEW k \in Customer, ~Muddled(k)
             PROVE  /\ flips'[k] = fires'[k] + IF Firing(k)' THEN 1 ELSE 0
                    /\ \A q \in Call : pc'[q] = "markWrite" /\ job'[q].contact = k /\ ~saw'[q]
                                      => status'[k] # "scheduled"
  BY <1>3 DEF BAnnounced
<1>4. \A q \in Call : pc'[q] = "markWrite" /\ job'[q].contact = k /\ ~saw'[q] => status'[k] # "scheduled"
  BY <1>1 DEF BAnnounced
<1>5. CASE k # c
  <2>1. (Firing(k)' <=> Firing(k)) /\ fires'[k] = fires[k]
    BY <1>1, <1>2, <1>5 DEF Firing
  <2> QED
    BY <1>1, <1>4, <2>1 DEF BAnnounced
<1>6. CASE k = c
  <2>1. \A q \in Call : q # p /\ job[q].contact = k => pc[q] \notin {"markRead", "markWrite", "markFire"}
    BY <1>1, <1>6, AloneMarking
  <2>2. Firing(k) /\ ~Firing(k)'
    BY <1>1, <1>6, <2>1 DEF Firing
  <2>3. flips[k] = fires[k] + 1 /\ fires'[k] = fires[k] + 1
    BY <1>1, <1>2, <1>6, <2>2 DEF BAnnounced
  <2>4. flips'[k] = fires'[k] + IF Firing(k)' THEN 1 ELSE 0
    BY <1>1, <1>2, <2>2, <2>3
  <2> QED
    BY <1>4, <2>4
<1> QED
  BY <1>5, <1>6

LEMMA AnnouncedStep ==
  ASSUME BBase, BAnnounced, [Next]_vars
  PROVE  BAnnounced'
<1>1. ASSUME NEW p \in Call, MarkRead(p) \/ MarkWrite(p) \/ MarkFire(p)
      PROVE  BAnnounced'
  BY <1>1, AnnouncedReads, AnnouncedWrites, AnnouncedFires
<1>2. CASE AnnouncedQuiet
  BY <1>2, AnnouncedKept
<1> QED
  BY <1>1, <1>2, AnnouncedCalls, AnnouncedElsewhere DEF Next, Begins

-----------------------------------------------------------------------------
(* A date is stored wrongly only with a reason. *)

(* What a step does to a date that it does not announce: its free           *)
(* salespeople stay, or it is excused, and an excuse remains.               *)
FreshOn(d) == (Free(d)' = Free(d) \/ Excused(d)') /\ (Excused(d) => Excused(d)')

LEMMA FreshSame ==
  ASSUME BFresh, \A d \in Watched : FreshOn(d), UNCHANGED cacheVars
  PROVE  BFresh'
BY DEF BFresh, FreshOn, cacheVars

LEMMA FreshTold ==
  ASSUME BFresh, NEW dates, \A d \in Watched \ dates : FreshOn(d), Cache!Invalidate(dates)
  PROVE  BFresh'
<1>1. /\ \A d \in Watched : entry'[d] = IF d \in dates THEN None ELSE entry[d]
      /\ late' = late \ dates /\ flight' = flight /\ found' = found
      /\ overtaken' = overtaken \cup {d \in Watched \cap dates : flight[d] = "read"}
  BY DEF Cache!Invalidate
<1> SUFFICES ASSUME NEW d \in Watched
             PROVE  /\ entry'[d] # None /\ entry'[d] # Free(d)' => Excused(d)' \/ d \in late'
                    /\ flight'[d] = "read" /\ found'[d] # Free(d)' => Excused(d)' \/ d \in overtaken'
  BY DEF BFresh
<1>2. CASE d \in dates
  BY <1>1, <1>2
<1>3. CASE d \notin dates
  BY <1>1, <1>3 DEF BFresh, FreshOn
<1> QED
  BY <1>2, <1>3

LEMMA FreeKept ==
  ASSUME NEW d \in Slot, UNCHANGED estimate,
         \A b \in Call : booking'[b] = "confirmed" /\ job'[b].slot = d
                                   <=> booking[b] = "confirmed" /\ job[b].slot = d,
         \A b \in Call : booking[b] = "confirmed" => person'[b] = person[b]
  PROVE  Free(d)' = Free(d)
<1>1. \A s \in Person : Busy(s, d)' <=> Busy(s, d)
  BY DEF Busy
<1> QED
  BY <1>1 DEF Free

Owing(p) == pc[p] \in {"markRead", "markWrite", "markFire", "insert", "finish", "cancelTold"}

LEMMA ExcusedOwing ==
  /\ \A d : Unannounced(d) <=> \E p \in Call : Owing(p) /\ job[p].slot = d
  /\ \A d : Unannounced(d)' <=> \E p \in Call : Owing(p)' /\ job'[p].slot = d
BY DEF Unannounced, Owing

FreshQuiet ==
  /\ estimate' = estimate /\ debts \subseteq debts' /\ UNCHANGED cacheVars
  /\ \A b \in Call : booking'[b] = "confirmed" <=> booking[b] = "confirmed"
  /\ \A b \in Call : booking[b] = "confirmed" => job'[b] = job[b] /\ person'[b] = person[b]
  /\ \A p \in Call : Owing(p) => (Owing(p)' /\ job'[p] = job[p]) \/ job[p].slot \in debts' \cup {None}

LEMMA FreshKept ==
  ASSUME BFresh, FreshQuiet
  PROVE  BFresh'
<1>1. ASSUME NEW d \in Watched PROVE FreshOn(d)
  <2>1. d \in Slot /\ d # None
    BY NoneAssumption, WatchedAssumption
  <2>2. Free(d)' = Free(d)
    BY <2>1, FreeKept DEF FreshQuiet
  <2>3. Excused(d) => Excused(d)'
    BY <2>1, ExcusedOwing DEF FreshQuiet, Excused
  <2> QED
    BY <2>2, <2>3 DEF FreshOn
<1> QED
  BY <1>1, FreshSame DEF FreshQuiet

LEMMA FreshCalls ==
  ASSUME BBase, NEW p \in Call,
         Begins(p) \/ Choose(p) \/ Fail(p) \/
         LookupNone(p) \/ Lookup(p) \/ CreateInHcp(p) \/ HcpFails(p) \/ MarkRead(p) \/
         MarkWrite(p) \/ MarkFire(p) \/ MarkFails(p) \/ ClearRead(p) \/ ClearSelect(p) \/
         ClearWrite(p) \/ ClearGivesUp(p) \/ ClearFails(p)
  PROVE  FreshQuiet
<1>1. ASSUME Begins(p) PROVE FreshQuiet
  <2>1. /\ pc[p] = "idle" /\ booking[p] = None
        /\ \A q \in Call : q # p => pc'[q] = pc[q] /\ job'[q] = job[q] /\ todo'[q] = todo[q]
        /\ pc'[p] \in {"choose", "markRead", "clearRead", "cancelRow"}
        /\ pc'[p] = "markRead" => job'[p].kind = "mark"
        /\ met \subseteq met' /\ faulty' = faulty
    BY <1>1, BBegun
  <2>2. UNCHANGED <<person, est, saw, rowVars, contactVars, debts, cacheVars>>
    BY <1>1, BBegun
  <2> QED
    BY <2>1, <2>2, NoneAssumption DEF FreshQuiet, Owing, rowVars, contactVars
<1>2. ASSUME Choose(p) PROVE FreshQuiet
  BY <1>2, NoneAssumption DEF BBase, BTypes, BPlace, FreshQuiet, Owing, Choose, Goto, rowVars,
       contactVars,
         histVars
<1>3. ASSUME Fail(p) PROVE FreshQuiet
  BY <1>3 DEF BBase, BTypes, BPlace, FreshQuiet, Owing, Fail, Goto, rowVars, contactVars, histVars
<1>4. ASSUME LookupNone(p) PROVE FreshQuiet
  BY <1>4 DEF BBase, BTypes, BPlace, FreshQuiet, Owing, LookupNone, Goto, rowVars, contactVars,
         histVars
<1>5. ASSUME Lookup(p) PROVE FreshQuiet
  BY <1>5 DEF BBase, BTypes, BPlace, FreshQuiet, Owing, Lookup, Goto, rowVars, contactVars,
         histVars
<1>6. ASSUME CreateInHcp(p) PROVE FreshQuiet
  BY <1>6 DEF BBase, BTypes, BPlace, FreshQuiet, Owing, CreateInHcp, Goto, rowVars, contactVars,
         histVars
<1>7. ASSUME HcpFails(p) PROVE FreshQuiet
  BY <1>7 DEF BBase, BTypes, BPlace, FreshQuiet, Owing, HcpFails, Goto, rowVars, contactVars,
         histVars
<1>8. ASSUME MarkRead(p) PROVE FreshQuiet
  BY <1>8 DEF BBase, BTypes, BPlace, FreshQuiet, Owing, MarkRead, Goto, rowVars, contactVars,
         histVars
<1>9. ASSUME MarkWrite(p) PROVE FreshQuiet
  BY <1>9 DEF BBase, BTypes, BPlace, FreshQuiet, Owing, MarkWrite, Goto, rowVars, contactVars,
         histVars, AfterMark
<1>10. ASSUME MarkFire(p) PROVE FreshQuiet
  BY <1>10 DEF BBase, BTypes, BPlace, FreshQuiet, Owing, MarkFire, Goto, rowVars, contactVars,
         histVars, AfterMark
<1>11. ASSUME MarkFails(p) PROVE FreshQuiet
  BY <1>11 DEF BBase, BTypes, BPlace, FreshQuiet, Owing, MarkFails, Goto, rowVars, contactVars,
         histVars, AfterMark
<1>12. ASSUME ClearRead(p) PROVE FreshQuiet
  BY <1>12 DEF BBase, BTypes, BPlace, FreshQuiet, Owing, ClearRead, Goto, rowVars, contactVars,
         histVars
<1>13. ASSUME ClearSelect(p) PROVE FreshQuiet
  BY <1>13 DEF BBase, BTypes, BPlace, FreshQuiet, Owing, ClearSelect, Goto, rowVars, contactVars,
         histVars
<1>14. ASSUME ClearWrite(p) PROVE FreshQuiet
  BY <1>14 DEF BBase, BTypes, BPlace, FreshQuiet, Owing, ClearWrite, Goto, rowVars, contactVars,
         histVars
<1>15. ASSUME ClearGivesUp(p) PROVE FreshQuiet
  BY <1>15 DEF BBase, BTypes, BPlace, FreshQuiet, Owing, ClearGivesUp, Goto, rowVars,
         contactVars, histVars
<1>16. ASSUME ClearFails(p) PROVE FreshQuiet
  BY <1>16 DEF BBase, BTypes, BPlace, FreshQuiet, Owing, ClearFails, Goto, rowVars, contactVars,
         histVars
<1> QED
  BY <1>1, <1>2, <1>3, <1>4, <1>5, <1>6, <1>7, <1>8, <1>9, <1>10, <1>11, <1>12, <1>13, <1>14,
     <1>15, <1>16

(* The estimate appears on its new date, and is gone from its old one.      *)
LEMMA FreshEstimate ==
  ASSUME BBase, BFresh, NEW p \in Call, CreateCrmEstimate(p)
  PROVE  BFresh'
<1> DEFINE e == est[p]
           x == [slot |-> job[p].slot, person |-> person[p]]
<1>1. /\ pc[p] = "crm" /\ job' = job /\ booking' = booking /\ person' = person
      /\ \A q \in Call : pc'[q] = IF q = p THEN "markRead" ELSE pc[q]
  BY DEF CreateCrmEstimate, Goto, BBase, BTypes
<1>2. estimate \in [Call -> [slot : Slot, person : Person] \cup {None}] /\ e \in Call \cup {None}
      /\ job[p].slot \in Slot
  BY <1>1 DEF BBase, BTypes, BPlace
<1>3. ASSUME NEW d \in Watched PROVE FreshOn(d)
  <2>1. d \in Slot
    BY WatchedAssumption
  <2>2. debts \subseteq debts'
    BY DEF CreateCrmEstimate
  <2>3. \A q \in Call : Owing(q) => Owing(q)'
    BY <1>1 DEF Owing
  <2>4. Excused(d) => Excused(d)'
    BY <1>1, <2>2, <2>3, ExcusedOwing DEF Excused
  <2>5. CASE d = job[p].slot
    <3>1. Owing(p)'
      BY <1>1 DEF Owing
    <3>2. Excused(d)'
      BY <1>1, <2>5, <3>1, ExcusedOwing DEF Excused
    <3> QED
      BY <2>4, <3>2 DEF FreshOn
  <2>6. CASE d # job[p].slot
    <3>1. CASE e = None
      <4>1. estimate' = estimate
        BY <3>1 DEF CreateCrmEstimate
      <4> QED
        BY <1>1, <2>1, <2>4, <4>1, FreeKept DEF FreshOn
    <3>2. CASE e \in Call
      <4>1. \A f \in Call : estimate'[f] = IF f = e THEN x ELSE estimate[f]
        BY <1>2, <3>2, NoneAssumption DEF CreateCrmEstimate
      <4>2. CASE estimate[e] # None /\ estimate[e] # x /\ estimate[e].slot = d
        <5>1. debts' = debts \cup {estimate[e].slot}
          BY <3>2, <4>1, <4>2, NoneAssumption DEF CreateCrmEstimate
        <5> QED
          BY <2>4, <4>2, <5>1 DEF FreshOn, Excused
      <4>3. CASE estimate[e] = None \/ estimate[e] = x \/ estimate[e].slot # d
        <5>1. \A s \in Person : x # [slot |-> d, person |-> s]
          BY <2>6
        <5>2. \A s \in Person : estimate[e] # [slot |-> d, person |-> s]
          <6>1. \A s \in Person : [slot |-> d, person |-> s] \in [slot : Slot, person : Person]
                                  /\ [slot |-> d, person |-> s].slot = d
            BY <2>1
          <6>2. \A s \in Person : [slot |-> d, person |-> s] # None
            BY <6>1, NoneAssumption
          <6> QED
            BY <4>3, <5>1, <6>1, <6>2
        <5>3. \A s \in Person : (\E f \in Call : estimate'[f] = [slot |-> d, person |-> s])
                                <=> (\E f \in Call : estimate[f] = [slot |-> d, person |-> s])
          BY <4>1, <5>1, <5>2
        <5>4. \A s \in Person : Busy(s, d)' <=> Busy(s, d)
          BY <1>1, <5>3 DEF Busy
        <5>5. Free(d)' = Free(d)
          BY <5>4 DEF Free
        <5> QED
          BY <2>4, <5>5 DEF FreshOn
      <4> QED
        BY <4>2, <4>3
    <3> QED
      BY <1>2, <3>1, <3>2
  <2> QED
    BY <2>5, <2>6
<1> QED
  BY <1>3, FreshSame DEF CreateCrmEstimate

(* A booking is inserted, or the one of a cancellation is cancelled, by a   *)
(* call that owes the announcement.                                         *)
LEMMA FreshRows ==
  ASSUME BBase, BFresh, NEW p \in Call, Insert(p) \/ CancelRow(p)
  PROVE  BFresh'
<1>1. /\ job' = job /\ person' = person /\ estimate' = estimate /\ debts' = debts /\ cacheVars' = cacheVars
      /\ pc'[p] \in {"finish", "cancelTold"} /\ \A q \in Call : q # p => pc'[q] = pc[q]
  BY DEF Insert, CancelRow, CancelIn, Goto, BBase, BTypes
<1>2. Owing(p)' /\ \A q \in Call : Owing(q) => Owing(q)'
  BY <1>1 DEF Owing
<1>3. \A b \in Call : job[b].slot # job[p].slot => booking'[b] = booking[b]
  <2>1. CASE Insert(p)
    BY <2>1 DEF Insert, BBase, BTypes
  <2>2. CASE CancelRow(p)
    <3>1. \A b \in todo[p] : job[b].slot = job[p].slot
      BY <2>2 DEF CancelRow, BBase, BPlace
    <3> QED
      BY <2>2, <3>1 DEF CancelRow, CancelIn
  <2> QED
    BY <2>1, <2>2
<1>4. ASSUME NEW d \in Watched PROVE FreshOn(d)
  <2>1. d \in Slot
    BY WatchedAssumption
  <2>2. Excused(d) => Excused(d)'
    BY <1>1, <1>2, ExcusedOwing DEF Excused
  <2>3. CASE d = job[p].slot
    BY <1>1, <1>2, <2>2, <2>3, ExcusedOwing DEF FreshOn, Excused
  <2>4. CASE d # job[p].slot
    <3>1. \A b \in Call : booking'[b] = "confirmed" /\ job'[b].slot = d
                              <=> booking[b] = "confirmed" /\ job[b].slot = d
      BY <1>1, <1>3, <2>4
    <3>2. Free(d)' = Free(d)
      BY <1>1, <2>1, <3>1, FreeKept
    <3> QED
      BY <2>2, <3>2 DEF FreshOn
  <2> QED
    BY <2>3, <2>4
<1> QED
  BY <1>1, <1>4, FreshSame

(* The steps that announce what was owed.                                   *)
LEMMA FreshAnnounces ==
  ASSUME BBase, BFresh, NEW p \in Call, Finish(p) \/ CancelTold(p)
  PROVE  BFresh'
<1>1. /\ job' = job /\ person' = person /\ estimate' = estimate /\ booking' = booking
      /\ \A q \in Call : q # p => pc'[q] = pc[q]
  BY DEF Finish, CancelTold, Goto, BBase, BTypes, rowVars
<1>2. debts' = debts \ {job[p].slot} /\ Cache!Invalidate({job[p].slot})
  BY DEF Finish, CancelTold, Announce
<1>3. ASSUME NEW d \in Watched \ {job[p].slot} PROVE FreshOn(d)
  <2>1. d \in Slot
    BY WatchedAssumption
  <2>2. \A q \in Call : q # p /\ Owing(q) => Owing(q)'
    BY <1>1 DEF Owing
  <2>3. Excused(d) => Excused(d)'
    BY <1>1, <1>2, <2>2, ExcusedOwing DEF Excused
  <2>4. Free(d)' = Free(d)
    BY <1>1, <2>1, FreeKept
  <2> QED
    BY <2>3, <2>4 DEF FreshOn
<1> QED
  BY <1>2, <1>3, FreshTold

(* A booking that someone cancels without being its call.                   *)
LEMMA FreshCancelled ==
  ASSUME BBase, NEW b \in Call, CancelIn({b}), UNCHANGED <<pc, job, person, estimate>>,
         NEW d \in Watched, d # job[b].slot, debts \ {job[b].slot} \subseteq debts'
  PROVE  FreshOn(d)
<1>1. d \in Slot
  BY WatchedAssumption
<1>2. \A c \in Call : booking'[c] = IF c = b THEN "cancelled" ELSE booking[c]
  BY DEF CancelIn
<1>3. Free(d)' = Free(d)
  BY <1>1, <1>2, FreeKept
<1>4. Excused(d) => Excused(d)'
  BY ExcusedOwing DEF Excused, Owing
<1> QED
  BY <1>3, <1>4 DEF FreshOn

LEMMA FreshClears ==
  ASSUME BBase, BFresh, NEW p \in Call, ClearEach(p)
  PROVE  BFresh'
<1>1. PICK b \in todo[p] : CancelIn({b}) /\ Announce({job[b].slot})
  BY DEF ClearEach
<1>2. b \in Call
  BY <1>1 DEF BBase, BTypes
<1>3. UNCHANGED <<pc, job, person, estimate>>
  BY DEF ClearEach
<1>4. debts' = debts \ {job[b].slot} /\ Cache!Invalidate({job[b].slot})
  BY <1>1 DEF Announce
<1>5. \A d \in Watched \ {job[b].slot} : FreshOn(d)
  BY <1>1, <1>2, <1>3, <1>4, FreshCancelled
<1> QED
  BY <1>4, <1>5, FreshTold

LEMMA FreshReconcile ==
  ASSUME BBase, BFresh, NEW b \in Call, NEW here \in BOOLEAN, Reconcile(b, here)
  PROVE  BFresh'
<1>1. CancelIn({b}) /\ UNCHANGED <<pc, job, person, estimate>>
  BY DEF Reconcile, callVars
<1>2. CASE here
  <2>1. debts' = debts \ {job[b].slot} /\ Cache!Invalidate({job[b].slot})
    BY <1>2 DEF Reconcile, Announce
  <2>2. \A d \in Watched \ {job[b].slot} : FreshOn(d)
    BY <1>1, <2>1, FreshCancelled
  <2> QED
    BY <2>1, <2>2, FreshTold
<1>3. CASE ~here
  <2>1. debts' = debts \cup {job[b].slot} /\ UNCHANGED cacheVars
    BY <1>3 DEF Reconcile
  <2>2. ASSUME NEW d \in Watched PROVE FreshOn(d)
    <3>1. CASE d = job[b].slot
      BY <2>1, <3>1 DEF FreshOn, Excused
    <3>2. CASE d # job[b].slot
      BY <1>1, <2>1, <3>2, FreshCancelled
    <3> QED
      BY <3>1, <3>2
  <2> QED
    BY <2>1, <2>2, FreshSame
<1> QED
  BY <1>2, <1>3

LEMMA FreshWebhook ==
  ASSUME BFresh, Webhook
  PROVE  BFresh'
<1>1. Cache!Invalidate(Slot)
  BY DEF Webhook, Announce
<1>2. \A d \in Watched \ Slot : FreshOn(d)
  BY WatchedAssumption
<1> QED
  BY <1>1, <1>2, FreshTold

LEMMA FreshExit ==
  ASSUME BFresh, Exit
  PROVE  BFresh'
<1>1. \A d \in Watched : entry'[d] = None /\ flight'[d] = "none"
  BY DEF Exit, Cache!Forget
<1> QED
  BY <1>1 DEF BFresh

(* The cache itself: a computation reads what is free, and what it read is  *)
(* stored.                                                                  *)
LEMMA FreshCache ==
  ASSUME BBase, BFresh, CacheStep
  PROVE  BFresh'
<1>1. /\ entry \in [Watched -> (SUBSET Person) \cup {None}]
      /\ flight \in [Watched -> {"none", "reading", "read"}]
      /\ found \in [Watched -> (SUBSET Person) \cup {None}]
  BY DEF BBase, BTypes
<1>2. PICK c \in Watched :
        Cache!Ask(c) \/ Cache!Look(c) \/ Cache!Fill(c) \/ Cache!FillFails(c) \/ Cache!Expire(c)
  BY DEF CacheStep, Cache!Next
<1>3. \A d \in Watched : Free(d)' = Free(d) /\ Excused(d)' = Excused(d)
  BY DEF CacheStep, callVars, rowVars, Free, Busy, Excused, Unannounced
<1> SUFFICES ASSUME NEW d \in Watched
             PROVE  /\ entry'[d] # None /\ entry'[d] # Free(d) => Excused(d) \/ d \in late'
                    /\ flight'[d] = "read" /\ found'[d] # Free(d) => Excused(d) \/ d \in overtaken'
  BY <1>3 DEF BFresh
<1>4. /\ entry[d] # None /\ entry[d] # Free(d) => Excused(d) \/ d \in late
      /\ flight[d] = "read" /\ found[d] # Free(d) => Excused(d) \/ d \in overtaken
  BY DEF BFresh
<1>5. CASE Cache!Ask(c)
  BY <1>1, <1>4, <1>5 DEF Cache!Ask
<1>6. CASE Cache!Look(c)
  <2>1. found' = [found EXCEPT ![c] = Free(c)]
    BY <1>6 DEF Cache!Look, Free
  <2> QED
    BY <1>1, <1>4, <1>6, <2>1 DEF Cache!Look
<1>7. CASE Cache!Fill(c)
  BY <1>1, <1>4, <1>7 DEF Cache!Fill
<1>8. CASE Cache!FillFails(c)
  BY <1>1, <1>4, <1>8 DEF Cache!FillFails
<1>9. CASE Cache!Expire(c)
  BY <1>1, <1>4, <1>9 DEF Cache!Expire
<1> QED
  BY <1>2, <1>5, <1>6, <1>7, <1>8, <1>9

LEMMA FreshStutter ==
  ASSUME UNCHANGED vars
  PROVE  FreshQuiet
BY DEF FreshQuiet, Owing, vars, callVars, rowVars

LEMMA FreshStep ==
  ASSUME BBase, BFresh, [Next]_vars
  PROVE  BFresh'
<1>1. ASSUME NEW p \in Call,
             CreateCrmEstimate(p) \/ Insert(p) \/ Finish(p) \/ CancelRow(p) \/ CancelTold(p) \/ ClearEach(p)
      PROVE  BFresh'
  BY <1>1, FreshEstimate, FreshRows, FreshAnnounces, FreshClears
<1>2. CASE FreshQuiet
  BY <1>2, FreshKept
<1> QED
  BY <1>1, <1>2, FreshCalls, FreshReconcile, FreshWebhook, FreshExit, FreshCache,
       FreshStutter DEF Next, Begins

-----------------------------------------------------------------------------
(* The theorems about bookings. *)

LEMMA BBaseStep ==
  ASSUME BBase, [Next]_vars
  PROVE  BBase'
BY BBook, BMark, BUnschedule, BCancel, BChoose, BFail, BLookupNone, BLookup, BCreateInHcp, BHcpFails,
   BCreateCrmEstimate, BInsert, BFinish, BMarkRead, BMarkWrite, BMarkFire, BMarkFails, BCancelRow,
   BCancelTold, BClearRead, BClearSelect, BClearEach, BClearWrite, BClearGivesUp, BClearFails,
   BReconcile, BWebhook, BExit, BCacheStep, BStutter DEF Next

LEMMA TwiceStep ==
  ASSUME BBase, BTwice, [Next]_vars
  PROVE  BTwice'
<1>1. ASSUME NEW p \in Call, Choose(p)
      PROVE  BTwice'
  BY <1>1, BBaseStep, TwiceChoose
<1>2. CASE TwiceQuiet
  BY <1>2, TwiceKept
<1> QED
  BY <1>1, <1>2, TwiceCalls, TwiceElsewhere DEF Next, Begins

LEMMA BInvInit ==
  ASSUME Init
  PROVE  BInv
<1>1. /\ \A p \in Call : pc[p] = "idle" /\ job[p] = NoJob /\ booking[p] = None /\ estimate[p] = None
      /\ inHcp = {} /\ rows = <<>> /\ \A k \in Customer : flips[k] = 0 /\ fires[k] = 0
  BY DEF Init
<1>2. \A d \in Watched : entry[d] = None /\ flight[d] = "none"
  BY DEF Init, Cache!Init
<1>3. BTwice
  BY <1>1, NoneAssumption DEF BTwice, MayStand
<1>4. BFresh
  BY <1>2 DEF BFresh
<1>5. BMarked
  BY <1>1, NoneAssumption DEF BMarked, HasMarked
<1>6. BEstimates
  BY <1>1 DEF BEstimates, Making
<1>7. BAnnounced
  BY <1>1 DEF BAnnounced, Firing
<1> QED
  BY <1>3, <1>4, <1>5, <1>6, <1>7, BInit DEF BInv

LEMMA BInvariant == Spec => []BInv
<1>1. Init => BInv
  BY BInvInit
<1>2. BInv /\ [Next]_vars => BInv'
  BY BBaseStep, TwiceStep, FreshStep, MarkedStep, EstimatesStep, AnnouncedStep DEF BInv
<1> QED
  BY <1>1, <1>2, PTL DEF Spec

(* The states of the bookings, their estimates, their contacts and the      *)
(* availability cache of scheduling/booking.ts are of their types.          *)
THEOREM BookingTypesCorrect == Spec => []BTypes
<1>1. BInv => BTypes
  BY DEF BInv, BBase
<1> QED
  BY <1>1, BInvariant, PTL

(* Two confirmed bookings of a slot that the server gave to one salesperson *)
(* were made by calls that overlapped: bookAppointment never gives away a   *)
(* slot that was taken before it chose (selectNextAvailableSalesperson).    *)
THEOREM BookedTwiceCorrect == Spec => []BookedTwiceOnlyTogether
<1>1. BInv => BookedTwiceOnlyTogether
  BY DEF BInv, BTwice, MayStand, BookedTwiceOnlyTogether
<1> QED
  BY <1>1, BInvariant, PTL

(* A date of the availability cache differs from the free salespeople only  *)
(* with one of the three reasons: bookings, cancellations, reconciliations, *)
(* estimates that move and failed calls account for every other difference  *)
(* by an invalidation (booking.ts, availability-cache.ts).                  *)
THEOREM StaleOnlyCorrect == Spec => []StaleOnlyWithReason
<1>1. BInv => StaleOnlyWithReason
  BY DEF BInv, BFresh, Excused, Free, StaleOnlyWithReason
<1> QED
  BY <1>1, BInvariant, PTL

(* A confirmed booking leaves its contact scheduled: markContactScheduled   *)
(* runs before the row is inserted, and clearContactScheduledState takes    *)
(* the status only after it cancelled every booking that it did not meet.   *)
THEOREM BookedIsScheduledCorrect == Spec => []BookedIsScheduled
<1>1. BInv => BookedIsScheduled
  BY DEF BInv, BMarked, HasMarked, MayBeCleared, BookedIsScheduled
<1> QED
  BY <1>1, BInvariant, PTL

(* A retry finds the estimate of the booking before it: two young estimates *)
(* of a contact in Housecall Pro come from overlapping calls or from one    *)
(* that failed (hcp-estimate.ts, crm-estimate.ts).                          *)
THEOREM OneEstimateCorrect == Spec => []OneEstimatePerRetry
<1>1. BInv => OneEstimatePerRetry
  <2>1. BInv => inHcp \subseteq Call
    BY DEF BInv, BBase, BTypes
  <2> QED
    BY <2>1 DEF BInv, BEstimates, Making, OneEstimatePerRetry
<1> QED
  BY <1>1, BInvariant, PTL

(* A contact whose marks did not overlap and did not fail is announced      *)
(* exactly as often as it became scheduled (contact-status.ts).             *)
THEOREM AnnouncedCorrect == Spec => []AnnouncedAsOften
<1>1. ASSUME BInv, \A p \in Call : ~Active(p), NEW k \in Customer, ~Muddled(k)
      PROVE  fires[k] = flips[k]
  <2>1. ~Firing(k)
    BY <1>1 DEF Firing, Active
  <2>2. flips[k] = fires[k] + 0 /\ fires[k] \in Nat
    BY <1>1, <2>1 DEF BInv, BAnnounced, BBase, BTypes
  <2> QED
    BY <2>2
<1>2. BInv => AnnouncedAsOften
  BY <1>1 DEF AnnouncedAsOften, Muddled
<1> QED
  BY <1>2, BInvariant, PTL
=============================================================================
