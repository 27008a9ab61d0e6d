---------------------------- MODULE FacebookPull ----------------------------
(***************************************************************************)
(* Facebook Lead Ads: the poll syncFacebookLeads (server/sync/facebook-     *)
(* leads.ts), the webhook (routes/webhooks/facebook.ts) and the manual sync *)
(* (routes/integrations/facebook.ts), which all enter a lead through        *)
(* processFacebookLead.  Polls take no lock.  ingestLead, which enters a    *)
(* leadgen ID once, is LeadIntake; mappings, tags and tokens are left out.  *)
(* The page comes to be connected, disconnected and connected again while   *)
(* forms are published on it and deleted; a poll that finds no cursor looks *)
(* back a fixed time from now.                                              *)
(***************************************************************************)
EXTENDS Integers, FiniteSets

CONSTANTS
  Lead, Form,
  Caller,      \* calls of the poll or of the manual sync that may overlap
  FormOf,      \* [Lead -> Form]
  Doubtful,    \* leads that two contacts match, until an admin merges them
  Overlap,     \* POLL_OVERLAP_MS
  Lookback,    \* DEFAULT_LOOKBACK_MS
  Delay,       \* how long Facebook may take to list a new lead
  MaxClock, MaxFaults    \* bounds

VARIABLES
  clock,
  created,     \* created_time of a lead, or -1
  visible,     \* the leads Facebook lists
  page,        \* a form of the page: "draft", "listed" by Facebook, or "gone"
  cursor,      \* last_poll_at, or NoCursor
  horizon,     \* history: how far back no poll without a cursor has looked that
               \* wrote one
  entered,     \* the leads that are in the CRM
  deferred,    \* ambiguous ones the poll has reported and left to the manual sync
  doubtful,
  kind,        \* of a call: a "poll", the "first" without a cursor, or "manual"
  pc, started, since, forms, leads, errors,   \* per call
  faults

worldVars == <<clock, created, visible, page>>
cursorVars == <<cursor, horizon>>
rowVars == <<entered, deferred, doubtful>>
readVars == <<kind, started, since>>
vars == <<worldVars, cursorVars, rowVars, pc, readVars, forms, leads, errors, faults>>

Now == clock
NoCursor == -1
Listed == {f \in Form : page[f] = "listed"}

(* Connecting stores tokens and a page ID, and no cursor.                   *)
Init ==
  /\ clock = 0 /\ created = [l \in Lead |-> -1] /\ visible = {}
  /\ page = [f \in Form |-> "draft"]
  /\ cursor = NoCursor /\ horizon = -1
  /\ entered = {} /\ deferred = {} /\ doubtful = Doubtful
  /\ pc = [p \in Caller |-> "idle"] /\ kind = [p \in Caller |-> "poll"]
  /\ started = [p \in Caller |-> 0] /\ since = [p \in Caller |-> 0]
  /\ forms = [p \in Caller |-> {}] /\ leads = [p \in Caller |-> {}]
  /\ errors = [p \in Caller |-> FALSE]
  /\ faults = 0

Goto(p, label) == pc' = [pc EXCEPT ![p] = label]

(* A poll goes back to its cursor less the overlap or, when it finds none,  *)
(* the look-back from now; the manual sync takes everything.                *)
Start(p) ==
  /\ pc[p] = "idle"
  /\ \E k \in {IF cursor = NoCursor THEN "first" ELSE "poll", "manual"} :
       /\ kind' = [kind EXCEPT ![p] = k]
       /\ since' = [since EXCEPT ![p] = CASE k = "manual" -> -1
                                          [] k = "poll" -> cursor - Overlap
                                          [] k = "first" -> Now - Lookback]
       /\ started' = [started EXCEPT ![p] = IF k = "manual" THEN 0 ELSE Now]
  /\ Goto(p, "list")
  /\ UNCHANGED <<worldVars, cursorVars, rowVars, forms, leads, errors, faults>>

(* The page's forms; without any the call is already at its end.            *)
ListForms(p) ==
  /\ pc[p] = "list"
  /\ forms' = [forms EXCEPT ![p] = Listed]
  /\ Goto(p, "form")
  /\ UNCHANGED <<worldVars, cursorVars, rowVars, readVars, leads, errors, faults>>

Forget(p) ==
  /\ Goto(p, "idle")
  /\ kind' = [kind EXCEPT ![p] = "poll"]
  /\ started' = [started EXCEPT ![p] = 0] /\ since' = [since EXCEPT ![p] = 0]
  /\ forms' = [forms EXCEPT ![p] = {}] /\ leads' = [leads EXCEPT ![p] = {}]
  /\ errors' = [errors EXCEPT ![p] = FALSE]

(* The leads of the next form, page by page.                                *)
NextForm(p, f) ==
  /\ pc[p] = "form" /\ leads[p] = {} /\ f \in forms[p]
  /\ forms' = [forms EXCEPT ![p] = @ \ {f}]
  /\ leads' = [leads EXCEPT ![p] = {l \in visible : FormOf[l] = f /\ created[l] > since[p]}]
  /\ UNCHANGED <<worldVars, cursorVars, rowVars, pc, readVars, errors, faults>>

(* A failing listing leaves the form for the next poll; it ends a manual    *)
(* sync.                                                                    *)
FormFails(p, f) ==
  /\ pc[p] = "form" /\ leads[p] = {} /\ f \in forms[p] /\ faults < MaxFaults
  /\ faults' = faults + 1
  /\ \/ kind[p] = "manual" /\ Forget(p)
     \/ /\ kind[p] # "manual"
        /\ forms' = [forms EXCEPT ![p] = @ \ {f}] /\ errors' = [errors EXCEPT ![p] = TRUE]
        /\ UNCHANGED <<pc, readVars, leads>>
  /\ UNCHANGED <<worldVars, cursorVars, rowVars>>

Take(p, l) == l \in leads[p] /\ leads' = [leads EXCEPT ![p] = @ \ {l}]

Enter(p, l) ==
  /\ Take(p, l) /\ l \notin doubtful
  /\ entered' = entered \cup {l}
  /\ UNCHANGED <<worldVars, cursorVars, deferred, doubtful, pc, readVars, forms, errors, faults>>

(* The admins are told; the poll goes on, the manual sync ends with a 409.  *)
Ambiguous(p, l) ==
  /\ l \in leads[p] /\ l \in doubtful
  /\ deferred' = deferred \cup {l}
  /\ \/ kind[p] = "manual" /\ Forget(p)
     \/ kind[p] # "manual" /\ Take(p, l) /\ UNCHANGED <<pc, readVars, forms, errors>>
  /\ UNCHANGED <<worldVars, cursorVars, entered, doubtful, faults>>

LeadFails(p, l) ==
  /\ l \in leads[p] /\ faults < MaxFaults
  /\ faults' = faults + 1
  /\ \/ kind[p] = "manual" /\ Forget(p)
     \/ /\ kind[p] # "manual" /\ Take(p, l)
        /\ errors' = [errors EXCEPT ![p] = TRUE]
        /\ UNCHANGED <<pc, readVars, forms>>
  /\ UNCHANGED <<worldVars, cursorVars, rowVars>>

Succeeds(p) == kind[p] # "manual" /\ ~errors[p]

(* Bug: the time the poll ends.                                             *)
AdvanceToNow(p) == cursor' = IF Succeeds(p) THEN Now ELSE cursor

(* The cursor becomes the time the poll began, whether the page had forms   *)
(* or not.                                                                  *)
Advance(p) == cursor' = IF Succeeds(p) THEN started[p] ELSE cursor

(* The last form's last lead is done.                                       *)
End(p) ==
  /\ pc[p] = "form" /\ forms[p] = {} /\ leads[p] = {}
  /\ Advance(p) /\ Forget(p)
  /\ horizon' = IF Succeeds(p) /\ kind[p] = "first" /\ since[p] > horizon THEN since[p] ELSE horizon
  /\ UNCHANGED <<worldVars, rowVars, faults>>

(* The process ends, the forms cannot be listed with either token, or the   *)
(* last write fails.                                                        *)
Crash(p) ==
  /\ pc[p] # "idle" /\ faults < MaxFaults
  /\ faults' = faults + 1
  /\ Forget(p)
  /\ UNCHANGED <<worldVars, cursorVars, rowVars>>

(* The webhook answers 200 first; a delivery that then fails, or never      *)
(* comes, leaves the lead to the poll.                                      *)
Webhook(l) ==
  /\ created[l] # -1 /\ l \notin entered
  /\ IF l \in doubtful
     THEN deferred' = deferred \cup {l} /\ UNCHANGED entered
     ELSE entered' = entered \cup {l} /\ UNCHANGED deferred
  /\ UNCHANGED <<worldVars, cursorVars, doubtful, pc, readVars, forms, leads, errors, faults>>

(* Disconnecting disables every credential, the cursor among them, and the  *)
(* page may be connected again; until then no call begins.                  *)
Disconnect ==
  /\ cursor # NoCursor
  /\ cursor' = NoCursor
  /\ UNCHANGED <<worldVars, horizon, rowVars, pc, readVars, forms, leads, errors, faults>>

Publish(f) ==
  /\ page[f] = "draft"
  /\ page' = [page EXCEPT ![f] = "listed"]
  /\ UNCHANGED <<clock, created, visible, cursorVars, rowVars, pc, readVars, forms, leads, errors, faults>>

Withdraw(f) ==
  /\ page[f] = "listed"
  /\ page' = [page EXCEPT ![f] = "gone"]
  /\ UNCHANGED <<clock, created, visible, cursorVars, rowVars, pc, readVars, forms, leads, errors, faults>>

(* Somebody fills in a form; Facebook lists it after at most Delay.         *)
Create(l) ==
  /\ created[l] = -1 /\ page[FormOf[l]] = "listed"
  /\ created' = [created EXCEPT ![l] = Now]
  /\ UNCHANGED <<clock, visible, page, cursorVars, rowVars, pc, readVars, forms, leads, errors, faults>>

Appear(l) ==
  /\ created[l] # -1 /\ l \notin visible
  /\ visible' = visible \cup {l}
  /\ UNCHANGED <<clock, created, page, cursorVars, rowVars, pc, readVars, forms, leads, errors, faults>>

Tick ==
  /\ clock < MaxClock
  /\ \A l \in Lead : created[l] # -1 /\ l \notin visible => clock < created[l] + Delay
  /\ clock' = clock + 1
  /\ UNCHANGED <<created, visible, page, cursorVars, rowVars, pc, readVars, forms, leads, errors, faults>>

Merge(l) ==
  /\ l \in doubtful
  /\ doubtful' = doubtful \ {l}
  /\ UNCHANGED <<worldVars, cursorVars, entered, deferred, pc, readVars, forms, leads, errors, faults>>

Next ==
  \/ \E p \in Caller :
       \/ Start(p) \/ ListForms(p) \/ End(p) \/ Crash(p)
       \/ \E f \in Form : NextForm(p, f) \/ FormFails(p, f)
       \/ \E l \in Lead : Enter(p, l) \/ Ambiguous(p, l) \/ LeadFails(p, l)
  \/ \E l \in Lead : Webhook(l) \/ Create(l) \/ Appear(l) \/ Merge(l)
  \/ \E f \in Form : Publish(f) \/ Withdraw(f)
  \/ Tick \/ Disconnect

Spec == Init /\ [][Next]_vars

-----------------------------------------------------------------------------
(* Properties. *)

(* A lead of a form the page still has that no later poll will list is in   *)
(* the CRM, or was reported to the admins as ambiguous, however polls       *)
(* overlap, fail and move the cursor back and forth, provided Facebook      *)
(* lists a lead within the overlap.  What was already older than the        *)
(* look-back when a poll without a cursor began that went on to write one   *)
(* is passed: the look-back slides along while the first polls fail.        *)
NothingPassed ==
  cursor # NoCursor =>
    \A l \in Lead :
      created[l] > horizon /\ created[l] <= cursor - Overlap /\ page[FormOf[l]] # "gone" =>
        l \in entered \cup deferred
=============================================================================
