----------------------------- MODULE MCContacts -----------------------------
(***************************************************************************)
(* What makes contacts and leads outside ingestLead, each on a small        *)
(* instance of its own: the bookings, and the passes over Google Local      *)
(* Services, the lead-capture inbox and Facebook.  A behaviour is one of    *)
(* one of them; the others stay as they are.                                *)
(***************************************************************************)
EXTENDS MCBooking

CONSTANTS GoogleLead, Mail, FbLead, Form, FormOf,
          Puller,    \* the passes, polls and manual syncs
          Overlap    \* POLL_OVERLAP_MS

VARIABLES
  part,
  google, row, gpc, listed, this, gfound, base, answer, autoCalls, deleted, gfaults, gcrashes, disputes,
  mailbox, archived, checkpoint, filed, dropped, saved, doubtful, mpc, only, since, pending, listedAt,
  unlisted, mtodo, known, hand, trouble, promised, excused, mfaults, missed, mcrashes, retries,
  clock, created, visible, page, cursor, horizon, entered, deferred, fdoubtful, fpc, kind, started, fsince,
  forms, leads, errors, ffaults

glsVars == <<google, row, gpc, listed, this, gfound, base, answer, autoCalls, deleted,
             gfaults, gcrashes, disputes>>
inboxVars == <<mailbox, archived, checkpoint, filed, dropped, saved, doubtful, mpc, only, since,
               pending, listedAt, unlisted, mtodo, known, hand, trouble, promised, excused,
               mfaults, missed, mcrashes, retries>>
facebookVars == <<clock, created, visible, page, cursor, horizon, entered, deferred, fdoubtful, fpc, kind,
                  started, fsince, forms, leads, errors, ffaults>>

(* Two passes over one lead that a rule matches, with a crash and the       *)
(* deletion of a lead.                                                      *)
G == INSTANCE GlsPull WITH
       pc <- gpc, found <- gfound, faults <- gfaults, crashes <- gcrashes,
       Pass <- Puller, Clerk <- {},
       Caller <- [g \in GoogleLead |-> g], Matched <- GoogleLead,
       MaxRows <- 2, MaxFaults <- 0, MaxCrashes <- 1, MaxDeletes <- 1, MaxDisputes <- 0

(* Two passes, one of which may be a retry of a saved failure, over a mail  *)
(* with an ambiguous sender, that a listing may miss, with a failing query  *)
(* and a crash.                                                             *)
M == INSTANCE InboxPull WITH
       pc <- mpc, todo <- mtodo, faults <- mfaults, crashes <- mcrashes,
       Pass <- Puller, Doubtful <- Mail, PageSize <- 1,
       MaxFaults <- 1, MaxMissed <- 1, MaxArchived <- 1, MaxCrashes <- 1, MaxRetries <- 1

(* Two polls or manual syncs of one form, which may be deleted, with one    *)
(* ambiguous lead, and one failure.                                         *)
F == INSTANCE FacebookPull WITH
       pc <- fpc, since <- fsince, doubtful <- fdoubtful, faults <- ffaults,
       Lead <- FbLead, Doubtful <- FbLead, Caller <- Puller, Lookback <- 2, Delay <- 0, MaxClock <- 2, MaxFaults <- 1

ContactsInit ==
  /\ part \in {"booking", "gls", "inbox", "facebook"}
  /\ Init /\ G!Init /\ M!Init /\ F!Init

ContactsNext ==
  \/ part = "booking" /\ Next /\ UNCHANGED <<part, glsVars, inboxVars, facebookVars>>
  \/ part = "gls" /\ G!Next /\ UNCHANGED <<part, vars, inboxVars, facebookVars>>
  \/ part = "inbox" /\ M!Next /\ UNCHANGED <<part, vars, glsVars, facebookVars>>
  \/ part = "facebook" /\ F!Next /\ UNCHANGED <<part, vars, glsVars, inboxVars>>

ContactsSpec == ContactsInit /\ [][ContactsNext]_<<part, vars, glsVars, inboxVars, facebookVars>>

OneForm == [l \in FbLead |-> CHOOSE f \in Form : TRUE]

(* Passes are interchangeable as well.                                      *)
ContactsSymmetry == Symmetry \cup Permutations(Puller)

(* A lead of Google is disputed automatically once.                         *)
AutoDisputedOnce == G!AutoDisputedOnce

(* A mail older than the checkpoint was dealt with or is saved, and a saved *)
(* parse failure leaves the list only when its mail was dealt with.         *)
NoMailForgotten == M!PassedIsDealtWith /\ M!ResolvedIsDealtWith

(* A lead no later poll will list is in the CRM or was reported.            *)
NothingPassed == F!NothingPassed
=============================================================================
