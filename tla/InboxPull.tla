----------------------------- MODULE InboxPull -----------------------------
(***************************************************************************)
(* The lead-capture inbox: syncLeadCaptureInbox (server/services/lead-      *)
(* capture-sync.ts), the saved parse failures (storage/email-parse-         *)
(* failures.ts), a member of staff retrying one of them (routes/lead-       *)
(* capture.ts) and the listing of Gmail (gmail-service.ts fetchNewEmails).  *)
(* The scheduler, the one-shot worker and the manual sync run the same pass *)
(* and take no lock.                                                        *)
(*                                                                          *)
(* Time is the number of mails that have arrived: the checkpoint lastSyncAt *)
(* is the number that had when it was stamped.  What a mail is taken for    *)
(* (sender rules, spam filter, AI) is left to chance; so is the second of   *)
(* overlap that rounding the checkpoint gives.  ingestLead is LeadIntake.   *)
(***************************************************************************)
EXTENDS Integers, Sequences, FiniteSets

CONSTANTS
  Mail, Pass, None,
  Doubtful,    \* the mails whose sender two contacts share, until an admin merges them
  PageSize,    \* maxResults
  MaxFaults, MaxMissed, MaxArchived, MaxCrashes, MaxRetries    \* bounds

VARIABLES
  mailbox,    \* the mails in order of arrival
  archived,   \* those no longer labelled INBOX
  checkpoint, \* lastSyncAt
  filed,      \* mails whose activity exists (lead, reply or duplicate)
  dropped,    \* mails blocked or taken for spam
  saved,      \* email_parse_failures: "none", "pending", "resolved"
  doubtful,
  pc,
  only,       \* per pass, the saved mail it retries, or None
  since,      \* per pass, the checkpoint it read
  pending,    \* per pass, the pending failures it read
  listedAt,   \* per pass, the time of its listing
  unlisted,   \* per pass, mails since its checkpoint that the answer lacked
  todo, known, hand, trouble,
  promised,   \* mails whose admins were told of a retry (history)
  excused,    \* mails passed over because no listing had them (history)
  faults, missed, crashes, retries

mailVars == <<mailbox, archived>>
rowVars == <<checkpoint, filed, dropped, saved, doubtful>>
readVars == <<only, since, pending, listedAt, unlisted>>
workVars == <<todo, known, hand, trouble>>
bounds == <<faults, missed, crashes, retries>>
vars == <<mailVars, rowVars, pc, readVars, workVars, promised, excused, bounds>>

Init ==
  /\ mailbox = <<>> /\ archived = {} /\ checkpoint = 0
  /\ filed = {} /\ dropped = {} /\ saved = [m \in Mail |-> "none"] /\ doubtful = Doubtful
  /\ pc = [p \in Pass |-> "idle"] /\ only = [p \in Pass |-> None]
  /\ since = [p \in Pass |-> 0] /\ pending = [p \in Pass |-> {}]
  /\ listedAt = [p \in Pass |-> 0] /\ unlisted = [p \in Pass |-> {}]
  /\ todo = [p \in Pass |-> {}] /\ known = [p \in Pass |-> {}]
  /\ hand = [p \in Pass |-> None] /\ trouble = [p \in Pass |-> FALSE]
  /\ promised = {} /\ excused = {}
  /\ faults = 0 /\ missed = 0 /\ crashes = 0 /\ retries = 0

Goto(p, label) == pc' = [pc EXCEPT ![p] = label]
Since(n) == {mailbox[i] : i \in (n + 1)..Len(mailbox)}
Newest(n) == {mailbox[i] : i \in {j \in DOMAIN mailbox : j > Len(mailbox) - n}}
Pending == {m \in Mail : saved[m] = "pending"}

-----------------------------------------------------------------------------
(* A pass. *)

(* The caller reads the inbox row; staff retry one pending failure.         *)
Start(p) ==
  /\ pc[p] = "idle"
  /\ since' = [since EXCEPT ![p] = checkpoint]
  /\ \/ only' = [only EXCEPT ![p] = None] /\ UNCHANGED retries
     \/ /\ retries < MaxRetries /\ retries' = retries + 1
        /\ \E m \in Pending : only' = [only EXCEPT ![p] = m]
  /\ Goto(p, "pending")
  /\ UNCHANGED <<mailVars, rowVars, pending, listedAt, unlisted, workVars, promised, excused,
                 faults, missed, crashes>>

ListPending(p) ==
  /\ pc[p] = "pending"
  /\ pending' = [pending EXCEPT ![p] = Pending]
  /\ Goto(p, "list")
  /\ UNCHANGED <<mailVars, rowVars, only, since, listedAt, unlisted, workVars, promised, excused, bounds>>

(* One page of the newest mails after the checkpoint; a mail that could not *)
(* be downloaded is left out without an error.                              *)
List(p) ==
  /\ pc[p] = "list"
  /\ IF only[p] # None
     THEN /\ todo' = [todo EXCEPT ![p] = {only[p]}]
          /\ UNCHANGED <<listedAt, unlisted, missed>>
     ELSE \E lost \in SUBSET Since(since[p]) :
            LET page == (Since(since[p]) \cap Newest(PageSize)) \ (lost \cup archived) IN
            /\ missed + Cardinality(lost) <= MaxMissed
            /\ missed' = missed + Cardinality(lost)
            /\ todo' = [todo EXCEPT ![p] = page \cup pending[p]]
            /\ unlisted' = [unlisted EXCEPT ![p] = Since(since[p]) \ (page \cup pending[p])]
            /\ listedAt' = [listedAt EXCEPT ![p] = Len(mailbox)]
  /\ since' = [since EXCEPT ![p] = 0]
  /\ Goto(p, "known")
  /\ UNCHANGED <<mailVars, rowVars, only, pending, known, hand, trouble, promised, excused,
                 faults, crashes, retries>>

ReadKnown(p) ==
  /\ pc[p] = "known"
  /\ known' = [known EXCEPT ![p] = todo[p] \cap filed]
  /\ Goto(p, "next")
  /\ UNCHANGED <<mailVars, rowVars, readVars, todo, hand, trouble, promised, excused, bounds>>

(* One mail.  What it ends with decides whether its saved failure, if it    *)
(* had one when the pass began, is resolved.                                *)
Take(p, m) ==
  /\ pc[p] = "next" /\ m \in todo[p]
  /\ todo' = [todo EXCEPT ![p] = @ \ {m}]

Settled(p, m) ==
  /\ IF m \in pending[p]
     THEN hand' = [hand EXCEPT ![p] = m] /\ Goto(p, "resolve")
     ELSE UNCHANGED <<hand, pc>>
  /\ UNCHANGED <<saved, trouble>>

Skip(p, m) ==
  /\ Take(p, m) /\ m \in known[p] /\ Settled(p, m)
  /\ UNCHANGED <<mailVars, checkpoint, filed, dropped, doubtful, readVars, known, promised, excused, bounds>>

Drop(p, m) ==
  /\ Take(p, m) /\ m \notin known[p] /\ Settled(p, m)
  /\ dropped' = dropped \cup {m}
  /\ UNCHANGED <<mailVars, checkpoint, filed, doubtful, readVars, known, promised, excused, bounds>>

(* A reply is found by its headers, whoever its sender is.                  *)
FileReply(p, m) ==
  /\ Take(p, m) /\ m \notin known[p] /\ Settled(p, m)
  /\ filed' = filed \cup {m}
  /\ UNCHANGED <<mailVars, checkpoint, dropped, doubtful, readVars, known, promised, excused, bounds>>

(* ingestLead: a new lead, or a duplicate of a recent one.                  *)
File(p, m) ==
  /\ Take(p, m) /\ m \notin known[p] /\ m \notin doubtful /\ Settled(p, m)
  /\ filed' = filed \cup {m}
  /\ UNCHANGED <<mailVars, checkpoint, dropped, doubtful, readVars, known, promised, excused, bounds>>

(* record: a resolved failure stays as it is.                               *)
ParseFails(p, m) ==
  /\ Take(p, m) /\ m \notin known[p]
  /\ saved' = [saved EXCEPT ![m] = IF @ = "resolved" THEN @ ELSE "pending"]
  /\ UNCHANGED <<mailVars, checkpoint, filed, dropped, doubtful, pc, readVars, known, hand, trouble,
                 promised, excused, bounds>>

(* Two contacts match: an error, and the admins are told that the mail will *)
(* be retried.                                                              *)
Ambiguous(p, m) ==
  /\ Take(p, m) /\ m \notin known[p] /\ m \in doubtful
  /\ trouble' = [trouble EXCEPT ![p] = TRUE]
  /\ promised' = promised \cup {m}
  /\ UNCHANGED <<mailVars, rowVars, pc, readVars, known, hand, excused, bounds>>

(* Bug: the saved failure is resolved all the same.                         *)
MailFailsSettled(p, m) ==
  /\ Take(p, m) /\ m \notin known[p] /\ faults < MaxFaults
  /\ faults' = faults + 1 /\ Settled(p, m)
  /\ UNCHANGED <<mailVars, checkpoint, filed, dropped, doubtful, readVars, known, promised, excused,
                 missed, crashes, retries>>

MailFails(p, m) ==
  /\ Take(p, m) /\ m \notin known[p] /\ faults < MaxFaults
  /\ faults' = faults + 1
  /\ trouble' = [trouble EXCEPT ![p] = TRUE]
  /\ UNCHANGED <<mailVars, rowVars, pc, readVars, known, hand, promised, excused, missed, crashes, retries>>

(* The finally block.                                                       *)
Resolve(p) ==
  /\ pc[p] = "resolve"
  /\ saved' = [saved EXCEPT ![hand[p]] = IF @ = "pending" THEN "resolved" ELSE @]
  /\ hand' = [hand EXCEPT ![p] = None]
  /\ Goto(p, "next")
  /\ UNCHANGED <<mailVars, checkpoint, filed, dropped, doubtful, readVars, todo, known, trouble,
                 promised, excused, bounds>>

Cleared(f, p, v) == [f EXCEPT ![p] = v]

(* What a pass read is gone when it ends.                                   *)
Forget(p) ==
  /\ Goto(p, "idle")
  /\ only' = Cleared(only, p, None) /\ since' = Cleared(since, p, 0)
  /\ pending' = Cleared(pending, p, {}) /\ listedAt' = Cleared(listedAt, p, 0)
  /\ unlisted' = Cleared(unlisted, p, {}) /\ todo' = Cleared(todo, p, {})
  /\ known' = Cleared(known, p, {}) /\ hand' = Cleared(hand, p, None)
  /\ trouble' = Cleared(trouble, p, FALSE)

(* updateLeadCaptureInboxSyncTime stamps the present, not the listing.      *)
Stamp(p) ==
  /\ checkpoint' = Len(mailbox)
  /\ excused' = excused \cup ((unlisted[p] \cup Since(listedAt[p])) \ (filed \cup dropped))

(* Bug: the checkpoint moves on in spite of errors.                         *)
EndRegardless(p) ==
  /\ pc[p] = "next" /\ todo[p] = {}
  /\ IF only[p] = None THEN Stamp(p) ELSE UNCHANGED <<checkpoint, excused>>
  /\ Forget(p)
  /\ UNCHANGED <<mailVars, filed, dropped, saved, doubtful, promised, bounds>>

End(p) ==
  /\ pc[p] = "next" /\ todo[p] = {}
  /\ IF only[p] = None /\ ~trouble[p]
     THEN Stamp(p)
     ELSE UNCHANGED <<checkpoint, excused>>
  /\ Forget(p)
  /\ UNCHANGED <<mailVars, filed, dropped, saved, doubtful, promised, bounds>>

-----------------------------------------------------------------------------
(* What can go wrong, and the world. *)

(* Outside the try of a mail a failing query ends the pass.                 *)
Fail(p) ==
  /\ pc[p] \in {"pending", "list", "known", "resolve"} \/ (pc[p] = "next" /\ todo[p] = {})
  /\ faults < MaxFaults /\ faults' = faults + 1
  /\ Forget(p)
  /\ UNCHANGED <<mailVars, rowVars, promised, excused, missed, crashes, retries>>

Crash(p) ==
  /\ pc[p] # "idle" /\ crashes < MaxCrashes /\ crashes' = crashes + 1
  /\ Forget(p)
  /\ UNCHANGED <<mailVars, rowVars, promised, excused, faults, missed, retries>>

Arrive(m) ==
  /\ m \notin {mailbox[i] : i \in DOMAIN mailbox}
  /\ mailbox' = Append(mailbox, m)
  /\ UNCHANGED <<archived, rowVars, pc, readVars, workVars, promised, excused, bounds>>

Archive(m) ==
  /\ m \in {mailbox[i] : i \in DOMAIN mailbox} \ archived /\ Cardinality(archived) < MaxArchived
  /\ archived' = archived \cup {m}
  /\ UNCHANGED <<mailbox, rowVars, pc, readVars, workVars, promised, excused, bounds>>

(* An admin merges the contacts two of which matched.                       *)
Merge(m) ==
  /\ m \in doubtful
  /\ doubtful' = doubtful \ {m}
  /\ UNCHANGED <<mailVars, checkpoint, filed, dropped, saved, pc, readVars, workVars, promised, excused, bounds>>

OneMail(p, m) ==
  \/ Skip(p, m) \/ Drop(p, m) \/ FileReply(p, m) \/ File(p, m)
  \/ ParseFails(p, m) \/ Ambiguous(p, m) \/ MailFails(p, m)

Next ==
  \/ \E p \in Pass :
       \/ Start(p) \/ ListPending(p) \/ List(p) \/ ReadKnown(p)
       \/ \E m \in Mail : OneMail(p, m)
       \/ Resolve(p) \/ End(p) \/ Fail(p) \/ Crash(p)
  \/ \E m \in Mail : Arrive(m) \/ Archive(m) \/ Merge(m)

Spec == Init /\ [][Next]_vars

-----------------------------------------------------------------------------
(* Properties. *)

DealtWith(m) == m \in filed \cup dropped

(* A mail older than the checkpoint, which no pass will list again, became  *)
(* a lead or a reply, was dropped, or waits in the list of saved failures,  *)
(* whatever the passes, retries and crashes before; excepted only a mail    *)
(* that the listing behind the checkpoint did not have.                     *)
PassedIsDealtWith ==
  \A i \in 1..checkpoint :
    LET m == mailbox[i] IN DealtWith(m) \/ saved[m] = "pending" \/ m \in excused

(* "Saved failures survive the Gmail checkpoint, archiving and provider     *)
(* deletion": a failure leaves the list only when its mail was dealt with.  *)
ResolvedIsDealtWith == \A m \in Mail : saved[m] = "resolved" => DealtWith(m)

(* "the unresolved message remains retryable": a mail whose retry was       *)
(* promised is still dealt with, saved, in hand or after the checkpoint.    *)
PromisedIsRetried ==
  \A i \in DOMAIN mailbox :
    LET m == mailbox[i] IN
    m \in promised \ archived =>
      DealtWith(m) \/ saved[m] = "pending" \/ i > checkpoint \/ \E p \in Pass : m \in todo[p]
=============================================================================
