--------------------------- MODULE SubmissionLedger ---------------------------
(***************************************************************************)
(* What a provider that retries may rely on: a submission is entered for   *)
(* one lead, once, and every answer to it names that lead.                 *)
(***************************************************************************)
CONSTANT Submissions

VARIABLES
  entries,          \* the leads a submission is entered for
  answers           \* <<submission, lead>> pairs given to providers

vars == <<entries, answers>>

Init == entries = [s \in Submissions |-> {}] /\ answers = {}

Enter(s) ==
  /\ entries[s] = {}
  /\ \E l \in entries'[s] : entries' = [entries EXCEPT ![s] = {l}]
  /\ UNCHANGED answers

Answer(s) ==
  /\ \E l \in entries[s] : entries[s] = {l} /\ answers' = answers \cup {<<s, l>>}
  /\ UNCHANGED entries

Next == \E s \in Submissions : Enter(s) \/ Answer(s)

Spec == Init /\ [][Next]_vars
==============================================================================
