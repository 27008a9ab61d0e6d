----------------------------- MODULE MCLeadIntake -----------------------------
(* Small instances of LeadIntake.  Ann fills the form with her e-mail and  *)
(* phone (form), answers an ad with her e-mail and another phone (ad),     *)
(* mails (mail) and texts (text); somebody without a name calls through    *)
(* Google with her e-mail (call).                                          *)
EXTENDS LeadIntake

CONSTANTS form, ad, mail, text, call, w1, w2, a1, m1, t1, c1, web, worker, ann, e1, p1, p2

MCOf == [d \in Deliveries |->
  CASE d \in {w1, w2} -> form [] d = a1 -> ad [] d = m1 -> mail [] d = t1 -> text [] OTHER -> call]
MCProcessOf == [d \in Deliveries |-> IF d \in {a1, w2} THEN worker ELSE web]

MCPerson == [s \in Submissions |->
  CASE s = form -> [name |-> ann, email |-> e1, phone |-> p1]
    [] s = ad -> [name |-> ann, email |-> e1, phone |-> p2]
    [] s = mail -> [name |-> ann, email |-> e1, phone |-> None]
    [] s = text -> [name |-> ann, email |-> None, phone |-> p1]
    [] OTHER -> [name |-> None, email |-> e1, phone |-> p2]]
==============================================================================
