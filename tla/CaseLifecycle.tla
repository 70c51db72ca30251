---------------------------- MODULE CaseLifecycle ----------------------------
(***************************************************************************)
(* What PayBack promises about recovery cases when the webhook drives      *)
(* them, without threads, stores or events: a transaction gets at most one *)
(* case; a case is contacted about at most once; it is concluded once, and *)
(* as MONITORING only if the customer was contacted; it becomes RECOVERED  *)
(* only after a payment, and stays so.                                     *)
(* It is the life the code gives a case.  The README of PayBack draws two  *)
(* steps more, from MONITORING to another attempt and to ESCALATED, that   *)
(* no delivery of an event takes (LateFailureRetried in PayBackClaims).    *)
(***************************************************************************)
EXTENDS Naturals

CONSTANTS Tx, CaseId, NoTx

VARIABLES
  of,         \* the transaction of each case, NoTx before it is opened
  state,      \* "absent", "open", or how the case was concluded
  contacts,   \* times the customer was contacted for the case
  paid        \* transactions the customer has paid

vars == <<of, state, contacts, paid>>

Conclusion == {"monitoring", "stopped", "escalated"}

Init ==
  /\ of = [c \in CaseId |-> NoTx]
  /\ state = [c \in CaseId |-> "absent"]
  /\ contacts = [c \in CaseId |-> 0]
  /\ paid = {}

Open(c, t) ==
  /\ state[c] = "absent"
  /\ \A d \in CaseId : of[d] # t
  /\ of' = [of EXCEPT ![c] = t]
  /\ state' = [state EXCEPT ![c] = "open"]
  /\ UNCHANGED <<contacts, paid>>

Contact(c) ==
  /\ state[c] = "open" /\ contacts[c] = 0
  /\ contacts' = [contacts EXCEPT ![c] = 1]
  /\ UNCHANGED <<of, state, paid>>

Conclude(c, s) ==
  /\ state[c] = "open"
  /\ s = "monitoring" <=> contacts[c] = 1
  /\ state' = [state EXCEPT ![c] = s]
  /\ UNCHANGED <<of, contacts, paid>>

Pay(t) ==
  /\ paid' = paid \cup {t}
  /\ UNCHANGED <<of, state, contacts>>

Recover(c) ==
  /\ state[c] # "absent" /\ of[c] \in paid
  /\ state' = [state EXCEPT ![c] = "recovered"]
  /\ UNCHANGED <<of, contacts, paid>>

Next ==
  \/ \E c \in CaseId :
       \/ \E t \in Tx : Open(c, t)
       \/ Contact(c) \/ Recover(c)
       \/ \E s \in Conclusion : Conclude(c, s)
  \/ \E t \in Tx : Pay(t)

Spec == Init /\ [][Next]_vars
=============================================================================
