------------------------------ MODULE Dashboard ------------------------------
(***************************************************************************)
(* What the merchant reads of the recovery cases: GET /dashboard/summary,  *)
(* /dashboard/trends and /dashboard/breakdown, and GET /customers.  Each   *)
(* is a function of the cases it lists.  They read two fields that say a   *)
(* case was recovered, outcome and status, and a third that says how much. *)
(* The list is one repository call, cut at 100 cases (1000 for customers); *)
(* amounts count in units of the amount at risk.                           *)
(***************************************************************************)
EXTENDS RecoveryStore

\* outcome == RECOVERED or status == RECOVERED, wherever recoveries are counted.
Successful(C) == {c \in C : cases[c].outcome = "recovered" \/ cases[c].status = "recovered"}

WithStatus(C, s) == {c \in C : cases[c].status = s}

\* status not in (RECOVERED, STOPPED, ESCALATED).
Active(C) == {c \in C : cases[c].status \notin TerminalStatus}

Summary(C) ==
  [total_recovery_cases    |-> Cardinality(C),
   total_recovered_revenue |-> Cardinality({c \in C : cases[c].amount_recovered = 1}),
   successful_recoveries   |-> Cardinality(Successful(C)),
   escalated_cases         |-> Cardinality(WithStatus(C, "escalated")),
   stopped_cases           |-> Cardinality(WithStatus(C, "stopped")),
   active_recovery_cases   |-> Cardinality(Active(C))]

\* The counts of one day of the trends: if/elif, so that a case is in one at most.
Trend(C) ==
  [recovered_count |-> Cardinality(Successful(C)),
   failed_count |->
     Cardinality((WithStatus(C, "stopped") \cup WithStatus(C, "escalated")) \ Successful(C))]

\* by_status of the breakdown.
ByStatus(C) == [s \in RecoveryStatus |-> Cardinality(WithStatus(C, s))]

\* open_recovery_cases of the customer who owns the transactions T.
OpenRecoveryCases(C, T) == Cardinality({c \in Active(C) : cases[c].transaction_id \in T})
=============================================================================
