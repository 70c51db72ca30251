----------------------------- MODULE MCDecision -----------------------------
(***************************************************************************)
(* Inputs for TLC.  32-bit integers keep amounts at or below 2000 paise, so *)
(* the thresholds are scaled down with them; every boundary a guard tests  *)
(* has a value on each side of it.                                         *)
(***************************************************************************)
EXTENDS DecisionProperties

DefaultCosts ==
  [retry_payment |-> 200, create_payment_link |-> 500, send_whatsapp |-> 100,
   send_email |-> 20, escalate |-> 1500]

\* A merchant whose e-mails cost more than a link.
DearEmail == [DefaultCosts EXCEPT !.send_email = 700, !.create_payment_link = 30]

MCProbabilities == {0, 1, 3333, 5005, 10000}

MCPolicies ==
  LET P(retries, messages, hours, threshold, approval, costs) ==
        [maximum_retries |-> retries, maximum_messages |-> messages,
         recovery_window_hours |-> hours, high_value_threshold |-> threshold,
         human_approval_required |-> approval, action_costs |-> costs]
  IN {P(3, 3, 72, 2000, FALSE, DefaultCosts), P(3, 3, 72, 2000, FALSE, DearEmail),
      P(3, 3, 72, 2000, TRUE, DefaultCosts), P(2, 3, 24, 600, FALSE, DefaultCosts),
      P(4, 2, 73, 2001, FALSE, DearEmail)}

\* No history: every status, limit and amount.
GuardContexts ==
  [status : TransactionStatus, upi : BOOLEAN, opted_out : BOOLEAN,
   reason : FailureReason, days_since_failure : {10000, 30000, 30001},
   retry_count : {0, 2, 3}, messages_sent : {0, 1, 2, 3},
   amount : {100, 601, 1999, 2000},
   successes : {0}, failures : {0}, others : {0}]

\* One kind of case, every short history.
HistoryContexts ==
  [status : {"failed"}, upi : {FALSE}, opted_out : {FALSE},
   reason : FailureReason, days_since_failure : {10000},
   retry_count : {0, 2}, messages_sent : {0}, amount : {1999},
   successes : 0 .. 10, failures : 0 .. 10, others : 0 .. 1]

MCContexts == GuardContexts \cup HistoryContexts
=============================================================================
