--------------------------- MODULE DecisionEngine ---------------------------
(***************************************************************************)
(* The decision engine: backend/app/core/decision.py, with the             *)
(* classifier (core/recoverability.py), the scorer                         *)
(* (core/action_scoring.py), the context builder (core/probability.py) and *)
(* the customer history (services/ml/customer_history.py).  One evaluation *)
(* is a pure function of its input; the behaviours of this specification   *)
(* pick an input and evaluate it once, as the agent's decide node does (no *)
(* repositories, so no history) or as a caller that passes repositories.   *)
(*                                                                         *)
(* Units: money in paise, probabilities and ratios in 1/10000,             *)
(* conversion weights in 1/100, days_since_failure in 1/10000 day (the     *)
(* code rounds it, and probabilities and ratios, to four decimals).  The   *)
(* trained model is not modelled: its output is an input here.             *)
(***************************************************************************)
EXTENDS CaseStateMachine, Integers

CONSTANTS Contexts,      \* the transactions, cases and customers evaluated
          Policies,      \* the merchant policies
          Probabilities  \* the model's outputs

VARIABLES input, result

vars == <<input, result>>

\* The actions scored as outreach. send_whatsapp is scored and never eligible.
ScoredAction == OutreachAction \cup {"send_whatsapp"}

FailureReason == {"temporary", "permanent", "abandoned", "other"}

ContextType ==
  [status : TransactionStatus, upi : BOOLEAN, opted_out : BOOLEAN,
   reason : FailureReason, days_since_failure : Nat, retry_count : Nat,
   messages_sent : Nat, amount : Nat,
   successes : Nat, failures : Nat, others : Nat]

PolicyType ==
  [maximum_retries : Int, maximum_messages : Int, recovery_window_hours : Int,
   high_value_threshold : Int, human_approval_required : BOOLEAN,
   action_costs : [ScoredAction \cup {"escalate"} -> Int]]

ProbabilityType == 0 .. 10000

ASSUME InputAssumption ==
  /\ Contexts \subseteq ContextType
  /\ Policies \subseteq PolicyType
  /\ Probabilities \subseteq ProbabilityType

(***************************************************************************)
(* Python's round(n / d): the nearest integer, a tie to the even one.  (A  *)
(* float tie may go the other way; nothing below depends on which.)        *)
(***************************************************************************)
Round(n, d) ==
  LET q == n \div d
      r == n % d
  IN IF 2 * r < d \/ (2 * r = d /\ q % 2 = 0) THEN q ELSE q + 1

-----------------------------------------------------------------------------
(***************************************************************************)
(* compute_customer_history on the customer's earlier transactions.  With  *)
(* no repository every count is zero.                                      *)
(***************************************************************************)
CustomerHistory(ctx, repos) ==
  LET total == ctx.successes + ctx.failures + ctx.others
  IN IF repos
     THEN [previous_transactions |-> total,
           previous_failures |-> ctx.failures,
           historical_success_rate |->
             IF total > 0 THEN Round(10000 * ctx.successes, total) ELSE 0]
     ELSE [previous_transactions |-> 0, previous_failures |-> 0,
           historical_success_rate |-> 0]

\* Mutant: "at most one earlier transaction" became "exactly one".
Acceptable_One(h) == h.historical_success_rate >= 4000 \/ h.previous_transactions = 1

\* Acceptable payment history, or a new customer.
Acceptable(h) == h.historical_success_rate >= 4000 \/ h.previous_transactions <= 1

(***************************************************************************)
(* RecoverabilityClassifier.classify.                                      *)
(***************************************************************************)
Classify(ctx, h) ==
  LET temporary == ctx.reason = "temporary"
      highHistory == /\ h.previous_transactions >= 2
                     /\ h.historical_success_rate >= 7000
      lowHistory == /\ h.previous_transactions >= 3
                    /\ h.historical_success_rate < 3000
      repeated == ctx.retry_count >= 2 \/ h.previous_failures >= 3
  IN IF ctx.opted_out \/ ctx.reason = "permanent" THEN "NON_RECOVERABLE"
     ELSE IF temporary /\ highHistory THEN "HIGHLY_RECOVERABLE"
     ELSE IF temporary /\ Acceptable(h) THEN "LIKELY_RECOVERABLE"
     ELSE IF lowHistory \/ repeated THEN "LOW_RECOVERY_PROBABILITY"
     ELSE "UNCERTAIN"

-----------------------------------------------------------------------------
(***************************************************************************)
(* ActionScorer.generate_and_score_candidates.                             *)
(***************************************************************************)
Weight(ctx, a) ==
  CASE a = "retry_payment"       -> 90
    [] a = "create_payment_link" -> IF ctx.status = "abandoned" \/ ctx.reason = "abandoned"
                                    THEN 80 ELSE 95
    [] a = "send_whatsapp"       -> 90
    [] a = "send_email"          -> 85
    [] a = "escalate"            -> 80

Probability(ctx, p, a) == Round(p * Weight(ctx, a), 100)

ExpectedValue(ctx, policy, p, a) ==
  Round(Probability(ctx, p, a) * ctx.amount - 10000 * policy.action_costs[a], 10000)

\* Mutant: a UPI payment may be retried by the merchant.
CanUse_Upi(ctx, policy, a) ==
  \/ a = "retry_payment" /\ ctx.retry_count < policy.maximum_retries
  \/ a \in {"create_payment_link", "send_email"} /\ ctx.messages_sent < policy.maximum_messages

\* Mutant: a link is refused one message early.
CanUse_EarlyLimit(ctx, policy, a) ==
  \/ a = "retry_payment" /\ ctx.retry_count < policy.maximum_retries /\ ~ctx.upi
  \/ /\ a \in {"create_payment_link", "send_email"}
     /\ ctx.messages_sent + 1 < policy.maximum_messages

\* The scorer's own eligibility rules: the policy's limits once more.
CanUse(ctx, policy, a) ==
  \/ a = "retry_payment" /\ ctx.retry_count < policy.maximum_retries /\ ~ctx.upi
  \/ a \in {"create_payment_link", "send_email"} /\ ctx.messages_sent < policy.maximum_messages

Eligible(ctx, policy, category) ==
  {a \in ScoredAction : category # "NON_RECOVERABLE" /\ CanUse(ctx, policy, a)}

-----------------------------------------------------------------------------
(***************************************************************************)
(* DecisionEngine._select_best_action.                                     *)
(***************************************************************************)
\* Mutant: the SUCCESS transaction is not a hard stop.
HardStop_PaidOn(ctx, policy, category) ==
  IF ctx.opted_out THEN "opt_out"
  ELSE IF 24 * ctx.days_since_failure > 10000 * policy.recovery_window_hours
       THEN "window_expired"
  ELSE IF ctx.retry_count >= policy.maximum_retries THEN "max_retries"
  ELSE IF ctx.messages_sent >= policy.maximum_messages THEN "max_messages"
  ELSE IF category = "NON_RECOVERABLE" THEN "not_recoverable"
  ELSE "none"

\* Mutant: the window is compared the wrong way round.
HardStop_Window(ctx, policy, category) ==
  IF ctx.opted_out THEN "opt_out"
  ELSE IF 24 * ctx.days_since_failure < 10000 * policy.recovery_window_hours
       THEN "window_expired"
  ELSE IF ctx.retry_count >= policy.maximum_retries THEN "max_retries"
  ELSE IF ctx.messages_sent >= policy.maximum_messages THEN "max_messages"
  ELSE IF ctx.status = "success" \/ category = "NON_RECOVERABLE" THEN "not_recoverable"
  ELSE "none"

\* The stop reason, or "none": the first that applies.
HardStop(ctx, policy, category) ==
  IF ctx.opted_out THEN "opt_out"
  ELSE IF 24 * ctx.days_since_failure > 10000 * policy.recovery_window_hours
       THEN "window_expired"
  ELSE IF ctx.retry_count >= policy.maximum_retries THEN "max_retries"
  ELSE IF ctx.messages_sent >= policy.maximum_messages THEN "max_messages"
  ELSE IF ctx.status = "success" \/ category = "NON_RECOVERABLE" THEN "not_recoverable"
  ELSE "none"

\* The escalation reason, or "none".
Escalation(ctx, policy) ==
  IF ctx.amount >= policy.high_value_threshold THEN "high_value"
  ELSE IF policy.human_approval_required THEN "policy_requires_approval"
  ELSE "none"

\* The order in which candidates are generated; a stable sort keeps it on ties.
Position(a) ==
  CASE a = "retry_payment" -> 1 [] a = "create_payment_link" -> 2
    [] a = "send_whatsapp" -> 3 [] a = "send_email" -> 4

\* Mutant: the cost is forgotten, the likeliest candidate wins.
RanksBefore_Likeliest(ctx, policy, p, a, b) ==
  \/ Probability(ctx, p, a) > Probability(ctx, p, b)
  \/ Probability(ctx, p, a) = Probability(ctx, p, b) /\ Position(a) <= Position(b)

\* a comes before b, or is b, in the ranking by (expected_value, probability).
RanksBefore(ctx, policy, p, a, b) ==
  LET va == ExpectedValue(ctx, policy, p, a)
      vb == ExpectedValue(ctx, policy, p, b)
      pa == Probability(ctx, p, a)
      pb == Probability(ctx, p, b)
  IN \/ va > vb
     \/ va = vb /\ pa > pb
     \/ va = vb /\ pa = pb /\ Position(a) <= Position(b)

Best(ctx, policy, p, actions) ==
  CHOOSE a \in actions : \A b \in actions : RanksBefore(ctx, policy, p, a, b)

\* _select_action, when no candidate is eligible.
Fallback(ctx) ==
  IF ctx.status \in {"failed", "abandoned"} THEN "send_email" ELSE "retry_payment"

SelectBestAction(ctx, policy, category, p) ==
  LET stop == HardStop(ctx, policy, category)
      escalate == Escalation(ctx, policy)
      eligible == Eligible(ctx, policy, category)
      Select(decision, action, stopReason, escalateReason) ==
        [decision |-> decision, action |-> action,
         stop_reason |-> stopReason, escalate_reason |-> escalateReason]
  IN IF stop # "none" THEN Select("stop", "stop", stop, "none")
     ELSE IF escalate # "none" THEN Select("escalate", "escalate", "none", escalate)
     ELSE IF ctx.status \notin {"failed", "abandoned", "pending"}
          THEN Select("stop", "stop", "not_recoverable", "none")
     ELSE IF eligible # {}
          THEN Select("recover", Best(ctx, policy, p, eligible), "none", "none")
     ELSE Select("recover", Fallback(ctx), "none", "none")

(***************************************************************************)
(* evaluate / evaluate_context: the record the caller stores on the case.  *)
(***************************************************************************)
Evaluate(in, repos) ==
  LET category == Classify(in.ctx, CustomerHistory(in.ctx, repos))
      selected == SelectBestAction(in.ctx, in.policy, category, in.p)
  IN [decision |-> selected.decision, action |-> selected.action,
      stop_reason |-> selected.stop_reason,
      escalate_reason |-> selected.escalate_reason,
      recoverability |-> category,
      expected_value |-> IF selected.action = "stop" THEN 0
                         ELSE ExpectedValue(in.ctx, in.policy, in.p, selected.action)]

-----------------------------------------------------------------------------
Undecided == [decision |-> "none"]

Init ==
  /\ input \in [ctx : Contexts, policy : Policies, p : Probabilities]
  /\ result = Undecided

\* node_decide evaluates without repositories.
NodeDecide ==
  /\ result = Undecided
  /\ result' = Evaluate(input, FALSE)
  /\ UNCHANGED input

\* A caller that passes evaluate its optional repositories.
EvaluateWithHistory ==
  /\ result = Undecided
  /\ result' = Evaluate(input, TRUE)
  /\ UNCHANGED input

Next == NodeDecide \/ EvaluateWithHistory

Spec == Init /\ [][Next]_vars
=============================================================================
