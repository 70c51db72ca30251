------------------------- MODULE DecisionProperties -------------------------
(***************************************************************************)
(* What an evaluation of the decision engine may and may not answer.       *)
(***************************************************************************)
EXTENDS DecisionEngine

Decided == result # Undecided

Recovers == Decided /\ result.decision = "recover"

\* The decisions are those the agent's model assumes for the status of the
\* transaction (PossibleDecisions in CaseStateMachine, by which PayBack stands
\* for every customer, policy, amount and probability), a recovery names an
\* action the executor can perform, and only a stop or an escalation has a reason.
DecisionPossible ==
  Decided =>
    /\ result.decision \in PossibleDecisions(input.ctx.status)
    /\ result.decision = "recover" => result.action \in OutreachAction
    /\ result.decision \in {"stop", "escalate"} => result.action = result.decision
    /\ result.decision = "stop" <=> result.stop_reason # "none"
    /\ result.decision = "escalate" <=> result.escalate_reason # "none"

\* The guardrail table of README.md (Policies & Guardrails): whatever the model
\* predicts, a recovery is decided only inside every limit of the policy, and a
\* UPI payment is never retried by the merchant.
GuardrailsRespected ==
  Recovers =>
    /\ ~input.ctx.opted_out
    /\ input.ctx.retry_count < input.policy.maximum_retries
    /\ input.ctx.messages_sent < input.policy.maximum_messages
    /\ 24 * input.ctx.days_since_failure <= 10000 * input.policy.recovery_window_hours
    /\ input.ctx.amount < input.policy.high_value_threshold
    /\ ~input.policy.human_approval_required
    /\ result.recoverability # "NON_RECOVERABLE"
    /\ input.ctx.upi => result.action # "retry_payment"

\* The limits are enforced twice, as hard stops of the engine and as eligibility
\* rules of the scorer.  They agree: the heuristic fallback, which ignores
\* eligibility, is never what chooses, so the action is a candidate the scorer
\* calls eligible.
ActionIsEligible ==
  Recovers => result.action \in Eligible(input.ctx, input.policy, result.recoverability)

\* The exact value of action a to the merchant, in 1/1000000 paise.
ExactValue(in, a) ==
  in.p * Weight(in.ctx, a) * in.ctx.amount - 1000000 * in.policy.action_costs[a]

\* The engine ranks rounded expected values of rounded probabilities. What the
\* rounding can cost is at most one paisa plus 1/10000 of the amount at risk:
\* no eligible action is worth more than that above the selected one.
NearOptimal ==
  Recovers =>
    \A b \in Eligible(input.ctx, input.policy, result.recoverability) :
      ExactValue(input, b) <= ExactValue(input, result.action)
                                + 100 * input.ctx.amount + 1000000

\* Policy q restricts in nothing more than policy r.
NoStricter(q, r) ==
  /\ q.maximum_retries >= r.maximum_retries
  /\ q.maximum_messages >= r.maximum_messages
  /\ q.recovery_window_hours >= r.recovery_window_hours
  /\ q.high_value_threshold >= r.high_value_threshold
  /\ q.human_approval_required => r.human_approval_required

\* Relaxing a policy never loses a recovery: what is recovered under a policy is
\* recovered under any policy that is no stricter, whatever its action costs.
LooserPolicyStillRecovers ==
  Recovers =>
    \A q \in Policies :
      NoStricter(q, input.policy) =>
        \A repos \in BOOLEAN :
          Evaluate([input EXCEPT !.policy = q], repos).decision = "recover"

Tier(category) ==
  CASE category = "HIGHLY_RECOVERABLE"       -> 4
    [] category = "LIKELY_RECOVERABLE"       -> 3
    [] category = "UNCERTAIN"                -> 2
    [] category = "LOW_RECOVERY_PROBABILITY" -> 1
    [] category = "NON_RECOVERABLE"          -> 0

TierOf(ctx) == Tier(Classify(ctx, CustomerHistory(ctx, TRUE)))

\* The classifier's thresholds on the success rate and on the number of earlier
\* transactions do not contradict each other: one more earlier success never
\* lowers the tier of a case, one more earlier failure never raises it.
TierFollowsHistory ==
  LET ctx == input.ctx
  IN /\ TierOf([ctx EXCEPT !.successes = @ + 1]) >= TierOf(ctx)
     /\ TierOf([ctx EXCEPT !.failures = @ + 1]) <= TierOf(ctx)

=============================================================================
