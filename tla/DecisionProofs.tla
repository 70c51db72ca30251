--------------------------- MODULE DecisionProofs ---------------------------
(***************************************************************************)
(* Proofs of the decision engine's properties for every context, policy,   *)
(* probability and history, not only those of the runs.                    *)
(***************************************************************************)
EXTENDS DecisionProperties, TLAPS

InputType == [ctx : ContextType, policy : PolicyType, p : ProbabilityType]

\* A decided result is an evaluation of the input.
DecisionInv ==
  /\ input \in InputType
  /\ result # Undecided => \E repos \in BOOLEAN : result = Evaluate(input, repos)

\* Every behaviour evaluates its input once and keeps what it got.
THEOREM Evaluated == Spec => []DecisionInv
<1>1. Init => DecisionInv
  <2>1. ASSUME NEW in \in [ctx : Contexts, policy : Policies, p : Probabilities]
        PROVE  in \in InputType
    <3>1. /\ in = [ctx |-> in.ctx, policy |-> in.policy, p |-> in.p]
          /\ in.ctx \in Contexts /\ in.policy \in Policies /\ in.p \in Probabilities
      OBVIOUS
    <3>2. in.ctx \in ContextType /\ in.policy \in PolicyType /\ in.p \in ProbabilityType
      BY <3>1, InputAssumption
    <3> QED BY <3>1, <3>2, Zenon DEF InputType
  <2> QED BY <2>1 DEF Init, DecisionInv
<1>2. DecisionInv /\ [Next]_vars => DecisionInv'
  <2> SUFFICES ASSUME DecisionInv, [Next]_vars PROVE DecisionInv'
    OBVIOUS
  <2>1. CASE NodeDecide
    BY <2>1 DEF DecisionInv, NodeDecide
  <2>2. CASE EvaluateWithHistory
    BY <2>2 DEF DecisionInv, EvaluateWithHistory
  <2>3. CASE UNCHANGED vars
    BY <2>3 DEF DecisionInv, vars
  <2> QED BY <2>1, <2>2, <2>3 DEF Next
<1> QED BY <1>1, <1>2, PTL DEF Spec

-----------------------------------------------------------------------------
(***************************************************************************)
(* Rounding.                                                               *)
(***************************************************************************)
\* Round is an integer at most half a unit away, for the two divisors used.
LEMMA RoundHundredth ==
  \A n \in Int : /\ Round(n, 100) \in Int
                 /\ 100 * Round(n, 100) <= n + 50
                 /\ n <= 100 * Round(n, 100) + 50
  BY SMT DEF Round

\* The same for the rounding of an expected value to the paisa.
LEMMA RoundPaisa ==
  \A n \in Int : /\ Round(n, 10000) \in Int
                 /\ 10000 * Round(n, 10000) <= n + 5000
                 /\ n <= 10000 * Round(n, 10000) + 5000
  BY SMT DEF Round

\* Multiplying an inequality by an amount of money.
LEMMA ScaleUp == \A x, y \in Int, m \in Nat : x <= y => x * m <= y * m
  BY SMT

\* Probabilities are natural numbers.
LEMMA ProbabilityNat == \A p \in ProbabilityType : p \in Nat
  BY DEF ProbabilityType

\* Every scored action has a conversion weight.
LEMMA WeightType ==
  \A ctx \in ContextType, a \in ScoredAction : Weight(ctx, a) \in Nat
  BY DEF Weight, ScoredAction, OutreachAction

\* The numbers the scorer computes for a candidate are integers.
LEMMA ScoreType ==
  ASSUME NEW ctx \in ContextType, NEW policy \in PolicyType, NEW p \in ProbabilityType,
         NEW a \in ScoredAction
  PROVE  /\ Probability(ctx, p, a) \in Int
         /\ ExpectedValue(ctx, policy, p, a) \in Int
         /\ policy.action_costs[a] \in Int
         /\ ctx.amount \in Nat
<1>1. policy.action_costs[a] \in Int /\ ctx.amount \in Nat
  BY DEF PolicyType, ContextType
<1>2. Weight(ctx, a) \in Nat
  BY WeightType
<1>3. p * Weight(ctx, a) \in Int
  BY <1>2 DEF ProbabilityType
<1>4. Probability(ctx, p, a) \in Int
  BY <1>3, RoundHundredth DEF Probability
<1>5. Probability(ctx, p, a) * ctx.amount - 10000 * policy.action_costs[a] \in Int
  BY <1>1, <1>4
<1> QED BY <1>1, <1>4, <1>5, RoundPaisa DEF ExpectedValue

-----------------------------------------------------------------------------
(***************************************************************************)
(* The ranking.                                                            *)
(***************************************************************************)
\* The ranking is total and transitive, so a non-empty set of candidates has a
\* first one.
LEMMA PositionType == \A a \in ScoredAction : Position(a) \in Int
<1> SUFFICES ASSUME NEW a \in ScoredAction PROVE Position(a) \in Int
  OBVIOUS
<1>1. CASE a = "retry_payment"
  BY <1>1 DEF Position
<1>2. CASE a = "create_payment_link"
  BY <1>2 DEF Position
<1>3. CASE a = "send_whatsapp"
  BY <1>3 DEF Position
<1>4. CASE a = "send_email"
  BY <1>4 DEF Position
<1> QED BY <1>1, <1>2, <1>3, <1>4 DEF ScoredAction, OutreachAction

\* Of two candidates one ranks before the other.
LEMMA RanksTotal ==
  ASSUME NEW ctx \in ContextType, NEW policy \in PolicyType, NEW p \in ProbabilityType,
         NEW a \in ScoredAction, NEW b \in ScoredAction
  PROVE  RanksBefore(ctx, policy, p, a, b) \/ RanksBefore(ctx, policy, p, b, a)
<1>1. Position(a) \in Int /\ Position(b) \in Int
  BY PositionType
<1>2. Probability(ctx, p, a) \in Int /\ ExpectedValue(ctx, policy, p, a) \in Int
  BY ScoreType
<1>3. Probability(ctx, p, b) \in Int /\ ExpectedValue(ctx, policy, p, b) \in Int
  BY ScoreType
<1> QED BY <1>1, <1>2, <1>3, SMT DEF RanksBefore

\* Ranking before is transitive.
LEMMA RanksTransitive ==
  ASSUME NEW ctx \in ContextType, NEW policy \in PolicyType, NEW p \in ProbabilityType,
         NEW a \in ScoredAction, NEW b \in ScoredAction, NEW c \in ScoredAction,
         RanksBefore(ctx, policy, p, a, b), RanksBefore(ctx, policy, p, b, c)
  PROVE  RanksBefore(ctx, policy, p, a, c)
<1>1. Position(a) \in Int /\ Position(b) \in Int /\ Position(c) \in Int
  BY PositionType
<1>2. Probability(ctx, p, a) \in Int /\ ExpectedValue(ctx, policy, p, a) \in Int
  BY ScoreType
<1>3. Probability(ctx, p, b) \in Int /\ ExpectedValue(ctx, policy, p, b) \in Int
  BY ScoreType
<1>4. Probability(ctx, p, c) \in Int /\ ExpectedValue(ctx, policy, p, c) \in Int
  BY ScoreType
<1> QED BY <1>1, <1>2, <1>3, <1>4, SMT DEF RanksBefore

\* WhatsApp is never eligible, the others are the executor's actions.
LEMMA EligibleOutreach ==
  \A ctx, policy, category : Eligible(ctx, policy, category) \subseteq OutreachAction
  BY DEF Eligible, CanUse, OutreachAction

\* The selected candidate is one of the candidates, and ranks before all of them.
LEMMA BestIsFirst ==
  ASSUME NEW ctx \in ContextType, NEW policy \in PolicyType, NEW p \in ProbabilityType,
         NEW S \in SUBSET OutreachAction, S # {}
  PROVE  /\ Best(ctx, policy, p, S) \in S
         /\ \A b \in S : RanksBefore(ctx, policy, p, Best(ctx, policy, p, S), b)
<1> DEFINE R(a, b) == RanksBefore(ctx, policy, p, a, b)
<1>1. ASSUME NEW a \in ScoredAction, NEW b \in ScoredAction PROVE R(a, b) \/ R(b, a)
  BY RanksTotal
<1>2. ASSUME NEW a \in ScoredAction, NEW b \in ScoredAction, NEW c \in ScoredAction,
             R(a, b), R(b, c)
      PROVE  R(a, c)
  BY <1>2, RanksTransitive
<1>3. \A b \in S : b \in ScoredAction
  BY DEF ScoredAction
<1>4. \E a \in S : \A b \in S : R(a, b)
  <2> HIDE DEF R
  <2>1. \A a, b \in S : \E m \in S : R(m, a) /\ R(m, b)
    BY <1>1, <1>2, <1>3
  <2>2. ASSUME NEW a \in S, NEW b \in S, NEW c \in S
        PROVE  \E m \in S : R(m, a) /\ R(m, b) /\ R(m, c)
    <3>1. PICK m \in S : R(m, a) /\ R(m, b)
      BY <2>1
    <3>2. PICK n \in S : R(n, m) /\ R(n, c)
      BY <2>1
    <3>3. R(n, a) /\ R(n, b)
      BY <3>1, <3>2, <1>2, <1>3
    <3> QED BY <3>2, <3>3
  <2>3. PICK x \in S : TRUE
    OBVIOUS
  <2> DEFINE Or(y) == IF y \in S THEN y ELSE x
  <2>4. \A b \in S : b \in {Or("retry_payment"), Or("create_payment_link"), Or("send_email")}
    BY DEF OutreachAction
  <2>5. /\ Or("retry_payment") \in S /\ Or("create_payment_link") \in S
        /\ Or("send_email") \in S
    BY <2>3
  <2> HIDE DEF Or
  <2>6. PICK m \in S : /\ R(m, Or("retry_payment"))
                       /\ R(m, Or("create_payment_link"))
                       /\ R(m, Or("send_email"))
    BY <2>2, <2>5
  <2> QED BY <2>4, <2>6
<1> QED BY <1>4 DEF Best

-----------------------------------------------------------------------------
(***************************************************************************)
(* When the engine decides to recover.                                     *)
(***************************************************************************)
\* The conditions of a recovery, which do not depend on probabilities or costs.
MayRecover(ctx, policy) ==
  /\ HardStop(ctx, policy, Classify(ctx, CustomerHistory(ctx, FALSE))) = "none"
  /\ Escalation(ctx, policy) = "none"
  /\ ctx.status \in {"failed", "abandoned", "pending"}

\* The history moves a case between tiers but never in or out of
\* NON_RECOVERABLE, so it does not change what stops the engine.
LEMMA HistoryNeverStops ==
  \A ctx, policy, h, g :
    /\ Classify(ctx, h) = "NON_RECOVERABLE" <=> Classify(ctx, g) = "NON_RECOVERABLE"
    /\ HardStop(ctx, policy, Classify(ctx, h)) = HardStop(ctx, policy, Classify(ctx, g))
<1>1. \A ctx, h, g :
        Classify(ctx, h) = "NON_RECOVERABLE" <=> Classify(ctx, g) = "NON_RECOVERABLE"
  BY DEF Classify
<1> QED BY <1>1 DEF HardStop

\* A case inside the limits always has an eligible action: e-mail.
LEMMA RecoverableIsEligible ==
  ASSUME NEW ctx \in ContextType, NEW policy \in PolicyType, NEW category,
         HardStop(ctx, policy, category) = "none"
  PROVE  "send_email" \in Eligible(ctx, policy, category)
<1>1. category # "NON_RECOVERABLE" /\ ~(ctx.messages_sent >= policy.maximum_messages)
  BY DEF HardStop
<1>2. ctx.messages_sent < policy.maximum_messages
  BY <1>1 DEF ContextType, PolicyType
<1> QED BY <1>1, <1>2 DEF Eligible, CanUse, ScoredAction, OutreachAction

\* A recovery is decided exactly when MayRecover holds, and then for the
\* best-ranked eligible action.
LEMMA RecoverCases ==
  ASSUME NEW in \in InputType, NEW repos \in BOOLEAN
  PROVE  LET r == Evaluate(in, repos)
             E == Eligible(in.ctx, in.policy, r.recoverability)
         IN /\ r.decision = "recover" <=> MayRecover(in.ctx, in.policy)
            /\ r.decision = "recover" => /\ E # {}
                                         /\ r.action = Best(in.ctx, in.policy, in.p, E)
<1> DEFINE category == Classify(in.ctx, CustomerHistory(in.ctx, repos))
           E == Eligible(in.ctx, in.policy, category)
           s == SelectBestAction(in.ctx, in.policy, category, in.p)
           r == Evaluate(in, repos)
<1>0. in.ctx \in ContextType /\ in.policy \in PolicyType
  BY DEF InputType
<1>1. r.decision = s.decision /\ r.action = s.action /\ r.recoverability = category
  BY DEF Evaluate
<1>2. HardStop(in.ctx, in.policy, category)
        = HardStop(in.ctx, in.policy, Classify(in.ctx, CustomerHistory(in.ctx, FALSE)))
  BY HistoryNeverStops
<1>3. HardStop(in.ctx, in.policy, category) = "none" => E # {}
  BY <1>0, RecoverableIsEligible
<1>4. s.decision = "recover" <=> MayRecover(in.ctx, in.policy)
  BY <1>2, Zenon DEF SelectBestAction, MayRecover
<1>5. s.decision = "recover" => E # {} /\ s.action = Best(in.ctx, in.policy, in.p, E)
  BY <1>2, <1>3, <1>4 DEF SelectBestAction, MayRecover
<1> QED BY <1>1, <1>4, <1>5

-----------------------------------------------------------------------------
(***************************************************************************)
(* The theorems.                                                           *)
(***************************************************************************)
\* A decided result, and the evaluation it is, for the non-temporal steps.
LEMMA DecidedIsEvaluation ==
  ASSUME DecisionInv, Decided
  PROVE  /\ input \in InputType
         /\ input.ctx \in ContextType /\ input.policy \in PolicyType
         /\ input.p \in ProbabilityType
         /\ \E repos \in BOOLEAN : result = Evaluate(input, repos)
  BY DEF DecisionInv, Decided, InputType

\* The selected action is eligible and first among the eligible ones.
LEMMA SelectedIsBest ==
  ASSUME DecisionInv, Recovers
  PROVE  LET E == Eligible(input.ctx, input.policy, result.recoverability)
         IN /\ result.action \in E
            /\ \A b \in E : RanksBefore(input.ctx, input.policy, input.p, result.action, b)
<1> DEFINE E == Eligible(input.ctx, input.policy, result.recoverability)
<1>0. PICK repos \in BOOLEAN : result = Evaluate(input, repos)
  BY DecidedIsEvaluation DEF Recovers
<1>1. input \in InputType /\ input.ctx \in ContextType /\ input.policy \in PolicyType
      /\ input.p \in ProbabilityType
  BY DecidedIsEvaluation DEF Recovers
<1>2. E # {} /\ result.action = Best(input.ctx, input.policy, input.p, E)
  BY <1>0, <1>1, RecoverCases DEF Recovers
<1>3. E \in SUBSET OutreachAction
  BY EligibleOutreach
<1> QED BY <1>1, <1>2, <1>3, BestIsFirst

\* The hard stops and the scorer's eligibility rules agree: the heuristic
\* fallback of _select_best_action never chooses.
THEOREM ActionIsEligibleAlways == Spec => []ActionIsEligible
<1>1. DecisionInv => ActionIsEligible
  BY SelectedIsBest DEF ActionIsEligible
<1> QED BY <1>1, Evaluated, PTL

\* Every decision is one that PayBack assumes possible for the transaction.
THEOREM DecisionPossibleAlways == Spec => []DecisionPossible
<1>1. DecisionInv => DecisionPossible
  <2> SUFFICES ASSUME DecisionInv, Decided PROVE DecisionPossible
    BY DEF DecisionPossible
  <2>0. PICK repos \in BOOLEAN : result = Evaluate(input, repos)
    BY DecidedIsEvaluation
  <2>1. input \in InputType /\ input.ctx \in ContextType
    BY DecidedIsEvaluation
  <2> DEFINE category == Classify(input.ctx, CustomerHistory(input.ctx, repos))
             stop == HardStop(input.ctx, input.policy, category)
             escalate == Escalation(input.ctx, input.policy)
             s == SelectBestAction(input.ctx, input.policy, category, input.p)
  <2>2. /\ result.decision = s.decision /\ result.action = s.action
        /\ result.stop_reason = s.stop_reason
        /\ result.escalate_reason = s.escalate_reason
    BY <2>0 DEF Evaluate
  <2>3. result.decision = "recover" => result.action \in OutreachAction
    BY SelectedIsBest, EligibleOutreach DEF Recovers
  <2> HIDE DEF category
  <2>4. input.ctx.status = "success" => stop # "none"
    BY DEF HardStop
  <2> HIDE DEF stop, escalate
  <2>5. CASE stop # "none"
    BY <2>2, <2>5, <2>3 DEF SelectBestAction, DecisionPossible, PossibleDecisions, stop
  <2>6. CASE stop = "none" /\ escalate # "none"
    BY <2>2, <2>4, <2>6, <2>3 DEF SelectBestAction, DecisionPossible, PossibleDecisions, stop, escalate
  <2>7. CASE stop = "none" /\ escalate = "none"
               /\ input.ctx.status \notin {"failed", "abandoned", "pending"}
    BY <2>2, <2>4, <2>7, <2>3 DEF SelectBestAction, DecisionPossible, PossibleDecisions, stop, escalate
  <2>8. CASE stop = "none" /\ escalate = "none"
               /\ input.ctx.status \in {"failed", "abandoned", "pending"}
    BY <2>2, <2>8, <2>3 DEF SelectBestAction, DecisionPossible, PossibleDecisions, stop, escalate
  <2> QED BY <2>5, <2>6, <2>7, <2>8
<1> QED BY <1>1, Evaluated, PTL

\* Whatever the model predicts, a recovery is inside every limit of the policy.
THEOREM GuardrailsRespectedAlways == Spec => []GuardrailsRespected
<1>1. DecisionInv => GuardrailsRespected
  <2> SUFFICES ASSUME DecisionInv, Recovers PROVE GuardrailsRespected
    BY DEF GuardrailsRespected
  <2>0. PICK repos \in BOOLEAN : result = Evaluate(input, repos)
    BY DecidedIsEvaluation DEF Recovers
  <2>1. input \in InputType /\ input.ctx \in ContextType /\ input.policy \in PolicyType
    BY DecidedIsEvaluation DEF Recovers
  <2>2. result.recoverability = Classify(input.ctx, CustomerHistory(input.ctx, repos))
    BY <2>0 DEF Evaluate
  <2>3. MayRecover(input.ctx, input.policy)
    BY <2>0, <2>1, RecoverCases DEF Recovers
  <2>4. HardStop(input.ctx, input.policy, result.recoverability) = "none"
    <3>1. HardStop(input.ctx, input.policy, Classify(input.ctx, CustomerHistory(input.ctx, repos)))
            = HardStop(input.ctx, input.policy, Classify(input.ctx, CustomerHistory(input.ctx, FALSE)))
      BY HistoryNeverStops
    <3> QED BY <3>1, <2>2, <2>3 DEF MayRecover
  <2>5. /\ input.ctx.days_since_failure \in Nat /\ input.ctx.retry_count \in Nat
        /\ input.ctx.messages_sent \in Nat /\ input.ctx.amount \in Nat
    BY <2>1 DEF ContextType
  <2>6. /\ input.policy.maximum_retries \in Int /\ input.policy.maximum_messages \in Int
        /\ input.policy.recovery_window_hours \in Int
        /\ input.policy.high_value_threshold \in Int
    BY <2>1 DEF PolicyType
  <2>7. /\ ~input.ctx.opted_out
        /\ input.ctx.retry_count < input.policy.maximum_retries
        /\ input.ctx.messages_sent < input.policy.maximum_messages
        /\ 24 * input.ctx.days_since_failure <= 10000 * input.policy.recovery_window_hours
        /\ result.recoverability # "NON_RECOVERABLE"
    BY <2>4, <2>5, <2>6 DEF HardStop
  <2>8. /\ input.ctx.amount < input.policy.high_value_threshold
        /\ ~input.policy.human_approval_required
    BY <2>3, <2>5, <2>6 DEF MayRecover, Escalation
  <2>9. input.ctx.upi => result.action # "retry_payment"
    BY SelectedIsBest DEF Eligible, CanUse
  <2> QED BY <2>7, <2>8, <2>9 DEF GuardrailsRespected
<1> QED BY <1>1, Evaluated, PTL

\* Relaxing a policy keeps the conditions of a recovery.
LEMMA LooserMayRecover ==
  ASSUME NEW ctx \in ContextType, NEW q \in PolicyType, NEW r \in PolicyType,
         NoStricter(q, r), MayRecover(ctx, r)
  PROVE  MayRecover(ctx, q)
<1>1. /\ ctx.days_since_failure \in Nat /\ ctx.retry_count \in Nat
      /\ ctx.messages_sent \in Nat /\ ctx.amount \in Nat
  BY DEF ContextType
<1>2. /\ q.maximum_retries \in Int /\ q.maximum_messages \in Int
      /\ q.recovery_window_hours \in Int /\ q.high_value_threshold \in Int
      /\ q.human_approval_required \in BOOLEAN
  BY DEF PolicyType
<1>3. /\ r.maximum_retries \in Int /\ r.maximum_messages \in Int
      /\ r.recovery_window_hours \in Int /\ r.high_value_threshold \in Int
      /\ r.human_approval_required \in BOOLEAN
  BY DEF PolicyType
<1> DEFINE category == Classify(ctx, CustomerHistory(ctx, FALSE))
<1> HIDE DEF category
<1>4. HardStop(ctx, r, category) = "none"
  BY DEF MayRecover, category
<1>5. HardStop(ctx, q, category) = "none"
  BY <1>1, <1>2, <1>3, <1>4 DEF HardStop, NoStricter
<1>6. Escalation(ctx, q) = "none"
  BY <1>1, <1>2, <1>3 DEF MayRecover, Escalation, NoStricter
<1> QED BY <1>5, <1>6 DEF MayRecover, category

\* What is recovered under a policy is recovered under any that is no stricter.
THEOREM LooserPolicyAlways == Spec => []LooserPolicyStillRecovers
<1>1. DecisionInv => LooserPolicyStillRecovers
  <2> SUFFICES ASSUME DecisionInv, Recovers,
                      NEW q \in Policies, NoStricter(q, input.policy),
                      NEW repos \in BOOLEAN
               PROVE  Evaluate([input EXCEPT !.policy = q], repos).decision = "recover"
    BY DEF LooserPolicyStillRecovers
  <2> DEFINE in == [input EXCEPT !.policy = q]
  <2>1. input \in InputType /\ input.ctx \in ContextType /\ input.policy \in PolicyType
    BY DecidedIsEvaluation DEF Recovers
  <2>2. q \in PolicyType
    BY InputAssumption
  <2>3. in \in InputType /\ in.ctx = input.ctx /\ in.policy = q
    BY <2>1, <2>2 DEF InputType
  <2>4. MayRecover(input.ctx, input.policy)
    BY <2>1, DecidedIsEvaluation, RecoverCases DEF Recovers
  <2>5. MayRecover(in.ctx, in.policy)
    BY <2>1, <2>2, <2>3, <2>4, LooserMayRecover
  <2> HIDE DEF in
  <2>6. Evaluate(in, repos).decision = "recover"
    BY <2>3, <2>5, RecoverCases
  <2> QED BY <2>6 DEF in
<1> QED BY <1>1, Evaluated, PTL

\* The exact value of an action is an integer in its unit.
LEMMA ExactValueType ==
  ASSUME NEW in \in InputType, NEW a \in ScoredAction
  PROVE  ExactValue(in, a) \in Int
<1>0. in.ctx \in ContextType /\ in.policy \in PolicyType /\ in.p \in ProbabilityType
  BY DEF InputType
<1>1. Weight(in.ctx, a) \in Nat /\ in.ctx.amount \in Nat /\ in.policy.action_costs[a] \in Int
  BY <1>0, WeightType, ScoreType
<1>2. in.p \in Nat
  BY <1>0, ProbabilityNat
<1>3. in.p * Weight(in.ctx, a) \in Int
  BY <1>1, <1>2
<1>4. in.p * Weight(in.ctx, a) * in.ctx.amount \in Int
  BY <1>1, <1>3
<1> QED BY <1>1, <1>4 DEF ExactValue

\* How far the rounded expected value is from the exact one: half a paisa for
\* itself and 1/20000 of the amount for the rounded probability.
LEMMA RoundingError ==
  ASSUME NEW in \in InputType, NEW a \in ScoredAction
  PROVE  LET v == 1000000 * ExpectedValue(in.ctx, in.policy, in.p, a)
             e == 50 * in.ctx.amount + 500000
         IN v <= ExactValue(in, a) + e /\ ExactValue(in, a) <= v + e
<1>0. in.ctx \in ContextType /\ in.policy \in PolicyType /\ in.p \in ProbabilityType
  BY DEF InputType
<1> DEFINE m == in.ctx.amount
           c == in.policy.action_costs[a]
           w == in.p * Weight(in.ctx, a)
           q == Probability(in.ctx, in.p, a)
           v == ExpectedValue(in.ctx, in.policy, in.p, a)
<1>1. m \in Nat /\ c \in Int /\ q \in Int /\ v \in Int
  BY <1>0, ScoreType
<1>2. w \in Int
  <2>1. Weight(in.ctx, a) \in Nat
    BY <1>0, WeightType
  <2>2. in.p \in Nat
    BY <1>0, ProbabilityNat
  <2> QED BY <2>1, <2>2
<1>3. 100 * q <= w + 50 /\ w <= 100 * q + 50
  BY <1>2, RoundHundredth DEF Probability
<1>4. q * m \in Int /\ w * m \in Int
  BY <1>1, <1>2
<1>5. 10000 * v <= q * m - 10000 * c + 5000 /\ q * m - 10000 * c <= 10000 * v + 5000
  <2>1. q * m - 10000 * c \in Int
    BY <1>1, <1>4
  <2>2. v = Round(q * m - 10000 * c, 10000)
    BY DEF ExpectedValue
  <2> HIDE DEF m, c, w, q, v
  <2> QED BY <2>1, <2>2, RoundPaisa
<1>6. ExactValue(in, a) = w * m - 1000000 * c
  BY DEF ExactValue
<1> HIDE DEF m, c, w, q, v
<1>7. (100 * q) * m <= (w + 50) * m /\ w * m <= (100 * q + 50) * m
  BY <1>1, <1>2, <1>3, ScaleUp
<1>8. /\ (100 * q) * m = 100 * (q * m) /\ (w + 50) * m = w * m + 50 * m
      /\ (100 * q + 50) * m = 100 * (q * m) + 50 * m
  BY <1>1, <1>2
<1>9. 1000000 * v <= (w * m - 1000000 * c) + (50 * m + 500000)
  BY <1>1, <1>4, <1>5, <1>7, <1>8
<1>10. w * m - 1000000 * c <= 1000000 * v + (50 * m + 500000)
  BY <1>1, <1>4, <1>5, <1>7, <1>8
<1> QED BY <1>6, <1>9, <1>10 DEF m, v

\* Ranking rounded values costs the merchant at most one paisa plus 1/10000 of
\* the amount at risk.
THEOREM NearOptimalAlways == Spec => []NearOptimal
<1>1. DecisionInv => NearOptimal
  <2> SUFFICES ASSUME DecisionInv, Recovers,
                      NEW b \in Eligible(input.ctx, input.policy, result.recoverability)
               PROVE  ExactValue(input, b) <= ExactValue(input, result.action)
                                                + 100 * input.ctx.amount + 1000000
    BY DEF NearOptimal
  <2> DEFINE a == result.action
             Value(x) == ExpectedValue(input.ctx, input.policy, input.p, x)
  <2>1. /\ input \in InputType /\ input.ctx \in ContextType
        /\ input.policy \in PolicyType /\ input.p \in ProbabilityType
    BY DecidedIsEvaluation DEF Recovers
  <2>2. a \in ScoredAction /\ b \in ScoredAction
    BY SelectedIsBest DEF Eligible
  <2>3. RanksBefore(input.ctx, input.policy, input.p, a, b)
    BY SelectedIsBest
  <2>4. Value(a) \in Int /\ Value(b) \in Int /\ input.ctx.amount \in Nat
    BY <2>1, <2>2, ScoreType
  <2>5. Value(b) <= Value(a)
    BY <2>3, <2>4 DEF RanksBefore
  <2>6. /\ ExactValue(input, b) <= 1000000 * Value(b) + (50 * input.ctx.amount + 500000)
        /\ 1000000 * Value(a) <= ExactValue(input, a) + (50 * input.ctx.amount + 500000)
    BY <2>1, <2>2, RoundingError
  <2>7. ExactValue(input, a) \in Int /\ ExactValue(input, b) \in Int
    BY <2>1, <2>2, ExactValueType
  <2> HIDE DEF a, Value
  <2>8. ExactValue(input, b) <= ExactValue(input, a) + 100 * input.ctx.amount + 1000000
    BY <2>4, <2>5, <2>6, <2>7
  <2> QED BY <2>8 DEF a
<1> QED BY <1>1, Evaluated, PTL

-----------------------------------------------------------------------------
(***************************************************************************)
(* The tier of a case and the history of its customer.                     *)
(***************************************************************************)
\* Euclidean division.
LEMMA Division ==
  ASSUME NEW n \in Int, NEW d \in Int, d > 0
  PROVE  /\ n \div d \in Int /\ n % d \in Int /\ 0 <= n % d /\ n % d < d
         /\ n = d * (n \div d) + (n % d)
<1>1. \A k \in Int, c \in Int : c > 0 => k = c * (k \div c) + (k % c)
  BY SMT
<1>2. n \div d \in Int /\ n % d \in Int /\ 0 <= n % d /\ n % d < d
  BY SMT
<1>3. n = d * (n \div d) + (n % d)
  BY <1>1, Zenon
<1> QED BY <1>2, <1>3

\* A larger ratio is not rounded to a smaller number.
LEMMA RoundMonotone ==
  ASSUME NEW n \in Int, NEW d \in Int, NEW m \in Int, NEW e \in Int, d > 0, e > 0,
         n * e <= m * d
  PROVE  /\ Round(n, d) \in Int /\ Round(m, e) \in Int
         /\ Round(n, d) <= Round(m, e)
<1>1. PICK q \in Int, r \in Int : /\ q = n \div d /\ r = n % d
                                  /\ 0 <= r /\ r < d /\ n = d * q + r
  BY Division
<1>2. PICK p \in Int, s \in Int : /\ p = m \div e /\ s = m % e
                                  /\ 0 <= s /\ s < e /\ m = e * p + s
  BY Division
<1>3. /\ Round(n, d) = IF 2 * r < d \/ (2 * r = d /\ q % 2 = 0) THEN q ELSE q + 1
      /\ Round(m, e) = IF 2 * s < e \/ (2 * s = e /\ p % 2 = 0) THEN p ELSE p + 1
  BY <1>1, <1>2 DEF Round
<1>4. /\ Round(n, d) \in Int /\ Round(n, d) <= q + 1
      /\ Round(m, e) \in Int /\ p <= Round(m, e)
  BY <1>3
<1>5. n * e = (d * e) * q + r * e /\ m * d = (d * e) * p + s * d
  BY <1>1, <1>2
<1>6. CASE p < q
  <2>1. (d * e) * (p + 1) <= (d * e) * q
    BY <1>6
  <2>2. s * d < d * e /\ 0 <= r * e
    BY <1>1, <1>2
  <2>3. (d * e) * (p + 1) = (d * e) * p + d * e
    OBVIOUS
  <2> QED BY <1>5, <2>1, <2>2, <2>3
<1>7. CASE q < p
  BY <1>4, <1>7
<1>8. CASE p = q
  <2>1. r * e <= s * d
    BY <1>5, <1>8
  <2>2. ASSUME 2 * r >= d PROVE 2 * s >= e
    <3>1. d * e <= (2 * r) * e
      BY <2>2
    <3>2. (2 * s) * d >= e * d
      BY <2>1, <3>1
    <3> QED BY <3>2
  <2>3. ASSUME 2 * r > d PROVE 2 * s > e
    <3>1. d * e < (2 * r) * e
      BY <2>3
    <3>2. (2 * s) * d > e * d
      BY <2>1, <3>1
    <3> QED BY <3>2
  <2> QED BY <1>1, <1>2, <1>3, <1>8, <2>2, <2>3
<1> QED BY <1>6, <1>7, <1>8

\* The success rate of s successes among t earlier transactions.
Rate(s, t) == IF t > 0 THEN Round(10000 * s, t) ELSE 0

\* A success never lowers the rate, a failure never raises it.
LEMMA RateFollows ==
  ASSUME NEW s \in Nat, NEW t \in Nat, s <= t
  PROVE  /\ Rate(s, t) \in Int /\ Rate(s + 1, t + 1) \in Int /\ Rate(s, t + 1) \in Int
         /\ Rate(s, t) <= Rate(s + 1, t + 1)
         /\ Rate(s, t + 1) <= Rate(s, t)
<1>1. CASE t = 0
  <2>1. Round(10000, 1) = 10000 /\ Round(0, 1) = 0
    BY DEF Round
  <2> QED BY <1>1, <2>1 DEF Rate
<1>2. CASE t > 0
  <2> DEFINE n == 10000 * s
             m == 10000 * (s + 1)
             u == t + 1
  <2>1. n \in Int /\ m \in Int /\ u \in Int /\ u > 0 /\ t \in Int
    OBVIOUS
  <2>2. n * u <= m * t
    <3>1. n * u = 10000 * (s * t) + 10000 * s /\ m * t = 10000 * (s * t) + 10000 * t
      OBVIOUS
    <3>2. s * t \in Int
      OBVIOUS
    <3> HIDE DEF n, m, u
    <3> QED BY <3>1, <3>2
  <2>3. n * t <= n * u
    <3>1. n * u = n * t + n /\ n * t \in Int /\ n >= 0
      OBVIOUS
    <3> HIDE DEF n, u
    <3> QED BY <2>1, <3>1
  <2>4. Rate(s, t) = Round(n, t) /\ Rate(s + 1, t + 1) = Round(m, u) /\ Rate(s, t + 1) = Round(n, u)
    BY <1>2 DEF Rate
  <2> HIDE DEF n, m, u
  <2>5. Round(n, t) \in Int /\ Round(m, u) \in Int /\ Round(n, t) <= Round(m, u)
    BY <1>2, <2>1, <2>2, RoundMonotone
  <2>6. Round(n, u) \in Int /\ Round(n, u) <= Round(n, t)
    BY <1>2, <2>1, <2>3, RoundMonotone
  <2> QED BY <2>4, <2>5, <2>6
<1> QED BY <1>1, <1>2

\* The rates of two and of three transactions, where the thresholds on their
\* number and on the rate meet.
LEMMA RateOfFew ==
  ASSUME NEW s \in Nat
  PROVE  /\ s >= 1 => Rate(s, 2) >= 5000
         /\ s <= 1 => Rate(s, 2) <= 5000
         /\ s >= 1 => Rate(s, 3) >= 3333
  BY DEF Rate, Round

\* The conditions of the classifier, on the case and on the history.
Barred(ctx)      == ctx.opted_out \/ ctx.reason = "permanent"
Temporary(ctx)   == ctx.reason = "temporary"
High(h)          == h.previous_transactions >= 2 /\ h.historical_success_rate >= 7000
Low(h)           == h.previous_transactions >= 3 /\ h.historical_success_rate < 3000
Repeated(ctx, h) == ctx.retry_count >= 2 \/ h.previous_failures >= 3

\* The classifier, in these terms.
LEMMA ClassifyCases ==
  ASSUME NEW ctx, NEW h
  PROVE  Classify(ctx, h) =
           IF Barred(ctx) THEN "NON_RECOVERABLE"
           ELSE IF Temporary(ctx) /\ High(h) THEN "HIGHLY_RECOVERABLE"
           ELSE IF Temporary(ctx) /\ Acceptable(h) THEN "LIKELY_RECOVERABLE"
           ELSE IF Low(h) \/ Repeated(ctx, h) THEN "LOW_RECOVERY_PROBABILITY"
           ELSE "UNCERTAIN"
  BY Zenon DEF Classify, Barred, Temporary, High, Low, Repeated

\* A case with the better history is in no lower tier.
LEMMA BetterHistory ==
  ASSUME NEW ctx, NEW c, NEW h, NEW g,
         c.opted_out = ctx.opted_out, c.reason = ctx.reason, c.retry_count = ctx.retry_count,
         High(h) => High(g), Acceptable(h) => Acceptable(g), Low(g) => Low(h),
         g.previous_failures >= 3 => h.previous_failures >= 3
  PROVE  Tier(Classify(c, g)) >= Tier(Classify(ctx, h))
<1> DEFINE x == Classify(ctx, h)
           y == Classify(c, g)
<1>1. /\ x = IF Barred(ctx) THEN "NON_RECOVERABLE"
             ELSE IF Temporary(ctx) /\ High(h) THEN "HIGHLY_RECOVERABLE"
             ELSE IF Temporary(ctx) /\ Acceptable(h) THEN "LIKELY_RECOVERABLE"
             ELSE IF Low(h) \/ Repeated(ctx, h) THEN "LOW_RECOVERY_PROBABILITY"
             ELSE "UNCERTAIN"
      /\ y = IF Barred(c) THEN "NON_RECOVERABLE"
             ELSE IF Temporary(c) /\ High(g) THEN "HIGHLY_RECOVERABLE"
             ELSE IF Temporary(c) /\ Acceptable(g) THEN "LIKELY_RECOVERABLE"
             ELSE IF Low(g) \/ Repeated(c, g) THEN "LOW_RECOVERY_PROBABILITY"
             ELSE "UNCERTAIN"
  BY ClassifyCases, Zenon
<1>2. (Barred(c) <=> Barred(ctx)) /\ (Temporary(c) <=> Temporary(ctx))
  BY Zenon DEF Barred, Temporary
<1>3. (High(h) => High(g)) /\ (Low(g) => Low(h)) /\ (Repeated(c, g) => Repeated(ctx, h))
  BY Zenon DEF Repeated
<1>4. /\ Tier("NON_RECOVERABLE") = 0 /\ Tier("LOW_RECOVERY_PROBABILITY") = 1
      /\ Tier("UNCERTAIN") = 2 /\ Tier("LIKELY_RECOVERABLE") = 3
      /\ Tier("HIGHLY_RECOVERABLE") = 4
  BY DEF Tier
<1> HIDE DEF x, y
<1>5. Tier(y) >= Tier(x)
  <2>1. CASE Barred(ctx)
    BY <1>1, <1>2, <1>3, <1>4, <2>1
  <2>2. CASE ~Barred(ctx) /\ Temporary(ctx) /\ High(h)
    BY <1>1, <1>2, <1>3, <1>4, <2>2
  <2>3. CASE ~Barred(ctx) /\ Temporary(ctx) /\ ~High(h) /\ Acceptable(h)
    BY <1>1, <1>2, <1>3, <1>4, <2>3
  <2>4. CASE ~Barred(ctx) /\ ~(Temporary(ctx) /\ (High(h) \/ Acceptable(h)))
    BY <1>1, <1>2, <1>3, <1>4, <2>4
  <2> QED BY <2>1, <2>2, <2>3, <2>4
<1> QED BY <1>5 DEF x, y

\* A tier is a number.
LEMMA TierType == \A ctx, h : Tier(Classify(ctx, h)) \in Int
<1>1. \A ctx, h : Classify(ctx, h) \in {"NON_RECOVERABLE", "LOW_RECOVERY_PROBABILITY", "UNCERTAIN",
                                      "LIKELY_RECOVERABLE", "HIGHLY_RECOVERABLE"}
  BY DEF Classify
<1> QED BY <1>1 DEF Tier

\* The history an evaluation with repositories sees.
LEMMA HistoryOf ==
  ASSUME NEW ctx \in ContextType
  PROVE  LET t == ctx.successes + ctx.failures + ctx.others
             h == CustomerHistory(ctx, TRUE)
         IN /\ h.previous_transactions = t /\ h.previous_failures = ctx.failures
            /\ h.historical_success_rate = Rate(ctx.successes, t)
  BY DEF CustomerHistory, Rate

\* One more earlier success never lowers the tier of a case, one more earlier
\* failure never raises it, for every history and not only the short ones.
THEOREM TierFollowsHistoryAlways == Spec => []TierFollowsHistory
<1>1. ASSUME DecisionInv PROVE TierFollowsHistory
  <2>1. PICK ctx \in ContextType : ctx = input.ctx
    BY <1>1 DEF DecisionInv, InputType
  <2>2. PICK s \in Nat, f \in Nat, o \in Nat :
          s = ctx.successes /\ f = ctx.failures /\ o = ctx.others
    BY DEF ContextType
  <2> DEFINE t == s + f + o
             won == [ctx EXCEPT !.successes = @ + 1]
             lost == [ctx EXCEPT !.failures = @ + 1]
             h == CustomerHistory(ctx, TRUE)
             g == CustomerHistory(won, TRUE)
             k == CustomerHistory(lost, TRUE)
  <2>3. t \in Nat /\ s <= t
    OBVIOUS
  <2>4. /\ won \in ContextType /\ won.successes = s + 1 /\ won.failures = f /\ won.others = o
        /\ won.opted_out = ctx.opted_out /\ won.reason = ctx.reason
        /\ won.retry_count = ctx.retry_count
    BY <2>2 DEF ContextType
  <2>5. /\ lost \in ContextType /\ lost.successes = s /\ lost.failures = f + 1 /\ lost.others = o
        /\ lost.opted_out = ctx.opted_out /\ lost.reason = ctx.reason
        /\ lost.retry_count = ctx.retry_count
    BY <2>2 DEF ContextType
  <2> HIDE DEF won, lost
  <2>6. /\ h.previous_transactions = t /\ h.previous_failures = f
        /\ h.historical_success_rate = Rate(s, t)
    BY <2>2, HistoryOf
  <2>7. /\ g.previous_transactions = t + 1 /\ g.previous_failures = f
        /\ g.historical_success_rate = Rate(s + 1, t + 1)
    <3>1. won.successes + won.failures + won.others = t + 1
      BY <2>4
    <3> QED BY <2>4, <3>1, HistoryOf
  <2>8. /\ k.previous_transactions = t + 1 /\ k.previous_failures = f + 1
        /\ k.historical_success_rate = Rate(s, t + 1)
    <3>1. lost.successes + lost.failures + lost.others = t + 1
      BY <2>5
    <3> QED BY <2>5, <3>1, HistoryOf
  <2>9. /\ Rate(s, t) \in Int /\ Rate(s + 1, t + 1) \in Int /\ Rate(s, t + 1) \in Int
        /\ Rate(s, t) <= Rate(s + 1, t + 1) /\ Rate(s, t + 1) <= Rate(s, t)
    BY <2>3, RateFollows
  <2>10. /\ t = 1 => Rate(s + 1, t + 1) >= 5000 /\ Rate(s, t + 1) <= 5000
         /\ t = 2 => Rate(s + 1, t + 1) >= 3333
    <3>1. t = 1 => Rate(s + 1, 2) >= 5000 /\ Rate(s, 2) <= 5000
      BY <2>3, RateOfFew
    <3>2. t = 2 => Rate(s + 1, 3) >= 3333
      BY <2>3, RateOfFew
    <3> HIDE DEF t
    <3> QED BY <3>1, <3>2
  <2> HIDE DEF t, h, g, k
  <2>11. Tier(Classify(won, g)) >= Tier(Classify(ctx, h))
    <3>1. High(h) => High(g)
      BY <2>3, <2>6, <2>7, <2>9 DEF High
    <3>2. Acceptable(h) => Acceptable(g)
      BY <2>3, <2>6, <2>7, <2>9, <2>10 DEF Acceptable
    <3>3. Low(g) => Low(h)
      BY <2>3, <2>6, <2>7, <2>9, <2>10 DEF Low
    <3>4. g.previous_failures >= 3 => h.previous_failures >= 3
      BY <2>6, <2>7
    <3> QED BY <2>4, <3>1, <3>2, <3>3, <3>4, BetterHistory
  <2>12. Tier(Classify(ctx, h)) >= Tier(Classify(lost, k))
    <3>1. High(k) => High(h)
      BY <2>3, <2>6, <2>8, <2>9, <2>10 DEF High
    <3>2. Acceptable(k) => Acceptable(h)
      BY <2>3, <2>6, <2>8, <2>9, <2>10 DEF Acceptable
    <3>3. Low(h) => Low(k)
      BY <2>3, <2>6, <2>8, <2>9 DEF Low
    <3>4. h.previous_failures >= 3 => k.previous_failures >= 3
      BY <2>6, <2>8
    <3> QED BY <2>5, <3>1, <3>2, <3>3, <3>4, BetterHistory
  <2>13. /\ TierOf(won) >= TierOf(ctx) /\ TierOf(ctx) >= TierOf(lost)
         /\ TierOf(ctx) \in Int /\ TierOf(lost) \in Int
    BY <2>11, <2>12, TierType DEF TierOf, h, g, k
  <2> QED BY <2>1, <2>13 DEF TierFollowsHistory, won, lost
<1> QED BY <1>1, Evaluated, PTL
=============================================================================
