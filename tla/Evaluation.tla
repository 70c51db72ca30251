----------------------------- MODULE Evaluation -----------------------------
(***************************************************************************)
(* The benchmark of backend/app/evaluation: strategies choose an action    *)
(* for every case of a synthetic data set, and a simulator decides with a  *)
(* seeded random generator whether the customer pays.  Each strategy gets  *)
(* a simulator of its own with the same seed, so all of them see the same  *)
(* rolls - in the order in which they use them.                            *)
(*                                                                         *)
(* Rolls and efficiencies are in 1/100, money in paise.  What PayBack's    *)
(* decision engine chooses is part of the input (module DecisionEngine     *)
(* models how); a customer who opted out is always left alone.             *)
(***************************************************************************)
EXTENDS Integers, Sequences, FiniteSets

Strategies == {"baseline", "rules", "payback"}

BenchAction == {"retry_payment", "create_payment_link", "send_whatsapp", "send_email",
                "escalate", "stop"}

\* SyntheticCase: nobody who opted out would pay, or abandoned a checkout.
SyntheticCase ==
  {c \in [amount : Nat, willing : BOOLEAN, opted_out : BOOLEAN, abandoned : BOOLEAN,
          upi : BOOLEAN] : c.opted_out => ~c.willing /\ ~c.abandoned}

\* DEFAULT_CHANNEL_EFFICIENCY.
Efficiency(a) ==
  CASE a = "create_payment_link" -> 85
    [] a = "send_whatsapp" -> 75
    [] a = "retry_payment" -> 70
    [] a = "send_email" -> 55
    [] a = "escalate" -> 80
    [] a = "stop" -> 0

\* Policy.action_costs by default.
Cost(a) ==
  CASE a = "create_payment_link" -> 500
    [] a = "send_whatsapp" -> 100
    [] a = "retry_payment" -> 200
    [] a = "send_email" -> 20
    [] a = "escalate" -> 1500
    [] a = "stop" -> 0

RuleBased(c) ==
  CASE c.abandoned -> "send_whatsapp"
    [] ~c.abandoned /\ ~c.upi -> "retry_payment"
    [] ~c.abandoned /\ c.upi -> "create_payment_link"

\* Strategy.decide on the i-th case.
Decide(strategy, in, i) ==
  LET c == in.dataset[i]
  IN CASE c.opted_out -> "stop"
       [] ~c.opted_out /\ strategy = "baseline" -> "retry_payment"
       [] ~c.opted_out /\ strategy = "rules" -> RuleBased(c)
       [] ~c.opted_out /\ strategy = "payback" -> in.chosen[i]

\* Mutant: the customer's intent is looked at after the roll.
UsesRoll_Contacted(c, a) == a # "stop"

\* simulate_outcome takes a roll only for a customer who would pay and is not
\* left alone.
UsesRoll(c, a) == a # "stop" /\ c.willing

Zero == [used |-> 0, wins |-> {}, recovered |-> 0, costs |-> 0,
         stops |-> 0, escalations |-> 0, unnecessary |-> 0]

One(condition) == IF condition THEN 1 ELSE 0

\* The body of the loop over the cases: the i-th case, after the counters m.
Counted(strategy, in, m, i) ==
  LET c == in.dataset[i]
      a == Decide(strategy, in, i)
      used == m.used + One(UsesRoll(c, a))
      win == c.willing /\ UsesRoll(c, a) /\ in.rolls[used] < Efficiency(a)
  IN [used        |-> used,
      wins        |-> IF win THEN m.wins \cup {i} ELSE m.wins,
      recovered   |-> m.recovered + IF win THEN c.amount ELSE 0,
      costs       |-> m.costs + Cost(a),
      stops       |-> m.stops + One(a = "stop"),
      escalations |-> m.escalations + One(a = "escalate"),
      unnecessary |-> m.unnecessary + One(~c.willing /\ a # "stop")]

\* The counters after the first i cases.
Tally(strategy, in) ==
  LET upto[i \in 0 .. Len(in.dataset)] ==
        IF i = 0 THEN Zero ELSE Counted(strategy, in, upto[i - 1], i)
  IN upto

\* evaluate_strategy
Evaluate(strategy, in) == Tally(strategy, in)[Len(in.dataset)]

\* ComparisonReport sets PayBack beside the baseline; the rules are a third
\* strategy of the package that callers evaluate the same way.
Compare(in) == [s \in Strategies |-> Evaluate(s, in)]
=============================================================================
