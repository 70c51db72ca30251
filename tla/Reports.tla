------------------------------- MODULE Reports -------------------------------
(***************************************************************************)
(* The pure parts of PayBack beside the decision engine: the message a     *)
(* dispatch sends, the plan that reconciles merchants, and the comparison  *)
(* of strategies.  A behaviour picks one input of one of them and computes *)
(* its answer.                                                             *)
(***************************************************************************)
EXTENDS Delivery, Reconciliation, Evaluation

CONSTANTS
  Raws,        \* what a language model may answer, None when it does not
  Footprints,  \* lists of merchants with what they own
  Datasets,    \* lists of synthetic cases
  Rolls,       \* what the random generator may give
  Choices      \* actions PayBack's engine may choose

VARIABLES input, answer

vars == <<input, answer>>

NoAnswer == None

ASSUME ReportsAssumption ==
  /\ None \notin Text /\ Raws \subseteq Text \cup {None}
  /\ \A fps \in Footprints :
       /\ fps \in Seq(Footprint) /\ fps # <<>>
       /\ \A i, j \in DOMAIN fps : fps[i].id = fps[j].id => i = j
  /\ Datasets \subseteq Seq(SyntheticCase) /\ Rolls \subseteq Nat
  /\ Choices \subseteq BenchAction

Benchmarks ==
  UNION {[dataset : {d}, rolls : [DOMAIN d -> Rolls], chosen : [DOMAIN d -> Choices]] :
           d \in Datasets}

Init ==
  /\ \/ input \in [of : {"dispatch"}, dispatch : Dispatches(Raws)]
     \/ input \in [of : {"plan"}, footprints : Footprints, target : 0 .. 1]
     \/ input \in [of : {"comparison"}, benchmark : Benchmarks]
  /\ answer = NoAnswer

SendMessage ==
  /\ answer = NoAnswer /\ input.of = "dispatch"
  /\ answer' = Dispatch(input.dispatch)
  /\ UNCHANGED input

BuildPlan ==
  /\ answer = NoAnswer /\ input.of = "plan"
  /\ answer' = Plan(input.footprints, input.target)
  /\ UNCHANGED input

CompareStrategies ==
  /\ answer = NoAnswer /\ input.of = "comparison"
  /\ answer' = Compare(input.benchmark)
  /\ UNCHANGED input

Next == SendMessage \/ BuildPlan \/ CompareStrategies

Spec == Init /\ [][Next]_vars
=============================================================================
