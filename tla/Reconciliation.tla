--------------------------- MODULE Reconciliation ---------------------------
(***************************************************************************)
(* Which merchant's data is taken over and which merchants are discarded:  *)
(* backend/app/services/merchant_reconciliation.py.  The id of a merchant  *)
(* is reduced to the pattern classify_merchant recognises, in the order it *)
(* tries them.                                                             *)
(***************************************************************************)
EXTENDS Integers, Sequences, FiniteSets

IdPattern == {"merchant_default", "test_id", "test_prefix", "uuid", "merchant_*", "other"}

Footprint == [id : Nat, pattern : IdPattern, test_email : BOOLEAN,
              transactions : Nat, recovery_cases : Nat, customers : Nat,
              policies : Nat, rest : Nat]

\* total_footprint; "rest" stands for the other five tables, which are only summed.
TotalFootprint(f) ==
  f.transactions + f.recovery_cases + f.customers + f.policies + f.rest

SortKey(f) ==
  <<TotalFootprint(f), f.transactions, f.recovery_cases, f.customers, f.policies>>

\* The order of tuples.
Less(a, b) == \E i \in DOMAIN a : a[i] < b[i] /\ \A j \in 1 .. i - 1 : a[j] = b[j]

Classify(f) ==
  CASE f.pattern = "merchant_default" -> "protected"
    [] f.pattern \in {"test_id", "test_prefix"} -> "confirmed_test_artifact"
    [] f.pattern \in {"uuid", "merchant_*"} -> "ambiguous"
    [] f.pattern = "other" -> IF f.test_email THEN "confirmed_test_artifact"
                                              ELSE "production_candidate"

\* select_source_merchant: max over the list sorted in descending order, which
\* is stable, so of equal keys the first in the order given.
SelectSource(fps) ==
  LET best == {i \in DOMAIN fps : \A j \in DOMAIN fps : ~Less(SortKey(fps[i]), SortKey(fps[j]))}
  IN fps[CHOOSE i \in best : \A j \in best : i <= j]

\* Mutant: a production candidate is discarded whether or not it has rows.
Discarded_Candidates(f) ==
  Classify(f) \in {"confirmed_test_artifact", "production_candidate"}

Discarded(f) ==
  \/ Classify(f) = "confirmed_test_artifact"
  \/ Classify(f) = "production_candidate" /\ TotalFootprint(f) = 0

\* build_reconciliation_plan.
Plan(fps, target) ==
  LET others == {i \in DOMAIN fps : fps[i].id # target}
  IN [source    |-> SelectSource(fps).id,
      discard   |-> {fps[i].id : i \in {j \in others : Discarded(fps[j])}},
      ambiguous |-> {fps[i].id : i \in {j \in others : Classify(fps[j]) = "ambiguous"}}]
=============================================================================
