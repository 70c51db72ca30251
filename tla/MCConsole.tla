------------------------------ MODULE MCConsole ------------------------------
(***************************************************************************)
(* Small instances of Console for TLC.  The areas share no state, so most  *)
(* behaviours spend their requests in one of them.                         *)
(***************************************************************************)
EXTENDS ConsoleProperties, TLC

Spend(a, l, p) == [accounts |-> a, policies |-> l, payments |-> p]
MCBudgets ==
  {Spend(3, 0, 0), Spend(0, 3, 0), Spend(0, 0, 2), Spend(1, 1, 0), Spend(0, 1, 1)}

Symmetry ==
  Permutations(Workers) \cup Permutations(HeaderIds)
    \cup Permutations(Payers) \cup Permutations(ExternalIds)
=============================================================================
