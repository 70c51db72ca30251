------------------------------ MODULE MCPayBack ------------------------------
(***************************************************************************)
(* Small instances of PayBack for TLC.  Ids and workers are interchangeable*)
(* (the specification compares them for equality only), so the safety runs *)
(* use their symmetry; the liveness runs do not.                           *)
(***************************************************************************)
EXTENDS PayBackInvariant, PayBackClaims, TLC

Symmetry == Permutations(Tx) \cup Permutations(CaseId) \cup Permutations(Workers)
=============================================================================
