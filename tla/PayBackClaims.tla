---------------------------- MODULE PayBackClaims ----------------------------
(***************************************************************************)
(* Statements the repository makes about the program (its README, comments,*)
(* docstrings and tests) that the code does not keep.  Each is checked by a*)
(* run of its own, which finds the counterexample.                         *)
(***************************************************************************)
EXTENDS PayBackProperties

\* README: the ledger "records every state transition, decision reason,
\* probability calculation"; the end-to-end test expects DECISION_MADE.  A
\* decided case that no thread is working on has that record.
DecisionsAreAudited ==
  \A c \in Stored :
    (cases[c].decision # "none" /\ Running(c, RunPC) = {})
    => audits[c]["DECISION_MADE"] > 0

\* README, state definitions: "recovered | Terminal | Payment confirmed via
\* webhook".  Here with POST /recoveries requests beside the webhook.
RecoveredIsTerminal ==
  [][\A c \in CaseId : (cases[c] # None /\ cases[c].status = "recovered")
                       => cases'[c].status = "recovered"]_vars

\* services/recovery.py: "Successful transactions do not require recovery."  No
\* case is opened once a payment event of the transaction has been processed.
NoCaseAfterPayment ==
  [][\A c \in CaseId :
       (cases[c] = None /\ cases'[c] # None)
       => \A e \in processed : ~(e.kind \in PaidKind
                                 /\ e.tx = cases'[c].transaction_id)]_vars

=============================================================================
