------------------------------ MODULE MCReports ------------------------------
(***************************************************************************)
(* Inputs for TLC.                                                         *)
(***************************************************************************)
EXTENDS ReportProperties

\* Texts with at most two kinds of URLs and at most one fault beside them.
MCRaws ==
  {text \in Text :
     /\ Cardinality(text.urls) <= 2
     /\ Cardinality({f \in {"blank", "placeholder", "claim", "wrong_amount"} : text[f]}) <= 1}
  \cup {None}

\* What a merchant may own: nothing, one row here or there, and equal totals
\* that only the tie-breakers tell apart.
Holdings ==
  LET Own(tx, rc, cu, po, re) ==
        [transactions |-> tx, recovery_cases |-> rc, customers |-> cu,
         policies |-> po, rest |-> re]
  IN {Own(0, 0, 0, 0, 0), Own(0, 0, 0, 0, 2), Own(1, 0, 0, 0, 0), Own(0, 0, 1, 1, 0)}

Merchant(id, pattern, test, own) ==
  [id |-> id, pattern |-> pattern, test_email |-> test,
   transactions |-> own.transactions, recovery_cases |-> own.recovery_cases,
   customers |-> own.customers, policies |-> own.policies, rest |-> own.rest]

MCFootprints ==
  {<<Merchant(0, "merchant_default", FALSE, a), Merchant(1, p, FALSE, b), Merchant(2, q, e, c)>> :
     a \in Holdings, b \in Holdings, c \in Holdings,
     p \in IdPattern \ {"merchant_default"}, q \in {"other", "uuid"}, e \in BOOLEAN}
  \cup
  {<<Merchant(2, q, e, c), Merchant(1, p, FALSE, b)>> :
     b \in Holdings, c \in Holdings, p \in {"other", "test_id"}, q \in {"other", "uuid"},
     e \in BOOLEAN}

MCCases ==
  {c \in [amount : {29900, 499900}, willing : BOOLEAN, opted_out : BOOLEAN,
          abandoned : BOOLEAN, upi : BOOLEAN] :
     /\ c.opted_out => ~c.willing /\ ~c.abandoned /\ c.upi
     /\ c.amount = 499900 => c.willing /\ ~c.abandoned}

\* Three customers, of whom the last is willing.
MCDatasets == {<<c, d, e>> : c, d \in MCCases, e \in {x \in MCCases : x.willing /\ x.upi /\ x.amount = 29900 /\ ~x.abandoned}}

\* One roll between each two efficiencies that are compared.
MCRolls == {60, 72, 82}

MCChoices == {"create_payment_link", "send_email", "escalate", "stop"}
=============================================================================
