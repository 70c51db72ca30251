------------------------------- MODULE Console -------------------------------
(***************************************************************************)
(* The merchant console: accounts, policies and payments served by the same*)
(* threads.  The areas share nothing but the id of the merchant.           *)
(***************************************************************************)
EXTENDS Accounts, Policies, Customers

\* The id of a policy is a uuid, which is neither a merchant's id nor None.
ASSUME ConsoleAssumption == PolicyId \cap (MerchantIds \cup {None}) = {}

vars == <<backend, requests, history, accounts, policyStore, customerStore>>

Init == RequestsInit /\ AccountsInit /\ PoliciesInit /\ CustomersInit

AccountsNext(w) ==
  AccountsStep(w) /\ UNCHANGED <<backend, policyStore, customerStore>>

PoliciesNext(w) ==
  PoliciesStep(w) /\ UNCHANGED <<backend, accounts, customerStore>>

CustomersNext(w) ==
  CustomersStep(w) /\ UNCHANGED <<backend, accounts, policyStore>>

WebhookNext ==
  \/ /\ \E m \in HeaderIds : WebhookRuns(m)
     /\ UNCHANGED <<backend, accounts, customerStore>>
  \/ /\ \/ \E p \in PaymentId, e \in Payers \cup {None} : PaymentFails(p, e)
        \/ FillCustomer \/ SaveCustomer(Webhook) \/ SavePayment(Webhook)
     /\ UNCHANGED <<backend, accounts, policyStore>>

Fails(w) ==
  CallFails(w) /\ UNCHANGED <<backend, history, accounts, policyStore, customerStore>>

Next ==
  \/ \E w \in Workers : AccountsNext(w) \/ PoliciesNext(w) \/ CustomersNext(w)
  \/ WebhookNext
  \/ \E w \in Thread : Fails(w)

Spec == Init /\ [][Next]_vars
=============================================================================
