-------------------------- MODULE ConsoleProperties --------------------------
(***************************************************************************)
(* What the console keeps true of accounts, settings, policies, customers  *)
(* and payments although no handler locks anything between a lookup and    *)
(* the save that depends on it.                                            *)
(***************************************************************************)
EXTENDS Console

\* Every variable holds a value of its type.
ConsoleTypeOK ==
  /\ backend \in {"memory", "supabase"}
  /\ ToSet(merchants) \subseteq Merchant
  /\ \A m \in DOMAIN settings : settings[m] \in Settings
  /\ unchecked \subseteq Ids(merchants)
  /\ ToSet(policies) \cup {default} \subseteq Policy
  /\ ran \in [HeaderIds -> Policy \cup {None}]
  /\ ToSet(customers) \subseteq Customer
  /\ by_external \in [ExternalIds -> CustomerId \cup {Earlier, None}]
  /\ payments \in [PaymentId -> Payment \cup {None}]
  /\ \A rows \in {merchants, policies, customers} :
       Cardinality(Ids(rows)) = Len(rows)

\* register checks the e-mail in one call and saves in another, and the profile
\* of a request without a token is saved with an e-mail nobody checked.  Two
\* accounts with one e-mail, which share the first one's login, exist only if
\* neither registration had finished when the other looked, or if such a request
\* has saved one of the two; on Supabase they never exist.
DuplicateAccountsExplained ==
  \A i, j \in DOMAIN merchants :
    LET a == merchants[i]
        b == merchants[j]
        same == IF backend = "memory" THEN a.email[1] = b.email[1] ELSE a.email = b.email
    IN i # j /\ same =>
         /\ backend = "memory"
         /\ \/ a.id \notin b.before /\ b.id \notin a.before
            \/ a.id \in unchecked \/ b.id \in unchecked

\* The saved settings of merchant d, or its saved policy of that id.
Stored(d) == IF d \in DOMAIN settings THEN settings[d] ELSE Get(policies, d)

\* Settings and policies are read, changed and saved whole.  As long as no two
\* changes of one of them overlap, it is what all changes add up to: no save
\* undoes or resets a field another request has set.
LastWriteKept ==
  \A d \in (DOMAIN settings \cup Ids(policies)) \ overlapped : Stored(d) = expected[d]

\* The customers of c's merchant that were stored when c was looked up.
SeenBefore(c) == Cardinality({customers[i].id : i \in OfMerchant(c.merchant)} \cap c.before)

\* Customers are looked up by e-mail and saved later.  Of two customers of a
\* merchant whose requests gave one e-mail, neither was stored when the other
\* was looked up, unless there were more than a lookup sees.
DuplicateCustomersExplained ==
  \A i, j \in DOMAIN customers :
    LET a == customers[i]
        b == customers[j]
    IN /\ i # j /\ a.merchant = b.merchant /\ a.email = b.email /\ a.email # None
       /\ ~a.filled /\ ~b.filled /\ a.id \in b.before
       => SeenBefore(b) > ListLimit

\* README.md (Multi-Tenancy): the customer of a payment is stored and belongs to
\* the merchant of the payment, or to none yet, although external ids are looked
\* up across merchants and the in-memory index keeps only the latest of each.
CustomerOfMerchant ==
  \A p \in PaymentId :
    payments[p] # None =>
      /\ payments[p].customer \in Ids(customers)
      /\ Get(customers, payments[p].customer).merchant \in {payments[p].merchant, None}

-----------------------------------------------------------------------------
(***************************************************************************)
(* What the documentation says and the code does not do.                   *)
(***************************************************************************)

\* README.md (Policies & Guardrails): "Merchant policies provide deterministic
\* boundaries that the autonomous agent cannot cross."  A recovery the webhook
\* starts runs under the default policy, which is the last active one that any
\* merchant has saved.
RunsUnderOwnPolicy ==
  \A m \in HeaderIds : ran[m] # None => ran[m].merchant \in {None, m}

\* README.md: create-with-customer is to "Create customer and payment link in
\* single call".  A payer whose e-mail is new to the merchant is taken for the
\* customer whose name gives the same external id, also one with another e-mail,
\* to whom the recovery e-mails then go.
PaymentReachesPayer ==
  \A p \in PaymentId :
    payments[p] # None /\ payments[p].new =>
      Get(customers, payments[p].customer).email \in {payments[p].payer, None}
=============================================================================
