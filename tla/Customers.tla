------------------------------ MODULE Customers ------------------------------
(***************************************************************************)
(* Customers and the payments that are recorded for them.  Three endpoints *)
(* and the failure webhook look customers up, and each of them saves the   *)
(* copy it read: by e-mail among the merchant's customers, then by an      *)
(* external id that all merchants share, then as a new customer.           *)
(***************************************************************************)
EXTENDS ConsoleRequests

CONSTANTS
  CustomerId,   \* fresh ids (uuid4)
  PaymentId,    \* fresh transaction ids (uuid4)
  Payers,       \* e-mail addresses of customers, up to upper and lower case
  ExternalIds,  \* external ids; "cus_<name>" stands for a customer's name
  ListLimit,    \* customers a lookup by e-mail sees (500)
  Earlier       \* id of the customer that is stored at the start

ASSUME CustomersAssumption == ListLimit \in Nat

VARIABLES
  customers,    \* rows of customers, in the order of insertion
  by_external,  \* the in-memory repository's index: external id |-> customer id
  payments      \* transactions, with the e-mail their request gave

customerStore == <<customers, by_external, payments>>

\* history: filled tells whether a webhook gave the e-mail, before holds the
\* customers the lookup that found none saw.
Customer == [id : CustomerId \cup {Earlier}, merchant : HeaderIds \cup {None},
             external : ExternalIds \cup {None}, email : Payers \cup {None},
             filled : BOOLEAN, before : SUBSET (CustomerId \cup {Earlier})]

Payment == [merchant : HeaderIds, customer : CustomerId \cup {Earlier},
            payer : Payers \cup {None}, new : BOOLEAN, case : BOOLEAN]

\* The rows of a merchant, by their places.
OfMerchant(m) == {i \in DOMAIN customers : customers[i].merchant = m}

\* Lists are sorted by age: the oldest first in memory, the newest on Supabase.
Sooner(i, j) == IF backend = "memory" THEN i < j ELSE j < i

Ahead(i, S) == Cardinality({j \in S : Sooner(j, i)})

\* Mutant: the page begins at the second row.
Listed_Offset(m) == {i \in OfMerchant(m) : Ahead(i, OfMerchant(m)) \in 1 .. ListLimit}

\* list_by_merchant: a page of them.
Listed(m) == {i \in OfMerchant(m) : Ahead(i, OfMerchant(m)) < ListLimit}

\* The first customer of the page with this e-mail.
ByEmail(m, e) ==
  LET match == {i \in Listed(m) : e # None /\ customers[i].email = e}
  IN {customers[i] : i \in {j \in match : \A k \in match : ~Sooner(k, j)}}

\* get_by_external_id answers with a row of any merchant: the one of the index in
\* memory, any one of these on Supabase.
WithExternal(x) ==
  IF backend = "memory"
  THEN {Get(customers, c) : c \in {by_external[x]} \ {None}}
  ELSE {c \in ToSet(customers) : c.external = x}

\* Mutant: the merchant of the customer found is not looked at.
ByExternal_AnyMerchant(m, x) == WithExternal(x)
ByExternal(m, x) == {c \in WithExternal(x) : c.merchant \in {m, None}}

\* There is no row, or the answer is one that merchant m may not use, also when
\* another row with the id is m's own.
ExternalUnusable(m, x) == WithExternal(x) = {} \/ WithExternal(x) \ ByExternal(m, x) # {}

\* A thread holds customer c and has yet to save it, or the payment p, as record.
Holding(pc, c, p, record) == [pc |-> pc, customer |-> c, payment |-> p, record |-> record]

SaveCustomerRow(row) ==
  /\ customers' = Put(customers, row)
  /\ by_external' = IF row.external = None THEN by_external
                    ELSE [by_external EXCEPT ![row.external] = row.id]

\* The threads that hold a copy of a customer, and those that serve a payment.
Held == {w \in Thread : calls[w].pc \in {"fill_customer", "save_customer", "save_payment"}}
Paying == Held \cup {w \in Thread : At(w, "by_external")}

FreshCustomer == CustomerId \ (Ids(customers) \cup {calls[w].customer.id : w \in Held})
FreshPayment ==
  {p \in PaymentId : payments[p] = None /\ \A w \in Paying : calls[w].payment # p}

-----------------------------------------------------------------------------
\* resolve_customer_for_payment: the customers of the merchant are listed ...
Resolve(w, m, e, x, new) ==
  /\ UNCHANGED <<customerStore, history>>
  /\ FreshPayment # {}
  /\ LET p == Fresh(FreshPayment)
         record == [merchant |-> m, payer |-> e, new |-> new, case |-> ~new] IN
       IF ByEmail(m, e) # {}
       THEN \E c \in ByEmail(m, e) :
              Arrive(w, "payments", Holding("save_customer", c, p, record))
       ELSE Arrive(w, "payments", [pc |-> "by_external", external |-> x,
                                   payment |-> p, record |-> record, before |-> Ids(customers)])

\* POST /events/payment, and POST /payments/create-with-customer, where the
\* external id is made of the customer's name.
PostPaymentEvent(w, m, e, x) == Resolve(w, m, e, x, FALSE)
PostCreateWithCustomer(w, m, e, name) == e # None /\ Resolve(w, m, e, name, TRUE)

\* ... and the external id is looked up when the e-mail was not among theirs.
ResolveExternal(w) ==
  /\ At(w, "by_external")
  /\ UNCHANGED <<customerStore, history>>
  /\ LET call == calls[w]
         m == call.record.merchant
         save(c) == Holding("save_customer", c, call.payment, call.record)
     IN \/ \E c \in ByExternal(m, call.external) : Go(w, save(c))
        \/ /\ ExternalUnusable(m, call.external)
           /\ FreshCustomer # {}
           /\ Go(w, save([id |-> Fresh(FreshCustomer), merchant |-> m, external |-> call.external,
                         email |-> call.record.payer, filled |-> FALSE, before |-> call.before]))

\* POST /payments/create, for a customer of the merchant or of none.
PostCreate(w, m, id) ==
  /\ UNCHANGED <<customerStore, history>>
  /\ IF id \in Ids(customers) /\ Get(customers, id).merchant \in {m, None}
     THEN /\ FreshPayment # {}
          /\ Arrive(w, "payments",
               Holding("save_payment", Get(customers, id), Fresh(FreshPayment),
                       [merchant |-> m, payer |-> Get(customers, id).email,
                        new |-> FALSE, case |-> FALSE]))
     ELSE Arrive(w, "payments", Idle)

SaveCustomer(w) ==
  /\ At(w, "save_customer")
  /\ LET call == calls[w] IN
     /\ SaveCustomerRow(call.customer)
     /\ Go(w, Holding("save_payment", call.customer, call.payment, call.record))
  /\ UNCHANGED <<payments, history>>

SavePayment(w) ==
  /\ At(w, "save_payment")
  /\ payments' = [payments EXCEPT ![calls[w].payment] =
                    Over(calls[w].record, [customer |-> calls[w].customer.id])]
  /\ Finish(w)
  /\ UNCHANGED <<customers, by_external, history>>

\* The webhook handler reports the first failure of a payment: it reads the
\* customer, fills in a missing e-mail from the event and saves the copy, and
\* ingest_payment_event saves it once more with the payment and the case.
PaymentFails(p, e) ==
  /\ payments[p] # None /\ ~payments[p].case
  /\ LET c == Get(customers, payments[p].customer)
         fill == c.email = None /\ e # None
     IN Arrive(Webhook, "payments",
          Holding(IF fill THEN "fill_customer" ELSE "save_customer",
                  IF fill THEN [c EXCEPT !.email = e, !.filled = TRUE] ELSE c,
                  p, [payments[p] EXCEPT !.case = TRUE]))
  /\ UNCHANGED <<customerStore, history>>

FillCustomer ==
  /\ At(Webhook, "fill_customer")
  /\ LET call == calls[Webhook] IN
     /\ SaveCustomerRow(call.customer)
     /\ Go(Webhook, Holding("save_customer", call.customer, call.payment, call.record))
  /\ UNCHANGED <<payments, history>>

\* The store is empty or has one customer from before; on Supabase that may be
\* one from before there were merchants.
CustomersInit ==
  /\ payments = [p \in PaymentId |-> None]
  /\ \/ /\ customers = <<>>
        /\ by_external = [x \in ExternalIds |-> None]
     \/ \E m \in HeaderIds \cup {None}, x \in ExternalIds, e \in Payers \cup {None} :
          /\ m = None => backend = "supabase"
          /\ customers = <<[id |-> Earlier, merchant |-> m, external |-> x, email |-> e,
                            filled |-> FALSE, before |-> {}]>>
          /\ by_external = [y \in ExternalIds |-> IF y = x THEN Earlier ELSE None]

CustomersStep(w) ==
  \/ /\ Accepts(w, "payments")
     /\ \/ \E m \in HeaderIds, x \in ExternalIds, e \in Payers \cup {None} :
             PostPaymentEvent(w, m, e, x) \/ PostCreateWithCustomer(w, m, e, x)
        \/ \E m \in HeaderIds, id \in CustomerId \cup {Earlier} : PostCreate(w, m, id)
  \/ ResolveExternal(w) \/ SaveCustomer(w) \/ SavePayment(w)
=============================================================================
