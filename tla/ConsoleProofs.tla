---------------------------- MODULE ConsoleProofs ----------------------------
(***************************************************************************)
(* What the console keeps, for any number of threads, merchants, customers *)
(* and requests.  The areas share nothing but the threads, so each has an  *)
(* invariant of its own, which mentions the calls of that area only: a step*)
(* of another area leaves those alone.                                     *)
(***************************************************************************)
EXTENDS ConsoleProperties, FiniteSetTheorems, WellFoundedInduction, TLAPS

-----------------------------------------------------------------------------
\* A set of numbers that is not empty has a least one: what is found first.
LEMMA LeastNumber ==
  ASSUME NEW S \in SUBSET Nat, S # {}
  PROVE  \E n \in S : \A m \in S : n <= m
<1> DEFINE R == OpToRel(<, Nat)
<1>1. IsWellFoundedOn(R, Nat)
  BY NatLessThanWellFounded
<1>2. \A m, n \in Nat : m < n => <<m, n>> \in R
  BY DEF OpToRel
<1> HIDE DEF R
<1>3. PICK n \in S : \A m \in S : ~(<<m, n>> \in R)
  BY <1>1, WFMin
<1>4. \A m \in S : m \in Nat
  OBVIOUS
<1>5. n \in Nat /\ \A m \in S : ~(m < n)
  BY <1>2, <1>3, <1>4
<1>6. QED
  BY <1>4, <1>5

-----------------------------------------------------------------------------
(* Tables *)

\* Rows of a type, one for each id.
Table(rows, S) ==
  rows \in Seq(S) /\ \A i, j \in DOMAIN rows : rows[i].id = rows[j].id => i = j

\* Put replaces the row of that id or adds one; the others stay as they are.
LEMMA PutRow ==
  ASSUME NEW S, NEW rows, Table(rows, S), NEW rec \in S
  PROVE  /\ Table(Put(rows, rec), S)
         /\ Ids(Put(rows, rec)) = Ids(rows) \cup {rec.id}
         /\ DOMAIN rows \subseteq DOMAIN Put(rows, rec)
         /\ \A i \in DOMAIN rows :
              /\ Put(rows, rec)[i] = IF rows[i].id = rec.id THEN rec ELSE rows[i]
              /\ Put(rows, rec)[i].id = rows[i].id
         /\ \A i \in DOMAIN Put(rows, rec) :
              \/ Put(rows, rec)[i] = rec
              \/ i \in DOMAIN rows /\ Put(rows, rec)[i] = rows[i] /\ rows[i].id # rec.id
         /\ \E i \in DOMAIN Put(rows, rec) : Put(rows, rec)[i] = rec
<1>1. rows \in Seq(S) /\ \A i, j \in DOMAIN rows : rows[i].id = rows[j].id => i = j
  BY DEF Table
<1>2. CASE \E i \in DOMAIN rows : rows[i].id = rec.id
  <2> DEFINE new == [i \in DOMAIN rows |-> IF rows[i].id = rec.id THEN rec ELSE rows[i]]
  <2>1. Put(rows, rec) = new
    BY <1>2 DEF Put
  <2>2. /\ new \in Seq(S) /\ DOMAIN new = DOMAIN rows
        /\ \A i \in DOMAIN rows : new[i] = IF rows[i].id = rec.id THEN rec ELSE rows[i]
    BY <1>1
  <2> HIDE DEF new
  <2>3. \A i \in DOMAIN rows : new[i].id = rows[i].id
    BY <2>2
  <2>4. Table(new, S)
    BY <1>1, <2>2, <2>3 DEF Table
  <2>5. Ids(new) = Ids(rows) \cup {rec.id}
    BY <1>2, <2>2, <2>3 DEF Ids
  <2>6. \E i \in DOMAIN new : new[i] = rec
    BY <1>2, <2>2
  <2>7. QED
    BY <2>1, <2>2, <2>3, <2>4, <2>5, <2>6
<1>3. CASE ~\E i \in DOMAIN rows : rows[i].id = rec.id
  <2> DEFINE new == Append(rows, rec)
             n == Len(rows) + 1
  <2>1. Put(rows, rec) = new
    BY <1>3 DEF Put
  <2>2. /\ new \in Seq(S) /\ Len(rows) \in Nat /\ DOMAIN rows = 1 .. Len(rows)
        /\ DOMAIN new = 1 .. n /\ new[n] = rec
        /\ \A i \in DOMAIN rows : new[i] = rows[i]
    BY <1>1
  <2>3. n \in DOMAIN new /\ \A i \in DOMAIN new : i \in DOMAIN rows \/ i = n
    BY <2>2
  <2> HIDE DEF new, n
  <2>4. Table(new, S)
    BY <1>1, <1>3, <2>2, <2>3 DEF Table
  <2>5. Ids(new) = Ids(rows) \cup {rec.id}
    <3>1. DOMAIN rows \subseteq DOMAIN new
      BY <2>2 DEF n
    <3>2. QED
      BY <2>2, <2>3, <3>1 DEF Ids
  <2>6. DOMAIN rows \subseteq DOMAIN new
    BY <2>2 DEF n
  <2>7. QED
    BY <1>3, <2>1, <2>2, <2>3, <2>4, <2>5, <2>6
<1>4. QED
  BY <1>2, <1>3

\* Get finds the row of an id that is stored.
LEMMA GetRow ==
  ASSUME NEW S, NEW rows, Table(rows, S)
  PROVE  /\ \A i \in DOMAIN rows : rows[i] \in S /\ rows[i].id \in Ids(rows)
                                    /\ Get(rows, rows[i].id) = rows[i]
         /\ \A id \in Ids(rows) : \E i \in DOMAIN rows : rows[i].id = id /\ Get(rows, id) = rows[i]
         /\ \A id \in Ids(rows) : Get(rows, id) \in S /\ Get(rows, id).id = id
<1>1. rows \in Seq(S) /\ \A i, j \in DOMAIN rows : rows[i].id = rows[j].id => i = j
  BY DEF Table
<1>2. \A i \in DOMAIN rows : rows[i] \in S /\ rows[i].id \in Ids(rows)
  BY <1>1 DEF Ids
<1>3. \A i \in DOMAIN rows : Get(rows, rows[i].id) = rows[i]
  <2> TAKE i \in DOMAIN rows
  <2> DEFINE k == CHOOSE j \in DOMAIN rows : rows[j].id = rows[i].id
  <2>1. k \in DOMAIN rows /\ rows[k].id = rows[i].id
    OBVIOUS
  <2>2. k = i
    BY <1>1, <2>1
  <2>3. QED
    BY <2>2 DEF Get
<1>4. \A id \in Ids(rows) : \E i \in DOMAIN rows : rows[i].id = id /\ Get(rows, id) = rows[i]
  BY <1>3 DEF Ids
<1>5. QED
  BY <1>2, <1>3, <1>4

\* There are as many ids as rows.
LEMMA TableIds ==
  ASSUME NEW S, NEW rows, Table(rows, S)
  PROVE  IsFiniteSet(Ids(rows)) /\ Cardinality(Ids(rows)) = Len(rows)
<1> DEFINE n == Len(rows)
           f == [i \in 1 .. n |-> rows[i].id]
<1>1. /\ n \in Nat /\ DOMAIN rows = 1 .. n
      /\ \A i, j \in 1 .. n : rows[i].id = rows[j].id => i = j
  BY DEF Table
<1>2. f \in [1 .. n -> Ids(rows)]
  BY <1>1 DEF Ids
<1>3. \A id \in Ids(rows) : \E i \in 1 .. n : f[i] = id
  BY <1>1 DEF Ids
<1>4. f \in Bijection(1 .. n, Ids(rows))
  BY <1>1, <1>2, <1>3 DEF Bijection, Injection, Surjection, IsInjective
<1>5. IsFiniteSet(1 .. n) /\ Cardinality(1 .. n) = n
  BY <1>1, FS_Interval
<1>6. ExistsBijection(1 .. n, Ids(rows))
  BY <1>4 DEF ExistsBijection
<1>7. QED
  BY <1>5, <1>6, FS_Bijection

-----------------------------------------------------------------------------
(* The threads and the areas *)

AccountPcs == {"save_merchant", "save_settings"}
PolicyPcs == {"save_policy"}
PaymentPcs == {"by_external", "fill_customer", "save_customer", "save_payment"}

CallsInv == calls = [w \in Thread |-> calls[w]]

BackendInv == backend \in {"memory", "supabase"}

\* Thread w goes to a call whose pc is one of A; the others stay where they are.
Moves(w, A) ==
  /\ CallsInv' /\ \A v \in Thread \ {w} : calls'[v] = calls[v]
  /\ calls'[w].pc \in A \cup {"idle"}

\* No thread begins or changes a call whose pc is one of A.
Untouched(A) == \A v \in Thread : calls'[v].pc \in A => calls'[v] = calls[v]

LEMMA ArriveMoves ==
  ASSUME CallsInv, NEW w \in Thread, NEW area, NEW A, NEW call, call.pc \in A \cup {"idle"},
         Arrive(w, area, call) \/ Go(w, call)
  PROVE  Moves(w, A) /\ calls'[w] = call
BY DEF CallsInv, Arrive, Go, Moves

LEMMA IdleMoves ==
  ASSUME CallsInv, NEW w \in Thread, NEW area, NEW A,
         Arrive(w, area, Idle) \/ Finish(w)
  PROVE  Moves(w, A) /\ calls'[w] = Idle
BY ArriveMoves DEF Idle, Finish

LEMMA MovesLeave ==
  ASSUME CallsInv, NEW w \in Thread, NEW A, NEW B, Moves(w, A),
         "idle" \notin B, A \cap B = {}
  PROVE  Untouched(B)
BY DEF Moves, Untouched

LEMMA AccountsMove ==
  ASSUME CallsInv, NEW w \in Thread, AccountsStep(w)
  PROVE  Moves(w, AccountPcs)
<1>1. ASSUME NEW e \in Addresses \X Case, Register(w, e)
      PROVE  Moves(w, AccountPcs)
  BY <1>1, IdleMoves, ArriveMoves DEF Register, AccountPcs
<1>2. ASSUME NEW e \in Addresses \X Case, Login(w, e)
      PROVE  Moves(w, AccountPcs)
  BY <1>2, IdleMoves, ArriveMoves DEF Login, AccountPcs
<1>3. CASE SaveMerchant(w)
  BY <1>3, IdleMoves DEF SaveMerchant
<1>4. ASSUME NEW s, NEW change, UpdateProfile(w, s, change)
      PROVE  Moves(w, AccountPcs)
  BY <1>4, IdleMoves DEF UpdateProfile
<1>5. ASSUME NEW m \in Named, NEW change, ReadSettings(w, m, change)
      PROVE  Moves(w, AccountPcs)
  BY <1>5, ArriveMoves DEF ReadSettings, AccountPcs
<1>6. CASE SaveSettings(w)
  BY <1>6, IdleMoves DEF SaveSettings
<1>7. QED
  BY <1>1, <1>2, <1>3, <1>4, <1>5, <1>6 DEF AccountsStep

LEMMA PoliciesMove ==
  ASSUME CallsInv, NEW w \in Thread, PoliciesStep(w)
  PROVE  Moves(w, PolicyPcs)
<1>1. ASSUME NEW m, NEW active, CreatePolicy(w, m, active, 3)
      PROVE  Moves(w, PolicyPcs)
  BY <1>1, IdleMoves DEF CreatePolicy
<1>2. ASSUME NEW m, NEW id, NEW change, ReadPolicy(w, m, id, change)
      PROVE  Moves(w, PolicyPcs)
  BY <1>2, IdleMoves, ArriveMoves DEF ReadPolicy, PolicyPcs
<1>3. CASE SaveUpdate(w)
  BY <1>3, IdleMoves DEF SaveUpdate
<1>4. QED
  BY <1>1, <1>2, <1>3 DEF PoliciesStep

LEMMA HoldingMoves ==
  ASSUME CallsInv, NEW w \in Thread, NEW area, NEW pc \in PaymentPcs, NEW c, NEW p, NEW r,
         Arrive(w, area, Holding(pc, c, p, r)) \/ Go(w, Holding(pc, c, p, r))
  PROVE  Moves(w, PaymentPcs) /\ calls'[w] = Holding(pc, c, p, r)
<1>1. Holding(pc, c, p, r).pc \in PaymentPcs \cup {"idle"}
  BY DEF Holding
<1>2. QED
  BY <1>1, ArriveMoves

LEMMA CustomersMove ==
  ASSUME CallsInv, NEW w \in Thread, CustomersStep(w) \/ SaveCustomer(w) \/ SavePayment(w)
  PROVE  Moves(w, PaymentPcs)
<1>0. {"by_external", "save_customer", "save_payment"} \subseteq PaymentPcs
  BY DEF PaymentPcs
<1>1. ASSUME NEW m, NEW e, NEW x, NEW new, Resolve(w, m, e, x, new)
      PROVE  Moves(w, PaymentPcs)
  <2>1. CASE ByEmail(m, e) # {}
    BY <1>0, <1>1, <2>1, HoldingMoves DEF Resolve
  <2>2. CASE ByEmail(m, e) = {}
    BY <1>0, <1>1, <2>2, ArriveMoves DEF Resolve
  <2>3. QED
    BY <2>1, <2>2
<1>2. CASE ResolveExternal(w)
  BY <1>0, <1>2, HoldingMoves DEF ResolveExternal
<1>3. ASSUME NEW m, NEW id, PostCreate(w, m, id)
      PROVE  Moves(w, PaymentPcs)
  BY <1>0, <1>3, HoldingMoves, IdleMoves DEF PostCreate
<1>4. CASE SaveCustomer(w)
  BY <1>0, <1>4, HoldingMoves DEF SaveCustomer
<1>5. CASE SavePayment(w)
  BY <1>5, IdleMoves DEF SavePayment
<1>6. QED
  BY <1>1, <1>2, <1>3, <1>4, <1>5 DEF CustomersStep, PostPaymentEvent, PostCreateWithCustomer

LEMMA WebhookMoves ==
  ASSUME CallsInv
  PROVE  /\ \A m : WebhookRuns(m) => Moves(Webhook, PolicyPcs)
         /\ \A p, e : PaymentFails(p, e) => Moves(Webhook, PaymentPcs)
         /\ FillCustomer => Moves(Webhook, PaymentPcs)
<1>0. Webhook \in Thread /\ {"fill_customer", "save_customer"} \subseteq PaymentPcs
  BY DEF Thread, PaymentPcs
<1>1. ASSUME NEW m, WebhookRuns(m)
      PROVE  Moves(Webhook, PolicyPcs)
  BY <1>0, <1>1, IdleMoves DEF WebhookRuns
<1>2. ASSUME NEW p, NEW e, PaymentFails(p, e)
      PROVE  Moves(Webhook, PaymentPcs)
  BY <1>0, <1>2, HoldingMoves DEF PaymentFails
<1>3. ASSUME FillCustomer
      PROVE  Moves(Webhook, PaymentPcs)
  BY <1>0, <1>3, HoldingMoves DEF FillCustomer
<1>4. QED
  BY <1>1, <1>2, <1>3

\* Every step is a step of one area, and the others keep their rows and calls.
LEMMA ConsoleSteps ==
  ASSUME CallsInv, [Next]_vars
  PROVE  /\ CallsInv' /\ UNCHANGED backend
         /\ \/ /\ \E w \in Thread : AccountsStep(w)
               /\ UNCHANGED <<policyStore, customerStore>>
               /\ Untouched(PolicyPcs) /\ Untouched(PaymentPcs)
            \/ /\ \/ \E w \in Thread : PoliciesStep(w)
                  \/ \E m \in HeaderIds : WebhookRuns(m)
               /\ UNCHANGED <<accounts, customerStore>>
               /\ Untouched(AccountPcs) /\ Untouched(PaymentPcs)
            \/ /\ \/ \E w \in Thread : CustomersStep(w) \/ SaveCustomer(w) \/ SavePayment(w)
                  \/ \E p \in PaymentId, e \in Payers \cup {None} : PaymentFails(p, e)
                  \/ FillCustomer
               /\ UNCHANGED <<accounts, policyStore>>
               /\ Untouched(AccountPcs) /\ Untouched(PolicyPcs)
            \/ /\ UNCHANGED <<history, accounts, policyStore, customerStore>>
               /\ Untouched(AccountPcs) /\ Untouched(PolicyPcs) /\ Untouched(PaymentPcs)
<1>0. /\ Workers \subseteq Thread /\ Webhook \in Thread
      /\ AccountPcs \cap PolicyPcs = {} /\ AccountPcs \cap PaymentPcs = {}
      /\ PolicyPcs \cap PaymentPcs = {} /\ "idle" \notin AccountPcs
      /\ "idle" \notin PolicyPcs /\ "idle" \notin PaymentPcs
  BY DEF Thread, AccountPcs, PolicyPcs, PaymentPcs
<1>1. ASSUME NEW w \in Workers, AccountsNext(w)
      PROVE  /\ CallsInv' /\ AccountsStep(w) /\ UNCHANGED <<backend, policyStore, customerStore>>
             /\ Untouched(PolicyPcs) /\ Untouched(PaymentPcs)
  BY <1>0, <1>1, AccountsMove, MovesLeave DEF AccountsNext, Moves
<1>2. ASSUME NEW w \in Workers, PoliciesNext(w)
      PROVE  /\ CallsInv' /\ PoliciesStep(w) /\ UNCHANGED <<backend, accounts, customerStore>>
             /\ Untouched(AccountPcs) /\ Untouched(PaymentPcs)
  BY <1>0, <1>2, PoliciesMove, MovesLeave DEF PoliciesNext, Moves
<1>3. ASSUME NEW w \in Workers, CustomersNext(w)
      PROVE  /\ CallsInv' /\ CustomersStep(w) /\ UNCHANGED <<backend, accounts, policyStore>>
             /\ Untouched(AccountPcs) /\ Untouched(PolicyPcs)
  BY <1>0, <1>3, CustomersMove, MovesLeave DEF CustomersNext, Moves
<1>4. ASSUME NEW m \in HeaderIds, WebhookRuns(m), UNCHANGED <<backend, accounts, customerStore>>
      PROVE  CallsInv' /\ Untouched(AccountPcs) /\ Untouched(PaymentPcs)
  BY <1>0, <1>4, WebhookMoves, MovesLeave DEF Moves
<1>5. ASSUME \/ \E p \in PaymentId, e \in Payers \cup {None} : PaymentFails(p, e)
             \/ FillCustomer
      PROVE  CallsInv' /\ Untouched(AccountPcs) /\ Untouched(PolicyPcs)
  BY <1>0, <1>5, WebhookMoves, MovesLeave DEF Moves
<1>6. ASSUME SaveCustomer(Webhook) \/ SavePayment(Webhook)
      PROVE  CallsInv' /\ Untouched(AccountPcs) /\ Untouched(PolicyPcs)
  BY <1>0, <1>6, CustomersMove, MovesLeave DEF Moves
<1>7. ASSUME NEW w \in Thread, Fails(w)
      PROVE  /\ CallsInv' /\ UNCHANGED <<backend, history, accounts, policyStore, customerStore>>
             /\ Untouched(AccountPcs) /\ Untouched(PolicyPcs) /\ Untouched(PaymentPcs)
  <2>1. Finish(w) /\ UNCHANGED <<backend, history, accounts, policyStore, customerStore>>
    BY <1>7 DEF Fails, CallFails
  <2>2. Moves(w, {})
    BY <2>1, IdleMoves
  <2>3. QED
    BY <1>0, <2>1, <2>2, MovesLeave DEF Moves
<1>8. CASE UNCHANGED vars
  BY <1>8 DEF vars, requests, CallsInv, Untouched
<1>9. CASE WebhookNext
  BY <1>0, <1>4, <1>5, <1>6, <1>9 DEF WebhookNext
<1>10. QED
  BY <1>0, <1>1, <1>2, <1>3, <1>7, <1>8, <1>9 DEF Next

-----------------------------------------------------------------------------
(* Accounts *)

Saving == {w \in Thread : At(w, "save_merchant")}

SettingsChanges == {[notify_recovery_completed |-> FALSE], [notify_action_failed |-> FALSE]}

\* The rows, sessions and calls of the accounts have their types, and a session
\* carries the e-mail its merchant is stored with, unless it is unchecked.
AccountTypes ==
  /\ Table(merchants, Merchant) /\ unchecked \subseteq Ids(merchants)
  /\ \A m \in DOMAIN settings : settings[m] \in Settings /\ m \in MerchantIds
  /\ \A s \in sessions :
       /\ s \in [id : MerchantIds, email : Email, name : Name]
       /\ s.id \in Ids(merchants)
       /\ s.id \notin unchecked => Get(merchants, s.id).email = s.email
  /\ \A w \in Saving : calls[w].row \in Merchant /\ calls[w].row.id \notin HeaderIds \ {DemoId}
  /\ \A w \in Thread :
       At(w, "save_settings") => /\ calls[w].doc \in MerchantIds
                                 /\ calls[w].change \in SettingsChanges
                                 /\ calls[w].read \in Settings

\* Nobody that was stored when r's e-mail was looked up has it, but for those of U.
LookedUp(rows, U, r) ==
  /\ r.before \subseteq Ids(rows)
  /\ \A i \in DOMAIN rows :
       rows[i].id \in r.before \ U => ~SameEmail(rows[i].email, r.email)

DemoRow(r) == r.id = DemoId => r.email = DemoEmail

\* All accounts, stored or about to be, have been looked up, unless they are
\* unchecked; only the demo account is saved more than once by those who looked,
\* always with the same e-mail.
LookupInv ==
  /\ \A i \in DOMAIN merchants :
       merchants[i].id \notin unchecked =>
         LookedUp(merchants, unchecked, merchants[i]) /\ DemoRow(merchants[i])
  /\ \A w \in Saving :
       /\ LookedUp(merchants, unchecked, calls[w].row) /\ DemoRow(calls[w].row)
       /\ calls[w].row.id # DemoId => calls[w].row.id \notin Ids(merchants)
  /\ \A v, w \in Saving : v # w /\ calls[v].row.id = calls[w].row.id
                              => calls[v].row.id = DemoId

\* merchants.email is unique on Supabase.
UniqueInv ==
  backend = "supabase" =>
    \A i, j \in DOMAIN merchants : merchants[i].email = merchants[j].email => i = j

AccountsInv == AccountTypes /\ LookupInv /\ UniqueInv

\* A save that changes nobody's e-mail, but for those of U.
KeepsEmail(row, U) ==
  row.id \in Ids(merchants) \ U => Get(merchants, row.id).email = row.email

LEMMA PutKeepsEmails ==
  ASSUME Table(merchants, Merchant), NEW row \in Merchant, NEW U, KeepsEmail(row, U)
  PROVE  /\ \A i \in DOMAIN Put(merchants, row) :
               \/ Put(merchants, row)[i] = row
               \/ i \in DOMAIN merchants /\ Put(merchants, row)[i] = merchants[i]
         /\ \A id \in Ids(merchants) \ U :
              Get(Put(merchants, row), id).email = Get(merchants, id).email
         /\ Get(Put(merchants, row), row.id) = row
         /\ \A r : LookedUp(merchants, U, r) => LookedUp(Put(merchants, row), U, r)
<1> DEFINE new == Put(merchants, row)
<1>1. /\ Table(new, Merchant) /\ Ids(new) = Ids(merchants) \cup {row.id}
      /\ DOMAIN merchants \subseteq DOMAIN new
      /\ \A i \in DOMAIN merchants :
           /\ new[i] = IF merchants[i].id = row.id THEN row ELSE merchants[i]
           /\ new[i].id = merchants[i].id
      /\ \A i \in DOMAIN new :
           \/ new[i] = row
           \/ i \in DOMAIN merchants /\ new[i] = merchants[i] /\ merchants[i].id # row.id
      /\ \E i \in DOMAIN new : new[i] = row
  BY PutRow
<1> HIDE DEF new
<1>2. \A i \in DOMAIN merchants : merchants[i].id \in Ids(merchants)
                                   /\ Get(merchants, merchants[i].id) = merchants[i]
  BY GetRow
<1>3. \A i \in DOMAIN new : Get(new, new[i].id) = new[i]
  BY <1>1, GetRow
<1>4. \A i \in DOMAIN merchants : merchants[i].id \notin U => new[i].email = merchants[i].email
  BY <1>1, <1>2 DEF KeepsEmail
<1>5. \A id \in Ids(merchants) \ U : Get(new, id).email = Get(merchants, id).email
  <2> TAKE id \in Ids(merchants) \ U
  <2>1. PICK i \in DOMAIN merchants : merchants[i].id = id
    BY DEF Ids
  <2>2. Get(merchants, id) = merchants[i] /\ Get(new, id) = new[i]
    BY <1>1, <1>2, <1>3, <2>1
  <2>3. QED
    BY <1>4, <2>1, <2>2
<1>6. Get(new, row.id) = row
  BY <1>1, <1>3
<1>7. ASSUME NEW r, LookedUp(merchants, U, r)
      PROVE  LookedUp(new, U, r)
  <2>1. r.before \subseteq Ids(new)
    BY <1>1, <1>7 DEF LookedUp
  <2>2. ASSUME NEW i \in DOMAIN new, new[i].id \in r.before \ U
        PROVE  ~SameEmail(new[i].email, r.email)
    <3>1. PICK k \in DOMAIN merchants : merchants[k].id = new[i].id
      BY <1>7, <2>2 DEF LookedUp, Ids
    <3>2. ~SameEmail(merchants[k].email, r.email)
      BY <1>7, <2>2, <3>1 DEF LookedUp
    <3>3. k \in DOMAIN new /\ new[k].id = new[i].id
      BY <1>1, <3>1
    <3>4. new[k] = new[i]
      BY <1>3, <3>3
    <3>5. QED
      BY <1>4, <2>2, <3>1, <3>2, <3>4
  <2>3. QED
    BY <2>1, <2>2 DEF LookedUp
<1>8. QED
  BY <1>1, <1>5, <1>6, <1>7 DEF new

LEMMA UniqueAfterPut ==
  ASSUME UniqueInv, Table(merchants, Merchant), NEW row \in Merchant, ~EmailTaken(row),
         merchants' = Put(merchants, row), UNCHANGED backend
  PROVE  UniqueInv'
<1>1. SUFFICES ASSUME backend = "supabase", NEW i \in DOMAIN merchants',
                      NEW j \in DOMAIN merchants', merchants'[i].email = merchants'[j].email
               PROVE  i = j
  BY DEF UniqueInv
<1>2. /\ \A k \in DOMAIN merchants' :
           \/ merchants'[k] = row
           \/ k \in DOMAIN merchants /\ merchants'[k] = merchants[k] /\ merchants[k].id # row.id
      /\ Table(merchants', Merchant)
  BY PutRow
<1>3. \A k \in DOMAIN merchants : merchants[k].email = row.email => merchants[k].id = row.id
  BY <1>1 DEF EmailTaken
<1>4. CASE merchants'[i] = row /\ merchants'[j] = row
  BY <1>2, <1>4 DEF Table
<1>5. CASE merchants'[i] # row /\ merchants'[j] = row
  BY <1>1, <1>2, <1>3, <1>5
<1>6. CASE merchants'[i] = row /\ merchants'[j] # row
  BY <1>1, <1>2, <1>3, <1>6
<1>7. CASE merchants'[i] # row /\ merchants'[j] # row
  BY <1>1, <1>2, <1>7 DEF UniqueInv
<1>8. QED
  BY <1>4, <1>5, <1>6, <1>7

LEMMA AccountsStart ==
  ASSUME Init PROVE CallsInv /\ AccountsInv
<1>1. CallsInv /\ Saving = {} /\ \A w \in Thread : ~At(w, "save_settings")
  BY DEF Init, RequestsInit, CallsInv, Saving, At, Idle
<1>2. merchants = <<>> /\ settings = <<>> /\ sessions = {} /\ unchecked = {}
  BY DEF Init, AccountsInit
<1>3. DOMAIN settings = {} /\ DOMAIN merchants = {}
  BY <1>2
<1>4. Table(merchants, Merchant)
  BY <1>2 DEF Table
<1>5. AccountTypes
  BY <1>1, <1>2, <1>3, <1>4 DEF AccountTypes
<1>6. LookupInv /\ UniqueInv
  BY <1>1, <1>3 DEF LookupInv, UniqueInv
<1>7. QED
  BY <1>1, <1>5, <1>6 DEF AccountsInv

\* A step that changes no account and begins no call of theirs.
LEMMA AccountsUntouched ==
  ASSUME AccountsInv, UNCHANGED <<backend, accounts>>, Untouched(AccountPcs)
  PROVE  AccountsInv'
<1>1. /\ \A w \in Saving' : w \in Saving /\ calls'[w] = calls[w]
      /\ \A w \in Thread : At(w, "save_settings")' => At(w, "save_settings") /\ calls'[w] = calls[w]
  BY DEF Untouched, AccountPcs, Saving, At
<1>2. UNCHANGED <<backend, merchants, settings, sessions, unchecked>>
  BY DEF accounts
<1>3. AccountTypes'
  BY <1>1, <1>2 DEF AccountsInv, AccountTypes
<1>4. LookupInv'
  BY <1>1, <1>2 DEF AccountsInv, LookupInv, LookedUp, SameEmail, DemoRow
<1>5. UniqueInv'
  BY <1>2 DEF AccountsInv, UniqueInv
<1>6. QED
  BY <1>3, <1>4, <1>5 DEF AccountsInv

\* An e-mail that is not found has no row.
LEMMA NotFound ==
  ASSUME Table(merchants, Merchant), NEW e, FindByEmail(e) = None
  PROVE  \A i \in DOMAIN merchants : ~SameEmail(merchants[i].email, e)
<1>1. SUFFICES ASSUME Matches(e) # {} PROVE FALSE
  BY DEF Matches
<1> DEFINE k == CHOOSE i \in Matches(e) : \A j \in Matches(e) : i <= j
<1>2. Matches(e) \subseteq DOMAIN merchants /\ Matches(e) \subseteq Nat
  BY DEF Matches, Table
<1>3. \E i \in Matches(e) : \A j \in Matches(e) : i <= j
  BY <1>1, <1>2, LeastNumber
<1>4. k \in Matches(e)
  BY <1>3
<1>5. FindByEmail(e) = merchants[k]
  BY <1>1 DEF FindByEmail
<1> HIDE DEF k
<1>6. merchants[k] \in Merchant
  BY <1>2, <1>4 DEF Table
<1>7. QED
  BY <1>5, <1>6, AccountsAssumption

\* What is found is stored.
LEMMA Found ==
  ASSUME Table(merchants, Merchant), NEW e, FindByEmail(e) # None
  PROVE  \E i \in DOMAIN merchants : FindByEmail(e) = merchants[i]
<1>1. Matches(e) # {}
  BY DEF FindByEmail
<1> DEFINE k == CHOOSE i \in Matches(e) : \A j \in Matches(e) : i <= j
<1>2. Matches(e) \subseteq DOMAIN merchants /\ Matches(e) \subseteq Nat
  BY DEF Matches, Table
<1>3. \E i \in Matches(e) : \A j \in Matches(e) : i <= j
  BY <1>1, <1>2, LeastNumber
<1>4. k \in Matches(e)
  BY <1>3
<1>5. FindByEmail(e) = merchants[k]
  BY <1>1 DEF FindByEmail
<1>6. QED
  BY <1>2, <1>4, <1>5

\* A thread begins to save an account whose e-mail was not found.
LEMMA BeginSave ==
  ASSUME AccountsInv, UNCHANGED <<backend, accounts>>, NEW w \in Thread, NEW row \in Merchant,
         Moves(w, AccountPcs), calls'[w] = [pc |-> "save_merchant", row |-> row],
         LookedUp(merchants, unchecked, row), DemoRow(row),
         row.id # DemoId => /\ row.id \notin Ids(merchants) /\ row.id \notin HeaderIds
                            /\ \A v \in Saving : calls[v].row.id # row.id
  PROVE  AccountsInv'
<1>1. /\ UNCHANGED <<backend, merchants, settings, sessions, unchecked>>
      /\ AccountTypes /\ LookupInv /\ UniqueInv
  BY DEF accounts, AccountsInv
<1>2. /\ w \in Saving' /\ calls'[w].row = row /\ calls'[w].pc # "save_settings"
      /\ \A v \in Thread \ {w} : calls'[v] = calls[v]
      /\ \A v \in Saving' : v # w => v \in Saving /\ calls'[v] = calls[v]
  BY DEF Moves, Saving, At
<1>3. AccountTypes'
  <2>1. \A v \in Saving' : calls'[v].row \in Merchant /\ calls'[v].row.id \notin HeaderIds \ {DemoId}
    BY <1>1, <1>2 DEF AccountTypes
  <2>2. \A v \in Thread : At(v, "save_settings")' => At(v, "save_settings") /\ calls'[v] = calls[v]
    BY <1>2 DEF At
  <2>3. QED
    BY <1>1, <2>1, <2>2 DEF AccountTypes
<1>4. LookupInv'
  <2>1. \A i \in DOMAIN merchants' :
          merchants'[i].id \notin unchecked' =>
            LookedUp(merchants, unchecked, merchants[i])' /\ DemoRow(merchants[i])'
    BY <1>1 DEF LookupInv, LookedUp, SameEmail, DemoRow
  <2>2. \A v \in Saving' :
          /\ LookedUp(merchants, unchecked, calls[v].row)' /\ DemoRow(calls[v].row)'
          /\ calls'[v].row.id # DemoId => calls'[v].row.id \notin Ids(merchants')
    BY <1>1, <1>2 DEF LookupInv, LookedUp, SameEmail, DemoRow
  <2>3. \A u, v \in Saving' : u # v /\ calls'[u].row.id = calls'[v].row.id
                              => calls'[u].row.id = DemoId
    <3>1. TAKE u, v \in Saving'
    <3>2. CASE u # w /\ v # w
      BY <1>1, <1>2, <3>2 DEF LookupInv
    <3>3. CASE u = w \/ v = w
      BY <1>2, <3>3
    <3>4. QED
      BY <3>2, <3>3
  <2>4. QED
    BY <2>1, <2>2, <2>3 DEF LookupInv
<1>5. UniqueInv'
  BY <1>1 DEF UniqueInv
<1>6. QED
  BY <1>3, <1>4, <1>5 DEF AccountsInv

\* An account is saved, and a session may begin with it.
LEMMA SaveKeeps ==
  ASSUME AccountsInv, UNCHANGED <<backend, settings>>, NEW row \in Merchant,
         merchants' = Put(merchants, row), ~EmailTaken(row),
         unchecked \subseteq unchecked', unchecked' \subseteq unchecked \cup {row.id},
         KeepsEmail(row, unchecked'),
         row.id \notin unchecked' => LookedUp(merchants, unchecked, row) /\ DemoRow(row),
         Untouched(AccountPcs), sessions' \subseteq sessions \cup {Claims(row)},
         \A v \in Saving' : calls[v].row.id = row.id => row.id = DemoId
  PROVE  AccountsInv'
<1>1. AccountTypes /\ LookupInv /\ UniqueInv /\ Table(merchants, Merchant)
  BY DEF AccountsInv, AccountTypes
<1>2. /\ \A v \in Saving' : v \in Saving /\ calls'[v] = calls[v]
      /\ \A v \in Thread : At(v, "save_settings")' => At(v, "save_settings") /\ calls'[v] = calls[v]
  BY DEF Untouched, AccountPcs, Saving, At
<1>3. /\ Table(merchants', Merchant) /\ Ids(merchants') = Ids(merchants) \cup {row.id}
  BY <1>1, PutRow
<1>4. /\ \A i \in DOMAIN merchants' :
           \/ merchants'[i] = row
           \/ i \in DOMAIN merchants /\ merchants'[i] = merchants[i]
      /\ \A id \in Ids(merchants) \ unchecked' : Get(merchants', id).email = Get(merchants, id).email
      /\ Get(merchants', row.id) = row
      /\ \A r : LookedUp(merchants, unchecked', r) => LookedUp(Put(merchants, row), unchecked', r)
  BY <1>1, PutKeepsEmails
<1>5. \A r : LookedUp(merchants, unchecked, r) => LookedUp(merchants', unchecked', r)
  <2>1. \A r : LookedUp(merchants, unchecked, r) => LookedUp(merchants, unchecked', r)
    BY DEF LookedUp
  <2>2. QED
    BY <1>4, <2>1
<1>6. AccountTypes'
  <2>1. ASSUME NEW s \in sessions'
        PROVE  /\ s \in [id : MerchantIds, email : Email, name : Name]
               /\ s.id \in Ids(merchants')
               /\ s.id \notin unchecked' => Get(merchants', s.id).email = s.email
    <3>1. CASE s \in sessions
      BY <1>1, <1>3, <1>4, <3>1 DEF AccountTypes
    <3>2. CASE s = Claims(row)
      BY <1>3, <1>4, <3>2 DEF Claims, Merchant
    <3>3. QED
      BY <3>1, <3>2
  <2>2. \A v \in Saving' : calls'[v].row \in Merchant /\ calls'[v].row.id \notin HeaderIds \ {DemoId}
    BY <1>1, <1>2 DEF AccountTypes
  <2>3. unchecked' \subseteq Ids(merchants')
    BY <1>1, <1>3 DEF AccountTypes
  <2>4. QED
    BY <1>1, <1>2, <1>3, <2>1, <2>2, <2>3 DEF AccountTypes
<1>7. LookupInv'
  <2>1. \A i \in DOMAIN merchants' :
          merchants'[i].id \notin unchecked' =>
            LookedUp(merchants', unchecked', merchants'[i]) /\ DemoRow(merchants'[i])
    BY <1>1, <1>4, <1>5 DEF LookupInv
  <2>2. \A v \in Saving' :
          /\ LookedUp(merchants', unchecked', calls'[v].row) /\ DemoRow(calls'[v].row)
          /\ calls'[v].row.id # DemoId => calls'[v].row.id \notin Ids(merchants')
    BY <1>1, <1>2, <1>3, <1>5 DEF LookupInv
  <2>3. \A u, v \in Saving' : u # v /\ calls'[u].row.id = calls'[v].row.id
                              => calls'[u].row.id = DemoId
    BY <1>1, <1>2 DEF LookupInv
  <2>4. (\A i \in DOMAIN merchants :
           merchants[i].id \notin unchecked =>
             LookedUp(merchants, unchecked, merchants[i]) /\ DemoRow(merchants[i]))'
    BY <2>1 DEF LookedUp, SameEmail, DemoRow
  <2>5. (\A v \in Saving :
           /\ LookedUp(merchants, unchecked, calls[v].row) /\ DemoRow(calls[v].row)
           /\ calls[v].row.id # DemoId => calls[v].row.id \notin Ids(merchants))'
    BY <2>2 DEF LookedUp, SameEmail, DemoRow
  <2>6. QED
    BY <2>3, <2>4, <2>5 DEF LookupInv
<1>8. UniqueInv'
  BY <1>1, UniqueAfterPut
<1>9. QED
  BY <1>6, <1>7, <1>8 DEF AccountsInv

\* A row that register or login makes of an e-mail nobody has.
NewRow(id, e) == [id |-> id, email |-> e, name |-> "registered", phone |-> "given",
                  before |-> Ids(merchants)]

LEMMA NewRowLookedUp ==
  ASSUME AccountsInv, NEW id \in MerchantIds, NEW e \in Email,
         FindByEmail(e) = None
  PROVE  NewRow(id, e) \in Merchant /\ LookedUp(merchants, unchecked, NewRow(id, e))
<1>1. Table(merchants, Merchant)
  BY DEF AccountsInv, AccountTypes
<1>2. \A i \in DOMAIN merchants : merchants[i] \in Merchant
  BY <1>1 DEF Table
<1>3. Ids(merchants) \in SUBSET (MerchantIds)
  BY <1>2 DEF Ids, Merchant
<1>4. NewRow(id, e) \in Merchant
  BY <1>3 DEF NewRow, Merchant, Name
<1>5. NewRow(id, e).before = Ids(merchants) /\ NewRow(id, e).email = e
  BY DEF NewRow
<1>6. LookedUp(merchants, unchecked, NewRow(id, e))
  BY <1>1, <1>5, NotFound DEF LookedUp
<1>7. QED
  BY <1>4, <1>6

LEMMA RegisterKeeps ==
  ASSUME AccountsInv, CallsInv, UNCHANGED backend, NEW w \in Thread, NEW e \in Addresses \X Case, Register(w, e)
  PROVE  AccountsInv'
<1>1. UNCHANGED accounts /\ Moves(w, AccountPcs)
  BY AccountsMove DEF AccountsStep, Register, Arrive
<1>2. CASE FindByEmail(e) # None
  <2>1. Moves(w, {})
    BY <1>2, IdleMoves DEF Register
  <2>2. QED
    BY <1>1, <2>1, MovesLeave, AccountsUntouched DEF AccountPcs
<1>3. CASE FindByEmail(e) = None
  <2> DEFINE id == Fresh(FreshId)
             row == NewRow(id, e)
  <2>1. FreshId # {} /\ calls'[w] = [pc |-> "save_merchant", row |-> row]
    BY <1>3, ArriveMoves DEF Register, NewRow
  <2>2. id \in FreshId
    BY <2>1 DEF Fresh
  <2> HIDE DEF id
  <2>3. /\ id \in MerchantId /\ id \in MerchantIds /\ id \notin Ids(merchants)
        /\ \A v \in Saving : calls[v].row.id # id
    BY <2>2 DEF FreshId, Saving, MerchantIds
  <2>4. row \in Merchant /\ LookedUp(merchants, unchecked, row)
    <3>1. e \in Email
      BY DEF Email
    <3>2. QED
      BY <1>3, <2>3, <3>1, NewRowLookedUp
  <2>5. row.id = id /\ DemoRow(row) /\ id \notin HeaderIds
    BY <2>3, AccountsAssumption DEF DemoRow, NewRow
  <2> HIDE DEF row
  <2>6. QED
    BY <1>1, <2>1, <2>3, <2>4, <2>5, BeginSave
<1>4. QED
  BY <1>2, <1>3

LEMMA LoginKeeps ==
  ASSUME AccountsInv, CallsInv, UNCHANGED backend, NEW w \in Thread, NEW e \in Addresses \X Case, Login(w, e)
  PROVE  AccountsInv'
<1>0. AccountTypes /\ LookupInv /\ UniqueInv /\ Table(merchants, Merchant)
  BY DEF AccountsInv, AccountTypes
<1>1. UNCHANGED <<merchants, settings, unchecked>> /\ Moves(w, AccountPcs)
  BY AccountsMove DEF AccountsStep, Login, Arrive
<1>2. CASE FindByEmail(e) # None
  <2> DEFINE m == FindByEmail(e)
  <2>1. sessions' = sessions \cup {Claims(m)} /\ Moves(w, {})
    BY <1>2, IdleMoves DEF Login
  <2>2. PICK i \in DOMAIN merchants : m = merchants[i]
    BY <1>0, <1>2, Found
  <2>3. m \in Merchant /\ m.id \in Ids(merchants) /\ Get(merchants, m.id) = m
    BY <1>0, <2>2, GetRow
  <2> HIDE DEF m
  <2>4. Untouched(AccountPcs)
    BY <2>1, MovesLeave DEF AccountPcs
  <2>5. /\ \A v \in Saving' : v \in Saving /\ calls'[v] = calls[v]
        /\ \A v \in Thread : At(v, "save_settings")' => At(v, "save_settings") /\ calls'[v] = calls[v]
    BY <2>4 DEF Untouched, AccountPcs, Saving, At
  <2>6. Claims(m) \in [id : MerchantIds, email : Email, name : Name]
        /\ Claims(m).id = m.id /\ Claims(m).email = m.email
    BY <2>3 DEF Claims, Merchant
  <2>7. AccountTypes'
    BY <1>0, <1>1, <2>1, <2>3, <2>5, <2>6 DEF AccountTypes
  <2>8. LookupInv'
    BY <1>0, <1>1, <2>5 DEF LookupInv, LookedUp, SameEmail, DemoRow
  <2>9. UniqueInv'
    BY <1>0, <1>1 DEF UniqueInv
  <2>10. QED
    BY <2>7, <2>8, <2>9 DEF AccountsInv
<1>3. CASE FindByEmail(e) = None /\ e # DemoEmail
  <2>1. Moves(w, {}) /\ UNCHANGED accounts
    BY <1>1, <1>3, IdleMoves DEF Login, accounts
  <2>2. QED
    BY <2>1, MovesLeave, AccountsUntouched DEF AccountPcs
<1>4. CASE FindByEmail(e) = None /\ e = DemoEmail
  <2> DEFINE row == NewRow(DemoId, e)
  <2>1. UNCHANGED accounts /\ calls'[w] = [pc |-> "save_merchant", row |-> row]
    BY <1>1, <1>4, ArriveMoves DEF Login, NewRow, accounts
  <2>2. row \in Merchant /\ LookedUp(merchants, unchecked, row)
    <3>1. e \in Email /\ DemoId \in MerchantIds
      BY DEF Email, MerchantIds
    <3>2. QED
      BY <1>4, <3>1, NewRowLookedUp
  <2>3. row.id = DemoId /\ DemoRow(row)
    BY <1>4 DEF DemoRow, NewRow
  <2> HIDE DEF row
  <2>4. QED
    BY <1>1, <2>1, <2>2, <2>3, BeginSave
<1>5. QED
  BY <1>2, <1>3, <1>4

LEMMA SaveMerchantKeeps ==
  ASSUME AccountsInv, CallsInv, UNCHANGED backend, NEW w \in Thread, SaveMerchant(w)
  PROVE  AccountsInv'
<1>0. AccountTypes /\ LookupInv /\ UniqueInv /\ Table(merchants, Merchant)
  BY DEF AccountsInv, AccountTypes
<1> DEFINE row == calls[w].row
<1>1. w \in Saving /\ UNCHANGED <<settings, unchecked>>
  BY DEF SaveMerchant, Saving
<1>2. Moves(w, {}) /\ calls'[w] = Idle
  BY IdleMoves DEF SaveMerchant
<1>3. Untouched(AccountPcs) /\ w \notin Saving'
  BY <1>2, MovesLeave DEF AccountPcs, Saving, At, Idle
<1>4. CASE EmailTaken(row)
  BY <1>1, <1>3, <1>4, AccountsUntouched DEF SaveMerchant, accounts
<1>5. CASE ~EmailTaken(row)
  <2>1. /\ row \in Merchant /\ LookedUp(merchants, unchecked, row) /\ DemoRow(row)
        /\ row.id # DemoId => row.id \notin Ids(merchants)
    BY <1>0, <1>1 DEF AccountTypes, LookupInv
  <2>2. merchants' = Put(merchants, row) /\ sessions' = sessions \cup {Claims(row)}
    BY <1>5 DEF SaveMerchant
  <2>3. KeepsEmail(row, unchecked)
    <3>1. SUFFICES ASSUME row.id \in Ids(merchants) \ unchecked
                   PROVE  Get(merchants, row.id).email = row.email
      BY DEF KeepsEmail
    <3>2. row.id = DemoId /\ row.email = DemoEmail
      BY <2>1, <3>1 DEF DemoRow
    <3>3. PICK i \in DOMAIN merchants : merchants[i].id = DemoId /\ Get(merchants, DemoId) = merchants[i]
      BY <1>0, <3>1, <3>2, GetRow
    <3>4. merchants[i].email = DemoEmail
      BY <1>0, <3>1, <3>2, <3>3 DEF LookupInv, DemoRow
    <3>5. QED
      BY <3>2, <3>3, <3>4
  <2>4. \A v \in Saving' : calls[v].row.id = row.id => row.id = DemoId
    <3>1. \A v \in Saving' : v \in Saving /\ v # w
      BY <1>3 DEF Untouched, AccountPcs, Saving, At
    <3>2. QED
      BY <1>0, <1>1, <3>1 DEF LookupInv
  <2> HIDE DEF row
  <2>5. QED
    BY <1>1, <1>3, <1>5, <2>1, <2>2, <2>3, <2>4, SaveKeeps
<1>6. QED
  BY <1>4, <1>5

ProfileChanges == {[name |-> "renamed"], [phone |-> "changed"]}

\* What PUT /settings/profile saves is the merchant of the claims.
LEMMA ProfileRow ==
  ASSUME NEW change \in ProfileChanges, NEW b \in SUBSET MerchantIds,
         NEW s \in [id : MerchantIds, email : Email, name : Name]
  PROVE  LET row == Over(Profile(s, change), [before |-> b])
         IN row \in Merchant /\ row.id = s.id /\ row.email = s.email /\ row.before = b
<1> DEFINE row == Over(Profile(s, change), [before |-> b])
<1>1. CASE change = [name |-> "renamed"]
  <2>1. Profile(s, change) = [id |-> s.id, email |-> s.email, name |-> "renamed", phone |-> None]
    BY <1>1 DEF Profile, Over
  <2>2. row = [id |-> s.id, email |-> s.email, name |-> "renamed", phone |-> None, before |-> b]
    BY <2>1 DEF Over
  <2>3. QED
    BY <2>2 DEF Merchant, Name
<1>2. CASE change = [phone |-> "changed"]
  <2>1. Profile(s, change) = [id |-> s.id, email |-> s.email, name |-> s.name, phone |-> "changed"]
    BY <1>2 DEF Profile, Over
  <2>2. row = [id |-> s.id, email |-> s.email, name |-> s.name, phone |-> "changed", before |-> b]
    BY <2>1 DEF Over
  <2>3. QED
    BY <2>2 DEF Merchant
<1>3. QED
  BY <1>1, <1>2 DEF ProfileChanges

\* The merchants that requests speak for, by a token or by a header.
Callers == sessions \cup {HeaderClaims(m) : m \in Named}

LEMMA CallerTyped ==
  ASSUME AccountTypes, NEW s \in Callers
  PROVE  s \in [id : MerchantIds, email : Email, name : Name] /\ s.id \in Named
<1>1. \A i \in DOMAIN merchants : merchants[i].id \in MerchantIds
  <2>1. \A i \in DOMAIN merchants : merchants[i] \in Merchant
    BY DEF AccountTypes, Table
  <2>2. QED
    BY <2>1 DEF Merchant
<1>2. Named \subseteq MerchantIds
  BY <1>1 DEF Named, MerchantIds, Ids
<1>3. CASE s \in sessions
  BY <1>3 DEF AccountTypes, Named
<1>4. ASSUME NEW m \in Named, s = HeaderClaims(m)
      PROVE  s \in [id : MerchantIds, email : Email, name : Name] /\ s.id \in Named
  <2>1. <<m, "lower">> \in Email /\ m \in MerchantIds
    BY <1>2 DEF Email, Case
  <2>2. QED
    BY <1>4, <2>1 DEF HeaderClaims, Name
<1>5. QED
  BY <1>3, <1>4 DEF Callers

LEMMA UpdateProfileKeeps ==
  ASSUME AccountsInv, CallsInv, UNCHANGED backend, NEW w \in Thread, NEW s \in Callers,
         NEW change \in ProfileChanges, UpdateProfile(w, s, change)
  PROVE  AccountsInv'
<1>0. AccountTypes /\ LookupInv /\ UniqueInv /\ Table(merchants, Merchant)
  BY DEF AccountsInv, AccountTypes
<1> DEFINE before == IF s.id \in Ids(merchants) THEN Get(merchants, s.id).before ELSE {}
           row == Over(Profile(s, change), [before |-> before])
<1>1. UNCHANGED <<settings, sessions>> /\ Untouched(AccountPcs)
  BY IdleMoves, MovesLeave DEF UpdateProfile, AccountPcs
<1>2. s \in [id : MerchantIds, email : Email, name : Name] /\ s.id \in Named
  BY <1>0, CallerTyped
<1>3. s.id \in Ids(merchants) => /\ Get(merchants, s.id) \in Merchant
                                 /\ Get(merchants, s.id).id = s.id
                                 /\ \E i \in DOMAIN merchants : Get(merchants, s.id) = merchants[i]
  BY <1>0, GetRow
<1>4. before \in SUBSET MerchantIds
  BY <1>3 DEF Merchant
<1> HIDE DEF before
<1>5. /\ row \in Merchant /\ row.id = s.id /\ row.email = s.email
      /\ row.before = before
  BY <1>2, <1>4, ProfileRow
<1>6. IF EmailTaken(row) THEN UNCHANGED <<merchants, unchecked>>
      ELSE /\ merchants' = Put(merchants, row)
           /\ unchecked' = IF s \in sessions THEN unchecked ELSE unchecked \cup {s.id}
  BY DEF UpdateProfile, before
<1> HIDE DEF row
<1>7. CASE EmailTaken(row)
  BY <1>1, <1>6, <1>7, AccountsUntouched DEF accounts
<1>8. CASE ~EmailTaken(row)
  <2>1. /\ merchants' = Put(merchants, row)
        /\ unchecked \subseteq unchecked' /\ unchecked' \subseteq unchecked \cup {row.id}
    BY <1>5, <1>6, <1>8
  <2>2. ASSUME row.id \notin unchecked'
        PROVE  LookedUp(merchants, unchecked, row) /\ DemoRow(row)
    <3>1. s \in sessions /\ unchecked' = unchecked /\ s.id \notin unchecked
      BY <1>5, <1>6, <1>8, <2>2
    <3>2. s.id \in Ids(merchants) /\ Get(merchants, s.id).email = s.email
      BY <1>0, <3>1 DEF AccountTypes
    <3>3. PICK i \in DOMAIN merchants : Get(merchants, s.id) = merchants[i]
      BY <1>3, <3>2
    <3>4. /\ merchants[i].id = row.id /\ merchants[i].email = row.email
          /\ merchants[i].before = row.before
      BY <1>3, <1>5, <3>2, <3>3 DEF before
    <3>5. LookedUp(merchants, unchecked, merchants[i]) /\ DemoRow(merchants[i])
      BY <1>0, <1>5, <3>1, <3>4 DEF LookupInv
    <3>6. QED
      BY <3>4, <3>5 DEF LookedUp, DemoRow
  <2>3. KeepsEmail(row, unchecked')
    <3>1. SUFFICES ASSUME row.id \in Ids(merchants) \ unchecked'
                   PROVE  Get(merchants, row.id).email = row.email
      BY DEF KeepsEmail
    <3>2. s \in sessions /\ s.id \notin unchecked
      BY <1>5, <1>6, <1>8, <3>1
    <3>3. QED
      BY <1>0, <1>5, <3>2 DEF AccountTypes
  <2>4. \A v \in Saving' : calls[v].row.id = row.id => row.id = DemoId
    <3>1. \A v \in Saving' : v \in Saving
      BY <1>1 DEF Untouched, AccountPcs, Saving, At
    <3>2. \A v \in Saving : /\ calls[v].row.id # DemoId => calls[v].row.id \notin Ids(merchants)
                            /\ calls[v].row.id \notin HeaderIds \ {DemoId}
      BY <1>0 DEF LookupInv, AccountTypes
    <3>3. QED
      BY <1>2, <1>5, <3>1, <3>2 DEF Named
  <2>5. sessions' \subseteq sessions \cup {Claims(row)}
    BY <1>1
  <2>6. QED
    BY <1>1, <1>5, <1>8, <2>1, <2>2, <2>3, <2>4, <2>5, SaveKeeps
<1>9. QED
  BY <1>7, <1>8

LEMMA OverSettings ==
  ASSUME NEW change \in SettingsChanges, NEW old \in Settings
  PROVE  Over(change, old) \in Settings
<1> DEFINE fields == {"notify_recovery_completed", "notify_action_failed"}
           new == [x \in fields |-> IF x \in DOMAIN change THEN change[x] ELSE old[x]]
<1>1. DOMAIN old = fields /\ \A x \in fields : old[x] \in BOOLEAN
  BY DEF Settings
<1>2. DOMAIN change \subseteq fields /\ \A x \in DOMAIN change : change[x] \in BOOLEAN
  <2>1. CASE change = [notify_recovery_completed |-> FALSE]
    <3>1. DOMAIN change = {"notify_recovery_completed"} /\ change["notify_recovery_completed"] = FALSE
      BY <2>1
    <3>2. QED
      BY <3>1
  <2>2. CASE change = [notify_action_failed |-> FALSE]
    <3>1. DOMAIN change = {"notify_action_failed"} /\ change["notify_action_failed"] = FALSE
      BY <2>2
    <3>2. QED
      BY <3>1
  <2>3. QED
    BY <2>1, <2>2 DEF SettingsChanges
<1>3. DOMAIN change \cup DOMAIN old = fields
  BY <1>1, <1>2
<1>4. Over(change, old) = new
  BY <1>3 DEF Over
<1>5. new \in [fields -> BOOLEAN]
  BY <1>1, <1>2
<1>6. \A f \in [fields -> BOOLEAN] : f \in Settings
  BY DEF Settings
<1>7. QED
  BY <1>4, <1>5, <1>6

LEMMA SettingsOfType ==
  ASSUME AccountTypes, NEW m
  PROVE  SettingsOf(m) \in Settings
BY DEF AccountTypes, SettingsOf, DefaultSettings, Settings

LEMMA ReadSettingsKeeps ==
  ASSUME AccountsInv, CallsInv, UNCHANGED backend, NEW w \in Thread, NEW m \in MerchantIds,
         NEW change \in SettingsChanges, ReadSettings(w, m, change)
  PROVE  AccountsInv'
<1>0. AccountTypes /\ LookupInv /\ UniqueInv
  BY DEF AccountsInv
<1>1. UNCHANGED <<merchants, settings, sessions, unchecked>>
  BY DEF ReadSettings, accounts
<1>2. /\ Moves(w, AccountPcs)
      /\ calls'[w] = [pc |-> "save_settings", doc |-> m, change |-> change,
                       read |-> SettingsOf(m)]
  BY ArriveMoves DEF ReadSettings, AccountPcs
<1>3. /\ \A v \in Saving' : v \in Saving /\ calls'[v] = calls[v]
      /\ \A v \in Thread \ {w} : calls'[v] = calls[v]
  BY <1>2 DEF Moves, Saving, At
<1>4. AccountTypes'
  <2>1. /\ calls'[w].doc \in MerchantIds
        /\ calls'[w].change \in SettingsChanges /\ calls'[w].read \in Settings
    BY <1>0, <1>2, SettingsOfType DEF AccountTypes
  <2>2. \A v \in Thread :
          At(v, "save_settings")' => /\ calls'[v].doc \in MerchantIds
                                     /\ calls'[v].change \in SettingsChanges
                                     /\ calls'[v].read \in Settings
    BY <1>0, <1>3, <2>1 DEF AccountTypes, At
  <2>3. QED
    BY <1>0, <1>1, <1>3, <2>2 DEF AccountTypes
<1>5. LookupInv'
  BY <1>0, <1>1, <1>3 DEF LookupInv, LookedUp, SameEmail, DemoRow
<1>6. UniqueInv'
  BY <1>0, <1>1 DEF UniqueInv
<1>7. QED
  BY <1>4, <1>5, <1>6 DEF AccountsInv

LEMMA SaveSettingsKeeps ==
  ASSUME AccountsInv, CallsInv, UNCHANGED backend, NEW w \in Thread, SaveSettings(w)
  PROVE  AccountsInv'
<1>0. AccountTypes /\ LookupInv /\ UniqueInv
  BY DEF AccountsInv
<1>1. /\ At(w, "save_settings") /\ UNCHANGED <<merchants, sessions, unchecked>>
      /\ \/ UNCHANGED settings
         \/ settings' = With(settings, calls[w].doc, Over(calls[w].change, calls[w].read))
  BY DEF SaveSettings, Merge
<1>2. Untouched(AccountPcs)
  <2>1. Finish(w)
    BY DEF SaveSettings
  <2>2. Moves(w, {})
    BY <2>1, IdleMoves
  <2>3. QED
    BY <2>2, MovesLeave DEF AccountPcs
<1>3. /\ \A v \in Saving' : v \in Saving /\ calls'[v] = calls[v]
      /\ \A v \in Thread : At(v, "save_settings")' => At(v, "save_settings") /\ calls'[v] = calls[v]
  BY <1>2 DEF Untouched, AccountPcs, Saving, At
<1>4. /\ calls[w].doc \in MerchantIds
      /\ Over(calls[w].change, calls[w].read) \in Settings
  BY <1>0, <1>1, OverSettings DEF AccountTypes
<1>5. \A m \in DOMAIN settings' : settings'[m] \in Settings /\ m \in MerchantIds
  <2> DEFINE d == calls[w].doc
             v == Over(calls[w].change, calls[w].read)
  <2>1. \A m \in DOMAIN settings : settings[m] \in Settings /\ m \in MerchantIds
    BY <1>0 DEF AccountTypes
  <2>2. CASE UNCHANGED settings
    BY <2>1, <2>2
  <2>3. CASE settings' = With(settings, d, v)
    <3>1. d \in MerchantIds /\ v \in Settings
      BY <1>4
    <3> HIDE DEF d, v
    <3>2. /\ DOMAIN settings' = DOMAIN settings \cup {d} /\ settings'[d] = v
          /\ \A m \in DOMAIN settings : m # d => settings'[m] = settings[m]
      BY <2>3 DEF With
    <3>3. QED
      BY <2>1, <3>1, <3>2
  <2>4. QED
    BY <1>1, <2>2, <2>3
<1>6. AccountTypes'
  BY <1>0, <1>1, <1>3, <1>5 DEF AccountTypes
<1>7. LookupInv'
  BY <1>0, <1>1, <1>3 DEF LookupInv, LookedUp, SameEmail, DemoRow
<1>8. UniqueInv'
  BY <1>0, <1>1 DEF UniqueInv
<1>9. QED
  BY <1>6, <1>7, <1>8 DEF AccountsInv

LEMMA AccountsNextStep ==
  ASSUME CallsInv, AccountsInv, [Next]_vars
  PROVE  AccountsInv'
<1>1. ASSUME NEW w \in Thread, AccountsStep(w), UNCHANGED backend
      PROVE  AccountsInv'
  <2>1. Named \subseteq MerchantIds
    <3>1. \A m \in Named : HeaderClaims(m) \in Callers /\ HeaderClaims(m).id = m
      BY DEF Callers, HeaderClaims
    <3>2. QED
      BY <3>1, CallerTyped DEF AccountsInv
  <2>2. QED
    BY <1>1, <2>1, RegisterKeeps, LoginKeeps, SaveMerchantKeeps, UpdateProfileKeeps,
       ReadSettingsKeeps, SaveSettingsKeeps
       DEF AccountsStep, ProfileChanges, SettingsChanges, Callers
<1>2. QED
  BY <1>1, ConsoleSteps, AccountsUntouched

LEMMA AccountsInvariant == Spec => [](CallsInv /\ AccountsInv /\ BackendInv)
<1>1. Init => CallsInv /\ AccountsInv /\ BackendInv
  BY AccountsStart DEF Init, RequestsInit, BackendInv
<1>2. CallsInv /\ AccountsInv /\ BackendInv /\ [Next]_vars
        => (CallsInv /\ AccountsInv /\ BackendInv)'
  BY AccountsNextStep, ConsoleSteps DEF BackendInv
<1>3. QED
  BY <1>1, <1>2, PTL DEF Spec

\* Two accounts with one e-mail exist only if neither registration had finished
\* when the other looked, or if a request without a token has saved one of them;
\* on Supabase they never exist.
THEOREM AccountDuplicatesExplained == Spec => []DuplicateAccountsExplained
<1>1. AccountsInv /\ BackendInv => DuplicateAccountsExplained
  <2> SUFFICES ASSUME AccountsInv, BackendInv,
                      NEW i \in DOMAIN merchants, NEW j \in DOMAIN merchants, i # j,
                      IF backend = "memory" THEN merchants[i].email[1] = merchants[j].email[1]
                      ELSE merchants[i].email = merchants[j].email
               PROVE  /\ backend = "memory"
                      /\ \/ /\ merchants[i].id \notin merchants[j].before
                            /\ merchants[j].id \notin merchants[i].before
                         \/ merchants[i].id \in unchecked \/ merchants[j].id \in unchecked
    BY DEF DuplicateAccountsExplained
  <2>1. LookupInv /\ UniqueInv
    BY DEF AccountsInv
  <2>2. SameEmail(merchants[j].email, merchants[i].email)
        /\ SameEmail(merchants[i].email, merchants[j].email)
    BY DEF SameEmail
  <2>3. ASSUME merchants[i].id \notin unchecked, merchants[j].id \notin unchecked
        PROVE  /\ merchants[i].id \notin merchants[j].before
               /\ merchants[j].id \notin merchants[i].before
    BY <2>1, <2>2, <2>3 DEF LookupInv, LookedUp
  <2>4. backend # "supabase"
    BY <2>1 DEF UniqueInv
  <2>5. backend = "memory"
    BY <2>4 DEF BackendInv
  <2>6. QED
    BY <2>3, <2>5
<1>2. QED
  BY <1>1, AccountsInvariant, PTL

-----------------------------------------------------------------------------
(* Settings and policies: what is saved is what all updates add up to *)

\* What no update has overlapped is stored as expected, and a thread that will
\* save it holds what is stored.
SettingsInv ==
  /\ \A d \in DOMAIN settings : d \notin overlapped => d \in DOMAIN expected
                                                       /\ settings[d] = expected[d]
  /\ \A d \in MerchantIds : d \in DOMAIN expected => d \in DOMAIN settings
  /\ \A w \in Thread : At(w, "save_settings") /\ calls[w].doc \notin overlapped
                         => calls[w].read = SettingsOf(calls[w].doc)

PolicyChanges == {[is_active |-> FALSE], [is_active |-> TRUE], [maximum_retries |-> 5]}

PolicyTypes ==
  /\ Table(policies, Policy) /\ \A i \in DOMAIN policies : policies[i].id \in PolicyId
  /\ default \in Policy
  /\ ran \in [HeaderIds -> Policy \cup {None}]
  /\ backend = "supabase" => policies = <<>>
  /\ \A w \in Thread :
       At(w, "save_policy") => /\ calls[w].doc \in Ids(policies)
                               /\ calls[w].change \in PolicyChanges
                               /\ calls[w].read \in Policy /\ calls[w].read.id = calls[w].doc

PolicyInv ==
  /\ \A i \in DOMAIN policies :
       policies[i].id \notin overlapped => policies[i].id \in DOMAIN expected
                                           /\ policies[i] = expected[policies[i].id]
  /\ \A w \in Thread : At(w, "save_policy") /\ calls[w].doc \notin overlapped
                         => calls[w].read = Get(policies, calls[w].doc)

DocumentsInv == SettingsInv /\ PolicyTypes /\ PolicyInv

\* The documents of a set D are noted as before, but for more of them overlapped.
Noted(D) ==
  /\ overlapped \subseteq overlapped'
  /\ \A d \in D : /\ d \in DOMAIN expected' <=> d \in DOMAIN expected
                  /\ d \in DOMAIN expected => expected'[d] = expected[d]

\* NoteSave changes the history of one document, and overlaps the copies of it
\* that other threads hold.
LEMMA NoteSaveFrame ==
  ASSUME NEW w \in Thread, NEW d, NEW doc, NoteSave(w, d, doc)
  PROVE  /\ d \in DOMAIN expected' /\ expected'[d] = doc
         /\ \A D : d \notin D => Noted(D)
         /\ overlapped \subseteq overlapped'
         /\ \A v \in Thread \ {w} : Updates(v) /\ calls[v].doc = d => d \in overlapped'
<1>1. expected' = [x \in DOMAIN expected \cup {d} |-> IF x = d THEN doc ELSE expected[x]]
  BY DEF NoteSave, With
<1>2. d \in DOMAIN expected' /\ expected'[d] = doc
  BY <1>1
<1>3. /\ overlapped \subseteq overlapped'
      /\ \A v \in Thread \ {w} : Updates(v) /\ calls[v].doc = d => d \in overlapped'
  BY DEF NoteSave
<1>4. ASSUME NEW D, d \notin D
      PROVE  Noted(D)
  BY <1>1, <1>3, <1>4 DEF Noted
<1>5. QED
  BY <1>2, <1>3, <1>4

LEMMA SettingsUntouched ==
  ASSUME AccountTypes, SettingsInv, UNCHANGED settings, Untouched({"save_settings"}),
         Noted(MerchantIds)
  PROVE  SettingsInv'
<1>1. \A w \in Thread : At(w, "save_settings")' => At(w, "save_settings") /\ calls'[w] = calls[w]
  BY DEF Untouched, At
<1>2. \A d \in DOMAIN settings : d \in MerchantIds
  BY DEF AccountTypes
<1>3. \A d : SettingsOf(d)' = SettingsOf(d)
  BY DEF SettingsOf
<1>4. \A d \in DOMAIN settings' : d \notin overlapped' => d \in DOMAIN expected'
                                                          /\ settings'[d] = expected'[d]
  BY <1>2 DEF SettingsInv, Noted
<1>5. \A d \in MerchantIds : d \in DOMAIN expected' => d \in DOMAIN settings'
  BY DEF SettingsInv, Noted
<1>6. ASSUME NEW w \in Thread, At(w, "save_settings")', calls'[w].doc \notin overlapped'
      PROVE  calls'[w].read = SettingsOf(calls[w].doc)'
  <2>1. At(w, "save_settings") /\ calls'[w] = calls[w] /\ calls[w].doc \notin overlapped
    BY <1>1, <1>6 DEF Noted
  <2>2. calls[w].read = SettingsOf(calls[w].doc)
    BY <2>1 DEF SettingsInv
  <2>3. QED
    BY <2>1, <2>2 DEF SettingsOf
<1>7. QED
  BY <1>4, <1>5, <1>6 DEF SettingsInv, SettingsOf

LEMMA PoliciesUntouched ==
  ASSUME PolicyTypes, PolicyInv, UNCHANGED <<backend, policies>>, Untouched(PolicyPcs),
         Noted(PolicyId), default' \in Policy, ran' \in [HeaderIds -> Policy \cup {None}]
  PROVE  PolicyTypes' /\ PolicyInv'
<1>1. \A w \in Thread : At(w, "save_policy")' => At(w, "save_policy") /\ calls'[w] = calls[w]
  BY DEF Untouched, PolicyPcs, At
<1>2. PolicyTypes'
  BY <1>1 DEF PolicyTypes
<1>3. \A i \in DOMAIN policies' :
        policies'[i].id \notin overlapped' => policies'[i].id \in DOMAIN expected'
                                              /\ policies'[i] = expected'[policies'[i].id]
  BY DEF PolicyTypes, PolicyInv, Noted
<1>4. \A w \in Thread : At(w, "save_policy")' /\ calls'[w].doc \notin overlapped'
                          => calls'[w].read = Get(policies', calls'[w].doc)
  BY <1>1 DEF PolicyInv, Noted
<1>5. QED
  BY <1>2, <1>3, <1>4 DEF PolicyInv

\* Putting a row leaves the rows of other ids.
LEMMA PutOthers ==
  ASSUME NEW S, NEW rows, Table(rows, S), NEW rec \in S
  PROVE  /\ Get(Put(rows, rec), rec.id) = rec
         /\ \A id \in Ids(rows) : id # rec.id => Get(Put(rows, rec), id) = Get(rows, id)
<1> DEFINE new == Put(rows, rec)
<1>1. /\ Table(new, S)
      /\ \A i \in DOMAIN rows : i \in DOMAIN new
                                /\ new[i] = IF rows[i].id = rec.id THEN rec ELSE rows[i]
      /\ \E i \in DOMAIN new : new[i] = rec
  BY PutRow
<1> HIDE DEF new
<1>2. \A i \in DOMAIN new : Get(new, new[i].id) = new[i]
  BY <1>1, GetRow
<1>3. ASSUME NEW id \in Ids(rows), id # rec.id
      PROVE  Get(new, id) = Get(rows, id)
  <2>1. PICK i \in DOMAIN rows : rows[i].id = id /\ Get(rows, id) = rows[i]
    BY GetRow
  <2>2. i \in DOMAIN new /\ new[i] = rows[i]
    BY <1>1, <1>3, <2>1
  <2>3. QED
    BY <1>2, <2>1, <2>2
<1>4. QED
  BY <1>1, <1>2, <1>3 DEF new

LEMMA ReadSettingsNoted ==
  ASSUME AccountTypes, SettingsInv, CallsInv, NEW w \in Thread, NEW m,
         NEW change \in SettingsChanges, ReadSettings(w, m, change)
  PROVE  SettingsInv'
<1>1. /\ UNCHANGED <<settings, expected, overlapped>>
      /\ Moves(w, AccountPcs)
      /\ calls'[w] = [pc |-> "save_settings", doc |-> m, change |-> change,
                       read |-> SettingsOf(m)]
  BY ArriveMoves DEF ReadSettings, AccountPcs, accounts, history
<1>2. \A v \in Thread \ {w} : calls'[v] = calls[v]
  BY <1>1 DEF Moves
<1>3. \A v \in Thread : At(v, "save_settings")' /\ calls'[v].doc \notin overlapped'
                          => calls'[v].read = SettingsOf(calls[v].doc)'
  BY <1>1, <1>2 DEF SettingsInv, SettingsOf, At
<1>4. QED
  BY <1>1, <1>3 DEF SettingsInv

LEMMA SaveSettingsNoted ==
  ASSUME AccountTypes, SettingsInv, CallsInv, NEW w \in Thread, SaveSettings(w),
         ~NoMerchant(calls[w].doc)
  PROVE  SettingsInv' /\ Noted(PolicyId)
<1> DEFINE d == calls[w].doc
           new == Over(calls[w].change, calls[w].read)
           doc == Over(calls[w].change, IF d \in DOMAIN expected THEN expected[d]
                                        ELSE DefaultSettings)
<1>1. /\ At(w, "save_settings") /\ settings' = With(settings, d, new)
      /\ NoteSave(w, d, doc) /\ Finish(w)
  BY DEF SaveSettings, Merge
<1>2. d \in MerchantIds
  BY <1>1 DEF AccountTypes
<1>3. /\ d \notin overlapped => calls[w].read = SettingsOf(d)
      /\ \A m \in DOMAIN settings : m \notin overlapped => m \in DOMAIN expected
                                                           /\ settings[m] = expected[m]
      /\ \A m \in MerchantIds : m \in DOMAIN expected => m \in DOMAIN settings
  BY <1>1 DEF SettingsInv
<1>4. d \notin overlapped => new = doc
  BY <1>2, <1>3 DEF SettingsOf
<1> HIDE DEF doc
<1>5. /\ d \in DOMAIN expected' /\ expected'[d] = doc
      /\ Noted(MerchantIds \ {d}) /\ Noted(PolicyId) /\ overlapped \subseteq overlapped'
      /\ \A v \in Thread \ {w} : Updates(v) /\ calls[v].doc = d => d \in overlapped'
  <2>1. d \notin MerchantIds \ {d} /\ d \notin PolicyId
    BY <1>2, ConsoleAssumption
  <2>2. QED
    BY <1>1, <2>1, NoteSaveFrame
<1> HIDE DEF new
<1>6. /\ DOMAIN settings' = DOMAIN settings \cup {d} /\ settings'[d] = new
      /\ \A m \in DOMAIN settings : m # d => settings'[m] = settings[m]
  BY <1>1 DEF With
<1>7. \A m \in DOMAIN settings : m \in MerchantIds
  BY DEF AccountTypes
<1> HIDE DEF d
<1>8. \A m \in DOMAIN settings' : m \notin overlapped' => m \in DOMAIN expected'
                                                          /\ settings'[m] = expected'[m]
  <2> TAKE m \in DOMAIN settings'
  <2>1. CASE m = d
    BY <1>4, <1>5, <1>6, <2>1
  <2>2. CASE m # d
    BY <1>3, <1>5, <1>6, <1>7, <2>2 DEF Noted
  <2>3. QED
    BY <2>1, <2>2
<1>9. \A m \in MerchantIds : m \in DOMAIN expected' => m \in DOMAIN settings'
  BY <1>3, <1>5, <1>6 DEF Noted
<1>10. ASSUME NEW v \in Thread, At(v, "save_settings")', calls'[v].doc \notin overlapped'
       PROVE  calls'[v].read = SettingsOf(calls[v].doc)'
  <2>1. Moves(w, {}) /\ calls'[w] = Idle
    BY <1>1, IdleMoves
  <2>2. v # w /\ calls'[v] = calls[v] /\ At(v, "save_settings")
    BY <1>10, <2>1 DEF Moves, At, Idle
  <2>3. calls[v].doc # d /\ calls[v].doc \notin overlapped
    BY <1>5, <1>10, <2>2 DEF Updates, At
  <2>4. calls[v].read = SettingsOf(calls[v].doc)
    BY <2>2, <2>3 DEF SettingsInv
  <2>5. QED
    BY <1>6, <2>2, <2>3, <2>4 DEF SettingsOf
<1>11. QED
  BY <1>5, <1>8, <1>9, <1>10 DEF SettingsInv

LEMMA AccountsNoted ==
  ASSUME AccountsInv, SettingsInv, CallsInv, NEW w \in Thread, AccountsStep(w)
  PROVE  SettingsInv' /\ Noted(PolicyId)
<1>0. AccountTypes
  BY DEF AccountsInv
<1>1. ASSUME UNCHANGED <<settings, history>>, Moves(w, {"save_merchant"})
      PROVE  SettingsInv' /\ Noted(PolicyId)
  <2>1. Noted(MerchantIds) /\ Noted(PolicyId)
    BY <1>1 DEF Noted, history
  <2>2. Untouched({"save_settings"})
    BY <1>1, MovesLeave
  <2>3. QED
    BY <1>0, <1>1, <2>1, <2>2, SettingsUntouched
<1>2. ASSUME NEW e \in Addresses \X Case, Register(w, e)
      PROVE  UNCHANGED <<settings, history>> /\ Moves(w, {"save_merchant"})
  BY <1>2, IdleMoves, ArriveMoves DEF Register, accounts
<1>3. ASSUME NEW e \in Addresses \X Case, Login(w, e)
      PROVE  UNCHANGED <<settings, history>> /\ Moves(w, {"save_merchant"})
  BY <1>3, IdleMoves, ArriveMoves DEF Login
<1>4. ASSUME SaveMerchant(w)
      PROVE  UNCHANGED <<settings, history>> /\ Moves(w, {"save_merchant"})
  BY <1>4, IdleMoves DEF SaveMerchant
<1>5. ASSUME NEW s, NEW change, UpdateProfile(w, s, change)
      PROVE  UNCHANGED <<settings, history>> /\ Moves(w, {"save_merchant"})
  BY <1>5, IdleMoves DEF UpdateProfile
<1>6. ASSUME NEW m, NEW change \in SettingsChanges, ReadSettings(w, m, change)
      PROVE  SettingsInv' /\ Noted(PolicyId)
  <2>1. Noted(PolicyId)
    BY <1>6 DEF ReadSettings, history, Noted
  <2>2. QED
    BY <1>0, <1>6, <2>1, ReadSettingsNoted
<1>7. CASE SaveSettings(w) /\ NoMerchant(calls[w].doc)
  <2>1. UNCHANGED <<settings, history>> /\ Moves(w, {"save_merchant"})
    BY <1>7, IdleMoves DEF SaveSettings
  <2>2. QED
    BY <1>1, <2>1
<1>8. CASE SaveSettings(w) /\ ~NoMerchant(calls[w].doc)
  BY <1>0, <1>8, SaveSettingsNoted
<1>9. QED
  BY <1>1, <1>2, <1>3, <1>4, <1>5, <1>6, <1>7, <1>8 DEF AccountsStep, SettingsChanges

\* A change sets fields of a policy, never its id.
LEMMA OverPolicy ==
  ASSUME NEW change \in PolicyChanges, NEW old \in Policy
  PROVE  Over(change, old) \in Policy /\ Over(change, old).id = old.id
<1> DEFINE new == [x \in {"id", "merchant", "is_active", "maximum_retries"} |->
                     IF x \in DOMAIN change THEN change[x] ELSE old[x]]
<1>1. /\ DOMAIN old = {"id", "merchant", "is_active", "maximum_retries"}
      /\ old.id \in PolicyId \cup {None} /\ old.merchant \in HeaderIds \cup {None}
      /\ old.is_active \in BOOLEAN /\ old.maximum_retries \in Nat
  BY DEF Policy
<1>2. \/ DOMAIN change = {"is_active"} /\ change["is_active"] \in BOOLEAN
      \/ DOMAIN change = {"maximum_retries"} /\ change["maximum_retries"] \in Nat
  <2>1. CASE change = [is_active |-> FALSE]
    BY <2>1
  <2>2. CASE change = [is_active |-> TRUE]
    BY <2>2
  <2>3. CASE change = [maximum_retries |-> 5]
    <3>1. DOMAIN change = {"maximum_retries"} /\ change["maximum_retries"] = 5
      BY <2>3
    <3>2. QED
      BY <3>1
  <2>4. QED
    BY <2>1, <2>2, <2>3 DEF PolicyChanges
<1>3. DOMAIN change \cup DOMAIN old = {"id", "merchant", "is_active", "maximum_retries"}
  BY <1>1, <1>2
<1>4. Over(change, old) = new
  BY <1>3 DEF Over
<1>5. /\ new.id = old.id /\ new.merchant = old.merchant
      /\ new.is_active \in BOOLEAN /\ new.maximum_retries \in Nat
  BY <1>1, <1>2
<1>6. new = [id |-> new.id, merchant |-> new.merchant, is_active |-> new.is_active,
             maximum_retries |-> new.maximum_retries]
  OBVIOUS
<1> HIDE DEF new
<1>7. new \in Policy
  BY <1>1, <1>5, <1>6 DEF Policy
<1>8. QED
  BY <1>4, <1>5, <1>7

\* A policy is saved: as a new row, or by the thread that read it.
LEMMA SavePolicyKeeps ==
  ASSUME PolicyTypes, PolicyInv, NEW w \in Thread, NEW row \in Policy, NEW doc,
         row.id \in PolicyId, SavePolicy(row), NoteSave(w, row.id, doc),
         Moves(w, {}), UNCHANGED <<backend, ran>>,
         BackendInv, row.id \notin overlapped => row = doc
  PROVE  PolicyTypes' /\ PolicyInv' /\ Noted(MerchantIds)
<1>1. /\ row.id \in DOMAIN expected' /\ expected'[row.id] = doc
      /\ overlapped \subseteq overlapped' /\ Noted(PolicyId \ {row.id}) /\ Noted(MerchantIds)
      /\ \A v \in Thread \ {w} : Updates(v) /\ calls[v].doc = row.id => row.id \in overlapped'
  <2>1. row.id \notin PolicyId \ {row.id} /\ row.id \notin MerchantIds
    BY ConsoleAssumption
  <2>2. QED
    BY <2>1, NoteSaveFrame
<1>2. Table(policies, Policy) /\ \A i \in DOMAIN policies : policies[i].id \in PolicyId
  BY DEF PolicyTypes
<1>3. \A v \in Thread : At(v, "save_policy")' => /\ v # w
                                                 /\ At(v, "save_policy") /\ calls'[v] = calls[v]
  BY DEF Moves, At
<1>4. CASE backend = "memory"
  <2>1. policies' = Put(policies, row) /\ default' \in Policy
    BY <1>4 DEF SavePolicy, PolicyTypes
  <2>2. /\ Table(policies', Policy) /\ Ids(policies') = Ids(policies) \cup {row.id}
        /\ \A i \in DOMAIN policies' :
             \/ policies'[i] = row
             \/ i \in DOMAIN policies /\ policies'[i] = policies[i] /\ policies[i].id # row.id
    BY <1>2, <2>1, PutRow
  <2>3. \A id \in Ids(policies) : id # row.id => Get(policies', id) = Get(policies, id)
    BY <1>2, <2>1, PutOthers
  <2>4. PolicyTypes'
    <3>1. \A i \in DOMAIN policies' : policies'[i].id \in PolicyId
      BY <1>2, <2>2
    <3>2. \A v \in Thread :
            At(v, "save_policy")' =>
              /\ calls'[v].doc \in Ids(policies') /\ calls'[v].change \in PolicyChanges
              /\ calls'[v].read \in Policy /\ calls'[v].read.id = calls'[v].doc
      BY <1>3, <2>2 DEF PolicyTypes
    <3>3. QED
      BY <1>4, <2>1, <2>2, <3>1, <3>2 DEF PolicyTypes
  <2>5. ASSUME NEW i \in DOMAIN policies', policies'[i].id \notin overlapped'
        PROVE  policies'[i].id \in DOMAIN expected' /\ policies'[i] = expected'[policies'[i].id]
    <3>1. CASE policies'[i] = row
      BY <1>1, <2>5, <3>1
    <3>2. CASE policies'[i] # row
      <4>1. i \in DOMAIN policies /\ policies'[i] = policies[i] /\ policies[i].id # row.id
        BY <2>2, <3>2
      <4>2. policies[i].id \in PolicyId \ {row.id} /\ policies[i].id \notin overlapped
        BY <1>1, <1>2, <2>5, <4>1
      <4>3. policies[i].id \in DOMAIN expected /\ policies[i] = expected[policies[i].id]
        BY <4>1, <4>2 DEF PolicyInv
      <4>4. QED
        BY <1>1, <4>1, <4>2, <4>3 DEF Noted
    <3>3. QED
      BY <3>1, <3>2
  <2>6. ASSUME NEW v \in Thread, At(v, "save_policy")', calls'[v].doc \notin overlapped'
        PROVE  calls'[v].read = Get(policies', calls'[v].doc)
    <3>1. v # w /\ At(v, "save_policy") /\ calls'[v] = calls[v] /\ calls[v].doc \notin overlapped
      BY <1>1, <1>3, <2>6
    <3>2. calls[v].doc # row.id
      BY <1>1, <2>6, <3>1 DEF Updates, At
    <3>3. calls[v].doc \in Ids(policies) /\ calls[v].read = Get(policies, calls[v].doc)
      BY <3>1 DEF PolicyTypes, PolicyInv
    <3>4. QED
      BY <2>3, <3>1, <3>2, <3>3
  <2>7. QED
    BY <1>1, <2>4, <2>5, <2>6 DEF PolicyInv
<1>5. CASE backend = "supabase"
  <2>1. UNCHANGED <<policies, default>> /\ policies = <<>>
    BY <1>5 DEF SavePolicy, PolicyTypes
  <2>2. Ids(policies) = {} /\ DOMAIN policies' = {}
    BY <2>1 DEF Ids
  <2>3. \A v \in Thread : ~At(v, "save_policy")'
    BY <1>3, <2>2 DEF PolicyTypes
  <2>4. PolicyTypes'
    BY <2>1, <2>3 DEF PolicyTypes
  <2>5. QED
    BY <1>1, <2>2, <2>3, <2>4 DEF PolicyInv
<1>6. QED
  BY <1>4, <1>5 DEF BackendInv

LEMMA CreatePolicyKeeps ==
  ASSUME PolicyTypes, PolicyInv, BackendInv, CallsInv, NEW w \in Thread, NEW m \in HeaderIds,
         NEW active \in BOOLEAN, CreatePolicy(w, m, active, 3), UNCHANGED backend
  PROVE  PolicyTypes' /\ PolicyInv' /\ Noted(MerchantIds)
<1> DEFINE id == Fresh(PolicyId \ Ids(policies))
           row == [id |-> id, merchant |-> m, is_active |-> active, maximum_retries |-> 3]
<1>1. /\ PolicyId \ Ids(policies) # {} /\ SavePolicy(row) /\ NoteSave(w, id, row)
      /\ UNCHANGED ran /\ Moves(w, {})
  BY IdleMoves DEF CreatePolicy
<1>2. id \in PolicyId
  BY <1>1 DEF Fresh
<1> HIDE DEF id
<1>3. row \in Policy /\ row.id = id
  BY <1>2 DEF Policy
<1> HIDE DEF row
<1>4. QED
  BY <1>1, <1>2, <1>3, SavePolicyKeeps

LEMMA SaveUpdateKeeps ==
  ASSUME PolicyTypes, PolicyInv, BackendInv, CallsInv, NEW w \in Thread,
         SaveUpdate(w), UNCHANGED backend
  PROVE  PolicyTypes' /\ PolicyInv' /\ Noted(MerchantIds)
<1> DEFINE c == calls[w]
           row == Over(c.change, c.read)
           doc == Over(c.change, expected[c.doc])
<1>1. /\ At(w, "save_policy") /\ SavePolicy(row) /\ NoteSave(w, c.doc, doc)
      /\ Finish(w) /\ UNCHANGED ran
  BY DEF SaveUpdate, Merge
<1>2. /\ c.doc \in Ids(policies) /\ c.change \in PolicyChanges
      /\ c.read \in Policy /\ c.read.id = c.doc
  BY <1>1 DEF PolicyTypes
<1>3. row \in Policy /\ row.id = c.doc
  BY <1>2, OverPolicy
<1>4. PICK i \in DOMAIN policies : policies[i].id = c.doc /\ Get(policies, c.doc) = policies[i]
  BY <1>2, GetRow DEF PolicyTypes
<1>5. row.id \in PolicyId
  BY <1>3, <1>4 DEF PolicyTypes
<1>6. row.id \notin overlapped => row = doc
  BY <1>1, <1>3, <1>4 DEF PolicyInv
<1>7. Moves(w, {})
  BY <1>1, IdleMoves
<1> HIDE DEF row, doc
<1>8. QED
  BY <1>1, <1>3, <1>5, <1>6, <1>7, SavePolicyKeeps

LEMMA ReadPolicyKeeps ==
  ASSUME PolicyTypes, PolicyInv, CallsInv, NEW w \in Thread, NEW m \in HeaderIds,
         NEW id \in PolicyId, NEW change \in PolicyChanges, ReadPolicy(w, m, id, change),
         UNCHANGED backend
  PROVE  PolicyTypes' /\ PolicyInv' /\ Noted(MerchantIds)
<1>1. /\ UNCHANGED <<policies, default, ran, expected, overlapped>>
      /\ Table(policies, Policy)
  BY DEF ReadPolicy, policyStore, history, PolicyTypes
<1>2. Noted(MerchantIds) /\ Noted(PolicyId)
  BY <1>1 DEF Noted
<1>3. CASE ~(id \in Ids(policies) /\ Get(policies, id).merchant \in {m, None})
  <2>1. Moves(w, {})
    BY <1>3, IdleMoves DEF ReadPolicy
  <2>2. Untouched(PolicyPcs)
    BY <2>1, MovesLeave DEF PolicyPcs
  <2>3. QED
    BY <1>1, <1>2, <2>2, PoliciesUntouched DEF PolicyTypes
<1>4. CASE id \in Ids(policies) /\ Get(policies, id).merchant \in {m, None}
  <2> DEFINE read == Get(policies, id)
  <2>1. /\ Moves(w, PolicyPcs)
        /\ calls'[w] = [pc |-> "save_policy", doc |-> id, change |-> change, read |-> read]
    BY <1>4, ArriveMoves DEF ReadPolicy, PolicyPcs
  <2>2. read \in Policy /\ read.id = id
    BY <1>1, <1>4, GetRow
  <2>3. calls'[w].doc = id /\ calls'[w].change = change /\ calls'[w].read = read
    BY <2>1
  <2> HIDE DEF read
  <2>4. \A v \in Thread : v # w => calls'[v] = calls[v]
    BY <2>1 DEF Moves
  <2>5. \A v \in Thread :
          At(v, "save_policy")' =>
            /\ calls'[v].doc \in Ids(policies) /\ calls'[v].change \in PolicyChanges
            /\ calls'[v].read \in Policy /\ calls'[v].read.id = calls'[v].doc
    BY <1>4, <2>2, <2>3, <2>4 DEF PolicyTypes, At
  <2>6. PolicyTypes'
    BY <1>1, <2>5 DEF PolicyTypes
  <2>7. \A v \in Thread : At(v, "save_policy")' /\ calls'[v].doc \notin overlapped
                            => calls'[v].read = Get(policies, calls'[v].doc)
    BY <2>3, <2>4 DEF PolicyInv, At, read
  <2>8. PolicyInv'
    BY <1>1, <2>7 DEF PolicyInv
  <2>9. QED
    BY <1>2, <2>6, <2>8
<1>5. QED
  BY <1>3, <1>4

LEMMA PoliciesNoted ==
  ASSUME PolicyTypes, PolicyInv, BackendInv, CallsInv, UNCHANGED backend,
         \/ \E w \in Thread : PoliciesStep(w)
         \/ \E m \in HeaderIds : WebhookRuns(m)
  PROVE  PolicyTypes' /\ PolicyInv' /\ Noted(MerchantIds)
<1>1. ASSUME NEW m \in HeaderIds, WebhookRuns(m)
      PROVE  PolicyTypes' /\ PolicyInv' /\ Noted(MerchantIds)
  <2>1. /\ UNCHANGED <<policies, default, expected, overlapped>>
        /\ ran' = [ran EXCEPT ![m] = default] /\ Arrive(Webhook, "policies", Idle)
    BY <1>1 DEF WebhookRuns, RunPolicy, history
  <2>2. Webhook \in Thread
    BY DEF Thread
  <2>3. Moves(Webhook, {})
    BY <2>1, <2>2, IdleMoves
  <2>4. Untouched(PolicyPcs)
    BY <2>2, <2>3, MovesLeave DEF PolicyPcs
  <2>5. Noted(MerchantIds) /\ Noted(PolicyId)
    BY <2>1 DEF Noted
  <2>6. default' \in Policy /\ ran' \in [HeaderIds -> Policy \cup {None}]
    BY <2>1 DEF PolicyTypes
  <2>7. QED
    BY <2>1, <2>4, <2>5, <2>6, PoliciesUntouched
<1>2. QED
  BY <1>1, CreatePolicyKeeps, ReadPolicyKeeps, SaveUpdateKeeps DEF PoliciesStep, PolicyChanges

\* The customers' steps save no document.
LEMMA CustomersNoted ==
  ASSUME \/ \E w \in Thread : CustomersStep(w) \/ SaveCustomer(w) \/ SavePayment(w)
         \/ \E p \in PaymentId, e \in Payers \cup {None} : PaymentFails(p, e)
         \/ FillCustomer
  PROVE  UNCHANGED history
BY DEF CustomersStep, PostPaymentEvent, PostCreateWithCustomer, Resolve, ResolveExternal,
       PostCreate, SaveCustomer, SavePayment, PaymentFails, FillCustomer

LEMMA DocumentsStart ==
  ASSUME Init PROVE DocumentsInv
<1>1. /\ \A w \in Thread : ~At(w, "save_settings") /\ ~At(w, "save_policy")
      /\ expected = <<>> /\ settings = <<>> /\ policies = <<>> /\ default = BuiltIn
      /\ ran = [m \in HeaderIds |-> None]
  BY DEF Init, RequestsInit, AccountsInit, PoliciesInit, At, Idle
<1>2. BuiltIn \in Policy
  BY DEF BuiltIn, Policy
<1>3. DOMAIN expected = {} /\ DOMAIN settings = {} /\ DOMAIN policies = {}
  BY <1>1
<1>4. Table(policies, Policy)
  BY <1>1 DEF Table
<1>5. QED
  BY <1>1, <1>2, <1>3, <1>4 DEF DocumentsInv, SettingsInv, PolicyTypes, PolicyInv

LEMMA DocumentsNextStep ==
  ASSUME CallsInv, BackendInv, AccountsInv, DocumentsInv, [Next]_vars
  PROVE  DocumentsInv'
<1>0. AccountTypes /\ SettingsInv /\ PolicyTypes /\ PolicyInv /\ UNCHANGED backend
  BY ConsoleSteps DEF AccountsInv, DocumentsInv
<1>1. UNCHANGED history => Noted(MerchantIds) /\ Noted(PolicyId)
  BY DEF history, Noted
<1>2. Untouched(AccountPcs) => Untouched({"save_settings"})
  BY DEF Untouched, AccountPcs
<1>3. UNCHANGED accounts /\ Untouched(AccountPcs) /\ Noted(MerchantIds) => SettingsInv'
  BY <1>0, <1>2, SettingsUntouched DEF accounts
<1>4. UNCHANGED policyStore /\ Untouched(PolicyPcs) /\ Noted(PolicyId)
        => PolicyTypes' /\ PolicyInv'
  BY <1>0, PoliciesUntouched DEF policyStore, PolicyTypes
<1>5. SettingsInv' /\ PolicyTypes' /\ PolicyInv'
  BY <1>0, <1>1, <1>3, <1>4, ConsoleSteps, AccountsNoted, PoliciesNoted, CustomersNoted
<1>6. QED
  BY <1>5 DEF DocumentsInv

LEMMA DocumentsInvariant ==
  Spec => [](CallsInv /\ BackendInv /\ AccountsInv /\ DocumentsInv)
<1>1. Init => DocumentsInv
  BY DocumentsStart
<1>2. CallsInv /\ BackendInv /\ AccountsInv /\ DocumentsInv /\ [Next]_vars => DocumentsInv'
  BY DocumentsNextStep
<1>3. QED
  BY <1>1, <1>2, AccountsInvariant, PTL DEF Spec

\* The settings and the policies that are stored are what all their updates add
\* up to, as long as no two updates of one of them were in progress at once.
THEOREM WritesKept == Spec => []LastWriteKept
<1>1. DocumentsInv => LastWriteKept
  <2> SUFFICES ASSUME DocumentsInv, NEW d \in DOMAIN settings \cup Ids(policies),
                      d \notin overlapped
               PROVE  Stored(d) = expected[d]
    BY DEF LastWriteKept
  <2>1. CASE d \in DOMAIN settings
    BY <2>1 DEF Stored, DocumentsInv, SettingsInv
  <2>2. CASE d \notin DOMAIN settings
    <3>1. PICK i \in DOMAIN policies : policies[i].id = d /\ Get(policies, d) = policies[i]
      BY <2>2, GetRow DEF DocumentsInv, PolicyTypes
    <3>2. QED
      BY <2>2, <3>1 DEF Stored, DocumentsInv, PolicyInv
  <2>3. QED
    BY <2>1, <2>2
<1>2. QED
  BY <1>1, DocumentsInvariant, PTL

-----------------------------------------------------------------------------
(* Customers and payments *)

CustomerIds == CustomerId \cup {Earlier}

HoldPcs == {"fill_customer", "save_customer", "save_payment"}

\* All copies of customers: those stored and those the threads hold.
Copies == ToSet(customers) \cup {calls[w].customer : w \in Held}

\* Copies of one customer differ only in what webhooks filled in: an e-mail that
\* was missing.
Same(a, b) ==
  /\ a.merchant = b.merchant /\ a.before = b.before
  /\ ~a.filled /\ ~b.filled => a.email = b.email
  /\ a.filled /\ ~b.filled => b.email = None

MerchantCustomers(m) == {customers[i].id : i \in OfMerchant(m)}

\* A lookup of e among the customers of m that saw those of before and found none.
LookedFor(m, e, before) ==
  \A i \in OfMerchant(m) :
    /\ customers[i].id \in before
    /\ customers[i].email = e /\ e # None /\ ~customers[i].filled
    => Cardinality(MerchantCustomers(m) \cap before) > ListLimit

Kept(c) ==
  /\ c \in Customer /\ c.before \subseteq Ids(customers)
  /\ ~c.filled => LookedFor(c.merchant, c.email, c.before)

\* A payment as the request gave it.
Record == [merchant : HeaderIds, payer : Payers \cup {None}, new : BOOLEAN, case : BOOLEAN]

HoldOK(call) ==
  /\ call.payment \in PaymentId
  /\ call.record \in Record \/ (call.record \in Payment /\ call.record.customer = call.customer.id)
  /\ call.customer.merchant \in {call.record.merchant, None}
  /\ call.pc = "save_payment" => call.customer.id \in Ids(customers)

LookOK(call) ==
  /\ call.external \in ExternalIds /\ call.payment \in PaymentId /\ call.record \in Record
  /\ call.before \subseteq Ids(customers)
  /\ LookedFor(call.record.merchant, call.record.payer, call.before)

CallOK(call) ==
  /\ call.pc \in HoldPcs => HoldOK(call)
  /\ call.pc = "by_external" => LookOK(call)

StoreTypes ==
  /\ Table(customers, Customer)
  /\ by_external \in [ExternalIds -> CustomerIds \cup {None}]
  /\ \A x \in ExternalIds : by_external[x] \in Ids(customers) \cup {None}

PaymentOK(t) ==
  t # None => /\ t.customer \in Ids(customers)
              /\ Get(customers, t.customer).merchant \in {t.merchant, None}

PaymentsInv ==
  /\ payments \in [PaymentId -> Payment \cup {None}]
  /\ \A p \in PaymentId : PaymentOK(payments[p])

CopiesInv ==
  /\ \A a \in Copies : Kept(a)
  /\ \A a, b \in Copies : a.id = b.id => Same(a, b)

CustomersInv ==
  StoreTypes /\ PaymentsInv /\ CopiesInv /\ \A w \in Thread : CallOK(calls[w])

\* A copy that agrees with all others.
Joins(c) ==
  Kept(c) /\ Same(c, c) /\ \A a \in Copies : a.id = c.id => Same(a, c) /\ Same(c, a)

LEMMA CopyJoins ==
  ASSUME CopiesInv, NEW c \in Copies PROVE Joins(c)
BY DEF CopiesInv, Joins

LEMMA StoredCopy ==
  ASSUME StoreTypes
  PROVE  /\ \A i \in DOMAIN customers : customers[i] \in Copies
         /\ \A id \in Ids(customers) : Get(customers, id) \in Copies /\ Get(customers, id).id = id
<1>1. \A i \in DOMAIN customers : customers[i] \in Copies
  BY DEF Copies, ToSet
<1>2. \A id \in Ids(customers) : \E i \in DOMAIN customers :
        customers[i].id = id /\ Get(customers, id) = customers[i]
  BY GetRow DEF StoreTypes
<1>3. QED
  BY <1>1, <1>2

\* Nothing is stored: a thread takes up a copy c or a payment, or gives one up.
LEMMA CopiesKeep ==
  ASSUME CustomersInv, UNCHANGED <<customers, by_external>>, NEW c,
         \A a \in Copies' : a \in Copies \/ (a = c /\ Joins(c)),
         \A v \in Thread : CallOK(calls'[v]), PaymentsInv'
  PROVE  CustomersInv'
<1>1. \A m, e, b : LookedFor(m, e, b)' = LookedFor(m, e, b)
  BY DEF LookedFor, OfMerchant, MerchantCustomers
<1>2. StoreTypes'
  BY DEF CustomersInv, StoreTypes
<1>3. ASSUME NEW a \in Copies' PROVE Kept(a)'
  <2>1. Kept(a)
    BY <1>3 DEF CustomersInv, CopiesInv, Joins
  <2>2. QED
    BY <1>1, <2>1 DEF Kept
<1>4. \A a, b \in Copies' : a.id = b.id => Same(a, b)
  BY DEF CustomersInv, CopiesInv, Joins
<1>5. ASSUME NEW v \in Thread PROVE CallOK(calls[v])'
  <2>1. CallOK(calls'[v])
    OBVIOUS
  <2>2. QED
    BY <2>1 DEF CallOK, HoldOK, LookOK, LookedFor, OfMerchant, MerchantCustomers
<1>6. QED
  BY <1>2, <1>3, <1>4, <1>5 DEF CustomersInv, CopiesInv, Same

LEMMA MerchantCustomersFinite ==
  ASSUME StoreTypes, NEW m
  PROVE  MerchantCustomers(m) \subseteq Ids(customers) /\ IsFiniteSet(MerchantCustomers(m))
<1>1. MerchantCustomers(m) \subseteq Ids(customers)
  BY DEF MerchantCustomers, OfMerchant, Ids
<1>2. IsFiniteSet(Ids(customers))
  BY TableIds DEF StoreTypes
<1>3. QED
  BY <1>1, <1>2, FS_Subset

\* A copy is stored: the customers of a merchant grow, what was looked up stays
\* looked up, and nobody changes merchant.
LEMMA RowSaved ==
  ASSUME StoreTypes, CopiesInv, NEW row \in Copies, customers' = Put(customers, row)
  PROVE  /\ Table(customers', Customer) /\ Ids(customers') = Ids(customers) \cup {row.id}
         /\ \A i \in DOMAIN customers' : customers'[i] \in Copies
         /\ \A id \in Ids(customers) :
              Get(customers', id).merchant = Get(customers, id).merchant
         /\ \A m, e, b : b \subseteq Ids(customers) /\ LookedFor(m, e, b)
                          => LookedFor(m, e, b)'
<1>1. Table(customers, Customer) /\ row \in Customer
  BY DEF StoreTypes, CopiesInv, Kept
<1>2. /\ Table(customers', Customer) /\ Ids(customers') = Ids(customers) \cup {row.id}
      /\ DOMAIN customers \subseteq DOMAIN customers'
      /\ \A i \in DOMAIN customers :
           /\ customers'[i] = IF customers[i].id = row.id THEN row ELSE customers[i]
           /\ customers'[i].id = customers[i].id
      /\ \A i \in DOMAIN customers' :
           \/ customers'[i] = row
           \/ i \in DOMAIN customers /\ customers'[i] = customers[i] /\ customers[i].id # row.id
  BY <1>1, PutRow
<1>3. \A i \in DOMAIN customers' : customers'[i] \in Copies
  BY <1>2, StoredCopy
<1>4. \A i \in DOMAIN customers : customers'[i] \in Copies /\ customers[i] \in Copies
                                    /\ Same(customers'[i], customers[i])
  BY <1>2, <1>3, StoredCopy DEF CopiesInv
<1>5. \A id \in Ids(customers) : Get(customers', id).merchant = Get(customers, id).merchant
  <2> TAKE id \in Ids(customers)
  <2>1. PICK i \in DOMAIN customers : customers[i].id = id /\ Get(customers, id) = customers[i]
    BY <1>1, GetRow
  <2>2. i \in DOMAIN customers' /\ customers'[i].id = id
    BY <1>2, <2>1
  <2>3. Get(customers', id) = customers'[i]
    BY <1>2, <2>2, GetRow
  <2>4. QED
    BY <1>4, <2>1, <2>3 DEF Same
<1>6. ASSUME NEW m, NEW e, NEW b, b \subseteq Ids(customers), LookedFor(m, e, b)
      PROVE  LookedFor(m, e, b)'
  <2>1. MerchantCustomers(m) \subseteq MerchantCustomers(m)'
    BY <1>2, <1>4 DEF MerchantCustomers, OfMerchant, Same
  <2>2. SUFFICES ASSUME NEW i \in OfMerchant(m)', customers'[i].id \in b,
                        customers'[i].email = e, e # None, ~customers'[i].filled
                 PROVE  Cardinality(MerchantCustomers(m)' \cap b) > ListLimit
    BY DEF LookedFor
  <2>3. i \in DOMAIN customers' /\ customers'[i].merchant = m
    BY <2>2 DEF OfMerchant
  <2>4. PICK k \in DOMAIN customers : customers[k].id = customers'[i].id
    BY <1>6, <2>2 DEF Ids
  <2>5. customers[k] \in Copies /\ customers'[i] \in Copies
    BY <1>3, <2>3, StoredCopy
  <2>6. Same(customers[k], customers'[i])
    BY <2>4, <2>5 DEF CopiesInv
  <2>7. k \in OfMerchant(m) /\ customers[k].email = e /\ ~customers[k].filled
    BY <2>2, <2>3, <2>6 DEF Same, OfMerchant
  <2>8. Cardinality(MerchantCustomers(m) \cap b) > ListLimit
    BY <1>6, <2>2, <2>4, <2>7 DEF LookedFor
  <2>9. IsFiniteSet(Ids(customers'))
    BY <1>2, TableIds
  <2>10. MerchantCustomers(m)' \subseteq Ids(customers')
    BY DEF MerchantCustomers, OfMerchant, Ids
  <2>11. /\ IsFiniteSet(MerchantCustomers(m)' \cap b)
         /\ MerchantCustomers(m) \cap b \subseteq MerchantCustomers(m)' \cap b
    BY <2>1, <2>9, <2>10, FS_Subset
  <2>12. /\ Cardinality(MerchantCustomers(m) \cap b) \in Nat
         /\ Cardinality(MerchantCustomers(m)' \cap b) \in Nat
         /\ Cardinality(MerchantCustomers(m) \cap b) <= Cardinality(MerchantCustomers(m)' \cap b)
    BY <2>11, FS_Subset, FS_CardinalityType
  <2>13. QED
    BY <2>8, <2>12, CustomersAssumption
<1>7. QED
  BY <1>2, <1>3, <1>5, <1>6

\* A thread stores the copy it holds and goes on with the payment.
LEMMA SaveRowKeeps ==
  ASSUME CustomersInv, NEW w \in Held, SaveCustomerRow(calls[w].customer), UNCHANGED payments,
         NEW pc \in HoldPcs, Moves(w, PaymentPcs),
         calls'[w] = Holding(pc, calls[w].customer, calls[w].payment, calls[w].record)
  PROVE  CustomersInv'
<1> DEFINE row == calls[w].customer
<1>0. StoreTypes /\ PaymentsInv /\ CopiesInv /\ \A v \in Thread : CallOK(calls[v])
  BY DEF CustomersInv
<1>1. /\ row \in Copies /\ row \in Customer /\ w \in Thread /\ calls[w].pc \in HoldPcs
      /\ customers' = Put(customers, row)
  BY <1>0 DEF Copies, Held, HoldPcs, CopiesInv, Kept, SaveCustomerRow
<1>2. /\ Table(customers', Customer) /\ Ids(customers') = Ids(customers) \cup {row.id}
      /\ \A i \in DOMAIN customers' : customers'[i] \in Copies
      /\ \A id \in Ids(customers) :
           Get(customers', id).merchant = Get(customers, id).merchant
      /\ \A m, e, b : b \subseteq Ids(customers) /\ LookedFor(m, e, b) => LookedFor(m, e, b)'
  BY <1>0, <1>1, RowSaved
<1>3. /\ calls'[w].customer = row /\ calls'[w].pc = pc
      /\ calls'[w].payment = calls[w].payment /\ calls'[w].record = calls[w].record
      /\ \A v \in Thread \ {w} : calls'[v] = calls[v]
  BY DEF Holding, Moves
<1>4. StoreTypes'
  <2>1. by_external' = IF row.external = None THEN by_external
                       ELSE [by_external EXCEPT ![row.external] = row.id]
    BY DEF SaveCustomerRow
  <2>2. row.id \in CustomerIds
    BY <1>1 DEF Customer, CustomerIds
  <2>3. by_external' \in [ExternalIds -> CustomerIds \cup {None}]
    BY <1>0, <2>1, <2>2 DEF StoreTypes
  <2>4. \A x \in ExternalIds : by_external'[x] \in Ids(customers') \cup {None}
    BY <1>0, <1>2, <2>1 DEF StoreTypes
  <2>5. QED
    BY <1>2, <2>3, <2>4 DEF StoreTypes
<1>5. PaymentsInv'
  BY <1>0, <1>2 DEF PaymentsInv, PaymentOK
<1> HIDE DEF row
<1>6. \A a \in Copies' : a \in Copies
  <2>1. \A v \in Held' : calls'[v].customer \in Copies
    BY <1>1, <1>3 DEF Held, Copies
  <2>2. QED
    BY <1>2, <2>1 DEF Copies, ToSet
<1>7. ASSUME NEW a \in Copies' PROVE Kept(a)'
  <2>1. Kept(a)
    BY <1>0, <1>6, <1>7 DEF CopiesInv
  <2>2. QED
    BY <1>2, <2>1 DEF Kept
<1>8. \A a, b \in Copies' : a.id = b.id => Same(a, b)
  BY <1>0, <1>6 DEF CopiesInv
<1>9. ASSUME NEW v \in Thread PROVE CallOK(calls[v])'
  <2>1. CASE v = w
    <3>1. HoldOK(calls[w])
      BY <1>0, <1>1 DEF CallOK
    <3>2. HoldOK(calls[w])'
      BY <1>2, <1>3, <3>1 DEF HoldOK, row
    <3>3. QED
      BY <1>3, <2>1, <3>2 DEF CallOK, HoldPcs
  <2>2. CASE v # w
    <3>1. calls'[v] = calls[v] /\ CallOK(calls[v])
      BY <1>0, <1>3, <2>2
    <3>2. HoldOK(calls[v]) => HoldOK(calls[v])'
      BY <1>2, <3>1 DEF HoldOK
    <3>3. LookOK(calls[v]) => LookOK(calls[v])'
      BY <1>2, <3>1 DEF LookOK
    <3>4. QED
      BY <3>1, <3>2, <3>3 DEF CallOK
  <2>3. QED
    BY <2>1, <2>2
<1>10. QED
  BY <1>4, <1>5, <1>7, <1>8, <1>9 DEF CustomersInv, CopiesInv, Same

\* Among places there is one that no other is sooner than.
LEMMA Soonest ==
  ASSUME BackendInv, StoreTypes, NEW S \in SUBSET DOMAIN customers, S # {}
  PROVE  \E j \in S : \A k \in S : ~Sooner(k, j)
<1> DEFINE n == Len(customers)
<1>1. n \in Nat /\ DOMAIN customers = 1 .. n
  BY DEF StoreTypes, Table
<1> HIDE DEF n
<1>2. S \in SUBSET Nat /\ \A k \in S : k \in Nat /\ n - k \in Nat
  BY <1>1
<1>3. CASE backend = "memory"
  <2>1. PICK j \in S : \A k \in S : j <= k
    BY <1>2, LeastNumber
  <2>2. QED
    BY <1>2, <1>3, <2>1 DEF Sooner
<1>4. CASE backend # "memory"
  <2> DEFINE R == {n - k : k \in S}
  <2>1. R \in SUBSET Nat /\ R # {}
    BY <1>2
  <2>2. PICK r \in R : \A q \in R : r <= q
    BY <2>1, LeastNumber
  <2>3. PICK j \in S : r = n - j
    BY <2>2
  <2>4. \A k \in S : n - j <= n - k
    BY <2>2, <2>3
  <2>5. \A k \in S : ~(j < k)
    BY <1>1, <1>2, <2>4
  <2>6. QED
    BY <1>4, <2>5 DEF Sooner
<1>5. QED
  BY <1>3, <1>4

\* A merchant has as many customers as rows.
LEMMA CountCustomers ==
  ASSUME StoreTypes, NEW m
  PROVE  /\ IsFiniteSet(OfMerchant(m))
         /\ Cardinality(MerchantCustomers(m)) = Cardinality(OfMerchant(m))
<1> DEFINE n == Len(customers)
           f == [i \in OfMerchant(m) |-> customers[i].id]
<1>1. /\ n \in Nat /\ DOMAIN customers = 1 .. n /\ OfMerchant(m) \subseteq 1 .. n
      /\ \A i, j \in DOMAIN customers : customers[i].id = customers[j].id => i = j
  BY DEF StoreTypes, Table, OfMerchant
<1>2. IsFiniteSet(OfMerchant(m))
  <2>1. IsFiniteSet(1 .. n)
    BY <1>1, FS_Interval
  <2>2. QED
    BY <1>1, <2>1, FS_Subset
<1>3. f \in Bijection(OfMerchant(m), MerchantCustomers(m))
  BY <1>1 DEF MerchantCustomers, Bijection, Injection, Surjection, IsInjective
<1>4. ExistsBijection(OfMerchant(m), MerchantCustomers(m))
  BY <1>3 DEF ExistsBijection
<1>5. QED
  BY <1>2, <1>4, FS_Bijection

\* A page that shows no customer with the e-mail e hides those there are behind
\* ListLimit others.
LEMMA NotListed ==
  ASSUME BackendInv, StoreTypes, NEW m, NEW e, ByEmail(m, e) = {}
  PROVE  LookedFor(m, e, Ids(customers))
<1> DEFINE match == {i \in Listed(m) : e # None /\ customers[i].email = e}
<1>1. match = {}
  <2>1. SUFFICES ASSUME match # {} PROVE FALSE
    OBVIOUS
  <2>2. match \in SUBSET DOMAIN customers
    BY DEF Listed, OfMerchant
  <2>3. PICK j \in match : \A k \in match : ~Sooner(k, j)
    BY <2>1, <2>2, Soonest
  <2>4. customers[j] \in ByEmail(m, e)
    BY <2>3 DEF ByEmail
  <2>5. QED
    BY <2>4
<1>2. SUFFICES ASSUME NEW i \in OfMerchant(m), customers[i].email = e, e # None
               PROVE  Cardinality(MerchantCustomers(m) \cap Ids(customers)) > ListLimit
  BY DEF LookedFor
<1> DEFINE S == OfMerchant(m)
           before == {j \in S : Sooner(j, i)}
<1>3. ~(Cardinality(before) < ListLimit)
  BY <1>1, <1>2 DEF Listed, Ahead
<1>4. i \notin before
  <2>1. i \in Nat
    BY <1>2 DEF OfMerchant, StoreTypes, Table
  <2>2. QED
    BY <2>1 DEF Sooner
<1>5. /\ IsFiniteSet(S) /\ Cardinality(MerchantCustomers(m)) = Cardinality(S)
      /\ before \cup {i} \subseteq S
  BY <1>2, CountCustomers
<1> HIDE DEF S, before
<1>6. /\ IsFiniteSet(before \cup {i}) /\ IsFiniteSet(before)
      /\ Cardinality(before \cup {i}) <= Cardinality(S)
  <2>1. IsFiniteSet(before \cup {i}) /\ Cardinality(before \cup {i}) <= Cardinality(S)
    BY <1>5, FS_Subset
  <2>2. IsFiniteSet(before)
    BY <2>1, FS_Subset
  <2>3. QED
    BY <2>1, <2>2
<1>7. Cardinality(before \cup {i}) = Cardinality(before) + 1
  BY <1>4, <1>6, FS_AddElement
<1>8. Cardinality(before) \in Nat /\ Cardinality(S) \in Nat
  BY <1>5, <1>6, FS_CardinalityType
<1>9. MerchantCustomers(m) \cap Ids(customers) = MerchantCustomers(m)
  BY MerchantCustomersFinite
<1>10. Cardinality(S) > ListLimit
  BY <1>3, <1>6, <1>7, <1>8, CustomersAssumption
<1>11. QED
  BY <1>5, <1>9, <1>10

\* The customers the lookups find are stored, and belong to the merchant or to none.
LEMMA FoundCustomer ==
  ASSUME StoreTypes, NEW m, NEW e, NEW x \in ExternalIds
  PROVE  /\ \A c \in ByEmail(m, e) : c \in Copies /\ c.merchant = m
         /\ \A c \in ByExternal(m, x) : c \in Copies /\ c.merchant \in {m, None}
<1>1. \A c \in ByEmail(m, e) : c \in Copies /\ c.merchant = m
  BY StoredCopy DEF ByEmail, Listed, OfMerchant
<1>2. \A c \in WithExternal(x) : c \in Copies
  <2>1. CASE backend = "memory"
    <3>1. \A id \in {by_external[x]} \ {None} : id \in Ids(customers)
      BY DEF StoreTypes
    <3>2. QED
      BY <2>1, <3>1, StoredCopy DEF WithExternal
  <2>2. CASE backend # "memory"
    BY <2>2 DEF WithExternal, Copies
  <2>3. QED
    BY <2>1, <2>2
<1>3. QED
  BY <1>1, <1>2 DEF ByExternal

\* A thread takes up a copy, or only looks, or ends.
LEMMA TakesUp ==
  ASSUME CustomersInv, UNCHANGED <<customers, by_external>>, NEW w \in Thread,
         Moves(w, PaymentPcs), CallOK(calls'[w]), PaymentsInv',
         calls'[w].pc \in HoldPcs => Joins(calls'[w].customer)
  PROVE  CustomersInv'
<1> DEFINE c == calls'[w].customer
<1>1. \A v \in Thread \ {w} : calls'[v] = calls[v]
  BY DEF Moves
<1>2. \A v \in Thread : CallOK(calls'[v])
  BY <1>1 DEF CustomersInv
<1>3. \A a \in Copies' : a \in Copies \/ (a = c /\ Joins(c))
  <2>1. ASSUME NEW v \in Held'
        PROVE  \/ calls'[v].customer \in Copies
               \/ calls'[v].customer = c /\ Joins(c)
    <3>1. CASE v = w
      BY <2>1, <3>1 DEF Held, HoldPcs
    <3>2. CASE v # w
      BY <1>1, <2>1, <3>2 DEF Held, Copies
    <3>3. QED
      BY <3>1, <3>2
  <2>2. ToSet(customers') \subseteq Copies
    BY DEF Copies, ToSet
  <2>3. QED
    BY <2>1, <2>2 DEF Copies
<1> HIDE DEF c
<1>4. QED
  BY <1>2, <1>3, CopiesKeep

\* A thread that gives up its call, or answers at once.
LEMMA CallEnds ==
  ASSUME CustomersInv, UNCHANGED customerStore, NEW w \in Thread, Moves(w, {})
  PROVE  CustomersInv'
<1>1. Moves(w, PaymentPcs) /\ calls'[w].pc = "idle"
  BY DEF Moves
<1>2. CallOK(calls'[w]) /\ calls'[w].pc \notin HoldPcs
  BY <1>1 DEF CallOK, HoldPcs
<1>3. UNCHANGED <<customers, by_external, payments>>
  BY DEF customerStore
<1>4. PaymentsInv'
  BY <1>3 DEF CustomersInv, PaymentsInv, PaymentOK
<1>5. QED
  BY <1>1, <1>2, <1>3, <1>4, TakesUp

\* A thread takes up the copy c for the payment p.
LEMMA HoldKeeps ==
  ASSUME CustomersInv, UNCHANGED customerStore, NEW w \in Thread, NEW pc \in HoldPcs, NEW c,
         NEW p \in PaymentId, NEW record, NEW area, CallsInv, Joins(c),
         Arrive(w, area, Holding(pc, c, p, record)) \/ Go(w, Holding(pc, c, p, record)),
         record \in Record \/ (record \in Payment /\ record.customer = c.id),
         c.merchant \in {record.merchant, None},
         pc = "save_payment" => c.id \in Ids(customers)
  PROVE  CustomersInv'
<1>1. Moves(w, PaymentPcs) /\ calls'[w] = Holding(pc, c, p, record)
  BY HoldingMoves DEF HoldPcs, PaymentPcs
<1>2. /\ calls'[w].pc = pc /\ calls'[w].customer = c /\ calls'[w].payment = p
      /\ calls'[w].record = record
  BY <1>1 DEF Holding
<1>3. CallOK(calls'[w])
  BY <1>2 DEF CallOK, HoldOK, HoldPcs
<1>4. UNCHANGED <<customers, by_external, payments>>
  BY DEF customerStore
<1>5. PaymentsInv'
  BY <1>4 DEF CustomersInv, PaymentsInv, PaymentOK
<1>6. QED
  BY <1>1, <1>2, <1>3, <1>4, <1>5, TakesUp

LEMMA ResolveKeeps ==
  ASSUME CustomersInv, BackendInv, CallsInv, NEW w \in Thread, NEW m \in HeaderIds,
         NEW e \in Payers \cup {None}, NEW x \in ExternalIds, NEW new \in BOOLEAN,
         Resolve(w, m, e, x, new)
  PROVE  CustomersInv'
<1> DEFINE p == Fresh(FreshPayment)
           record == [merchant |-> m, payer |-> e, new |-> new, case |-> ~new]
<1>1. UNCHANGED customerStore /\ p \in PaymentId
  BY DEF Resolve, Fresh, FreshPayment
<1>2. record \in Record /\ record.merchant = m /\ record.payer = e
  BY DEF Record
<1>3. StoreTypes /\ CopiesInv
  BY DEF CustomersInv
<1>4. CASE ByEmail(m, e) # {}
  <2>1. PICK c \in ByEmail(m, e) : Arrive(w, "payments", Holding("save_customer", c, p, record))
    BY <1>4 DEF Resolve
  <2>2. Joins(c) /\ c.merchant \in {record.merchant, None}
    BY <1>2, <1>3, FoundCustomer, CopyJoins
  <2>3. "save_customer" \in HoldPcs
    BY DEF HoldPcs
  <2> HIDE DEF p, record
  <2>4. QED
    BY <1>1, <1>2, <2>1, <2>2, <2>3, HoldKeeps
<1>5. CASE ByEmail(m, e) = {}
  <2> DEFINE call == [pc |-> "by_external", external |-> x, payment |-> p,
                      record |-> record, before |-> Ids(customers)]
  <2>1. Arrive(w, "payments", call)
    BY <1>5 DEF Resolve
  <2>2. /\ call.pc = "by_external" /\ call.external = x /\ call.payment = p
        /\ call.record = record /\ call.before = Ids(customers)
    OBVIOUS
  <2>3. call.pc \in PaymentPcs \cup {"idle"} /\ call.pc \notin HoldPcs
    BY <2>2 DEF PaymentPcs, HoldPcs
  <2> HIDE DEF call
  <2>4. Moves(w, PaymentPcs) /\ calls'[w] = call
    BY <2>1, <2>3, ArriveMoves
  <2>5. LookedFor(m, e, Ids(customers))
    BY <1>3, <1>5, NotListed
  <2> HIDE DEF p, record
  <2>6. CallOK(call)
    BY <1>1, <1>2, <2>2, <2>3, <2>5 DEF CallOK, LookOK
  <2>7. UNCHANGED <<customers, by_external, payments>>
    BY <1>1 DEF customerStore
  <2>8. PaymentsInv'
    BY <2>7 DEF CustomersInv, PaymentsInv, PaymentOK
  <2>9. QED
    BY <2>3, <2>4, <2>6, <2>7, <2>8, TakesUp
<1>6. QED
  BY <1>4, <1>5

LEMMA ResolveExternalKeeps ==
  ASSUME CustomersInv, CallsInv, NEW w \in Thread, ResolveExternal(w)
  PROVE  CustomersInv'
<1> DEFINE call == calls[w]
           m == call.record.merchant
<1>1. UNCHANGED customerStore /\ StoreTypes /\ CopiesInv /\ "save_customer" \in HoldPcs
  BY DEF ResolveExternal, CustomersInv, HoldPcs
<1>2. /\ call.external \in ExternalIds /\ call.payment \in PaymentId /\ call.record \in Record
      /\ call.before \subseteq Ids(customers)
      /\ LookedFor(m, call.record.payer, call.before)
  BY DEF ResolveExternal, CustomersInv, CallOK, LookOK, At
<1>3. ASSUME NEW c \in ByExternal(m, call.external),
             Go(w, Holding("save_customer", c, call.payment, call.record))
      PROVE  CustomersInv'
  <2>1. Go(w, Holding("save_customer", c, call.payment, call.record))
    BY <1>3
  <2>2. Joins(c) /\ c.merchant \in {call.record.merchant, None}
    BY <1>1, <1>2, FoundCustomer, CopyJoins
  <2>3. QED
    BY <1>1, <1>2, <2>1, <2>2, HoldKeeps
<1>4. CASE ~\E c \in ByExternal(m, call.external) :
               Go(w, Holding("save_customer", c, call.payment, call.record))
  <2> DEFINE c == [id |-> Fresh(FreshCustomer), merchant |-> m, external |-> call.external,
                   email |-> call.record.payer, filled |-> FALSE, before |-> call.before]
  <2>1. /\ FreshCustomer # {}
        /\ Go(w, Holding("save_customer", c, call.payment, call.record))
    BY <1>4 DEF ResolveExternal
  <2>2. /\ c.id = Fresh(FreshCustomer) /\ c.merchant = m /\ c.email = call.record.payer
        /\ c.filled = FALSE /\ c.before = call.before
    OBVIOUS
  <2>3. c.id \in CustomerId /\ \A a \in Copies : a.id # c.id
    <3>1. c.id \in FreshCustomer
      BY <2>1, <2>2 DEF Fresh
    <3>2. QED
      BY <3>1 DEF FreshCustomer, Copies, ToSet, Ids
  <2>4. c \in Customer
    <3>1. Ids(customers) \subseteq CustomerIds
      <4>1. \A i \in DOMAIN customers : customers[i] \in Customer
        BY <1>1 DEF StoreTypes, Table
      <4>2. \A i \in DOMAIN customers : customers[i].id \in CustomerIds
        BY <4>1 DEF Customer, CustomerIds
      <4>3. QED
        BY <4>2 DEF Ids
    <3>2. call.before \in SUBSET CustomerIds
      BY <1>2, <3>1
    <3>3. m \in HeaderIds /\ call.record.payer \in Payers \cup {None}
      BY <1>2 DEF Record
    <3>4. QED
      BY <1>2, <2>2, <2>3, <3>2, <3>3 DEF Customer, CustomerIds
  <2> HIDE DEF c
  <2>5. Joins(c) /\ c.merchant \in {call.record.merchant, None}
    BY <1>2, <2>2, <2>3, <2>4 DEF Joins, Kept, Same
  <2>6. QED
    BY <1>1, <1>2, <2>1, <2>5, HoldKeeps
<1>5. QED
  BY <1>3, <1>4

LEMMA PostCreateKeeps ==
  ASSUME CustomersInv, CallsInv, NEW w \in Thread, NEW m \in HeaderIds, NEW id,
         PostCreate(w, m, id)
  PROVE  CustomersInv'
<1>1. UNCHANGED customerStore /\ StoreTypes /\ CopiesInv /\ "save_payment" \in HoldPcs
  BY DEF PostCreate, CustomersInv, HoldPcs
<1>2. CASE ~(id \in Ids(customers) /\ Get(customers, id).merchant \in {m, None})
  <2>1. Moves(w, {})
    BY <1>2, IdleMoves DEF PostCreate
  <2>2. QED
    BY <1>1, <2>1, CallEnds
<1>3. CASE id \in Ids(customers) /\ Get(customers, id).merchant \in {m, None}
  <2> DEFINE c == Get(customers, id)
             p == Fresh(FreshPayment)
             record == [merchant |-> m, payer |-> c.email, new |-> FALSE, case |-> FALSE]
  <2>1. p \in PaymentId /\ Arrive(w, "payments", Holding("save_payment", c, p, record))
    BY <1>3 DEF PostCreate, Fresh, FreshPayment
  <2>2. c \in Copies /\ c.id = id
    BY <1>1, <1>3, StoredCopy
  <2>3. Joins(c) /\ c \in Customer
    BY <1>1, <2>2, CopyJoins DEF Joins, Kept
  <2>4. record \in Record /\ record.merchant = m
    BY <2>3 DEF Record, Customer
  <2> HIDE DEF p, record
  <2>5. QED
    BY <1>1, <1>3, <2>1, <2>2, <2>3, <2>4, HoldKeeps
<1>4. QED
  BY <1>2, <1>3

LEMMA SaveCustomerKeeps ==
  ASSUME CustomersInv, CallsInv, NEW w \in Thread, SaveCustomer(w)
  PROVE  CustomersInv'
<1>1. /\ w \in Held /\ SaveCustomerRow(calls[w].customer) /\ UNCHANGED payments
      /\ Go(w, Holding("save_payment", calls[w].customer, calls[w].payment, calls[w].record))
      /\ "save_payment" \in HoldPcs /\ "save_payment" \in PaymentPcs
  BY DEF SaveCustomer, Held, At, HoldPcs, PaymentPcs
<1>2. /\ Moves(w, PaymentPcs)
      /\ calls'[w] = Holding("save_payment", calls[w].customer, calls[w].payment, calls[w].record)
  BY <1>1, HoldingMoves
<1>3. QED
  BY <1>1, <1>2, SaveRowKeeps

LEMMA FillCustomerKeeps ==
  ASSUME CustomersInv, CallsInv, FillCustomer
  PROVE  CustomersInv'
<1> DEFINE w == Webhook
<1>1. /\ w \in Held /\ w \in Thread
      /\ SaveCustomerRow(calls[w].customer) /\ UNCHANGED payments
      /\ Go(w, Holding("save_customer", calls[w].customer, calls[w].payment, calls[w].record))
      /\ "save_customer" \in HoldPcs /\ "save_customer" \in PaymentPcs
  BY DEF FillCustomer, Held, At, HoldPcs, PaymentPcs, Thread
<1>2. /\ Moves(w, PaymentPcs)
      /\ calls'[w] = Holding("save_customer", calls[w].customer, calls[w].payment, calls[w].record)
  BY <1>1, HoldingMoves
<1>3. QED
  BY <1>1, <1>2, SaveRowKeeps

\* What SavePayment stores is a payment of the customer that the thread holds.
LEMMA OverPayment ==
  ASSUME NEW c \in Customer, NEW record,
         record \in Record \/ (record \in Payment /\ record.customer = c.id)
  PROVE  LET t == Over(record, [customer |-> c.id])
         IN t \in Payment /\ t.customer = c.id /\ t.merchant = record.merchant
<1> DEFINE t == Over(record, [customer |-> c.id])
           new == [merchant |-> record.merchant, customer |-> c.id, payer |-> record.payer,
                   new |-> record.new, case |-> record.case]
<1>1. t = new
  <2>1. CASE record \in Record
    <3>1. DOMAIN record = {"merchant", "payer", "new", "case"}
      BY <2>1 DEF Record
    <3>2. QED
      BY <3>1 DEF Over
  <2>2. CASE record \in Payment /\ record.customer = c.id
    <3>1. DOMAIN record = {"merchant", "customer", "payer", "new", "case"}
      BY <2>2 DEF Payment
    <3>2. QED
      BY <2>2, <3>1 DEF Over
  <2>3. QED
    BY <2>1, <2>2
<1>2. new \in Payment
  <2>1. /\ record.merchant \in HeaderIds /\ record.payer \in Payers \cup {None}
        /\ record.new \in BOOLEAN /\ record.case \in BOOLEAN
    BY DEF Record, Payment
  <2>2. c.id \in CustomerId \cup {Earlier}
    BY DEF Customer
  <2>3. QED
    BY <2>1, <2>2 DEF Payment
<1>3. new.customer = c.id /\ new.merchant = record.merchant
  OBVIOUS
<1>4. QED
  BY <1>1, <1>2, <1>3

LEMMA SavePaymentKeeps ==
  ASSUME CustomersInv, CallsInv, NEW w \in Thread, SavePayment(w)
  PROVE  CustomersInv'
<1> DEFINE c == calls[w].customer
           t == Over(calls[w].record, [customer |-> c.id])
<1>0. StoreTypes /\ PaymentsInv /\ CopiesInv
  BY DEF CustomersInv
<1>1. /\ calls[w].pc = "save_payment" /\ Finish(w) /\ UNCHANGED <<customers, by_external>>
      /\ payments' = [payments EXCEPT ![calls[w].payment] = t]
  BY DEF SavePayment, At
<1>2. HoldOK(calls[w]) /\ c \in Copies
  BY <1>1 DEF CustomersInv, CallOK, HoldPcs, Copies, Held
<1>3. /\ calls[w].payment \in PaymentId /\ c.id \in Ids(customers)
      /\ c.merchant \in {calls[w].record.merchant, None}
  BY <1>1, <1>2 DEF HoldOK
<1>4. t \in Payment /\ t.customer = c.id /\ t.merchant = calls[w].record.merchant
  BY <1>0, <1>2, OverPayment DEF HoldOK, CopiesInv, Kept
<1>5. Get(customers, c.id).merchant = c.merchant
  <2>1. Get(customers, c.id) \in Copies /\ Get(customers, c.id).id = c.id
    BY <1>0, <1>3, StoredCopy
  <2>2. QED
    BY <1>0, <1>2, <2>1 DEF CopiesInv, Same
<1> HIDE DEF t
<1>6. PaymentOK(t)
  BY <1>3, <1>4, <1>5 DEF PaymentOK
<1>7. PaymentsInv'
  <2>1. payments' \in [PaymentId -> Payment \cup {None}]
    BY <1>0, <1>1, <1>4 DEF PaymentsInv
  <2>2. \A p \in PaymentId : PaymentOK(payments'[p])
    BY <1>0, <1>1, <1>6 DEF PaymentsInv
  <2>3. QED
    BY <1>1, <2>1, <2>2 DEF PaymentsInv, PaymentOK
<1>8. Moves(w, {})
  BY <1>1, IdleMoves
<1>9. Moves(w, PaymentPcs) /\ CallOK(calls'[w]) /\ calls'[w].pc \notin HoldPcs
  BY <1>8 DEF Moves, CallOK, HoldPcs
<1>10. QED
  BY <1>1, <1>7, <1>9, TakesUp

LEMMA PaymentFailsKeeps ==
  ASSUME CustomersInv, CallsInv, NEW p \in PaymentId, NEW e \in Payers \cup {None},
         PaymentFails(p, e)
  PROVE  CustomersInv'
<1> DEFINE t == payments[p]
           c == Get(customers, t.customer)
           fill == c.email = None /\ e # None
           record == [t EXCEPT !.case = TRUE]
           copy == [c EXCEPT !.email = e, !.filled = TRUE]
<1>0. StoreTypes /\ PaymentsInv /\ CopiesInv
  BY DEF CustomersInv
<1>1. /\ t # None /\ UNCHANGED customerStore
      /\ Arrive(Webhook, "payments",
                Holding(IF fill THEN "fill_customer" ELSE "save_customer",
                        IF fill THEN copy ELSE c, p, record))
  BY DEF PaymentFails
<1>2. /\ Webhook \in Thread /\ "fill_customer" \in HoldPcs /\ "save_customer" \in HoldPcs
  BY DEF Thread, HoldPcs
<1>3. /\ t \in Payment /\ t.customer \in Ids(customers)
      /\ c.merchant \in {t.merchant, None}
  BY <1>0, <1>1 DEF PaymentsInv, PaymentOK
<1>4. c \in Copies /\ c.id = t.customer
  BY <1>0, <1>3, StoredCopy
<1>5. Joins(c) /\ c \in Customer
  BY <1>0, <1>4, CopyJoins DEF Joins, Kept
<1>6. record \in Payment /\ record.customer = t.customer /\ record.merchant = t.merchant
  BY <1>3 DEF Payment
<1> HIDE DEF c, record
<1>7. CASE ~fill
  BY <1>1, <1>2, <1>3, <1>4, <1>5, <1>6, <1>7, HoldKeeps
<1>8. CASE fill
  <2>1. /\ copy \in Customer /\ copy.id = c.id /\ copy.merchant = c.merchant
        /\ copy.before = c.before /\ copy.filled
    BY <1>5 DEF Customer
  <2> HIDE DEF copy
  <2>2. Joins(copy)
    <3>1. Kept(copy)
      BY <1>5, <2>1 DEF Joins, Kept
    <3>2. Same(copy, copy)
      BY <2>1 DEF Same
    <3>3. ASSUME NEW a \in Copies, a.id = copy.id
          PROVE  Same(a, copy) /\ Same(copy, a)
      <4>1. Same(a, c) /\ Same(c, a) /\ c.email = None
        BY <1>5, <1>8, <2>1, <3>3 DEF Joins
      <4>2. QED
        BY <2>1, <4>1 DEF Same
    <3>4. QED
      BY <3>1, <3>2, <3>3 DEF Joins
  <2>3. QED
    BY <1>1, <1>2, <1>3, <1>4, <1>6, <1>8, <2>1, <2>2, HoldKeeps
<1>9. QED
  BY <1>7, <1>8

LEMMA CustomersUntouched ==
  ASSUME CustomersInv, UNCHANGED customerStore, Untouched(PaymentPcs)
  PROVE  CustomersInv'
<1>1. /\ UNCHANGED <<customers, by_external, payments>>
      /\ HoldPcs \subseteq PaymentPcs /\ "by_external" \in PaymentPcs
  BY DEF customerStore, HoldPcs, PaymentPcs
<1>2. \A v \in Thread : calls'[v].pc \in HoldPcs \cup {"by_external"} => calls'[v] = calls[v]
  BY <1>1 DEF Untouched
<1>3. \A v \in Thread : CallOK(calls'[v])
  BY <1>2 DEF CustomersInv, CallOK
<1>4. \A a \in Copies' : a \in Copies
  BY <1>1, <1>2 DEF Copies, Held, HoldPcs, ToSet
<1>5. PaymentsInv'
  BY <1>1 DEF CustomersInv, PaymentsInv, PaymentOK
<1>6. QED
  BY <1>1, <1>3, <1>4, <1>5, CopiesKeep

LEMMA CustomersStart ==
  ASSUME Init PROVE CustomersInv
<1>1. /\ \A w \in Thread : calls[w].pc = "idle"
      /\ payments = [p \in PaymentId |-> None]
  BY DEF Init, RequestsInit, CustomersInit, Idle
<1>2. PaymentsInv /\ (\A w \in Thread : CallOK(calls[w])) /\ Held = {}
  BY <1>1 DEF PaymentsInv, PaymentOK, CallOK, HoldPcs, Held
<1>3. CASE customers = <<>> /\ by_external = [x \in ExternalIds |-> None]
  <2>1. DOMAIN customers = {} /\ Table(customers, Customer)
    BY <1>3 DEF Table
  <2>2. Copies = {}
    BY <1>2, <2>1 DEF Copies, ToSet
  <2>3. StoreTypes
    BY <1>3, <2>1 DEF StoreTypes
  <2>4. QED
    BY <1>2, <2>2, <2>3 DEF CustomersInv, CopiesInv
<1>4. ASSUME NEW m \in HeaderIds \cup {None}, NEW x \in ExternalIds, NEW e \in Payers \cup {None},
             customers = <<[id |-> Earlier, merchant |-> m, external |-> x, email |-> e,
                            filled |-> FALSE, before |-> {}]>>,
             by_external = [y \in ExternalIds |-> IF y = x THEN Earlier ELSE None]
      PROVE  CustomersInv
  <2> DEFINE c == [id |-> Earlier, merchant |-> m, external |-> x, email |-> e,
                   filled |-> FALSE, before |-> {}]
  <2>1. c \in Customer /\ c.id = Earlier /\ c.before = {}
    BY DEF Customer
  <2>2. Same(c, c)
    BY DEF Same
  <2>3. customers = <<c>>
    BY <1>4
  <2> HIDE DEF c
  <2>4. DOMAIN customers = {1} /\ customers[1] = c /\ customers \in Seq(Customer)
    BY <2>1, <2>3
  <2>5. Table(customers, Customer) /\ Ids(customers) = {Earlier}
    BY <2>1, <2>4 DEF Table, Ids
  <2>6. Copies = {c}
    BY <1>2, <2>4 DEF Copies, ToSet
  <2>7. StoreTypes
    BY <1>4, <2>5 DEF StoreTypes, CustomerIds
  <2>8. Kept(c)
    BY <2>1 DEF Kept, LookedFor
  <2>9. QED
    BY <1>2, <2>2, <2>6, <2>7, <2>8 DEF CustomersInv, CopiesInv
<1>5. QED
  BY <1>3, <1>4 DEF Init, CustomersInit

LEMMA CustomersNextStep ==
  ASSUME CallsInv, BackendInv, CustomersInv, [Next]_vars
  PROVE  CustomersInv'
<1>1. ASSUME NEW w \in Thread, CustomersStep(w) \/ SaveCustomer(w) \/ SavePayment(w)
      PROVE  CustomersInv'
  <2>1. ASSUME NEW m \in HeaderIds, NEW x \in ExternalIds, NEW e \in Payers \cup {None},
               PostPaymentEvent(w, m, e, x) \/ PostCreateWithCustomer(w, m, e, x)
        PROVE  CustomersInv'
    BY <2>1, ResolveKeeps DEF PostPaymentEvent, PostCreateWithCustomer
  <2>2. QED
    BY <1>1, <2>1, PostCreateKeeps, ResolveExternalKeeps, SaveCustomerKeeps, SavePaymentKeeps
       DEF CustomersStep
<1>2. QED
  BY <1>1, ConsoleSteps, CustomersUntouched, PaymentFailsKeeps, FillCustomerKeeps

LEMMA CustomersInvariant == Spec => [](CallsInv /\ BackendInv /\ CustomersInv)
<1>1. Init => CustomersInv
  BY CustomersStart
<1>2. CallsInv /\ BackendInv /\ CustomersInv /\ [Next]_vars => CustomersInv'
  BY CustomersNextStep
<1>3. QED
  BY <1>1, <1>2, AccountsInvariant, PTL DEF Spec

\* A payment's customer is stored and belongs to the payment's merchant, or to none.
THEOREM CustomersKept == Spec => []CustomerOfMerchant
<1>1. CustomersInv => CustomerOfMerchant
  BY DEF CustomersInv, PaymentsInv, PaymentOK, CustomerOfMerchant
<1>2. QED
  BY <1>1, CustomersInvariant, PTL

\* Two customers of a merchant share an e-mail only if neither was stored when
\* the other was looked up, or behind more customers than a lookup sees.
THEOREM DuplicatesExplained == Spec => []DuplicateCustomersExplained
<1>1. CustomersInv => DuplicateCustomersExplained
  <2> SUFFICES ASSUME CustomersInv,
                      NEW i \in DOMAIN customers, NEW j \in DOMAIN customers, i # j,
                      customers[i].merchant = customers[j].merchant,
                      customers[i].email = customers[j].email, customers[i].email # None,
                      ~customers[i].filled, ~customers[j].filled,
                      customers[i].id \in customers[j].before
               PROVE  SeenBefore(customers[j]) > ListLimit
    BY DEF DuplicateCustomersExplained
  <2>1. Kept(customers[j])
    BY StoredCopy DEF CustomersInv, CopiesInv
  <2>2. LookedFor(customers[j].merchant, customers[j].email, customers[j].before)
    BY <2>1 DEF Kept
  <2>3. i \in OfMerchant(customers[j].merchant)
    BY DEF OfMerchant
  <2>4. QED
    BY <2>2, <2>3 DEF LookedFor, SeenBefore, MerchantCustomers
<1>2. QED
  BY <1>1, CustomersInvariant, PTL

\* Every variable of the console has its type, and a table has one row for an id.
THEOREM ConsoleTyped == Spec => []ConsoleTypeOK
<1>1. ASSUME BackendInv, AccountsInv, DocumentsInv, CustomersInv
      PROVE  ConsoleTypeOK
  <2>1. AccountTypes /\ PolicyTypes /\ StoreTypes /\ PaymentsInv
    BY <1>1 DEF AccountsInv, DocumentsInv, CustomersInv
  <2>2. /\ Table(merchants, Merchant) /\ Table(policies, Policy) /\ Table(customers, Customer)
    BY <2>1 DEF AccountTypes, PolicyTypes, StoreTypes
  <2>3. \A rows \in {merchants, policies, customers} : Cardinality(Ids(rows)) = Len(rows)
    BY <2>2, TableIds
  <2>4. ASSUME NEW S, NEW rows, Table(rows, S)
        PROVE  ToSet(rows) \subseteq S
    BY <2>4 DEF Table, ToSet
  <2>5. /\ ToSet(merchants) \subseteq Merchant /\ ToSet(policies) \subseteq Policy
        /\ ToSet(customers) \subseteq Customer
    BY <2>2, <2>4
  <2>6. /\ \A m \in DOMAIN settings : settings[m] \in Settings
        /\ unchecked \subseteq Ids(merchants) /\ default \in Policy /\ ran \in [HeaderIds -> Policy \cup {None}]
        /\ payments \in [PaymentId -> Payment \cup {None}]
    BY <2>1 DEF AccountTypes, PolicyTypes, PaymentsInv
  <2>7. by_external \in [ExternalIds -> CustomerId \cup {Earlier, None}]
    BY <2>1 DEF StoreTypes, CustomerIds
  <2>8. QED
    BY <1>1, <2>3, <2>5, <2>6, <2>7 DEF ConsoleTypeOK, BackendInv
<1>2. QED
  BY <1>1, DocumentsInvariant, CustomersInvariant, PTL
=============================================================================
