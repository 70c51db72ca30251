# A TLA+ model of PayBack

PayBack takes over when a customer's payment fails: it opens a *recovery case*,
decides whether and how to contact the customer, sends a new Razorpay payment
link, and marks the case recovered when Razorpay's webhook announces a payment.
This directory models that core and the services around it in TLA+, checks them
with TLC on small instances and proves their main safety properties with TLAPS for
every instance. Paths below are relative to `src/backend/app/` unless they start
with `src/`.

    tlc -workers 2 -config PayBackCore.cfg MCPayBack          # one run
    tlapm PayBackSafetyProofs.tla                             # one module of proofs

`PROJECT.json` lists components, runs, mutants, the source lines of every
definition, findings, hazards and theorems.

## 1. The system

| Component | State | Operations | What makes it correct |
|---|---|---|---|
| Case state machine and agent graph (`core/state_machine.py`, `agent/`) | none: works on a snapshot | analyze, check_eligibility, decide, execute_action, monitor, stop, escalate | a run ends in the status its decision calls for; a case is run once |
| Recovery service (`services/recovery.py`) | cases, audits, actions through the repositories | ingest_payment_event, run_recovery, mark_case_recovered | one case per transaction; RECOVERED only for a payment; nothing claims an outreach that was not made |
| Decision engine (`core/decision.py`, `action_scoring.py`, `recoverability.py`, `probability.py`, `services/ml/customer_history.py`) | none | evaluate | limits respected; the most valuable eligible action; monotone in policy and history |
| Razorpay webhook, idempotency guard (`services/razorpay/webhook.py`, `core/idempotency.py`) | processed events | paid / failed / expired events | at-least-once deliveries have the effect of one |
| Action executor, payment provider (`services/actions/`) | deliveries; links at Razorpay | retry, create link, send e-mail | every attempt recorded, truthfully |
| Messages and providers (`services/llm/`, `services/messaging/`) | none | generate, validate, send | nothing invented reaches a customer |
| Payment creation (`api/v1/payments.py`) | transactions | create, clean-up | no link without its transaction |
| Customers (`services/payment_ingestion.py`, `api/v1/customers.py`) | customers, index of external ids | resolve, fill in | a payment gets a customer of its merchant; one customer per e-mail |
| Policies (`api/v1/policies.py`) | policies, the default one | create, update, get_active, get_default | a merchant's limits hold for its recoveries; no update is lost |
| Accounts (`core/auth.py`, `api/v1/auth.py`, `api/v1/settings.py`) | merchants, settings, tokens | register, login, update | one account per e-mail; no update is lost |
| Background executor (`core/background.py`) | tasks, keys, queue | submit, run, retry | bounded tries; one task per key and caller; every task ends |
| Dashboard (`api/v1/dashboard.py`) | none: reads cases | summary, trends, breakdown | its figures agree |
| Merchant reconciliation (`services/merchant_reconciliation.py`) | none | classify, choose source, plan | loses no data |
| Evaluation harness (`evaluation/`) | none | simulate, compare | strategies are compared on equal terms |
| Repositories (`repositories/`) | in memory or Supabase | get, save, delete of whole objects | - |
| Razorpay (external) | links, payments, events | pay, fail, expire, deliver, redeliver | - |
| Notifications, trained model, explanations, configuration, SQL, scripts, frontend | - | - | not modelled: see section 8 |

**How they interact.** The service is one uvicorn process. The webhook endpoint
is `async def` and awaits nothing once it has the body, so the event loop runs
one delivery to its end before it takes the next. All other endpoints are `def`
and run on thread-pool threads, beside the webhook handler and beside each
other. They share the repositories and nothing locks: every read returns a copy,
every save replaces a whole object. Between a read and the save that depends on
it lie calls to Razorpay and to the mail provider. The background executor has a
pool of its own; nothing in the application submits a task to it yet.
Reconciliation and evaluation are called by scripts and tests.

**What is hard.** Interleavings of runs, ingestions and webhook deliveries on
one case; lookups that are stale when the save comes; events in any order,
repeated, or lost with a restart; a Supabase call that raises between two effects;
an external effect before the record of it; two repositories that behave
differently; thresholds and regular expressions whose cases overlap.
`PROJECT.json` lists each hazard at its line.

## 2. The modules

The recovery core and the decision engine share `CaseStateMachine`; the background
executor, the merchant console, and the parts that are functions of one input
(`Reports`) stand beside them.

| Module | Models |
|---|---|
| `CaseStateMachine` | statuses, the table `_ALLOWED`, the assertions and edges of the graph, the decisions the engine may answer |
| `RecoveryStore` | the shared variables of the core, the threads, audit records, case lookup |
| `RecoveryService` | ingest, run and mark, one action per repository or provider call |
| `RazorpayWebhook` | the handler of one delivery and the idempotency guard |
| `RazorpayGateway` | Razorpay and the customer (external) |
| `PaymentCreation` | `POST /payments/create` and `create-with-customer`: transaction, link, clean-up |
| `PayBack` | the composition of the core: requests, handler steps, gateway, faults, fairness |
| `Dashboard` | what the read endpoints compute from the stored cases |
| `CaseLifecycle` | abstract specification: the life of a case without threads, stores or events |
| `PayBackProperties`, `PayBackClaims`, `PayBackInvariant` | the properties with the refinement mapping to `CaseLifecycle`; what the repository says and the code does not keep; the inductive invariant |
| `PayBackProofs`, `PayBackSafetyProofs`, `OutreachProofs`, `LifecycleProofs` | theorems about `PayBack` |
| `DecisionEngine`, `DecisionProperties`, `DecisionProofs` | the decision engine, its properties, theorems |
| `BackgroundExecutor`, `BackgroundProperties`, `BackgroundProofs` | the executor with its races, retries and restarts; properties; theorems |
| `TaskLife` | abstract specification: what a task promises to its submitter |
| `ConsoleRequests` | the threads of the console, a request in progress, rows of a table |
| `Accounts`, `Policies`, `Customers` | the three areas of the console, over `ConsoleRequests` |
| `Console`, `ConsoleProperties`, `ConsoleProofs` | their composition with the webhook; its properties; theorems |
| `Messages`, `Delivery` | texts and their validation; providers and the executor's two sending branches |
| `Reconciliation`, `Evaluation` | the plan; the benchmark |
| `Reports`, `ReportProperties`, `ReportProofs` | one input of one of these four and its answer; properties; theorems |
| `MCPayBack`, `MCDecision`, `MCBackground`, `MCConsole`, `MCReports` | instances for TLC |

`PayBack` does not contain the decision engine: a run picks any member of
`PossibleDecisions(status)`. The theorem `DecisionPossibleAlways` proves that the
engine never answers anything else, so the choice stands for every customer,
policy, amount and probability. Nor does it contain the providers: a dispatch
succeeds or fails, which is all that `Delivery` says of them to its caller.

### State and code: the core

`txs`, `cases`, `audits`, `action_records`, `deliveries` and `processed` are the
repositories. Audits, actions and deliveries are counted, because the code only
appends to them and never reads them back. `th[t]` is the thread: its place `pc`
(named after the call it makes next), the event, transaction and case it handles,
its copy `snap` of the case, the transaction status `seen` and the `action` it
selected. `links`, `payments`, `emitted`, `wire` and `seq` are Razorpay;
`executed` and `emails` are what the customer notices. On a case that exists a failed payment
or an expired link is only audited (`AfterLookup`), as in the code.

- One repository or provider call is one step. Calls in a row whose order nothing
  can observe (audit records) are one step; when a call fails, `CallFails` may
  have written the first of them.
- The graph's nodes change only the in-memory snapshot, so they have no steps of
  their own: `RunDecide` goes to the first external call, `Monitored` applies the
  nodes after it. `GraphAccepts` keeps the assertions: a case that is not
  DETECTED makes the run raise.
- `run_recovery` always ends with the exception of the `math.round` call
  (`services/recovery.py:292`): `RunDetail` writes nothing. The webhook handler
  swallows the exception and reports the event processed.
- `mark_case_recovered` moves any status through MONITORING in memory:
  `Recovered` applies to every status.
- Transaction and case ids are fresh (uuid4): an action takes an unused one.
- The URL of a link is known only from the response or the e-mail (`notify` is
  off), so a failing `create_payment` leaves no link anybody can pay.
- `Audit` writes to a case that exists; nothing deletes cases, so its KeyError
  branch is unreachable.
- `order.paid` and `payment_link.cancelled` are handled exactly like
  `payment.captured` and `payment_link.expired` and have no events of their own.
- A call that took effect although its answer was lost is modelled by a restart
  right after its step, which also loses the rest of the request.
- `Dashboard` counts amounts in units of the amount at risk, and lists all cases:
  the limit of 100 is left out.

### State and code: the decision engine

The input is a context, a policy and the model's probability. Money is in paise,
probabilities and rates in 1/10000, as the code rounds them. The constants
`Contexts`, `Policies` and `Probabilities` are any subsets of the types.
`NodeDecide` evaluates without repositories, as the agent does,
`EvaluateWithHistory` as a caller that passes them. `Position` keeps the order of
candidates, because Python's sort is stable also with `reverse=True`.

### State and code: the background executor

`tasks` and `idempotency` are the two dictionaries, `queue` the work queue of the
`ThreadPoolExecutor`, `calls[c]` the place of a caller inside `submit`, `jobs[t]`
the place of the pool thread that runs `t` and its `attempt`. `effects` counts
what the functions of a key did outside and survives `Restart`. A function may
raise after its effect, or return something that cannot be turned into text, which
makes a completed try one that raised ("unprintable", `core/background.py:105`). What a reader of
`get_task` can tell apart is separate: the counter of a failure and its status
(`NoteError`, `HandleError`), COMPLETED and the result (`Complete`, `StoreResult`).
A restart ends the threads of the pool with the process. An exception whose own
text cannot be made (`core/background.py:111`) would end the pool's work on the task
unfinished and is not modelled.

### State and code: the merchant console

`calls[w]` is the request a thread serves, with what it has read; a request that
is answered at once leaves the thread idle. `backend` is chosen in `Init` as
`get_repository_bundle` does, and `CallFails` ends a request on Supabase.
`budget` bounds requests. Rows keep the order of insertion, because lookups return
the first match and list limits cut (`Listed`). History variables and fields exist
for the properties only and no action reads them: `expected` (what the finished
updates of a document add up to), `overlapped` (documents with two updates at
once), `ran` (the policy of a merchant's last webhook run), `before` and `filled`.

- A session is the claims of a token. `get_current_merchant` builds the merchant
  from them (`core/auth.py:147`), so `Profile` has no phone.
- `HeaderIds` are merchants named by the `X-Merchant-ID` header alone.
  `get_current_merchant` looks at the header before it looks at `auth_enabled`
  (`core/auth.py:178-187`), so such callers are served in production as well; its
  docstring says a token is enforced there. The merchant it makes of the header has
  the e-mail `<id>@example.com` (`HeaderClaims`). Policies, payments, profile and
  settings are modelled for them; the default merchant of development mode, which is
  stored from the start, is left out. `Named` are the ids a header may hold. `unchecked` is history:
  merchants whose profile such a caller has saved.
- `merchant_settings` references `merchants` in SQL: saving settings of a merchant
  without a row raises on Supabase (`NoMerchant`).
- An e-mail is an address and a case variant: the in-memory comparison ignores
  case, the SQL one does not, and `merchants.email` is UNIQUE in SQL.
- On Supabase every save of a policy raises (section 4), so `SavePolicy` stores
  nothing there.
- Names are lower-cased into `cus_<name>`, so a name and an external id are the
  same set of values; a payment event without external id gets a random one, which
  is the case of an unused value.

### State and code: messages, delivery, reconciliation, evaluation

These are functions; a behaviour of `Reports` picks one input and computes its
answer in one step. `Text` keeps of a text what the checks tell apart, and of a
URL how it stands in the text, since the regular expressions read it differently
before a full stop, a quote or a closing tag, and not at all when the scheme has
capitals or is missing ("unseen"). Whether an amount is wrong is kept although no
check looks at it. A gateway refuses a message, takes it and says so, or takes it
and the answer is lost (`Gateway`). `Dispatches` are the settings and
answers a dispatch may meet. `Footprint` keeps the merchant id's pattern in the
order `classify_merchant` tries them. `Evaluate` is the last entry of `Tally`, a
recursive function over the cases, whose step `Counted` threads the number of
rolls used through the strategy's decisions.

## 3. The runs

| Run | Bounds | Shows |
|---|---|---|
| `PayBackCore` | 2 workers, 1 run beside the webhook's, 2 gateway events, 1 fault | the core properties in any interleaving, with two runs of one case at once and a raised call or restart at any point: `IInv`, what claims an outreach and how often there is one, every event has its transaction, the dashboard's figures agree at every instant |
| `PayBackWebhook` | fair, webhook only, 2 events, 1 redelivery, 2 faults | RECOVERED is final, refinement of `CaseLifecycle`, a completion is audited once and a failure once more per fault at most, counters agree with what happened, paid cases recover, cases are decided |
| `Decision` | both sides of every limit, up to 10 successes and 10 failures, 5 policies, 5 probabilities | guardrails, eligibility, near-optimality, monotony in the policy and in the history |
| `Background` | fair, 2 callers, 1 key, 3 tasks, a pool of 1, 1 retry, 3 submissions, 1 restart | the inductive invariant at every instant a reader may look, bounded effects, refinement of `TaskLife`, every task ends |
| `Console` | 2 threads and the webhook, 2 header merchants, up to 3 account requests, both backends | no update lost without overlap; duplicates explained by overlap, by a caller without a token or by the list limit; customers stay with their merchant |
| `Reports` | every text with up to 2 kinds of URL and one other fault, every provider and answer of its gateway; 2 or 3 merchants; benchmarks of 3 customers | what is sent, recorded, discarded and compared |

All `PayBack` runs have one transaction: no operation relates two (the only
lookup is by transaction id). Two case ids are enough to get a second case for
it. The theorems cover any number. `MaxEvents` bounds payments, failed attempts
and expiries; `MaxRuns` the requests `POST /recoveries`; `MaxDuplicates`
deliveries of answered events; `MaxFaults` raised calls and restarts. Two events
give every order of a payment and a failure, two faults a restart during a
redelivery. `MaxFaults > 0` means Supabase: the in-memory repositories do not
raise and do not survive a restart.

In `Background` two callers race for the one key, the third submission repeats it
or stands behind a task that is retried; more keys would not meet.
In `Console` the areas share only threads and merchants, so `MCBudgets` spends
three requests on accounts or on policies, two on payments (beside the webhook), or
one each on policies and another area; two overlapping updates and a third after
them need no more. Two of the three addresses that register are also the ones
generated for the header merchants, so that the e-mails of both kinds can meet. `ListLimit` 1 stands
for 500: two customers are already more than a lookup sees. `Earlier` is a
customer that may be stored at the start, on Supabase also one from before there
were merchants. In `Reports` a roll lies between each two efficiencies compared,
and the footprints have ties that only the later sort keys break.
`MCDecision` scales amounts and thresholds to 2000 paise because TLC's integers
have 32 bits; the theorems hold for every amount. Runs with liveness properties
use no symmetry.

Deadlock is not checked: with the budgets spent and all requests served, or the
one answer computed, the system legitimately rests.

**Fairness.** In the core `WF(WebhookStep)` and `WF(WorkerStep(w))`: the server
goes on with what it has accepted, and Razorpay goes on delivering what was not
answered with 200. No customer, request or fault is owed. `WebhookStep` chooses
among the events in `wire`; `PaidCaseRecovered` holds under weak fairness because
each delivery answered leaves `wire` and only finitely many come back. In the
executor weak fairness of each caller inside `submit`, of the pool and of each
running task: threads are scheduled and functions return or raise in the end.
`TasksEnd` needs no strong fairness because the queue is first-in first-out and
tries are bounded.

## 4. Where the code differs from what the repository says

Each has a run that expects the violation; `findings` quotes the statements.

| Run | The code |
|---|---|
| `ClaimAudit` | never writes DECISION_MADE: `math.round` raises (`services/recovery.py:292`) |
| `ClaimTerminal` | a run that overlaps a payment writes its old snapshot over RECOVERED (`services/recovery.py:270`) |
| `ClaimPaid` | a late `payment.failed` opens a case for a paid transaction (`services/razorpay/webhook.py:301`) |
| `ClaimRetry` | a failed payment of a monitored case is audited and nothing else: no attempt follows, whatever retries the policy leaves (`services/razorpay/webhook.py:311`; `src/README.md:270`, `:299`) |
| `ClaimPolicy` | the webhook's runs use the default policy, in memory the last active one of any merchant, also after it was deactivated (`services/recovery.py:248`, `repositories/memory.py:272`) |
| `ClaimPayer` | `create-with-customer` takes a payer of a known name and a new e-mail for the stored customer, whose e-mail gets the recovery messages (`api/v1/payments.py:161`) |

Met while modelling, visible in the models, without a run of their own.

The recovery core:

- `mark_case_recovered` moves STOPPED and ESCALATED cases to RECOVERED
  (`services/recovery.py:323`), which `core/state_machine.py:24` calls terminal.
  `CaseLifecycle` allows it: its `Recover` starts from any state.
- Nothing ends a MONITORING case whose link is not paid (`agent/graph.py:61`): an
  expired link is audited as RECOVERY_STOPPED (`services/razorpay/webhook.py:315`)
  and the status stays. `src/README.md:518` says every case ends in a terminal state.
- No delivery of an event leads from MONITORING to another attempt or to ESCALATED,
  as `src/README.md:270-273` and `:299-301` draw it; a `POST /recoveries` makes
  another attempt only if its run read the case while it was DETECTED. So `OutreachBounded` and
  `CaseLifecycle` (contacted once, concluded once) are what the code does, not what
  those charts say; the mutant `AfterLookup_Rerun` is the charts', without their
  limit of retries.
- A stopped case has no outcome (`agent/nodes.py:95`; `src/README.md:530`).
- The event is recorded as processed after all its effects
  (`services/razorpay/webhook.py:143`): after a fault in between, its redelivery
  appends its audit record again, although `core/idempotency.py:15` says it does
  not. `FailuresAuditedOnce` bounds this by the faults; a completion is never
  repeated (`CompletionAuditedOnce`).
- A late failure also sets the stored transaction back from SUCCESS to FAILED.
- With failing calls an e-mail can go out without its delivery record
  (`services/actions/executor.py:172`; `src/README.md:512`): `EveryEmailRecorded`
  speaks of the time before the first fault.

The decision engine:

- Stopping, worth 0, is filtered out before the ranking (`core/decision.py:195`),
  so a recovery of negative expected value can be selected; `src/README.md:422`
  says the highest value among the eligible actions is.
- The agent decides without the customer's history (`agent/nodes.py:37`;
  `src/README.md:460`): every customer counts as new.
- The conversion weights of `src/README.md:431-438` (link 1.00, e-mail 0.70, retry
  0.85, escalate 0.50) are not those of `core/action_scoring.py` (link 0.95, or
  0.80 when abandoned; 0.85, 0.90, 0.80).

Messages and delivery:

- An invented link passes the validator when it does not begin with `http://` or
  `https://` in lower case: `HTTPS://...`, `www....` or `//...`
  (`services/llm/validator.py:96,104,138,143`). `src/README.md:500` says invented
  links are rejected. `NothingInventedIsSent` states what is left of that.
- Nothing checks amounts, although `src/README.md:499` says the validation "verifies
  that any currency amounts mentioned match the transaction amount exactly". Both
  kinds of text are among the inputs of `Reports` and get through, if a model wrote
  them.
- FAILED does not mean that the customer got nothing: a gateway that took the
  e-mail and whose answer is late or unreadable, or an SMTP session that fails after
  `sendmail`, is recorded FAILED too (`services/messaging/resend_provider.py:84-120`,
  `email_provider.py:87-108`). `RecordTellsDelivery` says so.
- `SEND_WHATSAPP` never reaches a delivery provider: the stub answers FAILED and
  the record says DELIVERED (`services/actions/executor.py:104-122`); the text has
  no link. `src/README.md:260` says "Deliver via WhatsApp API". The engine never
  selects it.
- An e-mail goes out without a link when the link could not be created
  (`services/actions/executor.py:124-158`).
- With the provider "whatsapp" configured every e-mail fails.

The console:

- `PUT /settings/profile` saves the merchant of the token: it erases the phone,
  and an older token undoes a newer name (`api/v1/settings.py:37`).
- The Supabase policy repository writes a column the table does not have and
  resolves conflicts on a column that is not unique
  (`repositories/supabase.py:341-376`): no policy can be stored there.
- E-mails are compared without case in memory and exactly on Supabase, where two
  accounts may differ by case only.
- `PUT /settings/profile` of a caller with a header alone saves the merchant `<id>`
  with the e-mail `<id>@example.com` and looks for no other account with it
  (`api/v1/settings.py:37`, `core/auth.py:178-184`): in memory a second account of a
  registered e-mail, without any overlap.
- Two registrations, updates or payments of a new customer that overlap give two
  accounts, a lost update, two customers. `DuplicateAccountsExplained`,
  `LastWriteKept` and `DuplicateCustomersExplained` list every way it can happen.
- On Supabase `get_by_external_id` answers with the first row of any merchant
  (`repositories/supabase.py:133`): a payment may miss the merchant's own customer
  behind another merchant's, and be stored for a new one (`ExternalUnusable`).
- The recovery rate of a customer divides by the transactions that are still
  FAILED (`api/v1/customers.py:87`): a recovered one is SUCCESS by then, so the
  rate is 0 or can exceed 1.
- Totals of the dashboard are of 100 cases, the oldest in memory, the newest on
  Supabase (`api/v1/dashboard.py:45`).

Reconciliation and evaluation:

- The source of the reconciliation may itself be on the discard list when it is a
  test artifact, or when nobody owns anything; `PlanKeepsData` says exactly when.
- A roll is used only for willing customers who are not left alone
  (`evaluation/simulator.py:77`): strategies that leave different willing customers
  alone meet different rolls from there on, so their comparison is not paired.
  `FairComparison` states when it is.

## 5. What is proved

Every safety property the runs check is a theorem, for every value of the
constants within these assumptions, all of which TLC evaluates:

- `ConstantsAssumption`, `RequestsAssumption`: the webhook thread is not a worker,
  None is no value. `BoundsAssumption`: bounds are natural numbers.
- `WorkersAssumption`, `CallersAssumption`: threads and callers are finitely many,
  which the counting arguments need. `ExecutorAssumption`: the pool has a thread.
- `InputAssumption`, `ReportsAssumption`: inputs have their types; there is at
  least one footprint, and one per merchant, as the script that collects them makes
  them.
- `AccountsAssumption`, `ConsoleAssumption`, `CustomersAssumption`: the demo
  merchant is not among the registered ones, ids of policies and merchants differ
  (they are uuids), the list limit is a number.

The properties of the cases that only the webhook drives have a hypothesis of their
own, that of the run which checks them: `MaxRuns = 0` (nobody calls
`POST /recoveries`).

**Core, any interleaving** (`PayBackProofs`, `PayBackSafetyProofs`): `TypeOK`,
`RecoveredImpliesPaid`, `OneCasePerTransaction` and `EventsMatchTransaction`, for
any sets of threads, transactions and cases and any bounds. None of them is
inductive. `IInv` adds

- `ThreadInv`: what a thread's local copies have to do with the store at each
  place. A thread at `mark_save` handles a paid event of its case's transaction; a
  run's snapshot is of its case and never RECOVERED, because `GraphAccepts` lets
  only DETECTED through. Hence a stale write can undo a recovery but not invent one.
- `PaidEvents`: a paid event was emitted with a payment, and payments never decrease.
- `AbsentUnknown`, `OwnersExclude`: who may be about to create the case of a
  transaction. The lookup and the save are not atomic; what saves the code is that
  a worker ingests only a transaction with a fresh id nobody else knows, and that
  the webhook, the only one to ingest a known transaction, is a single thread.
  With a second event-loop process this argument fails.

The proofs go action by action: `TypeCorrect` first, then `PaidInv` and `OwnInv`
relative to it, each with frame lemmas for the actions that do not touch it.

**Core, outreach** (`OutreachProofs`), with concurrent runs of one case.

- `MonitoringImpliesOutreach` and `OutreachIsAudited`: `OutreachInv` adds what a
  thread past its action knows (`Reached`) and a counting argument. `ChecksCover`
  says that the actions executed and the threads that are cleared to execute one
  (`Cleared`) together are at most the ELIGIBILITY_CHECKED records. A thread that
  acts leaves the set and adds one to the count.
- `OutreachBounded`: a case is acted on once, and once more for each
  `POST /recoveries`. `RequestsCover` counts the threads that may still act on a
  case (`Chances`), beside the actions executed, against the requests. The one that
  nobody asked for is the webhook's run of the case it has opened, and that run
  has no second chance: the handler runs no case that its lookup found
  (`HandlerFindsNone`), and a restart drops the run for good. With `MaxRuns = 0` it
  says that a customer is contacted at most once.
- `DashboardAgrees`: `FiguresInv` says that each stored case, and each copy that
  will be stored, has outcome and recovered amount exactly if it is RECOVERED
  (`Truthful`, `Told`), so that a stale save exchanges one truthful case for another.
- `EveryEmailRecorded` is inductive itself. It counts, per case, the e-mails
  against the deliveries and the threads between the two, until the first fault: a
  call that fails in between does lose the record (section 4).

**Core, webhook only** (`LifecycleProofs`): `RecoveredIsFinal`, the refinement
`ImplementsLifecycle`, and what the records of a case say. Without a second source
of runs the webhook is the only thread that works on a stored case: `DrivenInv` says
where it can be when a case is still DETECTED and that nothing else holds a copy of
one that is not. `LifeStep` classifies every step, faults included, as one of the
six that `CaseLifecycle` knows (opens, acts, concludes, recovers, pays, or stays).

- `CountersAgree`: `CountInv` ties the counters of the handler's copy, and of the
  stored case once it is saved, to the actions executed; a fault in between is what
  the property's exception is for.
- `CompletionAuditedOnce`: `CompletedInv` says that a thread about to write the
  record (`Completing`) stands on a case that is RECOVERED and not yet on record.
  The next announcement of the payment finds it RECOVERED and skips it.
- `FailuresAuditedOnce`: `FailureInv` counts the records of a case against the
  events that need none any more (`Settled`: processed, or at a place of the handler
  after the audit) plus the faults. A fault may take one event out of `Settled`, and
  pays for its repetition. A case that a worker opened has its one record without
  an event, and Razorpay knows nothing of its transaction (`Unlinked`).

**Decision engine** (`DecisionProofs`): `DecisionPossible`, `GuardrailsRespected`,
`ActionIsEligible`, `LooserPolicyStillRecovers`, `NearOptimal` and
`TierFollowsHistory`, for every input. The result is always one evaluation of the
input (`Evaluated`), so each reduces to a lemma about `Evaluate`. `NearOptimal`
needs that the ranking is a total order, so that the CHOOSE of `Best` has a witness,
and bounds on `Round`; `TierFollowsHistory` that rounding half to even is monotone
in the ratio (`RoundMonotone`).

**Background executor** (`BackgroundProofs`): `BackgroundInv` is inductive.
`OneTaskPerCallerAndKey` needs `KeysMapped` (a stored task whose key is not mapped
belongs to a caller between the two steps), `RetryCountTellsTheEnd` needs `JobsInv`,
and both need that no task is queued twice. A reader may find the counter of the
last failure while its status is still being set (`noted`); the property says that
this is the only such moment. `ImplementsTaskLife` maps every step to
a step of `TaskLife` or a stutter, a restart to `Forget`. For `EffectsBounded`,
`EffectsInv` counts the effects of a key against the pairs of a caller and an
attempt made in this life (`Used`), plus what each earlier life could add.

**Console** (`ConsoleProofs`): the areas share only threads, so each has an
invariant that a step of another area leaves alone (`Moves`, `Untouched`).

- `DuplicateAccountsExplained`: `AccountsInv` says that every merchant, stored or
  about to be saved, was looked up among all those stored before its registration
  began (`LookupInv`), unless a caller without a token has saved it (`unchecked`), and
  that Supabase's e-mails are unique (`UniqueInv`).
- `LastWriteKept`: `DocumentsInv` says that an update whose document is not
  `overlapped` still holds what is stored, and that what is stored is what the
  finished updates add up to.
- `CustomerOfMerchant` and `DuplicateCustomersExplained`: `CustomersInv` speaks of
  all `Copies` of a customer, those the threads hold included. They differ in what
  was filled in only (`Same`); each was looked for among the customers stored
  before it, and the lookup missed one only if more were stored than it lists
  (`LookedFor`). That needs what the first entries of a sorted list are.
- `ConsoleTypeOK`, from all three.

**Messages, delivery, reconciliation, evaluation** (`ReportProofs`):
`NothingInventedIsSent` and `RecordTellsDelivery` for every text, also with more
kinds of URL than the run has; `PlanKeepsData` for every set of footprints;
`FairComparison` for every data set and every sequence of rolls. The invariants
(`AnswerInv`, `PlanInv`, `CompareInv`) say that the answer is the function of the
input. A list has a best source because the order of the sort keys is strict and
transitive: there is no least length at which none is found (`BestExists`).
`FairComparison` is about a recursive function and goes the same way: were the two
evaluations to use different rolls, there would be a least case where they do
(`WFMin`), and the step to that case (`LevelCase`) keeps them equal.

**Only model-checked:** the liveness properties `PaidCaseRecovered`,
`WebhookCaseDecided` and `TasksEnd`. They rest on fairness, which is about ENABLED,
and the provers have no rule for it.

## 6. How the properties are kept honest

Every property of a passing run has a mutant: a definition that differs from a
mapped one as a plausible bug would (`..._Rerun`, `..._NoSkip`), next to the
original. Replacing the original makes TLC find that property violated.
`CHECK_DEADLOCK FALSE` hides no property, and between them the passing runs take
every action and every disjunct of the next-state relations.

## 7. Plan

Done, in this order: the state machine and the store; the service; webhook and
gateway; payment creation and faults; claims; the type invariant, the inductive
invariant and their proofs; the decision engine and its proofs; the background
executor, its abstract specification and proofs; the console; messages, delivery,
reconciliation and evaluation with proofs; the dashboard's figures; the outreach
and lifecycle proofs; the counting proofs of effects, outreach and audits; the
proofs of the console, the plan and the benchmark.

Left:

1. Open links per transaction and double payment: the gateway's model has the
   state, the code has no rule to check.
2. In `PayBack`, a call that took effect and still raised without a restart.
3. Notifications, once something calls `NotificationService`.
4. What `OutreachBounded` and `FailuresAuditedOnce` become with a second process
   of the service: their proofs name the single event loop where they use it.

## 8. What is not modelled, and why

- Notifications: no code of the application creates one.
- The trained model and its features: a fitted function; its output is an input.
  A probability the model would never return is covered as well.
- Wording: explanations, audit details, and of messages everything the validator
  does not look at. Of the details only the failure to be formatted
  (`math.round`) matters, and is modelled.
- Float arithmetic bit by bit: `Round` rounds exact fractions half to even; a tie
  of the floats may go the other way, and no property depends on it.
- Signatures of tokens and webhooks, malformed payloads, and events without a known
  transaction beyond their being ignored.
- Customers and policies inside `PayBack`: read only there, replaced by the choice
  among `PossibleDecisions`; `Console` has their storage. A missing customer is not
  modelled; nothing deletes one.
- Averages and rates of the read endpoints and of the benchmark.
- SQL text, configuration, logging, middleware, scripts and the frontend.
