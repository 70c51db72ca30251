---------------------------- MODULE RecoveryStore ----------------------------
(***************************************************************************)
(* The state every request handler of PayBack shares: the repositories     *)
(* (backend/app/repositories), the threads that run the handlers, and the  *)
(* world outside the process that their calls change.                      *)
(*                                                                         *)
(* One repository call is one step: the in-memory repositories replace or  *)
(* copy a whole object in one dictionary operation, the Supabase ones send *)
(* one HTTP request.  A thread keeps its own copy of what it read, as the  *)
(* code does (model_copy), and writes whole objects back.                  *)
(***************************************************************************)
EXTENDS CaseStateMachine, Naturals, FiniteSets

CONSTANTS
  Tx,        \* transaction ids (uuid4: never reused)
  CaseId,    \* recovery case ids (uuid4: never reused)
  Workers,   \* thread-pool threads: they run the "def" endpoints
  Webhook,   \* the event loop: it runs the "async def" webhook endpoint to
             \* its end before it takes the next delivery
  None       \* Python's None

Thread == Workers \cup {Webhook}

PaidKind    == {"payment_link.paid", "payment.captured"}
FailedKind  == {"payment.failed"}
ExpiredKind == {"payment_link.expired"}

\* A webhook event; (kind, n) is the identity the idempotency guard keys on:
\* event type and the id of the payment or link the event is about.
Event == [kind : PaidKind \cup FailedKind \cup ExpiredKind, tx : Tx, n : Nat]

\* RecoveryCase, restricted to the fields the control flow reads or writes.
\* amount_recovered counts in units of the amount at risk.
Case == [transaction_id   : Tx,
         status           : RecoveryStatus,
         decision         : {"none", "stop", "escalate", "recover"},
         outcome          : {"none", "recovered", "failed", "expired", "escalated",
                             "stopped"},
         amount_recovered : {0, 1},
         retry_count      : Nat,
         message_count    : Nat]

AuditEventType ==
  {"PAYMENT_FAILED", "RECOVERY_CASE_CREATED", "ELIGIBILITY_CHECKED",
   "ACTION_SELECTED", "PAYMENT_LINK_CREATED", "DECISION_MADE",
   "RECOVERY_STOPPED", "RECOVERY_ESCALATED", "PAYMENT_SUCCEEDED",
   "RECOVERY_COMPLETED"}

RunPC     == {"run_case", "run_context", "run_decide", "run_execute", "run_send",
              "run_delivery", "run_save", "run_action", "run_audit", "run_detail"}
IngestPC  == {"ingest_tx", "ingest_case", "ingest_save", "ingest_audit"}
PaymentPC == {"create_link"}
WebhookPC == {"hook_tx", "hook_case", "hook_audit", "mark_read", "mark_save",
              "mark_audit", "hook_record"}

ThreadState ==
  [pc     : {"idle"} \cup RunPC \cup IngestPC \cup PaymentPC \cup WebhookPC,
   event  : Event \cup {None},            \* the delivery being handled
   tx     : Tx \cup {None},               \* transaction of the handler
   case   : CaseId \cup {None},           \* case id of the handler
   snap   : Case \cup {None},             \* its copy of that case
   seen   : TransactionStatus \cup {None},\* its copy of the transaction's status
   action : OutreachAction \cup {None}]   \* the action it selected

ASSUME ConstantsAssumption ==
  /\ Webhook \notin Workers
  /\ None \notin Tx \cup CaseId \cup TransactionStatus \cup OutreachAction
  /\ None \notin Case
  /\ None \notin Event

\* The thread pool of the server is bounded.
ASSUME WorkersAssumption == IsFiniteSet(Workers)

VARIABLES
  \* the repositories
  txs,            \* stored status of each transaction, "none" while absent
  cases,          \* stored recovery cases
  audits,         \* number of audit records per case and type
  action_records, \* number of ActionRecords per case
  deliveries,     \* number of MessageDeliveryRecords per case
  processed,      \* webhook events recorded by the idempotency guard
  \* the threads
  th,
  \* outside the process
  links,          \* open Razorpay payment links per transaction
  payments,       \* captured payments per transaction
  emitted,        \* webhook events Razorpay has emitted
  wire,           \* those it will still deliver: never answered, or repeated
  seq,            \* next payment or link id
  executed,       \* executor dispatches per case
  emails          \* emails the delivery provider accepted per case

ledger   == <<audits, action_records, deliveries>>
gateway  == <<links, payments, emitted, wire, seq>>
outreach == <<executed, emails>>

Idle == [pc |-> "idle", event |-> None, tx |-> None, case |-> None,
         snap |-> None, seen |-> None, action |-> None]

At(t, pc) == th[t].pc = pc

Go(t, pc) == th' = [th EXCEPT ![t].pc = pc]

\* The webhook handler has its result: all it still needs is the event.
GoRecord(t) ==
  th' = [th EXCEPT ![t] = [Idle EXCEPT !.pc = "hook_record", !.event = th[t].event]]

\* Mutant: the audit log is keyed by case and type, so that records overwrite.
Audit_Upsert(c, types) ==
  audits' = [audits EXCEPT ![c] =
               [a \in AuditEventType |-> IF a \in types THEN 1 ELSE @[a]]]

\* record_audit_event for each type in types, one after the other.  Nothing in
\* the code reads the audit log back, so calls in a row are one step.
Audit(c, types) ==
  audits' = [audits EXCEPT ![c] =
               [a \in AuditEventType |-> IF a \in types THEN @[a] + 1 ELSE @[a]]]

\* Mutant: the lookup sees only cases nobody has worked on yet.
CasesOf_DetectedOnly(t) ==
  {c \in CaseId : /\ cases[c] # None
                  /\ cases[c].transaction_id = t /\ cases[c].status = "detected"}

\* RecoveryCaseRepository.get_by_transaction_id: the ids it may return.
CasesOf(t) == {c \in CaseId : cases[c] # None /\ cases[c].transaction_id = t}

StoreInit ==
  /\ txs = [t \in Tx |-> "none"]
  /\ cases = [c \in CaseId |-> None]
  /\ audits = [c \in CaseId |-> [a \in AuditEventType |-> 0]]
  /\ action_records = [c \in CaseId |-> 0]
  /\ deliveries = [c \in CaseId |-> 0]
  /\ processed = {}
  /\ th = [t \in Thread |-> Idle]
  /\ links = [t \in Tx |-> 0]
  /\ payments = [t \in Tx |-> 0]
  /\ emitted = {}
  /\ wire = {}
  /\ seq = 0
  /\ executed = [c \in CaseId |-> 0]
  /\ emails = [c \in CaseId |-> 0]

StoreTypeOK ==
  /\ txs \in [Tx -> TransactionStatus \cup {"none"}]
  /\ cases \in [CaseId -> Case \cup {None}]
  /\ audits \in [CaseId -> [AuditEventType -> Nat]]
  /\ action_records \in [CaseId -> Nat]
  /\ deliveries \in [CaseId -> Nat]
  /\ processed \subseteq emitted
  /\ th \in [Thread -> ThreadState]
  /\ links \in [Tx -> Nat]
  /\ payments \in [Tx -> Nat]
  /\ emitted \subseteq Event
  /\ wire \subseteq emitted
  /\ seq \in Nat
  /\ executed \in [CaseId -> Nat]
  /\ emails \in [CaseId -> Nat]
=============================================================================
