------------------------- MODULE PayBackSafetyProofs -------------------------
(***************************************************************************)
(* Proofs of the safety invariants of PayBack on top of the type invariant *)
(* of PayBackProofs: no case is RECOVERED without a captured payment, a    *)
(* transaction has one case, an event finds its transaction.               *)
(***************************************************************************)
EXTENDS PayBackProofs

-----------------------------------------------------------------------------
(* A RECOVERED case was paid for *)

\* What PaidInv speaks about stays as it is.
LEMMA PaidFrame ==
  ASSUME PaidInv, UNCHANGED <<cases, payments, emitted>>
  PROVE  PaidInv'
BY DEF PaidInv, RecoveredImpliesPaid, PaidEvents, Stored, Status, TxOf

\* One case is written; if it is RECOVERED its transaction has been paid.
LEMMA PaidWrite ==
  ASSUME TypeInv, PaidInv, NEW c \in CaseId, NEW v \in Case,
         cases' = [cases EXCEPT ![c] = v], UNCHANGED <<payments, emitted>>,
         v.status = "recovered" => payments[v.transaction_id] > 0
  PROVE  PaidInv'
<1>1. \A d \in CaseId : cases'[d] = IF d = c THEN v ELSE cases[d]
  BY DEF TypeInv, StoreTypeOK
<1> QED BY <1>1 DEF PaidInv, RecoveredImpliesPaid, PaidEvents, Stored, Status, TxOf

\* A new case is not RECOVERED.
LEMMA PaidIngestSave ==
  ASSUME TypeInv, PaidInv, NEW t \in Thread, IngestSave(t) PROVE PaidInv'
<1>1. th[t].tx \in Tx
  BY ThreadType DEF IngestSave, At, Held, TxPC
<1>2. PICK c \in CaseId : cases' = [cases EXCEPT ![c] = NewCase(th[t].tx)]
  BY DEF IngestSave
<1> QED BY <1>1, <1>2, NewCaseType, PaidWrite DEF IngestSave, gateway

\* A run never saves RECOVERED: its snapshot ends monitoring, stopped or escalated.
LEMMA PaidRunSave ==
  ASSUME TypeInv, PaidInv, NEW t \in Thread, RunSave(t) PROVE PaidInv'
<1>1. /\ th[t].case \in CaseId /\ th[t].snap \in Case /\ th[t].snap.status # "recovered"
  BY ThreadType, CaseKnown, SnapKnown DEF RunSave, At, CasePC, SnapPC, RunPC, Held
<1> QED BY <1>1, PaidWrite DEF RunSave, gateway

\* mark_case_recovered saves RECOVERED only for a paid transaction.
LEMMA PaidMarkSave ==
  ASSUME TypeInv, PaidInv, MarkSave(Webhook) PROVE PaidInv'
<1> DEFINE e == th[Webhook].event
           c == th[Webhook].case
           snap == th[Webhook].snap
<1>1. Webhook \in Thread /\ At(Webhook, "mark_save")
  BY DEF MarkSave, Thread
<1>2. /\ c \in CaseId /\ snap \in Case /\ snap.transaction_id = cases[c].transaction_id
      /\ e \in emitted /\ e.kind \in PaidKind /\ e.tx = cases[c].transaction_id
  BY <1>1, ThreadType, CaseKnown, SnapKnown DEF At, CasePC, SnapPC, MarkPC, Held
<1>3. payments[Recovered(snap).transaction_id] > 0
  BY <1>2, RecoveredType DEF PaidInv, PaidEvents
<1>4. Recovered(snap) \in Case /\ cases' = [cases EXCEPT ![c] = Recovered(snap)]
  BY <1>2, RecoveredType DEF MarkSave
<1> HIDE DEF c, snap, e
<1> QED BY <1>2, <1>3, <1>4, PaidWrite DEF MarkSave, gateway

\* Payments are only added.
LEMMA PaidGateway ==
  ASSUME TypeInv, PaidInv, NEW x \in Tx,
         AttemptFails(x) \/ CustomerPays(x) \/ LinkExpires(x)
  PROVE  PaidInv'
<1>1. \A y \in Tx : payments[y] \in Nat /\ payments'[y] \in Nat /\ payments'[y] >= payments[y]
  BY DEF TypeInv, StoreTypeOK, AttemptFails, CustomerPays, LinkExpires
<1>2. RecoveredImpliesPaid'
  <2>1. cases' = cases /\ \A c \in Stored : TxOf(c) \in Tx
    BY DEF AttemptFails, CustomerPays, LinkExpires, TypeInv, StoreTypeOK, Stored, TxOf, Case
  <2> QED BY <1>1, <2>1 DEF PaidInv, RecoveredImpliesPaid, Stored, Status, TxOf
<1>3. \A e \in emitted : e.kind \in PaidKind => payments'[e.tx] > 0
  BY <1>1 DEF PaidInv, PaidEvents, TypeInv, StoreTypeOK, Event
<1>4. CASE AttemptFails(x) \/ LinkExpires(x)
  <2>1. \A e \in emitted' \ emitted : e.kind \notin PaidKind
    BY <1>4, EventOfType
       DEF TypeInv, AttemptFails, LinkExpires, Emit, PaidKind, FailedKind, ExpiredKind
  <2> QED BY <1>2, <1>3, <2>1 DEF PaidInv, PaidEvents
<1>5. CASE CustomerPays(x)
  <2>1. payments'[x] > 0
    BY <1>5 DEF TypeInv, StoreTypeOK, CustomerPays
  <2>2. \A e \in emitted' \ emitted : e.tx = x
    BY <1>5, EventOfType DEF TypeInv, CustomerPays, Emit
  <2> QED BY <1>2, <1>3, <2>1, <2>2 DEF PaidInv, PaidEvents
<1> QED BY <1>4, <1>5

\* The steps that write no case and emit no event.
LEMMA PaidQuiet ==
  ASSUME PaidInv, NEW t,
         \/ IngestTx(t) \/ IngestCase(t) \/ IngestAudit(t) \/ RunCase(t) \/ RunContext(t)
         \/ RunDecide(t) \/ ExecuteRetry(t) \/ ExecuteLink(t) \/ ExecuteSend(t)
         \/ ExecuteDelivery(t) \/ RunAction(t) \/ RunAudit(t) \/ RunDetail(t)
         \/ MarkRead(t) \/ MarkAudit(t) \/ CreateLink(t) \/ CreateLinkFails(t)
         \/ WebhookSaveTx \/ WebhookFindCase \/ WebhookAuditFailure \/ WebhookRecord
         \/ CallFails(t) \/ RecordFails \/ Restart
  PROVE  PaidInv'
<1>1. UNCHANGED <<cases, payments, emitted>>
  BY DEF IngestTx, IngestCase, IngestAudit, RunCase, RunContext, RunDecide, ExecuteRetry,
         ExecuteLink, ExecuteSend, ExecuteDelivery, RunAction, RunAudit, RunDetail, MarkRead,
         MarkAudit, CreateLink, CreateLinkFails, WebhookSaveTx, WebhookFindCase,
         WebhookAuditFailure, WebhookRecord, CallFails, RecordFails, Restart, gateway
<1> QED BY <1>1, PaidFrame

\* PaidInv through every step of a worker.
LEMMA PaidWorker ==
  ASSUME TypeInv, PaidInv, NEW w \in Workers,
         NewPaymentEvent(w) \/ NewPayment(w) \/ StartRecovery(w) \/ WorkerStep(w)
  PROVE  PaidInv'
<1>1. CASE NewPaymentEvent(w) \/ NewPayment(w) \/ StartRecovery(w)
  <2>1. UNCHANGED <<cases, payments, emitted>>
    BY <1>1 DEF NewPaymentEvent, PostPaymentEvent, NewPayment, CreatePayment, StartRecovery,
                PostRecovery, gateway
  <2> QED BY <2>1, PaidFrame
<1>2. CASE WorkerStep(w)
  BY <1>2, PaidIngestSave, PaidRunSave, PaidQuiet DEF WorkerStep, RunStep, Thread
<1> QED BY <1>1, <1>2

\* PaidInv through every step of the webhook, which takes its event from the wire.
LEMMA PaidWebhook ==
  ASSUME TypeInv, PaidInv, WebhookStep PROVE PaidInv'
<1>1. CASE \E e \in wire : WebhookIgnore(e) \/ WebhookAccept(e)
  <2>1. UNCHANGED <<cases, payments, emitted>>
    BY <1>1 DEF WebhookIgnore, WebhookAccept, gateway
  <2> QED BY <2>1, PaidFrame
<1>2. CASE WebhookHandle
  BY <1>2, PaidIngestSave, PaidRunSave, PaidMarkSave, PaidQuiet
     DEF WebhookHandle, IngestStep, RunStep, MarkStep, Thread
<1> QED BY <1>1, <1>2 DEF WebhookStep

\* PaidInv through every step of the environment.
LEMMA PaidEnvironment ==
  ASSUME TypeInv, PaidInv, Environment PROVE PaidInv'
<1>1. CASE GatewayStep
  BY <1>1, PaidGateway DEF GatewayStep
<1>2. CASE \E e \in emitted : Redeliver(e)
  BY <1>2, PaidFrame DEF Redeliver
<1> QED BY <1>1, <1>2 DEF Environment

\* PaidInv is inductive, with types.
LEMMA PaidNext == TypeInv /\ PaidInv /\ [Next]_vars => PaidInv'
<1> SUFFICES ASSUME TypeInv, PaidInv, [Next]_vars PROVE PaidInv'
  OBVIOUS
<1>1. CASE Fault
  BY <1>1, PaidQuiet DEF Fault
<1>2. CASE UNCHANGED vars
  BY <1>2, PaidFrame DEF vars, gateway
<1> QED BY <1>1, <1>2, PaidWorker, PaidWebhook, PaidEnvironment DEF Next

\* Whatever the interleaving of requests, deliveries, failing calls and restarts,
\* a case is RECOVERED only if Razorpay captured a payment of its transaction.
THEOREM RecoveredSafe == Spec => []RecoveredImpliesPaid
<1>1. Init => PaidInv
  BY DEF Init, StoreInit, PaidInv, RecoveredImpliesPaid, PaidEvents, Stored
<1>2. PaidInv => RecoveredImpliesPaid
  BY DEF PaidInv
<1> QED BY <1>1, <1>2, PaidNext, TypeCorrect, PTL DEF Spec

-----------------------------------------------------------------------------
(* A transaction has one case *)

\* No case appears or disappears, and each keeps its transaction.
CasesStay ==
  \A c \in CaseId :
    /\ (cases'[c] = None) <=> (cases[c] = None)
    /\ cases[c] # None => cases'[c].transaction_id = cases[c].transaction_id

\* Nobody but an owner of a transaction may change what OwnInv says of it: no
\* case appears, no link of a caseless transaction, no event, no new owner.
LEMMA OwnFrame ==
  ASSUME TypeInv, OwnInv,
         CasesStay,
         emitted' = emitted,
         \A x \in Tx : NoCase(x) => links'[x] = links[x],
         \A x \in Tx : txs'[x] = "none" => txs[x] = "none",
         \A t \in Thread, x \in Tx : Owns(t, x)' => Owns(t, x),
         TypeInv'
  PROVE  OwnInv'
<1>1. \A x \in Tx : NoCase(x) => NoCase(x)'
  BY DEF NoCase, Stored, TxOf, CasesStay
<1>2. \A x \in Tx : Unknown(x) => Unknown(x)'
  BY <1>1 DEF Unknown
<1>3. OneCasePerTransaction'
  BY DEF OwnInv, OneCasePerTransaction, Stored, TxOf, CasesStay
<1>4. EventsMatchTransaction'
  BY DEF OwnInv, EventsMatchTransaction, TypeInv, StoreTypeOK, Event
<1>5. AbsentUnknown'
  BY <1>2 DEF OwnInv, AbsentUnknown
<1>6. OwnersExclude'
  <2> SUFFICES ASSUME NEW t \in Thread, th'[t].pc \in OwnPC
               PROVE  /\ NoCase(th[t].tx)'
                      /\ t \in Workers => Unknown(th[t].tx)'
                      /\ \A u \in Thread \ {t} : ~Owns(u, th[t].tx)'
    BY DEF OwnersExclude
  <2>1. th'[t].tx \in Tx /\ Owns(t, th'[t].tx)
    BY DEF Owns, TypeInv, ThreadInv, Held, OwnPC, TxPC
  <2>2. /\ NoCase(th'[t].tx)
        /\ t \in Workers => Unknown(th'[t].tx)
        /\ \A u \in Thread \ {t} : ~Owns(u, th'[t].tx)
    BY <2>1 DEF OwnInv, OwnersExclude, Owns
  <2> QED BY <1>1, <1>2, <2>1, <2>2
<1> QED BY <1>3, <1>4, <1>5, <1>6 DEF OwnInv

\* Thread t moves, but not to a place where it owns its transaction.
LEMMA OwnLeave ==
  ASSUME TypeInv, TypeInv', OwnInv, NEW t \in Thread, OnlyMoves(t), th'[t].pc \notin OwnPC,
         CasesStay, emitted' = emitted,
         \A x \in Tx : NoCase(x) => links'[x] = links[x],
         \A x \in Tx : txs'[x] = "none" => txs[x] = "none"
  PROVE  OwnInv'
<1>1. \A u \in Thread, x \in Tx : Owns(u, x)' => Owns(u, x)
  BY DEF Owns, OnlyMoves
<1> QED BY <1>1, OwnFrame

\* The same when only the threads, the ledger and the outreach change.
LEMMA OwnLeaveQuiet ==
  ASSUME TypeInv, TypeInv', OwnInv, NEW t \in Thread, OnlyMoves(t), th'[t].pc \notin OwnPC,
         UNCHANGED <<txs, cases, links, emitted>>
  PROVE  OwnInv'
BY OwnLeave DEF CasesStay

\* A thread that ends its call gives up what it owns.
LEMMA LeaveEnds ==
  ASSUME TypeInv, NEW t \in Thread,
         \/ th' = [th EXCEPT ![t] = Idle]
         \/ t = Webhook /\ GoRecord(t)
         \/ EndRun(t)
         \/ \E c \in CaseId : EndIngest(t, c)
  PROVE  OnlyMoves(t) /\ th'[t].pc \notin OwnPC
<1>1. th \in [Thread -> ThreadState]
  BY DEF TypeInv, StoreTypeOK
<1>2. CASE th' = [th EXCEPT ![t] = Idle]
  BY <1>1, <1>2 DEF OnlyMoves, OwnPC, Idle
<1>3. CASE t = Webhook /\ GoRecord(t)
  <2>1. th'[t] = [Idle EXCEPT !.pc = "hook_record", !.event = th[t].event]
    BY <1>1, <1>3 DEF GoRecord
  <2>2. th'[t].pc = "hook_record"
    BY <2>1 DEF Idle
  <2> QED BY <1>1, <1>3, <2>2 DEF GoRecord, OnlyMoves, OwnPC
<1>4. CASE EndRun(t)
  BY <1>2, <1>3, <1>4 DEF EndRun
<1>5. CASE \E c \in CaseId : EndIngest(t, c)
  <2>1. PICK c \in CaseId : EndIngest(t, c)
    BY <1>5
  <2>2. CASE t = Webhook
    <3>1. th' = [th EXCEPT ![t] = [th[t] EXCEPT !.pc = "run_case", !.case = c]]
      BY <2>1, <2>2 DEF EndIngest
    <3>2. th'[t] = [th[t] EXCEPT !.pc = "run_case", !.case = c] /\ th[t] \in ThreadState
      BY <1>1, <3>1
    <3>3. th'[t].pc = "run_case"
      BY <3>2 DEF ThreadState
    <3> QED BY <1>1, <3>1, <3>3 DEF OnlyMoves, OwnPC
  <2>3. CASE t # Webhook
    BY <1>2, <2>1, <2>3 DEF EndIngest
  <2> QED BY <2>2, <2>3
<1> QED BY <1>2, <1>3, <1>4, <1>5

\* The steps of a run, of marking a case and of the webhook handler that write
\* neither a case nor a link.
LEMMA OwnRunQuiet ==
  ASSUME TypeInv, TypeInv', OwnInv, NEW t \in Thread,
         \/ RunCase(t) \/ RunContext(t) \/ RunDecide(t) \/ ExecuteRetry(t) \/ ExecuteSend(t)
         \/ ExecuteDelivery(t) \/ RunAction(t) \/ RunAudit(t) \/ RunDetail(t) \/ MarkRead(t)
         \/ IngestAudit(t)
  PROVE  OwnInv'
<1>1. UNCHANGED <<txs, cases, links, emitted>>
  BY DEF RunCase, RunContext, RunDecide, ExecuteRetry, ExecuteSend, ExecuteDelivery, RunAction,
         RunAudit, RunDetail, MarkRead, IngestAudit, gateway
<1>2. CASE \/ RunCase(t) \/ ExecuteRetry(t) \/ ExecuteSend(t) \/ ExecuteDelivery(t)
           \/ RunAction(t) \/ RunAudit(t) \/ MarkRead(t)
  <2>1. OnlyMoves(t) /\ th'[t].pc \notin OwnPC
    BY <1>2 DEF RunCase, ExecuteRetry, ExecuteSend, ExecuteDelivery, RunAction, RunAudit,
                MarkRead, Go, OnlyMoves, OwnPC, TypeInv, StoreTypeOK, ThreadState
  <2> QED BY <1>1, <2>1, OwnLeaveQuiet
<1>3. CASE RunContext(t)
  <2>1. OnlyMoves(t) /\ th'[t].pc \notin OwnPC
    <3>1. CASE EndRun(t)
      BY <3>1, LeaveEnds
    <3>2. CASE ~EndRun(t)
      BY <1>3, <3>2 DEF RunContext, OnlyMoves, OwnPC, TypeInv, StoreTypeOK, ThreadState
    <3> QED BY <3>1, <3>2
  <2> QED BY <1>1, <2>1, OwnLeaveQuiet
<1>4. CASE RunDecide(t)
  <2>1. OnlyMoves(t) /\ th'[t].pc \notin OwnPC
    <3>1. CASE EndRun(t)
      BY <3>1, LeaveEnds
    <3>2. CASE ~EndRun(t)
      <4>1. PICK d \in PossibleDecisions(th[t].seen) :
              IF d = "recover"
              THEN \E a \in OutreachAction :
                     th' = [th EXCEPT ![t].pc = "run_execute", ![t].action = a,
                                      ![t].snap = Decided(@, d)]
              ELSE th' = [th EXCEPT ![t].pc = "run_save", ![t].snap = Decided(@, d)]
        BY <1>4, <3>2 DEF RunDecide
      <4>2. CASE d = "recover"
        <5>1. PICK a \in OutreachAction :
                th' = [th EXCEPT ![t].pc = "run_execute", ![t].action = a,
                                 ![t].snap = Decided(@, d)]
          BY <4>1, <4>2
        <5> QED BY <5>1 DEF OnlyMoves, OwnPC, TypeInv, StoreTypeOK, ThreadState
      <4>3. CASE d # "recover"
        BY <4>1, <4>3 DEF OnlyMoves, OwnPC, TypeInv, StoreTypeOK, ThreadState
      <4> QED BY <4>2, <4>3
    <3> QED BY <3>1, <3>2
  <2> QED BY <1>1, <2>1, OwnLeaveQuiet
<1>5. CASE RunDetail(t)
  BY <1>1, <1>5, LeaveEnds, OwnLeaveQuiet DEF RunDetail
<1>6. CASE IngestAudit(t)
  <2>1. th[t].case \in CaseId
    BY <1>6, CaseKnown DEF IngestAudit, At, CasePC
  <2> QED BY <1>1, <1>6, <2>1, LeaveEnds, OwnLeaveQuiet DEF IngestAudit
<1> QED BY <1>2, <1>3, <1>4, <1>5, <1>6

\* The link a run creates is of the transaction it holds.
LEMMA OwnExecuteLink ==
  ASSUME TypeInv, TypeInv', OwnInv, NEW t \in Thread, ExecuteLink(t) PROVE OwnInv'
<1>1. /\ th[t].case \in CaseId /\ cases[th[t].case] # None
      /\ th[t].snap.transaction_id = cases[th[t].case].transaction_id
  BY ThreadType DEF Held, ExecuteLink, At, CasePC, SnapPC, RunPC
<1>2. \A x \in Tx : NoCase(x) => links'[x] = links[x]
  <2> SUFFICES ASSUME NEW x \in Tx, NoCase(x) PROVE links'[x] = links[x]
    OBVIOUS
  <2>1. x # th[t].snap.transaction_id
    BY <1>1 DEF NoCase, Stored, TxOf
  <2> QED BY <2>1 DEF ExecuteLink, TypeInv, StoreTypeOK
<1>3. OnlyMoves(t) /\ th'[t].pc \notin OwnPC
  BY DEF ExecuteLink, Go, OnlyMoves, OwnPC, TypeInv, StoreTypeOK, ThreadState
<1>4. UNCHANGED <<txs, cases, emitted>>
  BY DEF ExecuteLink
<1> QED BY <1>2, <1>3, <1>4, OwnLeave DEF CasesStay

\* Saving a case over itself keeps the transaction it is about.
LEMMA OwnSave ==
  ASSUME TypeInv, TypeInv', OwnInv, NEW t \in Thread, RunSave(t) \/ MarkSave(t) PROVE OwnInv'
<1>1. /\ th[t].case \in CaseId /\ cases[th[t].case] # None /\ th[t].snap \in Case
      /\ th[t].snap.transaction_id = cases[th[t].case].transaction_id
  BY ThreadType DEF Held, RunSave, MarkSave, At, CasePC, SnapPC, RunPC
<1>2. PICK v \in Case : /\ cases' = [cases EXCEPT ![th[t].case] = v]
                        /\ v.transaction_id = th[t].snap.transaction_id
  BY <1>1, RecoveredType DEF RunSave, MarkSave
<1>a. \A c \in CaseId : cases'[c] = IF c = th[t].case THEN v ELSE cases[c]
  BY <1>1, <1>2 DEF TypeInv, StoreTypeOK
<1>3. CasesStay
  BY <1>1, <1>2, <1>a, ConstantsAssumption DEF CasesStay
<1>4. OnlyMoves(t) /\ th'[t].pc \notin OwnPC
  BY DEF RunSave, MarkSave, OnlyMoves, OwnPC, TypeInv, StoreTypeOK, ThreadState
<1>5. UNCHANGED <<txs, links, emitted>>
  BY DEF RunSave, MarkSave, gateway
<1> QED BY <1>3, <1>4, <1>5, OwnLeave

\* An ingestion keeps what it owns until it finds a case or saves one.
LEMMA OwnIngest ==
  ASSUME TypeInv, TypeInv', OwnInv, NEW t \in Thread, IngestTx(t) \/ IngestCase(t) PROVE OwnInv'
<1>1. UNCHANGED <<cases, links, emitted>> /\ CasesStay
  BY DEF IngestTx, IngestCase, gateway, CasesStay
<1>2. \A x \in Tx : txs'[x] = "none" => txs[x] = "none"
  BY DEF IngestTx, IngestCase, TypeInv, StoreTypeOK
<1>3. CASE \E c \in CaseId : EndIngest(t, c)
  BY <1>1, <1>2, <1>3, LeaveEnds, OwnLeave
<1>4. CASE Go(t, "ingest_case") \/ Go(t, "ingest_save")
  <2>1. \A u \in Thread, x \in Tx : Owns(u, x)' => Owns(u, x)
    BY <1>4 DEF Go, Owns, OwnPC, IngestTx, IngestCase, At, TypeInv, StoreTypeOK, ThreadState
  <2> QED BY <1>1, <1>2, <2>1, OwnFrame
<1> QED BY <1>3, <1>4 DEF IngestTx, IngestCase, CasesOf

\* Thread t becomes the owner of a transaction it alone knows.
LEMMA OwnAcquire ==
  ASSUME TypeInv, TypeInv', OwnInv, NEW t \in Thread, NEW x \in Tx, OnlyMoves(t),
         th'[t].pc \in OwnPC => th'[t].tx = x,
         NoCase(x), t \in Workers => Unknown(x), \A u \in Thread : ~Owns(u, x),
         txs'[x] # "none", \A y \in Tx : txs'[y] = "none" => txs[y] = "none",
         UNCHANGED <<cases, links, emitted>>
  PROVE  OwnInv'
<1>1. OneCasePerTransaction' /\ EventsMatchTransaction'
  BY DEF OwnInv, OneCasePerTransaction, EventsMatchTransaction, Stored, TxOf, TypeInv,
         StoreTypeOK, Event
<1>2. \A y \in Tx : (NoCase(y) => NoCase(y)') /\ (Unknown(y) => Unknown(y)')
  BY DEF NoCase, Unknown, Stored, TxOf
<1>3. \A u \in Thread, y \in Tx : Owns(u, y)' => Owns(u, y) \/ (u = t /\ y = x)
  BY DEF Owns, OnlyMoves
<1>4. AbsentUnknown'
  BY <1>2, <1>3 DEF OwnInv, AbsentUnknown
<1>5. OwnersExclude'
  <2> SUFFICES ASSUME NEW u \in Thread, th'[u].pc \in OwnPC
               PROVE  /\ NoCase(th[u].tx)'
                      /\ u \in Workers => Unknown(th[u].tx)'
                      /\ \A v \in Thread \ {u} : ~Owns(v, th[u].tx)'
    BY DEF OwnersExclude
  <2>1. th'[u].tx \in Tx
    BY DEF TypeInv, ThreadInv, Held, OwnPC, TxPC
  <2>2. CASE u = t
    BY <1>2, <1>3, <2>2
  <2>3. CASE u # t
    <3>1. th'[u] = th[u] /\ Owns(u, th[u].tx) /\ th[u].tx # x
      BY <2>1, <2>3 DEF OnlyMoves, Owns
    <3> QED BY <1>2, <1>3, <2>1, <3>1 DEF OwnInv, OwnersExclude, Owns
  <2> QED BY <2>2, <2>3
<1> QED BY <1>1, <1>4, <1>5 DEF OwnInv

\* A new transaction belongs to the request that created it.
LEMMA OwnNewTransaction ==
  ASSUME TypeInv, TypeInv', OwnInv, NEW w \in Workers, NEW x \in Tx,
         NEW s \in {"success", "failed", "pending", "abandoned", "refunded"},
         PostPaymentEvent(w, x, s) \/ CreatePayment(w, x)
  PROVE  OwnInv'
<1>1. w \in Thread /\ txs[x] = "none" /\ UNCHANGED <<cases, links, emitted>>
  BY DEF Thread, PostPaymentEvent, CreatePayment, gateway
<1>2. NoCase(x) /\ Unknown(x) /\ \A u \in Thread : ~Owns(u, x)
  BY <1>1 DEF OwnInv, AbsentUnknown, Unknown
<1>3. txs'[x] # "none" /\ \A y \in Tx : txs'[y] = "none" => txs[y] = "none"
  BY DEF PostPaymentEvent, CreatePayment, TypeInv, StoreTypeOK
<1>4. OnlyMoves(w) /\ (th'[w].pc \in OwnPC => th'[w].tx = x)
  <2>1. \/ th' = [th EXCEPT ![w] = Idle]
        \/ \E pc \in OwnPC : th' = [th EXCEPT ![w].pc = pc, ![w].tx = x]
    BY <1>1 DEF PostPaymentEvent, CreatePayment, OwnPC, TypeInv, StoreTypeOK
  <2> QED BY <1>1, <2>1, LeaveEnds DEF OnlyMoves, TypeInv, StoreTypeOK, ThreadState
<1> QED BY <1>1, <1>2, <1>3, <1>4, OwnAcquire

\* The webhook goes on to open a case only where it found none.
LEMMA OwnFindCase ==
  ASSUME TypeInv, TypeInv', OwnInv, WebhookFindCase PROVE OwnInv'
<1> DEFINE x == th[Webhook].tx
<1>1. Webhook \in Thread /\ th[Webhook] \in ThreadState
      /\ UNCHANGED <<txs, cases, links, emitted>>
  BY ThreadType DEF Thread, WebhookFindCase, gateway
<1>2. /\ x \in Tx /\ th[Webhook].event \in emitted /\ th[Webhook].event.tx = x
  BY <1>1, ThreadType DEF WebhookFindCase, At, Held, TxPC
<1>3. CASE CasesOf(x) # {}
  <2>1. PICK c \in CaseId : \/ GoRecord(Webhook)
                            \/ \E pc \in {"mark_read", "hook_audit"} :
                                  th' = [th EXCEPT ![Webhook].pc = pc, ![Webhook].case = c]
    BY <1>3, ConstantsAssumption DEF WebhookFindCase, Lookup, CasesOf, AfterLookup
  <2>2. OnlyMoves(Webhook) /\ th'[Webhook].pc \notin OwnPC
    BY <1>1, <2>1, LeaveEnds DEF OnlyMoves, OwnPC, TypeInv, StoreTypeOK, ThreadState
  <2> QED BY <1>1, <2>2, OwnLeaveQuiet
<1>4. CASE CasesOf(x) = {}
  <2>1. NoCase(x)
    BY <1>4 DEF CasesOf, NoCase, Stored, TxOf
  <2>2. \A u \in Thread : ~Owns(u, x)
    <3> SUFFICES ASSUME NEW u \in Thread, Owns(u, x) PROVE FALSE
      OBVIOUS
    <3>1. u # Webhook
      BY DEF Owns, OwnPC, WebhookFindCase, At
    <3>2. Unknown(x)
      BY <3>1 DEF Owns, OwnInv, OwnersExclude, Thread
    <3> QED BY <1>2, <3>2 DEF Unknown
  <2>3. txs'[x] # "none"
    BY <1>1, <1>2 DEF OwnInv, EventsMatchTransaction
  <2>4. OnlyMoves(Webhook) /\ (th'[Webhook].pc \in OwnPC => th'[Webhook].tx = x)
    <3>1. GoRecord(Webhook) \/ th' = [th EXCEPT ![Webhook].pc = "ingest_tx", ![Webhook].case = None]
      BY <1>4 DEF WebhookFindCase, Lookup, AfterLookup
    <3> QED BY <1>1, <3>1, LeaveEnds DEF OnlyMoves, OwnPC, TypeInv, StoreTypeOK, ThreadState
  <2> QED BY <1>1, <1>2, <2>1, <2>2, <2>3, <2>4, OwnAcquire, ConstantsAssumption
<1> QED BY <1>3, <1>4

\* The case of a new transaction appears, and its owner lets go.
LEMMA OwnIngestSave ==
  ASSUME TypeInv, TypeInv', OwnInv, NEW t \in Thread, IngestSave(t) PROVE OwnInv'
<1> DEFINE x == th[t].tx
<1>1. x \in Tx /\ th[t].pc = "ingest_save"
  BY ThreadType DEF IngestSave, At, Held, TxPC
<1>2. /\ Owns(t, x) /\ NoCase(x) /\ \A u \in Thread \ {t} : ~Owns(u, x)
  BY <1>1 DEF Owns, OwnPC, OwnInv, OwnersExclude
<1>3. PICK c \in CaseId : cases[c] = None /\ cases' = [cases EXCEPT ![c] = NewCase(x)]
  BY DEF IngestSave
<1>4. OnlyMoves(t) /\ th'[t].pc \notin OwnPC
  <2>1. PICK d : th' = [th EXCEPT ![t].pc = "ingest_audit", ![t].case = d]
    BY DEF IngestSave
  <2> QED BY <2>1 DEF OnlyMoves, OwnPC, TypeInv, StoreTypeOK, ThreadState
<1>5. UNCHANGED <<txs, links, emitted>>
  BY DEF IngestSave, gateway
<1> DEFINE v == NewCase(x)
<1>6. v \in Case /\ v.transaction_id = x /\ \A d \in CaseId : cases'[d] = IF d = c THEN v ELSE cases[d]
  BY <1>1, <1>3, NewCaseType DEF TypeInv, StoreTypeOK
<1> HIDE DEF x, v
<1>7. \A y \in Tx : y # x => (NoCase(y) => NoCase(y)') /\ (Unknown(y) => Unknown(y)')
  BY <1>5, <1>6 DEF NoCase, Unknown, Stored, TxOf
<1>8. \A u \in Thread, y \in Tx : Owns(u, y)' => Owns(u, y) /\ u # t
  BY <1>4 DEF Owns, OnlyMoves
<1>9. OneCasePerTransaction' /\ EventsMatchTransaction'
  BY <1>2, <1>5, <1>6 DEF OwnInv, OneCasePerTransaction, EventsMatchTransaction, NoCase,
                          Stored, TxOf
<1>10. AbsentUnknown'
  BY <1>2, <1>5, <1>7, <1>8 DEF OwnInv, AbsentUnknown
<1>11. OwnersExclude'
  <2> SUFFICES ASSUME NEW u \in Thread, th'[u].pc \in OwnPC
               PROVE  /\ NoCase(th[u].tx)'
                      /\ u \in Workers => Unknown(th[u].tx)'
                      /\ \A z \in Thread \ {u} : ~Owns(z, th[u].tx)'
    BY DEF OwnersExclude
  <2>1. th'[u].tx \in Tx /\ u # t /\ th'[u] = th[u] /\ Owns(u, th[u].tx)
    BY <1>4 DEF TypeInv, ThreadInv, Held, OwnPC, TxPC, OnlyMoves, Owns
  <2>2. th[u].tx # x
    BY <1>2, <2>1
  <2> QED BY <1>7, <1>8, <2>1, <2>2 DEF OwnInv, OwnersExclude, Owns
<1> QED BY <1>9, <1>10, <1>11 DEF OwnInv

\* create_payment ends: with a link, or with its transaction gone.
LEMMA OwnCreateLink ==
  ASSUME TypeInv, TypeInv', OwnInv, NEW w \in Workers, CreateLink(w) \/ CreateLinkFails(w)
  PROVE  OwnInv'
<1> DEFINE x == th[w].tx
<1>1. w \in Thread /\ x \in Tx /\ th[w].pc = "create_link"
  BY ThreadType DEF CreateLink, CreateLinkFails, At, Held, TxPC, Thread
<1>2. NoCase(x) /\ Unknown(x) /\ \A u \in Thread \ {w} : ~Owns(u, x)
  BY <1>1 DEF OwnPC, OwnInv, OwnersExclude
<1>3. OnlyMoves(w) /\ th'[w].pc \notin OwnPC
  BY <1>1, LeaveEnds DEF CreateLink, CreateLinkFails
<1>4. UNCHANGED <<cases, emitted>> /\ \A y \in Tx : y # x => txs'[y] = txs[y] /\ links'[y] = links[y]
  BY DEF CreateLink, CreateLinkFails, gateway, TypeInv, StoreTypeOK
<1>5. txs'[x] # "none" \/ links' = links
  BY <1>1 DEF CreateLink, CreateLinkFails, gateway, TypeInv, StoreTypeOK
<1>6. \A u \in Thread, y \in Tx : Owns(u, y)' => Owns(u, y) /\ u # w
  BY <1>3 DEF Owns, OnlyMoves
<1> HIDE DEF x
<1>7. \A y \in Tx : (NoCase(y) => NoCase(y)')
                  /\ (y # x \/ links' = links => (Unknown(y) => Unknown(y)'))
  BY <1>4 DEF NoCase, Unknown, Stored, TxOf
<1>8. OneCasePerTransaction' /\ EventsMatchTransaction'
  BY <1>2, <1>4 DEF OwnInv, OneCasePerTransaction, EventsMatchTransaction, Unknown, Stored, TxOf,
                    TypeInv, StoreTypeOK, Event
<1>9. AbsentUnknown'
  BY <1>2, <1>4, <1>5, <1>6, <1>7 DEF OwnInv, AbsentUnknown
<1>10. OwnersExclude'
  <2> SUFFICES ASSUME NEW u \in Thread, th'[u].pc \in OwnPC
               PROVE  /\ NoCase(th[u].tx)'
                      /\ u \in Workers => Unknown(th[u].tx)'
                      /\ \A z \in Thread \ {u} : ~Owns(z, th[u].tx)'
    BY DEF OwnersExclude
  <2>1. th'[u].tx \in Tx /\ u # w /\ th'[u] = th[u] /\ Owns(u, th[u].tx)
    BY <1>3 DEF TypeInv, ThreadInv, Held, OwnPC, TxPC, OnlyMoves, Owns
  <2>2. th[u].tx # x
    BY <1>2, <2>1
  <2> QED BY <1>6, <1>7, <2>1, <2>2 DEF OwnInv, OwnersExclude, Owns
<1> QED BY <1>8, <1>9, <1>10 DEF OwnInv

\* Events are about transactions with a link, which nobody is still creating.
LEMMA OwnGateway ==
  ASSUME TypeInv, TypeInv', OwnInv, NEW x \in Tx,
         AttemptFails(x) \/ CustomerPays(x) \/ LinkExpires(x)
  PROVE  OwnInv'
<1>1. links[x] > 0 /\ UNCHANGED <<txs, cases, th>>
  BY DEF AttemptFails, CustomerPays, LinkExpires
<1>2. ~Unknown(x)
  BY <1>1 DEF Unknown
<1>3. txs[x] # "none"
  BY <1>2 DEF OwnInv, AbsentUnknown
<1>4. PICK events \in SUBSET Event : Emit(events) /\ \A e \in events : e.tx = x
  BY GatewayEmits DEF TypeInv
<1>5. \A y \in Tx : y # x => links'[y] = links[y]
  BY DEF AttemptFails, CustomerPays, LinkExpires, TypeInv, StoreTypeOK
<1>6. \A y \in Tx : (NoCase(y) => NoCase(y)') /\ (y # x => (Unknown(y) => Unknown(y)'))
  BY <1>1, <1>4, <1>5 DEF NoCase, Unknown, Stored, TxOf, Emit
<1>7. OneCasePerTransaction'
  BY <1>1 DEF OwnInv, OneCasePerTransaction, Stored, TxOf
<1>8. EventsMatchTransaction'
  BY <1>1, <1>3, <1>4 DEF OwnInv, EventsMatchTransaction, Emit
<1>9. AbsentUnknown'
  BY <1>1, <1>3, <1>6 DEF OwnInv, AbsentUnknown, Owns
<1>10. OwnersExclude'
  <2> SUFFICES ASSUME NEW u \in Thread, th[u].pc \in OwnPC
               PROVE  /\ NoCase(th[u].tx)'
                      /\ u \in Workers => Unknown(th[u].tx)'
                      /\ \A z \in Thread \ {u} : ~Owns(z, th[u].tx)'
    BY <1>1 DEF OwnersExclude
  <2>1. th[u].tx \in Tx
    BY DEF TypeInv, ThreadInv, Held, OwnPC, TxPC
  <2> QED BY <1>1, <1>2, <1>6, <2>1 DEF OwnInv, OwnersExclude, Owns
<1> QED BY <1>7, <1>8, <1>9, <1>10 DEF OwnInv

\* The steps of the webhook handler that own nothing.
LEMMA OwnWebhookQuiet ==
  ASSUME TypeInv, TypeInv', OwnInv,
         \/ \E e \in wire : WebhookIgnore(e) \/ WebhookAccept(e)
         \/ WebhookSaveTx \/ WebhookAuditFailure \/ WebhookRecord \/ RecordFails
         \/ MarkAudit(Webhook)
  PROVE  OwnInv'
<1>1. Webhook \in Thread /\ UNCHANGED <<cases, links, emitted>> /\ CasesStay
  BY DEF Thread, WebhookIgnore, WebhookAccept, WebhookSaveTx, WebhookAuditFailure, WebhookRecord,
         RecordFails, MarkAudit, gateway, CasesStay
<1>2. \A y \in Tx : txs'[y] = "none" => txs[y] = "none"
  BY DEF WebhookIgnore, WebhookAccept, WebhookSaveTx, WebhookAuditFailure, WebhookRecord,
         RecordFails, MarkAudit, StatusOf, TypeInv, StoreTypeOK
<1>3. CASE \E e \in wire : WebhookIgnore(e)
  <2>1. \A u \in Thread, y \in Tx : Owns(u, y)' => Owns(u, y)
    BY <1>3 DEF WebhookIgnore, Owns
  <2> QED BY <1>1, <1>2, <2>1, OwnFrame
<1>4. CASE WebhookSaveTx \/ \E e \in wire : WebhookAccept(e)
  <2>1. OnlyMoves(Webhook) /\ th'[Webhook].pc \notin OwnPC
    <3>1. CASE WebhookSaveTx
      BY <1>1, <3>1 DEF WebhookSaveTx, Go, OnlyMoves, OwnPC, TypeInv, StoreTypeOK, ThreadState
    <3>2. CASE \E e \in wire : WebhookAccept(e)
      <4>1. PICK e \in wire : th' = [th EXCEPT ![Webhook].pc = "hook_tx", ![Webhook].event = e,
                                              ![Webhook].tx = e.tx]
        BY <3>2 DEF WebhookAccept
      <4> QED BY <1>1, <4>1 DEF OnlyMoves, OwnPC, TypeInv, StoreTypeOK, ThreadState
    <3> QED BY <1>4, <3>1, <3>2
  <2> QED BY <1>1, <1>2, <2>1, OwnLeave
<1>5. CASE WebhookAuditFailure \/ WebhookRecord \/ RecordFails \/ MarkAudit(Webhook)
  <2>1. GoRecord(Webhook) \/ th' = [th EXCEPT ![Webhook] = Idle]
    BY <1>5 DEF WebhookAuditFailure, WebhookRecord, RecordFails, MarkAudit
  <2>2. OnlyMoves(Webhook) /\ th'[Webhook].pc \notin OwnPC
    BY <1>1, <2>1, LeaveEnds
  <2> QED BY <1>1, <1>2, <2>2, OwnLeave
<1> QED BY <1>3, <1>4, <1>5

\* OwnInv through every step of a run.
LEMMA OwnRunStep ==
  ASSUME TypeInv, TypeInv', OwnInv, NEW t \in Thread, RunStep(t) PROVE OwnInv'
BY OwnRunQuiet, OwnExecuteLink, OwnSave DEF RunStep

\* OwnInv through every step of a worker.
LEMMA OwnWorker ==
  ASSUME TypeInv, TypeInv', OwnInv, NEW w \in Workers,
         NewPaymentEvent(w) \/ NewPayment(w) \/ StartRecovery(w) \/ WorkerStep(w)
  PROVE  OwnInv'
<1>1. w \in Thread
  BY DEF Thread
<1>2. CASE NewPaymentEvent(w) \/ NewPayment(w)
  BY <1>2, OwnNewTransaction DEF NewPaymentEvent, NewPayment
<1>3. CASE StartRecovery(w)
  <2>1. PICK c \in CaseId : PostRecovery(w, c)
    BY <1>3 DEF StartRecovery
  <2>2. OnlyMoves(w) /\ th'[w].pc \notin OwnPC /\ UNCHANGED <<txs, cases, links, emitted>>
    BY <1>1, <2>1 DEF PostRecovery, OnlyMoves, OwnPC, gateway, TypeInv, StoreTypeOK, ThreadState
  <2> QED BY <1>1, <2>2, OwnLeaveQuiet
<1>4. CASE WorkerStep(w)
  BY <1>1, <1>4, OwnCreateLink, OwnIngest, OwnIngestSave, OwnRunQuiet, OwnRunStep DEF WorkerStep
<1> QED BY <1>2, <1>3, <1>4

\* OwnInv through every step of the webhook.
LEMMA OwnWebhook ==
  ASSUME TypeInv, TypeInv', OwnInv, WebhookStep PROVE OwnInv'
<1>1. Webhook \in Thread
  BY DEF Thread
<1>2. CASE IngestStep(Webhook) \/ RunStep(Webhook) \/ MarkStep(Webhook)
  BY <1>1, <1>2, OwnIngest, OwnIngestSave, OwnRunQuiet, OwnRunStep, OwnSave, OwnWebhookQuiet
     DEF IngestStep, MarkStep
<1>3. CASE \/ \E e \in wire : WebhookIgnore(e) \/ WebhookAccept(e)
           \/ WebhookSaveTx \/ WebhookFindCase \/ WebhookAuditFailure \/ WebhookRecord
  BY <1>3, OwnWebhookQuiet, OwnFindCase
<1> QED BY <1>2, <1>3 DEF WebhookStep, WebhookHandle

\* OwnInv through every fault.
LEMMA OwnFault ==
  ASSUME TypeInv, TypeInv', OwnInv, Fault PROVE OwnInv'
<1>1. CASE \E t \in Thread : CallFails(t)
  <2>1. PICK t \in Thread : CallFails(t)
    BY <1>1
  <2>2. EndRun(t) \/ th' = [th EXCEPT ![t] = Idle]
    BY <2>1 DEF CallFails
  <2>3. OnlyMoves(t) /\ th'[t].pc \notin OwnPC
    BY <2>2, LeaveEnds
  <2> QED BY <2>1, <2>3, OwnLeaveQuiet DEF CallFails, gateway
<1>2. CASE Restart
  <2>1. \A u \in Thread, y \in Tx : Owns(u, y)' => Owns(u, y)
    BY <1>2 DEF Restart, Owns, OwnPC, Idle
  <2>2. UNCHANGED <<txs, cases, links, emitted>> /\ CasesStay
    BY <1>2 DEF Restart, gateway, CasesStay
  <2> QED BY <2>1, <2>2, OwnFrame
<1> QED BY <1>1, <1>2, OwnCreateLink, OwnWebhookQuiet DEF Fault

\* OwnInv through every step of the environment.
LEMMA OwnEnvironment ==
  ASSUME TypeInv, TypeInv', OwnInv, Environment PROVE OwnInv'
<1>1. CASE GatewayStep
  BY <1>1, OwnGateway DEF GatewayStep
<1>2. CASE \E e \in emitted : Redeliver(e)
  <2>1. UNCHANGED <<txs, cases, th, links, emitted>>
    BY <1>2 DEF Redeliver
  <2>2. CasesStay /\ \A u \in Thread, y \in Tx : Owns(u, y)' => Owns(u, y)
    BY <2>1 DEF CasesStay, Owns
  <2> QED BY <2>1, <2>2, OwnFrame
<1> QED BY <1>1, <1>2 DEF Environment

\* OwnInv is inductive, with types.
LEMMA OwnNext == TypeInv /\ OwnInv /\ [Next]_vars => OwnInv'
<1> SUFFICES ASSUME TypeInv, OwnInv, [Next]_vars PROVE OwnInv'
  OBVIOUS
<1>1. TypeInv'
  BY NextKeeps
<1>2. CASE UNCHANGED vars
  <2>1. UNCHANGED <<txs, cases, th, links, emitted>>
    BY <1>2 DEF vars, gateway
  <2>2. CasesStay /\ \A u \in Thread, y \in Tx : Owns(u, y)' => Owns(u, y)
    BY <2>1 DEF CasesStay, Owns
  <2> QED BY <1>1, <2>1, <2>2, OwnFrame
<1> QED BY <1>1, <1>2, OwnWorker, OwnWebhook, OwnFault, OwnEnvironment DEF Next

\* Nothing is owned at the start.
LEMMA OwnInit == Init => OwnInv
<1> SUFFICES ASSUME Init PROVE OwnInv
  OBVIOUS
<1>1. Stored = {} /\ emitted = {} /\ (\A x \in Tx : links[x] = 0)
      /\ \A t \in Thread : th[t].pc = "idle"
  BY DEF Init, StoreInit, Stored, Idle
<1> QED BY <1>1 DEF OwnInv, OneCasePerTransaction, EventsMatchTransaction, AbsentUnknown,
                    OwnersExclude, Unknown, NoCase, Owns, OwnPC

\* In every behaviour, with any number of transactions, cases, workers, events
\* and faults, no transaction has two recovery cases, although the lookup and
\* the save of ingest_payment_event are separate calls.
THEOREM OneCaseSafe == Spec => []OneCasePerTransaction
<1>1. OwnInv => OneCasePerTransaction
  BY DEF OwnInv
<1> QED BY <1>1, OwnInit, OwnNext, TypeCorrect, PTL DEF Spec

\* In every behaviour each event Razorpay emits is about a stored transaction,
\* although create_payment may delete the one it has just stored.
THEOREM EventsSafe == Spec => []EventsMatchTransaction
<1>1. OwnInv => EventsMatchTransaction
  BY DEF OwnInv
<1> QED BY <1>1, OwnInit, OwnNext, TypeCorrect, PTL DEF Spec

\* The invariant the three rest on, whole.
THEOREM Inductive == Spec => []IInv
<1>1. TypeOK /\ TypeInv /\ PaidInv /\ OwnInv => IInv
  BY DEF IInv, TypeInv
<1>2. Init => PaidInv
  BY DEF Init, StoreInit, PaidInv, RecoveredImpliesPaid, PaidEvents, Stored
<1> QED BY <1>1, <1>2, TypeSafe, TypeCorrect, PaidNext, OwnInit, OwnNext, PTL DEF Spec
=============================================================================
