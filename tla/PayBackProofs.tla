---------------------------- MODULE PayBackProofs ----------------------------
(***************************************************************************)
(* Proofs that every behaviour of PayBack, whatever the constants, keeps   *)
(* the type invariant, never reports an unpaid case as recovered and never *)
(* opens two cases for a transaction.  Each action has a lemma saying that *)
(* it keeps types and the threads' hold on the store; the frame lemmas     *)
(* take care of the threads and cases an action does not touch.            *)
(***************************************************************************)
EXTENDS PayBackInvariant, TLAPS

USE ConstantsAssumption

TypeInv == StoreTypeOK /\ ThreadInv

\* Stored cases stay stored, and stay cases of the same transaction.
CasesGrow ==
  \A c \in CaseId : cases[c] # None => /\ cases'[c] # None
                                       /\ cases'[c].transaction_id = cases[c].transaction_id

\* Only thread t moves.
OnlyMoves(t) == \A u \in Thread \ {t} : th'[u] = th[u]

-----------------------------------------------------------------------------
(* Frames *)

\* A thread with no call in progress is well typed.
LEMMA IdleType == Idle \in ThreadState
BY DEF Idle, ThreadState

\* Appending an audit event keeps the ledger well typed.
LEMMA AuditType ==
  ASSUME StoreTypeOK, NEW c \in CaseId, NEW types, Audit(c, types)
  PROVE  audits' \in [CaseId -> [AuditEventType -> Nat]]
BY DEF Audit, StoreTypeOK

\* A move of thread t that keeps its own hold keeps everybody's.
LEMMA ThreadFrame ==
  ASSUME StoreTypeOK, ThreadInv, NEW t \in Thread, OnlyMoves(t),
         CasesGrow, emitted \subseteq emitted', Held(t, th[t])'
  PROVE  ThreadInv'
<1> SUFFICES ASSUME NEW u \in Thread, u # t PROVE Held(u, th[u])'
  BY DEF ThreadInv
<1>1. th'[u] = th[u] /\ Held(u, th[u])
  BY DEF OnlyMoves, ThreadInv
<1> QED BY <1>1 DEF CasesGrow, Held, CasePC, SnapPC, MarkPC, RunPC

\* What a thread in a place that works on a case may rely on.
LEMMA CaseKnown ==
  ASSUME TypeInv, NEW t \in Thread, th[t].pc \in CasePC
  PROVE  /\ th[t].case \in CaseId
         /\ cases[th[t].case] \in Case
BY DEF TypeInv, ThreadInv, Held, StoreTypeOK

\* A run that holds a snapshot holds that of a stored case.
LEMMA SnapKnown ==
  ASSUME TypeInv, NEW t \in Thread, th[t].pc \in SnapPC
  PROVE  /\ th[t].snap \in Case
         /\ th[t].snap.transaction_id = cases[th[t].case].transaction_id
BY DEF TypeInv, ThreadInv, Held

\* What the type invariant says of one thread.
LEMMA ThreadType ==
  ASSUME TypeInv, NEW t \in Thread
  PROVE  th[t] \in ThreadState /\ Held(t, th[t])
BY DEF TypeInv, ThreadInv, StoreTypeOK

\* A move of thread t that writes nothing but, perhaps, the ledger.
LEMMA QuietFrame ==
  ASSUME TypeInv, NEW t \in Thread, th' \in [Thread -> ThreadState], OnlyMoves(t),
         Held(t, th[t])', audits' \in [CaseId -> [AuditEventType -> Nat]],
         UNCHANGED <<txs, cases, action_records, deliveries, processed, gateway, outreach>>
  PROVE  TypeInv'
<1>1. StoreTypeOK' /\ CasesGrow /\ emitted' = emitted
  BY DEF TypeInv, StoreTypeOK, CasesGrow, gateway, outreach
<1> QED BY <1>1, ThreadFrame DEF TypeInv

-----------------------------------------------------------------------------
(* The ways a thread leaves a procedure *)

\* A thread that finishes its call holds nothing.
LEMMA GoIdle ==
  ASSUME TypeInv, NEW t \in Thread, th' = [th EXCEPT ![t] = Idle]
  PROVE  th' \in [Thread -> ThreadState] /\ OnlyMoves(t) /\ Held(t, th[t])'
<1>1. th' \in [Thread -> ThreadState] /\ th'[t] = Idle /\ OnlyMoves(t)
  BY IdleType DEF TypeInv, StoreTypeOK, OnlyMoves
<1>2. Held(t, th[t])'
  BY <1>1 DEF Held, Idle, CasePC, SnapPC, TxPC, MarkPC, RunPC, WebhookPC
<1> QED BY <1>1, <1>2

\* The webhook keeps what it holds when it goes on to record its event.
LEMMA GoRecordHeld ==
  ASSUME TypeInv, GoRecord(Webhook), ~At(Webhook, "idle"), emitted' = emitted
  PROVE  th' \in [Thread -> ThreadState] /\ OnlyMoves(Webhook)
         /\ Held(Webhook, th[Webhook])'
<1>1. Webhook \in Thread /\ th[Webhook] \in ThreadState /\ Held(Webhook, th[Webhook])
  BY DEF TypeInv, ThreadInv, StoreTypeOK, Thread
<1>2. [Idle EXCEPT !.pc = "hook_record", !.event = th[Webhook].event] \in ThreadState
  BY <1>1 DEF Idle, ThreadState, WebhookPC
<1>3. th' \in [Thread -> ThreadState] /\ OnlyMoves(Webhook)
      /\ th'[Webhook] = [Idle EXCEPT !.pc = "hook_record", !.event = th[Webhook].event]
  BY <1>1, <1>2 DEF TypeInv, StoreTypeOK, OnlyMoves, GoRecord
<1>4. Held(Webhook, th[Webhook])'
  BY <1>1, <1>3 DEF Held, Idle, CasePC, SnapPC, TxPC, MarkPC, RunPC, WebhookPC, At
<1> QED BY <1>3, <1>4

\* So does a thread at the end of a run, whichever way it leaves.
LEMMA EndRunHeld ==
  ASSUME TypeInv, NEW t \in Thread, EndRun(t), ~At(t, "idle"), emitted' = emitted
  PROVE  th' \in [Thread -> ThreadState] /\ OnlyMoves(t) /\ Held(t, th[t])'
BY GoIdle, GoRecordHeld DEF EndRun

\* And at the end of an ingestion, where the webhook goes on with the case.
LEMMA EndIngestHeld ==
  ASSUME TypeInv, NEW t \in Thread, NEW c \in CaseId, cases[c] # None, EndIngest(t, c),
         ~At(t, "idle"), emitted' = emitted, cases' = cases
  PROVE  th' \in [Thread -> ThreadState] /\ OnlyMoves(t) /\ Held(t, th[t])'
<1>1. CASE t = Webhook
  <2>1. th[t] \in ThreadState /\ Held(t, th[t])
    BY ThreadType
  <2>2. [th[t] EXCEPT !.pc = "run_case", !.case = c] \in ThreadState
    BY <2>1 DEF ThreadState, RunPC
  <2>3. th' \in [Thread -> ThreadState] /\ OnlyMoves(t)
        /\ th'[t] = [th[t] EXCEPT !.pc = "run_case", !.case = c]
    BY <1>1, <2>2 DEF EndIngest, TypeInv, StoreTypeOK, OnlyMoves
  <2>4. Held(t, th[t])'
    BY <1>1, <2>1, <2>3 DEF Held, CasePC, SnapPC, TxPC, MarkPC, RunPC, WebhookPC, At, ThreadState
  <2> QED BY <2>3, <2>4
<1>2. CASE t # Webhook
  BY <1>2, GoIdle DEF EndIngest
<1> QED BY <1>1, <1>2

-----------------------------------------------------------------------------
(* What the steps of the service do to a snapshot *)

\* The case that ingest_payment_event builds is well typed.
LEMMA NewCaseType ==
  ASSUME NEW x \in Tx
  PROVE  NewCase(x) \in Case /\ NewCase(x).transaction_id = x
         /\ NewCase(x).status # "recovered"
BY DEF NewCase, Case, RecoveryStatus

\* A snapshot that went through execute and monitor is well typed.
LEMMA MonitoredType ==
  ASSUME NEW snap \in Case
  PROVE  /\ Monitored(snap) \in Case
         /\ Monitored(snap).transaction_id = snap.transaction_id
         /\ Monitored(snap).status # "recovered"
<1>1. snap.retry_count + 1 \in Nat /\ snap.message_count + 1 \in Nat
  BY DEF Case
<1>2. Monitored(snap) = [snap EXCEPT !.status = "monitoring",
                                     !.retry_count = snap.retry_count + 1,
                                     !.message_count = snap.message_count + 1]
  BY DEF Monitored
<1> QED BY <1>1, <1>2 DEF Case, RecoveryStatus

\* So is one that went through the decide node and its conditional edge.
LEMMA DecidedType ==
  ASSUME NEW snap \in Case, NEW d \in {"stop", "escalate", "recover"}
  PROVE  /\ Decided(snap, d) \in Case
         /\ Decided(snap, d).transaction_id = snap.transaction_id
         /\ Decided(snap, d).status # "recovered"
BY DEF Decided, Case, RecoveryStatus, GraphEnd

\* So is one that mark_case_recovered moved to RECOVERED.
LEMMA RecoveredType ==
  ASSUME NEW snap \in Case
  PROVE  /\ Recovered(snap) \in Case
         /\ Recovered(snap).transaction_id = snap.transaction_id
BY DEF Recovered, Case, RecoveryStatus

-----------------------------------------------------------------------------
(* The service: every step keeps types and holds *)

\* ingest_payment_event stores the transaction again.
LEMMA IngestTxKeeps ==
  ASSUME TypeInv, NEW t \in Thread, IngestTx(t) PROVE TypeInv'
<1>1. th[t] \in ThreadState /\ Held(t, th[t])
  BY ThreadType
<1>2. th' \in [Thread -> ThreadState] /\ OnlyMoves(t)
  BY <1>1 DEF IngestTx, TypeInv, StoreTypeOK, ThreadState, OnlyMoves, Go, At, RunPC, IngestPC, WebhookPC
<1>3. Held(t, th[t])'
  BY <1>1, <1>2 DEF IngestTx, TypeInv, StoreTypeOK, ThreadState, Held, Go, At, Thread, CasePC, SnapPC, TxPC, MarkPC, RunPC, IngestPC, PaymentPC, WebhookPC, gateway
<1>4. StoreTypeOK' /\ CasesGrow
  BY <1>1, <1>2 DEF IngestTx, TypeInv, StoreTypeOK, CasesGrow, ledger, gateway, outreach, TransactionStatus, At, Held, TxPC
<1> QED BY <1>2, <1>3, <1>4, ThreadFrame DEF TypeInv, IngestTx, gateway

\* ingest_payment_event saves a new case.
LEMMA IngestSaveKeeps ==
  ASSUME TypeInv, NEW t \in Thread, IngestSave(t) PROVE TypeInv'
<1>1. th[t] \in ThreadState /\ Held(t, th[t]) /\ th[t].tx \in Tx
  BY ThreadType DEF IngestSave, At, Held, TxPC
<1>2. PICK c \in CaseId :
        /\ cases[c] = None
        /\ cases' = [cases EXCEPT ![c] = NewCase(th[t].tx)]
        /\ th' = [th EXCEPT ![t].pc = "ingest_audit", ![t].case = c]
  BY DEF IngestSave
<1>a. [th[t] EXCEPT !.pc = "ingest_audit", !.case = c] \in ThreadState
  BY <1>1 DEF ThreadState, IngestPC
<1>3. th' \in [Thread -> ThreadState] /\ OnlyMoves(t)
  BY <1>a, <1>2 DEF TypeInv, StoreTypeOK, OnlyMoves
<1>4. cases'[c] \in Case /\ th'[t].case = c /\ th'[t].pc = "ingest_audit"
      /\ th'[t].event = th[t].event
  BY <1>1, <1>2, NewCaseType DEF TypeInv, StoreTypeOK, ThreadState
<1>5. Held(t, th[t])'
  BY <1>1, <1>2, <1>4 DEF IngestSave, Held, At, Thread, CasePC, SnapPC, TxPC, MarkPC, RunPC,
                          WebhookPC, gateway
<1>6. StoreTypeOK' /\ CasesGrow
  BY <1>1, <1>2, <1>3, NewCaseType
     DEF IngestSave, TypeInv, StoreTypeOK, CasesGrow, ledger, gateway, outreach
<1> QED BY <1>3, <1>5, <1>6, ThreadFrame DEF TypeInv, IngestSave, gateway

\* run_recovery reads the case.
LEMMA RunCaseKeeps ==
  ASSUME TypeInv, NEW t \in Thread, RunCase(t) PROVE TypeInv'
<1>1. th[t] \in ThreadState /\ Held(t, th[t])
  BY ThreadType
<1>2. th[t].case \in CaseId /\ cases[th[t].case] \in Case
  BY CaseKnown DEF RunCase, At, CasePC, RunPC
<1>3. th' \in [Thread -> ThreadState] /\ OnlyMoves(t)
  BY <1>1, <1>2 DEF RunCase, TypeInv, StoreTypeOK, ThreadState, OnlyMoves, Go, At, RunPC, IngestPC, WebhookPC
<1>4. Held(t, th[t])'
  BY <1>1, <1>2, <1>3 DEF RunCase, TypeInv, StoreTypeOK, ThreadState, Held, Go, At, Thread, CasePC, SnapPC, TxPC, MarkPC, RunPC, IngestPC, PaymentPC, WebhookPC, gateway
<1>5. StoreTypeOK' /\ CasesGrow
  BY <1>1, <1>2, <1>3 DEF RunCase, TypeInv, StoreTypeOK, CasesGrow, ledger, gateway, outreach
<1> QED BY <1>3, <1>4, <1>5, ThreadFrame DEF TypeInv, RunCase, gateway

\* The executor answers a retry without an external call.
LEMMA ExecuteRetryKeeps ==
  ASSUME TypeInv, NEW t \in Thread, ExecuteRetry(t) PROVE TypeInv'
<1>1. th[t] \in ThreadState /\ Held(t, th[t])
  BY ThreadType
<1>2. /\ th[t].case \in CaseId /\ cases[th[t].case] \in Case /\ th[t].snap \in Case
      /\ th[t].snap.transaction_id = cases[th[t].case].transaction_id
  BY CaseKnown, SnapKnown DEF ExecuteRetry, At, CasePC, SnapPC, RunPC
<1>3. th' \in [Thread -> ThreadState] /\ OnlyMoves(t)
  BY <1>1, <1>2, MonitoredType DEF ExecuteRetry, TypeInv, StoreTypeOK, ThreadState, OnlyMoves, Go, At, RunPC, IngestPC, WebhookPC
<1>4. Held(t, th[t])'
  BY <1>1, <1>2, MonitoredType, <1>3 DEF ExecuteRetry, TypeInv, StoreTypeOK, ThreadState, Held, Go, At, Thread, CasePC, SnapPC, TxPC, MarkPC, RunPC, IngestPC, PaymentPC, WebhookPC, gateway
<1>5. StoreTypeOK' /\ CasesGrow
  BY <1>1, <1>2, MonitoredType, <1>3 DEF ExecuteRetry, TypeInv, StoreTypeOK, CasesGrow, ledger, gateway, outreach
<1> QED BY <1>3, <1>4, <1>5, ThreadFrame DEF TypeInv, ExecuteRetry, gateway

\* The executor creates a payment link.
LEMMA ExecuteLinkKeeps ==
  ASSUME TypeInv, NEW t \in Thread, ExecuteLink(t) PROVE TypeInv'
<1>1. th[t] \in ThreadState /\ Held(t, th[t])
  BY ThreadType
<1>2. /\ th[t].case \in CaseId /\ cases[th[t].case] \in Case /\ th[t].snap \in Case
      /\ th[t].snap.transaction_id = cases[th[t].case].transaction_id
  BY CaseKnown, SnapKnown DEF ExecuteLink, At, CasePC, SnapPC, RunPC
<1>3. th' \in [Thread -> ThreadState] /\ OnlyMoves(t) /\ Held(t, th[t])'
  <2>1. CASE th[t].action = "send_email"
    <3>0. th' = [th EXCEPT ![t].pc = "run_send"]
      BY <2>1 DEF ExecuteLink, Go
    <3>a. [th[t] EXCEPT !.pc = "run_send"] \in ThreadState
      BY <1>1 DEF ThreadState, RunPC
    <3>1. th' \in [Thread -> ThreadState] /\ OnlyMoves(t)
      BY <3>a, <3>0 DEF TypeInv, StoreTypeOK, OnlyMoves
    <3>2. Held(t, th[t])'
      BY <1>1, <1>2, <3>0 DEF ExecuteLink, TypeInv, StoreTypeOK, ThreadState, Held, At, Thread,
                              CasePC, SnapPC, TxPC, MarkPC, RunPC, WebhookPC
    <3> QED BY <3>1, <3>2
  <2>2. CASE th[t].action # "send_email"
    <3>0. th' = [th EXCEPT ![t].pc = "run_save", ![t].snap = Monitored(th[t].snap)]
      BY <2>2 DEF ExecuteLink
    <3>1. th' \in [Thread -> ThreadState] /\ OnlyMoves(t)
      BY <1>1, <1>2, <3>0, MonitoredType DEF TypeInv, StoreTypeOK, ThreadState, OnlyMoves, RunPC
    <3>2. Held(t, th[t])'
      BY <1>1, <1>2, <3>0, MonitoredType
         DEF ExecuteLink, TypeInv, StoreTypeOK, ThreadState, Held, At, Thread, CasePC,
             SnapPC, TxPC, MarkPC, RunPC, WebhookPC
    <3> QED BY <3>1, <3>2
  <2> QED BY <2>1, <2>2
<1>a. th[t].snap.transaction_id \in Tx
  BY <1>2 DEF Case
<1>4. links' \in [Tx -> Nat] /\ executed' \in [CaseId -> Nat]
  BY <1>2, <1>a DEF ExecuteLink, TypeInv, StoreTypeOK
<1>5. StoreTypeOK' /\ CasesGrow
  BY <1>3, <1>4 DEF ExecuteLink, TypeInv, StoreTypeOK, CasesGrow, ledger
<1> QED BY <1>3, <1>5, ThreadFrame DEF TypeInv, ExecuteLink

\* The executor persists the delivery of an e-mail.
LEMMA ExecuteDeliveryKeeps ==
  ASSUME TypeInv, NEW t \in Thread, ExecuteDelivery(t) PROVE TypeInv'
<1>1. th[t] \in ThreadState /\ Held(t, th[t])
  BY ThreadType
<1>2. /\ th[t].case \in CaseId /\ cases[th[t].case] \in Case /\ th[t].snap \in Case
      /\ th[t].snap.transaction_id = cases[th[t].case].transaction_id
  BY CaseKnown, SnapKnown DEF ExecuteDelivery, At, CasePC, SnapPC, RunPC
<1>3. th' \in [Thread -> ThreadState] /\ OnlyMoves(t)
  BY <1>1, <1>2, MonitoredType DEF ExecuteDelivery, TypeInv, StoreTypeOK, ThreadState, OnlyMoves, Go, At, RunPC, IngestPC, WebhookPC
<1>4. Held(t, th[t])'
  BY <1>1, <1>2, MonitoredType, <1>3 DEF ExecuteDelivery, TypeInv, StoreTypeOK, ThreadState, Held, Go, At, Thread, CasePC, SnapPC, TxPC, MarkPC, RunPC, IngestPC, PaymentPC, WebhookPC, gateway
<1>5. StoreTypeOK' /\ CasesGrow
  BY <1>1, <1>2, MonitoredType, <1>3 DEF ExecuteDelivery, TypeInv, StoreTypeOK, CasesGrow, ledger, gateway, outreach
<1> QED BY <1>3, <1>4, <1>5, ThreadFrame DEF TypeInv, ExecuteDelivery, gateway

\* The executor sends an e-mail.
LEMMA ExecuteSendKeeps ==
  ASSUME TypeInv, NEW t \in Thread, ExecuteSend(t) PROVE TypeInv'
<1>1. th[t] \in ThreadState /\ Held(t, th[t])
  BY ThreadType
<1>2. th[t].case \in CaseId /\ cases[th[t].case] \in Case
  BY CaseKnown DEF ExecuteSend, At, CasePC, RunPC
<1>3. th' \in [Thread -> ThreadState] /\ OnlyMoves(t)
  BY <1>1, <1>2 DEF ExecuteSend, TypeInv, StoreTypeOK, ThreadState, OnlyMoves, Go, At, RunPC, IngestPC, WebhookPC
<1>4. Held(t, th[t])'
  BY <1>1, <1>2, <1>3 DEF ExecuteSend, TypeInv, StoreTypeOK, ThreadState, Held, Go, At, Thread, CasePC, SnapPC, TxPC, MarkPC, RunPC, IngestPC, PaymentPC, WebhookPC, gateway
<1>5. StoreTypeOK' /\ CasesGrow
  BY <1>1, <1>2, <1>3 DEF ExecuteSend, TypeInv, StoreTypeOK, CasesGrow, ledger, gateway, outreach
<1> QED BY <1>3, <1>4, <1>5, ThreadFrame DEF TypeInv, ExecuteSend, gateway

\* run_recovery saves its snapshot over the stored case.
LEMMA RunSaveKeeps ==
  ASSUME TypeInv, NEW t \in Thread, RunSave(t) PROVE TypeInv'
<1>1. th[t] \in ThreadState /\ Held(t, th[t])
  BY ThreadType
<1>2. /\ th[t].case \in CaseId /\ cases[th[t].case] \in Case /\ th[t].snap \in Case
      /\ th[t].snap.transaction_id = cases[th[t].case].transaction_id
  BY CaseKnown, SnapKnown DEF RunSave, At, CasePC, SnapPC, RunPC
<1>3. th' \in [Thread -> ThreadState] /\ OnlyMoves(t)
  BY <1>1, <1>2 DEF RunSave, TypeInv, StoreTypeOK, ThreadState, OnlyMoves, Go, At, RunPC, IngestPC, WebhookPC
<1>4. /\ th'[t].pc \in {"run_action", "run_detail"}
      /\ th'[t].case = th[t].case /\ th'[t].event = th[t].event
  BY <1>1 DEF RunSave, TypeInv, StoreTypeOK, ThreadState
<1>5. cases'[th[t].case] \in Case
  BY <1>2 DEF RunSave, TypeInv, StoreTypeOK
<1>6. Held(t, th[t])'
  BY <1>1, <1>2, <1>4, <1>5 DEF RunSave, Held, At, Thread, CasePC, SnapPC, TxPC, MarkPC, RunPC, IngestPC, PaymentPC, WebhookPC, gateway
<1>7. StoreTypeOK' /\ CasesGrow
  BY <1>1, <1>2, <1>3 DEF RunSave, TypeInv, StoreTypeOK, CasesGrow, ledger, gateway, outreach
<1> QED BY <1>3, <1>6, <1>7, ThreadFrame DEF TypeInv, RunSave, gateway

\* run_recovery saves the action record.
LEMMA RunActionKeeps ==
  ASSUME TypeInv, NEW t \in Thread, RunAction(t) PROVE TypeInv'
<1>1. th[t] \in ThreadState /\ Held(t, th[t])
  BY ThreadType
<1>2. th[t].case \in CaseId /\ cases[th[t].case] \in Case
  BY CaseKnown DEF RunAction, At, CasePC, RunPC
<1>3. th' \in [Thread -> ThreadState] /\ OnlyMoves(t)
  BY <1>1, <1>2 DEF RunAction, TypeInv, StoreTypeOK, ThreadState, OnlyMoves, Go, At, RunPC, IngestPC, WebhookPC
<1>4. Held(t, th[t])'
  BY <1>1, <1>2, <1>3 DEF RunAction, TypeInv, StoreTypeOK, ThreadState, Held, Go, At, Thread, CasePC, SnapPC, TxPC, MarkPC, RunPC, IngestPC, PaymentPC, WebhookPC, gateway
<1>5. StoreTypeOK' /\ CasesGrow
  BY <1>1, <1>2, <1>3 DEF RunAction, TypeInv, StoreTypeOK, CasesGrow, ledger, gateway, outreach
<1> QED BY <1>3, <1>4, <1>5, ThreadFrame DEF TypeInv, RunAction, gateway

\* mark_case_recovered reads the case.
LEMMA MarkReadKeeps ==
  ASSUME TypeInv, NEW t \in Thread, MarkRead(t) PROVE TypeInv'
<1>1. th[t] \in ThreadState /\ Held(t, th[t])
  BY ThreadType
<1>2. th[t].case \in CaseId /\ cases[th[t].case] \in Case
  BY CaseKnown DEF MarkRead, At, CasePC, RunPC
<1>3. th' \in [Thread -> ThreadState] /\ OnlyMoves(t)
  BY <1>1, <1>2 DEF MarkRead, TypeInv, StoreTypeOK, ThreadState, OnlyMoves, Go, At, RunPC, IngestPC, WebhookPC
<1>4. Held(t, th[t])'
  BY <1>1, <1>2, <1>3 DEF MarkRead, TypeInv, StoreTypeOK, ThreadState, Held, Go, At, Thread, CasePC, SnapPC, TxPC, MarkPC, RunPC, IngestPC, PaymentPC, WebhookPC, gateway
<1>5. StoreTypeOK' /\ CasesGrow
  BY <1>1, <1>2, <1>3 DEF MarkRead, TypeInv, StoreTypeOK, CasesGrow, ledger, gateway, outreach
<1> QED BY <1>3, <1>4, <1>5, ThreadFrame DEF TypeInv, MarkRead, gateway

\* mark_case_recovered saves the case as RECOVERED.
LEMMA MarkSaveKeeps ==
  ASSUME TypeInv, NEW t \in Thread, MarkSave(t) PROVE TypeInv'
<1>1. th[t] \in ThreadState /\ Held(t, th[t])
  BY ThreadType
<1>2. /\ th[t].case \in CaseId /\ cases[th[t].case] \in Case /\ th[t].snap \in Case
      /\ th[t].snap.transaction_id = cases[th[t].case].transaction_id
  BY CaseKnown, SnapKnown DEF MarkSave, At, CasePC, SnapPC, RunPC
<1>3. th' \in [Thread -> ThreadState] /\ OnlyMoves(t)
  BY <1>1, <1>2, RecoveredType DEF MarkSave, TypeInv, StoreTypeOK, ThreadState, OnlyMoves, Go, At, RunPC, IngestPC, WebhookPC
<1>4. Held(t, th[t])'
  BY <1>1, <1>2, RecoveredType, <1>3 DEF MarkSave, TypeInv, StoreTypeOK, ThreadState, Held, Go, At, Thread, CasePC, SnapPC, TxPC, MarkPC, RunPC, IngestPC, PaymentPC, WebhookPC, gateway
<1>5. StoreTypeOK' /\ CasesGrow
  BY <1>1, <1>2, RecoveredType, <1>3 DEF MarkSave, TypeInv, StoreTypeOK, CasesGrow, ledger, gateway, outreach
<1> QED BY <1>3, <1>4, <1>5, ThreadFrame DEF TypeInv, MarkSave, gateway

\* ingest_payment_event looks for an existing case.
LEMMA IngestCaseKeeps ==
  ASSUME TypeInv, NEW t \in Thread, IngestCase(t) PROVE TypeInv'
<1>1. th[t] \in ThreadState /\ Held(t, th[t])
  BY ThreadType
<1>2. CASE CasesOf(th[t].tx) = {}
  <2>1. th' = [th EXCEPT ![t].pc = "ingest_save"]
    BY <1>2 DEF IngestCase, Go
  <2>2. [th[t] EXCEPT !.pc = "ingest_save"] \in ThreadState
    BY <1>1 DEF ThreadState, IngestPC
  <2>3. th' \in [Thread -> ThreadState] /\ OnlyMoves(t)
    BY <2>1, <2>2 DEF TypeInv, StoreTypeOK, OnlyMoves
  <2>4. Held(t, th[t])'
    BY <1>1, <2>1 DEF IngestCase, TypeInv, StoreTypeOK, ThreadState, Held, At, Thread,
                      CasePC, SnapPC, TxPC, MarkPC, RunPC, WebhookPC, gateway
  <2> QED BY <2>3, <2>4, QuietFrame DEF IngestCase, ledger, TypeInv, StoreTypeOK
<1>3. CASE CasesOf(th[t].tx) # {}
  <2>1. PICK c \in CaseId : cases[c] # None /\ EndIngest(t, c)
    BY <1>3 DEF IngestCase, CasesOf
  <2>2. th' \in [Thread -> ThreadState] /\ OnlyMoves(t) /\ Held(t, th[t])'
    BY <2>1, EndIngestHeld DEF IngestCase, At, gateway
  <2> QED BY <2>2, QuietFrame DEF IngestCase, ledger, TypeInv, StoreTypeOK
<1> QED BY <1>2, <1>3

\* ingest_payment_event audits the new case.
LEMMA IngestAuditKeeps ==
  ASSUME TypeInv, NEW t \in Thread, IngestAudit(t) PROVE TypeInv'
<1>1. th[t].case \in CaseId /\ cases[th[t].case] # None
  BY CaseKnown DEF IngestAudit, At, CasePC
<1>2. th' \in [Thread -> ThreadState] /\ OnlyMoves(t) /\ Held(t, th[t])'
  BY <1>1, EndIngestHeld DEF IngestAudit, At, gateway
<1>3. audits' \in [CaseId -> [AuditEventType -> Nat]]
  BY <1>1, AuditType DEF IngestAudit, TypeInv
<1> QED BY <1>2, <1>3, QuietFrame DEF IngestAudit

\* run_recovery reads the transaction, the customer and the policy.
LEMMA RunContextKeeps ==
  ASSUME TypeInv, NEW t \in Thread, RunContext(t) PROVE TypeInv'
<1>1. th[t] \in ThreadState /\ Held(t, th[t])
  BY ThreadType
<1>2. th[t].snap.transaction_id \in Tx
  BY SnapKnown DEF RunContext, At, SnapPC, Case
<1> DEFINE read == txs[th[t].snap.transaction_id]
<1>3. CASE read = "none"
  <2>1. EndRun(t)
    BY <1>3 DEF RunContext
  <2>2. th' \in [Thread -> ThreadState] /\ OnlyMoves(t) /\ Held(t, th[t])'
    BY <2>1, EndRunHeld DEF RunContext, At, gateway
  <2> QED BY <2>2, QuietFrame DEF RunContext, ledger, TypeInv, StoreTypeOK
<1>4. CASE read # "none"
  <2>1. read \in TransactionStatus
    BY <1>2, <1>4 DEF TypeInv, StoreTypeOK
  <2>2. th' = [th EXCEPT ![t].pc = "run_decide", ![t].seen = read]
    BY <1>4 DEF RunContext
  <2> HIDE DEF read
  <2>3. [th[t] EXCEPT !.pc = "run_decide", !.seen = read] \in ThreadState
    BY <1>1, <2>1 DEF ThreadState, RunPC
  <2>4. th' \in [Thread -> ThreadState] /\ OnlyMoves(t)
    BY <2>2, <2>3 DEF TypeInv, StoreTypeOK, OnlyMoves
  <2>5. Held(t, th[t])'
    BY <1>1, <2>2 DEF RunContext, TypeInv, StoreTypeOK, ThreadState, Held, At, Thread,
                      CasePC, SnapPC, TxPC, MarkPC, RunPC, WebhookPC, gateway
  <2> QED BY <2>4, <2>5, QuietFrame DEF RunContext, ledger, TypeInv, StoreTypeOK
<1> QED BY <1>3, <1>4

\* The agent evaluates the case and starts the decided action.
LEMMA RunDecideKeeps ==
  ASSUME TypeInv, NEW t \in Thread, RunDecide(t) PROVE TypeInv'
<1>1. th[t] \in ThreadState /\ Held(t, th[t])
  BY ThreadType
<1>2. /\ th[t].case \in CaseId /\ cases[th[t].case] \in Case /\ th[t].snap \in Case
      /\ th[t].snap.transaction_id = cases[th[t].case].transaction_id
  BY CaseKnown, SnapKnown DEF RunDecide, At, CasePC, SnapPC, RunPC
<1>3. audits' \in [CaseId -> [AuditEventType -> Nat]]
  BY <1>2, AuditType DEF RunDecide, TypeInv
<1>4. CASE ~GraphAccepts(th[t].snap.status)
  <2>1. th' \in [Thread -> ThreadState] /\ OnlyMoves(t) /\ Held(t, th[t])'
    BY <1>4, EndRunHeld DEF RunDecide, At, gateway
  <2> QED BY <1>3, <2>1, QuietFrame DEF RunDecide
<1>5. CASE GraphAccepts(th[t].snap.status)
  <2>1. PICK d \in PossibleDecisions(th[t].seen) :
          IF d = "recover"
          THEN \E a \in OutreachAction :
                 th' = [th EXCEPT ![t].pc = "run_execute", ![t].action = a,
                                  ![t].snap = Decided(th[t].snap, d)]
          ELSE th' = [th EXCEPT ![t].pc = "run_save", ![t].snap = Decided(th[t].snap, d)]
    BY <1>5 DEF RunDecide
  <2>2. d \in {"stop", "escalate", "recover"}
    BY DEF PossibleDecisions
  <2>3. PICK snap \in Case : /\ snap = Decided(th[t].snap, d)
                             /\ snap.transaction_id = th[t].snap.transaction_id
                             /\ snap.status # "recovered"
    BY <1>2, <2>2, DecidedType
  <2>4. CASE d = "recover"
    <3>1. PICK a \in OutreachAction :
            th' = [th EXCEPT ![t].pc = "run_execute", ![t].action = a, ![t].snap = snap]
      BY <2>1, <2>3, <2>4
    <3>2. [th[t] EXCEPT !.pc = "run_execute", !.action = a, !.snap = snap] \in ThreadState
      BY <1>1 DEF ThreadState, RunPC
    <3>3. th' \in [Thread -> ThreadState] /\ OnlyMoves(t)
      BY <3>1, <3>2 DEF TypeInv, StoreTypeOK, OnlyMoves
    <3>4. Held(t, th[t])'
      BY <1>1, <1>2, <2>3, <3>1
         DEF RunDecide, TypeInv, StoreTypeOK, ThreadState, Held, At, Thread, CasePC, SnapPC,
             TxPC, MarkPC, RunPC, WebhookPC, gateway
    <3> QED BY <1>3, <3>3, <3>4, QuietFrame DEF RunDecide
  <2>5. CASE d # "recover"
    <3>1. th' = [th EXCEPT ![t].pc = "run_save", ![t].snap = snap]
      BY <2>1, <2>3, <2>5
    <3>2. [th[t] EXCEPT !.pc = "run_save", !.snap = snap] \in ThreadState
      BY <1>1 DEF ThreadState, RunPC
    <3>3. th' \in [Thread -> ThreadState] /\ OnlyMoves(t)
      BY <3>1, <3>2 DEF TypeInv, StoreTypeOK, OnlyMoves
    <3>4. Held(t, th[t])'
      BY <1>1, <1>2, <2>3, <3>1
         DEF RunDecide, TypeInv, StoreTypeOK, ThreadState, Held, At, Thread, CasePC, SnapPC,
             TxPC, MarkPC, RunPC, WebhookPC, gateway
    <3> QED BY <1>3, <3>3, <3>4, QuietFrame DEF RunDecide
  <2> QED BY <2>4, <2>5
<1> QED BY <1>4, <1>5

\* run_recovery audits the executed action.
LEMMA RunAuditKeeps ==
  ASSUME TypeInv, NEW t \in Thread, RunAudit(t) PROVE TypeInv'
<1>1. th[t] \in ThreadState /\ Held(t, th[t]) /\ th[t].case \in CaseId
  BY ThreadType, CaseKnown DEF RunAudit, At, CasePC, RunPC
<1>2. audits' \in [CaseId -> [AuditEventType -> Nat]]
  BY <1>1, AuditType DEF RunAudit, TypeInv
<1>3. [th[t] EXCEPT !.pc = "run_detail"] \in ThreadState
  BY <1>1 DEF ThreadState, RunPC
<1>4. th' \in [Thread -> ThreadState] /\ OnlyMoves(t)
  BY <1>3 DEF RunAudit, Go, TypeInv, StoreTypeOK, OnlyMoves
<1>5. Held(t, th[t])'
  BY <1>1 DEF RunAudit, Go, TypeInv, StoreTypeOK, ThreadState, Held, At, Thread,
              CasePC, SnapPC, TxPC, MarkPC, RunPC, WebhookPC, gateway
<1> QED BY <1>2, <1>4, <1>5, QuietFrame DEF RunAudit

\* run_recovery builds the decision audit, and raises.
LEMMA RunDetailKeeps ==
  ASSUME TypeInv, NEW t \in Thread, RunDetail(t) PROVE TypeInv'
<1>1. th' \in [Thread -> ThreadState] /\ OnlyMoves(t) /\ Held(t, th[t])'
  BY EndRunHeld DEF RunDetail, At, gateway
<1> QED BY <1>1, QuietFrame DEF RunDetail, ledger, TypeInv, StoreTypeOK

\* mark_case_recovered audits the recovery.
LEMMA MarkAuditKeeps ==
  ASSUME TypeInv, MarkAudit(Webhook) PROVE TypeInv'
<1>1. Webhook \in Thread /\ th[Webhook].case \in CaseId
  BY CaseKnown DEF MarkAudit, At, CasePC, Thread
<1>2. audits' \in [CaseId -> [AuditEventType -> Nat]]
  BY <1>1, AuditType DEF MarkAudit, TypeInv
<1>3. th' \in [Thread -> ThreadState] /\ OnlyMoves(Webhook) /\ Held(Webhook, th[Webhook])'
  BY GoRecordHeld DEF MarkAudit, At, gateway
<1> QED BY <1>1, <1>2, <1>3, QuietFrame DEF MarkAudit

-----------------------------------------------------------------------------
(* Requests and the creation of payments *)

\* The events endpoint starts an ingestion.
LEMMA PostPaymentEventKeeps ==
  ASSUME TypeInv, NEW w \in Workers, NEW x \in Tx,
         NEW s \in {"success", "failed", "pending", "abandoned", "refunded"},
         PostPaymentEvent(w, x, s)
  PROVE  TypeInv'
<1>1. w \in Thread /\ th[w] \in ThreadState /\ Held(w, th[w])
  BY ThreadType DEF Thread
<1>2. txs' \in [Tx -> TransactionStatus \cup {"none"}]
  BY DEF PostPaymentEvent, TypeInv, StoreTypeOK, TransactionStatus
<1>3. th' \in [Thread -> ThreadState] /\ OnlyMoves(w) /\ Held(w, th[w])'
  <2>1. CASE s = "success"
    BY <1>1, <2>1, GoIdle DEF PostPaymentEvent
  <2>2. CASE s # "success"
    <3>1. th' = [th EXCEPT ![w].pc = "ingest_case", ![w].tx = x]
      BY <2>2 DEF PostPaymentEvent, TypeInv, StoreTypeOK
    <3>2. [th[w] EXCEPT !.pc = "ingest_case", !.tx = x] \in ThreadState
      BY <1>1 DEF ThreadState, IngestPC
    <3>3. th' \in [Thread -> ThreadState] /\ OnlyMoves(w)
      BY <1>1, <3>1, <3>2 DEF TypeInv, StoreTypeOK, OnlyMoves
    <3>4. Held(w, th[w])'
      BY <1>1, <3>1 DEF TypeInv, StoreTypeOK, ThreadState, Held, CasePC, SnapPC, TxPC,
                        MarkPC, RunPC, WebhookPC
    <3> QED BY <3>3, <3>4
  <2> QED BY <2>1, <2>2
<1>4. StoreTypeOK' /\ CasesGrow
  BY <1>2, <1>3 DEF PostPaymentEvent, TypeInv, StoreTypeOK, CasesGrow, ledger, gateway, outreach
<1> QED BY <1>1, <1>3, <1>4, ThreadFrame DEF TypeInv, PostPaymentEvent, gateway

\* The recoveries endpoint starts a run.
LEMMA PostRecoveryKeeps ==
  ASSUME TypeInv, NEW w \in Workers, NEW c \in CaseId, PostRecovery(w, c)
  PROVE  TypeInv'
<1>1. w \in Thread /\ th[w] \in ThreadState /\ Held(w, th[w])
  BY ThreadType DEF Thread
<1>2. [th[w] EXCEPT !.pc = "run_case", !.case = c] \in ThreadState
  BY <1>1 DEF ThreadState, RunPC
<1>3. th' \in [Thread -> ThreadState] /\ OnlyMoves(w)
  BY <1>1, <1>2 DEF PostRecovery, TypeInv, StoreTypeOK, OnlyMoves
<1>4. Held(w, th[w])'
  BY <1>1 DEF PostRecovery, TypeInv, StoreTypeOK, ThreadState, Held, CasePC, SnapPC, TxPC,
              MarkPC, RunPC, WebhookPC
<1> QED BY <1>1, <1>3, <1>4, QuietFrame DEF PostRecovery, ledger, TypeInv, StoreTypeOK

\* The payments endpoint saves a pending transaction.
LEMMA CreatePaymentKeeps ==
  ASSUME TypeInv, NEW w \in Workers, NEW x \in Tx, CreatePayment(w, x)
  PROVE  TypeInv'
<1>1. w \in Thread /\ th[w] \in ThreadState /\ Held(w, th[w])
  BY ThreadType DEF Thread
<1>2. txs' \in [Tx -> TransactionStatus \cup {"none"}]
  BY DEF CreatePayment, TypeInv, StoreTypeOK, TransactionStatus
<1>3. [th[w] EXCEPT !.pc = "create_link", !.tx = x] \in ThreadState
  BY <1>1 DEF ThreadState, PaymentPC
<1>4. th' \in [Thread -> ThreadState] /\ OnlyMoves(w)
  BY <1>1, <1>3 DEF CreatePayment, TypeInv, StoreTypeOK, OnlyMoves
<1>5. Held(w, th[w])'
  BY <1>1 DEF CreatePayment, TypeInv, StoreTypeOK, ThreadState, Held, CasePC, SnapPC, TxPC,
              MarkPC, RunPC, WebhookPC
<1>6. StoreTypeOK' /\ CasesGrow
  BY <1>2, <1>4 DEF CreatePayment, TypeInv, StoreTypeOK, CasesGrow, ledger, gateway, outreach
<1> QED BY <1>1, <1>4, <1>5, <1>6, ThreadFrame DEF TypeInv, CreatePayment, gateway

\* The payments endpoint creates the link of its transaction.
LEMMA CreateLinkKeeps ==
  ASSUME TypeInv, NEW w \in Workers, CreateLink(w) \/ CreateLinkFails(w)
  PROVE  TypeInv'
<1>1. w \in Thread /\ th[w].tx \in Tx
  BY ThreadType DEF Thread, CreateLink, CreateLinkFails, At, Held, TxPC
<1>2. txs' \in [Tx -> TransactionStatus \cup {"none"}]
  BY <1>1 DEF CreateLink, CreateLinkFails, TypeInv, StoreTypeOK, TransactionStatus
<1>3. links' \in [Tx -> Nat]
  BY <1>1 DEF CreateLink, CreateLinkFails, TypeInv, StoreTypeOK, gateway
<1>4. th' \in [Thread -> ThreadState] /\ OnlyMoves(w) /\ Held(w, th[w])'
  BY <1>1, GoIdle DEF CreateLink, CreateLinkFails
<1>5. StoreTypeOK' /\ CasesGrow /\ emitted' = emitted
  BY <1>2, <1>3, <1>4 DEF CreateLink, CreateLinkFails, TypeInv, StoreTypeOK, CasesGrow, ledger,
                          gateway, outreach
<1> QED BY <1>1, <1>4, <1>5, ThreadFrame DEF TypeInv

-----------------------------------------------------------------------------
(* The webhook handler *)

\* The webhook answers an event it does not handle.
LEMMA WebhookIgnoreKeeps ==
  ASSUME TypeInv, NEW e \in wire, WebhookIgnore(e) PROVE TypeInv'
<1>1. StoreTypeOK' /\ CasesGrow
  BY DEF WebhookIgnore, Answer, TypeInv, StoreTypeOK, CasesGrow, ledger, outreach
<1>2. ThreadInv'
  BY <1>1 DEF WebhookIgnore, TypeInv, ThreadInv, Held
<1> QED BY <1>1, <1>2 DEF TypeInv

\* The webhook takes up a delivery.
LEMMA WebhookAcceptKeeps ==
  ASSUME TypeInv, NEW e \in wire, WebhookAccept(e) PROVE TypeInv'
<1>1. Webhook \in Thread /\ th[Webhook] \in ThreadState /\ Held(Webhook, th[Webhook])
  BY ThreadType DEF Thread
<1>2. e \in emitted /\ e \in Event /\ e.tx \in Tx
  BY DEF TypeInv, StoreTypeOK, Event
<1>3. [th[Webhook] EXCEPT !.pc = "hook_tx", !.event = e, !.tx = e.tx] \in ThreadState
  BY <1>1, <1>2 DEF ThreadState, WebhookPC
<1>4. th' \in [Thread -> ThreadState] /\ OnlyMoves(Webhook)
  BY <1>1, <1>3 DEF WebhookAccept, TypeInv, StoreTypeOK, OnlyMoves
<1>5. /\ th'[Webhook].pc = "hook_tx" /\ th'[Webhook].event = e /\ th'[Webhook].tx = e.tx
      /\ emitted' = emitted
  BY <1>1 DEF WebhookAccept, TypeInv, StoreTypeOK, ThreadState, gateway
<1>6. Held(Webhook, th[Webhook])'
  BY <1>1, <1>2, <1>5 DEF Held, CasePC, SnapPC, TxPC, MarkPC, RunPC, WebhookPC
<1> QED BY <1>1, <1>4, <1>6, QuietFrame DEF WebhookAccept, ledger, TypeInv, StoreTypeOK

\* The webhook saves the new status of the transaction.
LEMMA WebhookSaveTxKeeps ==
  ASSUME TypeInv, WebhookSaveTx PROVE TypeInv'
<1>1. /\ Webhook \in Thread /\ th[Webhook] \in ThreadState /\ Held(Webhook, th[Webhook])
      /\ th[Webhook].tx \in Tx
  BY ThreadType DEF Thread, Held, WebhookSaveTx, At, TxPC
<1>2. txs' \in [Tx -> TransactionStatus \cup {"none"}]
  BY <1>1 DEF WebhookSaveTx, StatusOf, TypeInv, StoreTypeOK, TransactionStatus
<1>3. [th[Webhook] EXCEPT !.pc = "hook_case"] \in ThreadState
  BY <1>1 DEF ThreadState, WebhookPC
<1>4. th' \in [Thread -> ThreadState] /\ OnlyMoves(Webhook)
  BY <1>1, <1>3 DEF WebhookSaveTx, Go, TypeInv, StoreTypeOK, OnlyMoves
<1>5. Held(Webhook, th[Webhook])'
  BY <1>1 DEF WebhookSaveTx, Go, TypeInv, StoreTypeOK, ThreadState, Held, At, CasePC, SnapPC,
              TxPC, MarkPC, RunPC, WebhookPC, gateway
<1>6. StoreTypeOK' /\ CasesGrow
  BY <1>2, <1>4 DEF WebhookSaveTx, TypeInv, StoreTypeOK, CasesGrow, ledger, gateway, outreach
<1> QED BY <1>1, <1>4, <1>5, <1>6, ThreadFrame DEF TypeInv, WebhookSaveTx, gateway

\* The webhook looks for the case of the transaction.
LEMMA WebhookFindCaseKeeps ==
  ASSUME TypeInv, WebhookFindCase PROVE TypeInv'
<1>1. /\ Webhook \in Thread /\ th[Webhook] \in ThreadState /\ Held(Webhook, th[Webhook])
      /\ ~At(Webhook, "idle") /\ emitted' = emitted /\ cases' = cases
  BY ThreadType DEF Thread, WebhookFindCase, At, gateway
<1>2. PICK c \in Lookup(th[Webhook].tx) :
        IF AfterLookup(Handling, c) = "hook_record"
        THEN GoRecord(Webhook)
        ELSE th' = [th EXCEPT ![Webhook].pc = AfterLookup(Handling, c), ![Webhook].case = c]
  BY DEF WebhookFindCase
<1>3. c = None \/ (c \in CaseId /\ cases[c] # None
                   /\ cases[c].transaction_id = th[Webhook].tx)
  BY <1>2 DEF Lookup, CasesOf
<1>4. th' \in [Thread -> ThreadState] /\ OnlyMoves(Webhook) /\ Held(Webhook, th[Webhook])'
  <2>1. CASE AfterLookup(Handling, c) = "hook_record"
    BY <1>1, <1>2, <2>1, GoRecordHeld
  <2>2. CASE AfterLookup(Handling, c) # "hook_record"
    <3>1. PICK next \in {"mark_read", "ingest_tx", "hook_audit"} :
            /\ next = AfterLookup(Handling, c)
            /\ next = "mark_read" => th[Webhook].event.kind \in PaidKind /\ c # None
            /\ next = "hook_audit" => c # None
      BY <2>2 DEF AfterLookup, Handling
    <3>2. th' = [th EXCEPT ![Webhook].pc = next, ![Webhook].case = c]
      BY <1>2, <2>2, <3>1
    <3>3. [th[Webhook] EXCEPT !.pc = next, !.case = c] \in ThreadState
      BY <1>1, <1>3 DEF ThreadState, WebhookPC, IngestPC
    <3>4. th' \in [Thread -> ThreadState] /\ OnlyMoves(Webhook)
      BY <1>1, <3>2, <3>3 DEF TypeInv, StoreTypeOK, OnlyMoves
    <3>5. /\ th'[Webhook].pc = next /\ th'[Webhook].case = c
          /\ th'[Webhook].event = th[Webhook].event /\ th'[Webhook].tx = th[Webhook].tx
      BY <1>1, <3>2 DEF TypeInv, StoreTypeOK, ThreadState
    <3>6. /\ th[Webhook].tx \in Tx /\ th[Webhook].event \in emitted
          /\ th[Webhook].event.tx = th[Webhook].tx
      BY <1>1 DEF WebhookFindCase, At, Held, TxPC
    <3>7. Held(Webhook, th[Webhook])'
      BY <1>1, <1>3, <3>1, <3>5, <3>6 DEF Held, CasePC, SnapPC, TxPC, MarkPC, RunPC
    <3> QED BY <3>4, <3>7
  <2> QED BY <2>1, <2>2
<1> QED BY <1>1, <1>4, QuietFrame DEF WebhookFindCase, ledger, TypeInv, StoreTypeOK

\* The webhook audits a failed payment.
LEMMA WebhookAuditFailureKeeps ==
  ASSUME TypeInv, WebhookAuditFailure PROVE TypeInv'
<1>1. Webhook \in Thread /\ th[Webhook].case \in CaseId
  BY CaseKnown DEF WebhookAuditFailure, At, CasePC, Thread
<1>2. audits' \in [CaseId -> [AuditEventType -> Nat]]
  BY <1>1, AuditType DEF WebhookAuditFailure, TypeInv
<1>3. th' \in [Thread -> ThreadState] /\ OnlyMoves(Webhook) /\ Held(Webhook, th[Webhook])'
  BY GoRecordHeld DEF WebhookAuditFailure, At, gateway
<1> QED BY <1>1, <1>2, <1>3, QuietFrame DEF WebhookAuditFailure

\* The webhook records its event as processed.
LEMMA WebhookRecordKeeps ==
  ASSUME TypeInv, WebhookRecord \/ RecordFails PROVE TypeInv'
<1>1. Webhook \in Thread /\ Handling \in emitted
  BY ThreadType DEF Thread, WebhookRecord, RecordFails, At, Held, Handling
<1>2. th' \in [Thread -> ThreadState] /\ OnlyMoves(Webhook) /\ Held(Webhook, th[Webhook])'
  BY <1>1, GoIdle DEF WebhookRecord, RecordFails
<1>3. StoreTypeOK' /\ CasesGrow /\ emitted' = emitted
  BY <1>1, <1>2 DEF WebhookRecord, RecordFails, Answer, TypeInv, StoreTypeOK, CasesGrow, ledger,
                    outreach
<1> QED BY <1>1, <1>2, <1>3, ThreadFrame DEF TypeInv

-----------------------------------------------------------------------------
(* The gateway and the faults *)

\* An event of the gateway keeps the wire well typed.
LEMMA EmitType ==
  ASSUME StoreTypeOK, NEW events \in SUBSET Event, Emit(events)
  PROVE  /\ emitted' \subseteq Event /\ wire' \subseteq emitted' /\ processed \subseteq emitted'
         /\ emitted \subseteq emitted' /\ seq' \in Nat
BY DEF Emit, StoreTypeOK

\* An event about a known link or order is well typed.
LEMMA EventOfType ==
  ASSUME StoreTypeOK, NEW k \in PaidKind \cup FailedKind \cup ExpiredKind, NEW x \in Tx
  PROVE  EventOf(k, x) \in Event /\ EventOf(k, x).tx = x /\ EventOf(k, x).kind = k
BY DEF EventOf, Event, StoreTypeOK

\* The events each step of the gateway emits.
LEMMA GatewayEmits ==
  ASSUME StoreTypeOK, NEW x \in Tx, AttemptFails(x) \/ CustomerPays(x) \/ LinkExpires(x)
  PROVE  \E events \in SUBSET Event : Emit(events) /\ \A e \in events : e.tx = x
<1>1. CASE AttemptFails(x)
  <2>1. Emit({EventOf("payment.failed", x)})
    BY <1>1 DEF AttemptFails
  <2>2. /\ {EventOf("payment.failed", x)} \in SUBSET Event
        /\ \A e \in {EventOf("payment.failed", x)} : e.tx = x
    BY EventOfType DEF FailedKind
  <2> QED BY <2>1, <2>2
<1>2. CASE CustomerPays(x)
  <2>1. Emit({EventOf(k, x) : k \in PaidKind})
    BY <1>2 DEF CustomerPays
  <2>2. /\ {EventOf(k, x) : k \in PaidKind} \in SUBSET Event
        /\ \A e \in {EventOf(k, x) : k \in PaidKind} : e.tx = x
    BY EventOfType
  <2> QED BY <2>1, <2>2
<1>3. CASE LinkExpires(x)
  <2>1. Emit({EventOf("payment_link.expired", x)})
    BY <1>3 DEF LinkExpires
  <2>2. /\ {EventOf("payment_link.expired", x)} \in SUBSET Event
        /\ \A e \in {EventOf("payment_link.expired", x)} : e.tx = x
    BY EventOfType DEF ExpiredKind
  <2> QED BY <2>1, <2>2
<1> QED BY <1>1, <1>2, <1>3

\* An open link or payment more or less is still a number.
LEMMA GatewayCounts ==
  ASSUME StoreTypeOK, NEW x \in Tx, AttemptFails(x) \/ CustomerPays(x) \/ LinkExpires(x)
  PROVE  links' \in [Tx -> Nat] /\ payments' \in [Tx -> Nat]
<1>1. links[x] \in Nat /\ links[x] > 0 /\ payments[x] \in Nat
  BY DEF StoreTypeOK, AttemptFails, CustomerPays, LinkExpires
<1>2. links[x] - 1 \in Nat /\ payments[x] + 1 \in Nat
  BY <1>1
<1> QED BY <1>2 DEF StoreTypeOK, AttemptFails, CustomerPays, LinkExpires

\* The gateway takes a payment, or lets a link expire.
LEMMA GatewayKeeps ==
  ASSUME TypeInv, NEW x \in Tx, AttemptFails(x) \/ CustomerPays(x) \/ LinkExpires(x)
  PROVE  TypeInv'
<1>1. UNCHANGED <<txs, cases, ledger, processed, th, outreach>>
  BY DEF AttemptFails, CustomerPays, LinkExpires
<1>2. PICK events \in SUBSET Event : Emit(events)
  BY GatewayEmits DEF TypeInv
<1>3. StoreTypeOK' /\ emitted \subseteq emitted'
  BY <1>1, <1>2, EmitType, GatewayCounts DEF TypeInv, StoreTypeOK, ledger, outreach
<1>4. ThreadInv'
  BY <1>1, <1>3 DEF TypeInv, ThreadInv, Held
<1> QED BY <1>3, <1>4 DEF TypeInv

\* The gateway delivers an event again.
LEMMA RedeliverKeeps ==
  ASSUME TypeInv, NEW e \in emitted, Redeliver(e) PROVE TypeInv'
<1>1. StoreTypeOK'
  BY DEF Redeliver, TypeInv, StoreTypeOK, ledger, outreach
<1>2. ThreadInv'
  BY DEF Redeliver, TypeInv, ThreadInv, Held
<1> QED BY <1>1, <1>2 DEF TypeInv

\* A call of the repository raises.
LEMMA CallFailsKeeps ==
  ASSUME TypeInv, NEW t \in Thread, CallFails(t) PROVE TypeInv'
<1>1. audits' \in [CaseId -> [AuditEventType -> Nat]]
  <2>1. CASE UNCHANGED audits
    BY <2>1 DEF TypeInv, StoreTypeOK
  <2>2. CASE /\ At(t, "ingest_audit") \/ At(t, "run_audit") \/ At(t, "mark_audit")
             /\ Audit(th[t].case, {AuditWritten(th[t].pc)})
    <3>1. th[t].case \in CaseId
      BY <2>2, CaseKnown DEF At, CasePC, RunPC
    <3> QED BY <2>2, <3>1, AuditType DEF TypeInv
  <2> QED BY <2>1, <2>2 DEF CallFails
<1>2. ~At(t, "idle") /\ emitted' = emitted
  BY DEF CallFails, At, StoreCallPC, RunPC, IngestPC, WebhookPC, gateway
<1>3. th' \in [Thread -> ThreadState] /\ OnlyMoves(t) /\ Held(t, th[t])'
  <2>1. EndRun(t) \/ th' = [th EXCEPT ![t] = Idle]
    BY DEF CallFails
  <2> QED BY <1>2, <2>1, EndRunHeld, GoIdle
<1> QED BY <1>1, <1>3, QuietFrame DEF CallFails

\* The process restarts: every call in progress is lost.
LEMMA RestartKeeps ==
  ASSUME TypeInv, Restart PROVE TypeInv'
<1>1. StoreTypeOK'
  BY IdleType DEF Restart, TypeInv, StoreTypeOK, ledger, gateway, outreach
<1>2. ThreadInv'
  BY DEF Restart, ThreadInv, Held, Idle, CasePC, SnapPC, TxPC, MarkPC, RunPC, WebhookPC
<1> QED BY <1>1, <1>2 DEF TypeInv

-----------------------------------------------------------------------------
(* All steps together *)

\* The system starts empty.
LEMMA InitType == Init => TypeInv
<1> SUFFICES ASSUME Init PROVE TypeInv
  OBVIOUS
<1>1. StoreTypeOK
  BY IdleType DEF Init, StoreInit, StoreTypeOK, TransactionStatus
<1>2. ThreadInv
  BY DEF Init, StoreInit, ThreadInv, Held, Idle, CasePC, SnapPC, TxPC, MarkPC, RunPC, WebhookPC
<1> QED BY <1>1, <1>2 DEF TypeInv

\* A stuttering step changes nothing.
LEMMA StutterKeeps ==
  ASSUME TypeInv, UNCHANGED vars PROVE TypeInv'
<1>1. StoreTypeOK'
  BY DEF vars, TypeInv, StoreTypeOK, ledger, gateway, outreach
<1>2. ThreadInv'
  BY DEF vars, TypeInv, ThreadInv, Held, gateway
<1> QED BY <1>1, <1>2 DEF TypeInv

\* Every step of a run.
LEMMA RunStepKeeps ==
  ASSUME TypeInv, NEW t \in Thread, RunStep(t) PROVE TypeInv'
BY RunCaseKeeps, RunContextKeeps, RunDecideKeeps, ExecuteRetryKeeps, ExecuteLinkKeeps,
   ExecuteSendKeeps, ExecuteDeliveryKeeps, RunSaveKeeps, RunActionKeeps, RunAuditKeeps,
   RunDetailKeeps
   DEF RunStep

\* Every step of a request handled by a worker thread.
LEMMA WorkerKeeps ==
  ASSUME TypeInv, NEW w \in Workers,
         NewPaymentEvent(w) \/ NewPayment(w) \/ StartRecovery(w) \/ WorkerStep(w)
  PROVE  TypeInv'
<1>1. CASE NewPaymentEvent(w)
  BY <1>1, PostPaymentEventKeeps DEF NewPaymentEvent
<1>2. CASE NewPayment(w)
  BY <1>2, CreatePaymentKeeps DEF NewPayment
<1>3. CASE StartRecovery(w)
  BY <1>3, PostRecoveryKeeps DEF StartRecovery
<1>4. CASE WorkerStep(w)
  BY <1>4, CreateLinkKeeps, IngestCaseKeeps, IngestSaveKeeps, IngestAuditKeeps, RunStepKeeps
     DEF WorkerStep, Thread
<1> QED BY <1>1, <1>2, <1>3, <1>4

\* Every step of the webhook endpoint.
LEMMA WebhookStepKeeps ==
  ASSUME TypeInv, WebhookStep PROVE TypeInv'
<1>1. CASE \E e \in wire : WebhookIgnore(e) \/ WebhookAccept(e)
  BY <1>1, WebhookIgnoreKeeps, WebhookAcceptKeeps
<1>2. CASE WebhookSaveTx \/ WebhookFindCase \/ WebhookAuditFailure \/ WebhookRecord
  BY <1>2, WebhookSaveTxKeeps, WebhookFindCaseKeeps, WebhookAuditFailureKeeps, WebhookRecordKeeps
<1>3. CASE IngestStep(Webhook) \/ RunStep(Webhook) \/ MarkStep(Webhook)
  BY <1>3, IngestTxKeeps, IngestCaseKeeps, IngestSaveKeeps, IngestAuditKeeps, RunStepKeeps,
     MarkReadKeeps, MarkSaveKeeps, MarkAuditKeeps
     DEF IngestStep, MarkStep, Thread
<1> QED BY <1>1, <1>2, <1>3 DEF WebhookStep, WebhookHandle

\* Every fault.
LEMMA FaultKeeps ==
  ASSUME TypeInv, Fault PROVE TypeInv'
BY CallFailsKeeps, CreateLinkKeeps, WebhookRecordKeeps, RestartKeeps DEF Fault

\* Every step of the environment: requests, payments, deliveries, faults.
LEMMA EnvironmentKeeps ==
  ASSUME TypeInv, Environment PROVE TypeInv'
BY GatewayKeeps, RedeliverKeeps DEF Environment, GatewayStep

\* The type invariant is inductive.
LEMMA NextKeeps == TypeInv /\ [Next]_vars => TypeInv'
BY StutterKeeps, WorkerKeeps, WebhookStepKeeps, FaultKeeps, EnvironmentKeeps DEF Next

Budget == runs \in 0..MaxRuns /\ dups \in 0..MaxDuplicates /\ faults \in 0..MaxFaults

\* No step exceeds a bound of the instance.
LEMMA BudgetKept == Budget /\ [Next]_vars => Budget'
<1> SUFFICES ASSUME Budget, [Next]_vars PROVE Budget'
  OBVIOUS
<1>1. {MaxRuns, MaxDuplicates, MaxFaults} \subseteq Nat
  BY BoundsAssumption
<1>2. CASE UNCHANGED budget
  BY <1>2 DEF Budget, budget
<1>3. CASE \E w \in Workers : StartRecovery(w)
  BY <1>1, <1>3 DEF Budget, StartRecovery
<1>4. CASE Environment \/ Fault
  BY <1>1, <1>2, <1>4 DEF Budget, Environment, Fault
<1> QED
  BY <1>2, <1>3, <1>4
     DEF Next, vars, budget, NewPaymentEvent, NewPayment, WorkerStep, WebhookStep

\* Every behaviour of the server keeps every variable in its type, and every
\* thread's copies in step with the store: what a run or the webhook handler
\* works on is stored, and a snapshot is always one of the case it is saved to.
THEOREM TypeCorrect == Spec => []TypeInv
BY InitType, NextKeeps, PTL DEF Spec

\* TypeOK holds in every behaviour, whatever the constants are.
THEOREM TypeSafe == Spec => []TypeOK
<1>1. Init => Budget
  BY BoundsAssumption DEF Init, Budget
<1>2. TypeInv /\ Budget => TypeOK
  BY DEF TypeInv, Budget, TypeOK
<1> QED BY <1>1, <1>2, TypeCorrect, BudgetKept, PTL DEF Spec
=============================================================================
