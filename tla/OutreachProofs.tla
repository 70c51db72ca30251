---------------------------- MODULE OutreachProofs ----------------------------
(***************************************************************************)
(* Proofs about what PayBack claims to have done for a customer: a case    *)
(* that is MONITORING was acted on, and every action has a record of its   *)
(* eligibility check, however many runs of a case are interleaved; the     *)
(* figures shown to a merchant agree; where no call fails, every e-mail is *)
(* on record; and no customer is contacted without a failed payment or a   *)
(* request.                                                                *)
(***************************************************************************)
EXTENDS PayBackSafetyProofs, FiniteSetTheorems

-----------------------------------------------------------------------------
(* The steps that touch neither a case, nor an outreach, nor a snapshot *)

\* Thread t goes to a place where it holds no snapshot, or stays without one.
Leaves(t) ==
  OnlyMoves(t) /\ th'[t].pc \notin SnapPC /\ UNCHANGED <<cases, executed>>

\* No eligibility check is taken back.
ChecksStay ==
  \A c \in CaseId : audits'[c]["ELIGIBILITY_CHECKED"] >= audits[c]["ELIGIBILITY_CHECKED"]

\* An appended record takes no other back.
LEMMA AuditGrows ==
  ASSUME TypeInv, NEW c \in CaseId, NEW types, Audit(c, types)
  PROVE  ChecksStay
BY DEF Audit, ChecksStay, TypeInv, StoreTypeOK, AuditEventType

LEMMA SameAudits ==
  ASSUME TypeInv, UNCHANGED audits PROVE ChecksStay
BY DEF ChecksStay, TypeInv, StoreTypeOK, AuditEventType

\* The ways a thread leaves a procedure lead to no place with a snapshot.
LEMMA EndsWithoutSnapshot ==
  ASSUME TypeInv, NEW t \in Thread,
         \/ th' = [th EXCEPT ![t] = Idle]
         \/ t = Webhook /\ GoRecord(t)
         \/ EndRun(t)
         \/ \E c \in CaseId : EndIngest(t, c)
  PROVE  OnlyMoves(t) /\ th'[t].pc \notin SnapPC
<1>1. th \in [Thread -> ThreadState] /\ th[t] \in ThreadState
  BY DEF TypeInv, StoreTypeOK
<1>2. CASE th' = [th EXCEPT ![t] = Idle]
  BY <1>1, <1>2 DEF OnlyMoves, SnapPC, Idle
<1>3. CASE t = Webhook /\ GoRecord(t)
  <2>1. th'[t] = [Idle EXCEPT !.pc = "hook_record", !.event = th[t].event]
    BY <1>1, <1>3 DEF GoRecord
  <2>2. th'[t].pc = "hook_record"
    BY <2>1 DEF Idle
  <2> QED BY <1>1, <1>3, <2>2 DEF GoRecord, OnlyMoves, SnapPC
<1>4. CASE EndRun(t)
  BY <1>2, <1>3, <1>4 DEF EndRun
<1>5. CASE \E c \in CaseId : EndIngest(t, c)
  <2>1. PICK c \in CaseId : EndIngest(t, c)
    BY <1>5
  <2>2. CASE t = Webhook
    <3>1. th' = [th EXCEPT ![t] = [th[t] EXCEPT !.pc = "run_case", !.case = c]]
      BY <2>1, <2>2 DEF EndIngest
    <3>2. th'[t].pc = "run_case"
      BY <1>1, <3>1 DEF ThreadState
    <3> QED BY <1>1, <3>1, <3>2 DEF OnlyMoves, SnapPC
  <2>3. CASE t # Webhook
    BY <1>2, <2>1, <2>3 DEF EndIngest
  <2> QED BY <2>2, <2>3
<1> QED BY <1>2, <1>3, <1>4, <1>5

\* The steps of the service that hold no snapshot afterwards.
LEMMA ServiceLeaves ==
  ASSUME TypeInv, NEW t \in Thread,
         IngestTx(t) \/ IngestCase(t) \/ IngestAudit(t) \/ RunAction(t) \/ RunAudit(t)
           \/ RunDetail(t) \/ (t = Webhook /\ MarkAudit(t))
  PROVE  Leaves(t) /\ ChecksStay
<1>0. th \in [Thread -> ThreadState] /\ th[t] \in ThreadState
  BY DEF TypeInv, StoreTypeOK
<1>1. CASE IngestTx(t) \/ RunAction(t)
  BY <1>0, <1>1, SameAudits DEF IngestTx, RunAction, Go, Leaves, OnlyMoves, SnapPC, ThreadState,
                          ledger, outreach
<1>2. CASE IngestCase(t)
  <2>1. UNCHANGED <<cases, executed, audits>>
    BY <1>2 DEF IngestCase, ledger, outreach
  <2>2. CASE Go(t, "ingest_save")
    BY <1>0, <2>1, <2>2, SameAudits DEF Go, Leaves, OnlyMoves, SnapPC, ThreadState
  <2>3. CASE ~Go(t, "ingest_save")
    <3>1. \E c \in CaseId : EndIngest(t, c)
      BY <1>2, <2>3 DEF IngestCase, CasesOf
    <3> QED BY <2>1, <3>1, EndsWithoutSnapshot, SameAudits DEF Leaves
  <2> QED BY <2>2, <2>3
<1>3. CASE IngestAudit(t)
  <2>1. th[t].case \in CaseId
    BY <1>3, CaseKnown DEF IngestAudit, At, CasePC
  <2> QED BY <1>3, <2>1, EndsWithoutSnapshot, AuditGrows DEF IngestAudit, Leaves, outreach
<1>4. CASE RunAudit(t)
  <2>1. th[t].case \in CaseId
    BY <1>4, CaseKnown DEF RunAudit, At, CasePC, RunPC
  <2>2. OnlyMoves(t) /\ th'[t].pc \notin SnapPC
    BY <1>0, <1>4 DEF RunAudit, Go, OnlyMoves, SnapPC, ThreadState
  <2> QED BY <1>4, <2>1, <2>2, AuditGrows DEF RunAudit, Leaves, outreach
<1>5. CASE RunDetail(t)
  BY <1>5, EndsWithoutSnapshot, SameAudits DEF RunDetail, Leaves, outreach, ledger
<1>6. CASE t = Webhook /\ MarkAudit(t)
  <2>1. th[t].case \in CaseId
    BY <1>6, CaseKnown DEF MarkAudit, At, CasePC
  <2> QED BY <1>6, <2>1, EndsWithoutSnapshot, AuditGrows DEF MarkAudit, Leaves, outreach
<1> QED BY <1>1, <1>2, <1>3, <1>4, <1>5, <1>6

\* So do the steps that accept a request, and those of creating a payment.
LEMMA RequestLeaves ==
  ASSUME TypeInv, NEW w \in Workers,
         NewPaymentEvent(w) \/ NewPayment(w) \/ StartRecovery(w) \/ CreateLink(w)
           \/ CreateLinkFails(w)
  PROVE  Leaves(w) /\ ChecksStay
<1>0. w \in Thread /\ th \in [Thread -> ThreadState] /\ th[w] \in ThreadState
  BY DEF TypeInv, StoreTypeOK, Thread
<1>1. UNCHANGED <<cases, executed, audits>>
  BY DEF NewPaymentEvent, PostPaymentEvent, NewPayment, CreatePayment, StartRecovery,
         PostRecovery, CreateLink, CreateLinkFails, ledger, outreach
<1>2. OnlyMoves(w) /\ th'[w].pc \notin SnapPC
  <2>1. CASE NewPaymentEvent(w)
    <3>1. PICK x \in Tx, s \in {"success", "failed", "pending", "abandoned", "refunded"} :
            PostPaymentEvent(w, x, s)
      BY <2>1 DEF NewPaymentEvent
    <3>2. CASE s = "success"
      BY <1>0, <3>1, <3>2, EndsWithoutSnapshot DEF PostPaymentEvent
    <3>3. CASE s # "success"
      BY <1>0, <3>1, <3>3 DEF PostPaymentEvent, OnlyMoves, SnapPC, ThreadState
    <3> QED BY <3>2, <3>3
  <2>2. CASE NewPayment(w) \/ StartRecovery(w)
    BY <1>0, <2>2 DEF NewPayment, CreatePayment, StartRecovery, PostRecovery, OnlyMoves, SnapPC,
                      ThreadState
  <2>3. CASE CreateLink(w) \/ CreateLinkFails(w)
    BY <1>0, <2>3, EndsWithoutSnapshot DEF CreateLink, CreateLinkFails
  <2> QED BY <2>1, <2>2, <2>3
<1> QED BY <1>1, <1>2, SameAudits DEF Leaves

\* And the steps of the webhook handler of its own.
LEMMA WebhookLeaves ==
  ASSUME TypeInv,
         \/ \E e \in wire : WebhookAccept(e)
         \/ WebhookSaveTx \/ WebhookFindCase \/ WebhookAuditFailure \/ WebhookRecord \/ RecordFails
  PROVE  Leaves(Webhook) /\ ChecksStay
<1>0. Webhook \in Thread /\ th \in [Thread -> ThreadState] /\ th[Webhook] \in ThreadState
  BY DEF TypeInv, StoreTypeOK, Thread
<1>1. CASE \E e \in wire : WebhookAccept(e)
  <2>1. PICK e \in wire : WebhookAccept(e)
    BY <1>1
  <2>2. OnlyMoves(Webhook) /\ th'[Webhook].pc = "hook_tx"
    BY <1>0, <2>1 DEF WebhookAccept, OnlyMoves, ThreadState
  <2> QED BY <2>1, <2>2, SameAudits DEF WebhookAccept, Leaves, SnapPC, ledger, outreach
<1>2. CASE WebhookSaveTx
  <2>1. OnlyMoves(Webhook) /\ th'[Webhook].pc = "hook_case"
    BY <1>0, <1>2 DEF WebhookSaveTx, Go, OnlyMoves, ThreadState
  <2> QED BY <1>2, <2>1, SameAudits DEF WebhookSaveTx, Leaves, SnapPC, ledger, outreach
<1>3. CASE WebhookFindCase
  <2>1. PICK c \in Lookup(th[Webhook].tx) :
          LET next == AfterLookup(Handling, c)
          IN IF next = "hook_record"
             THEN GoRecord(Webhook)
             ELSE th' = [th EXCEPT ![Webhook].pc = next, ![Webhook].case = c]
    BY <1>3 DEF WebhookFindCase
  <2>2. OnlyMoves(Webhook) /\ th'[Webhook].pc \notin SnapPC
    <3>1. CASE AfterLookup(Handling, c) = "hook_record"
      BY <1>0, <2>1, <3>1, EndsWithoutSnapshot
    <3>2. CASE AfterLookup(Handling, c) # "hook_record"
      <4>1. AfterLookup(Handling, c) \in {"mark_read", "ingest_tx", "hook_audit"}
        BY <3>2 DEF AfterLookup
      <4>2. OnlyMoves(Webhook) /\ th'[Webhook].pc = AfterLookup(Handling, c)
        BY <1>0, <2>1, <3>2 DEF OnlyMoves, ThreadState
      <4> QED BY <4>1, <4>2 DEF SnapPC
    <3> QED BY <3>1, <3>2
  <2> QED BY <1>3, <2>2, SameAudits DEF WebhookFindCase, Leaves, ledger, outreach
<1>4. CASE WebhookAuditFailure
  <2>1. th[Webhook].case \in CaseId
    BY <1>0, <1>4, CaseKnown DEF WebhookAuditFailure, At, CasePC
  <2> QED BY <1>0, <1>4, <2>1, EndsWithoutSnapshot, AuditGrows
             DEF WebhookAuditFailure, Leaves, outreach
<1>5. CASE WebhookRecord \/ RecordFails
  BY <1>0, <1>5, EndsWithoutSnapshot, SameAudits
     DEF WebhookRecord, RecordFails, Leaves, ledger, outreach
<1> QED BY <1>1, <1>2, <1>3, <1>4, <1>5

\* And a call of the store that raises.
LEMMA FailureLeaves ==
  ASSUME TypeInv, NEW t \in Thread, CallFails(t)
  PROVE  Leaves(t) /\ ChecksStay
<1>1. OnlyMoves(t) /\ th'[t].pc \notin SnapPC
  BY EndsWithoutSnapshot DEF CallFails
<1>2. CASE UNCHANGED audits
  BY <1>1, <1>2, SameAudits DEF CallFails, Leaves, outreach
<1>3. CASE ~UNCHANGED audits
  <2>1. /\ At(t, "ingest_audit") \/ At(t, "run_audit") \/ At(t, "mark_audit")
        /\ Audit(th[t].case, {AuditWritten(th[t].pc)})
    BY <1>3 DEF CallFails
  <2>2. th[t].case \in CaseId
    BY <2>1, CaseKnown DEF At, CasePC, RunPC
  <2> QED BY <1>1, <2>1, <2>2, AuditGrows DEF CallFails, Leaves, outreach
<1> QED BY <1>2, <1>3

-----------------------------------------------------------------------------
(* The invariant *)

\* A thread that holds the copy of a MONITORING case, or is in the middle of
\* sending, works on a case that was acted on.
Reached(t) ==
  /\ th[t].pc \in SnapPC /\ th[t].snap.status = "monitoring" => executed[th[t].case] > 0
  /\ th[t].pc \in {"run_send", "run_delivery"} => executed[th[t].case] > 0

\* Threads that have checked case c and not acted on it yet.
Cleared(c) == {t \in Thread : th[t].pc = "run_execute" /\ th[t].case = c}

\* Each action has a check of its own, also the actions that are still to come.
ChecksCover ==
  \A c \in CaseId :
    executed[c] + Cardinality(Cleared(c)) <= audits[c]["ELIGIBILITY_CHECKED"]

OutreachInv == MonitoringImpliesOutreach /\ (\A t \in Thread : Reached(t)) /\ ChecksCover

LEMMA ClearedFinite ==
  ASSUME NEW S \in SUBSET Thread
  PROVE  IsFiniteSet(S) /\ Cardinality(S) \in Nat
<1>1. IsFiniteSet(Workers \cup {Webhook})
  BY WorkersAssumption, FS_AddElement
<1> QED BY <1>1, FS_Subset, FS_CardinalityType DEF Thread

\* A step after which no thread is cleared that was not.
LEMMA CoverFrame ==
  ASSUME TypeInv, TypeInv', ChecksCover, ChecksStay, UNCHANGED executed,
         \A c \in CaseId : Cleared(c)' \subseteq Cleared(c)
  PROVE  ChecksCover'
<1> SUFFICES ASSUME NEW c \in CaseId
             PROVE  executed'[c] + Cardinality(Cleared(c)')
                      <= audits'[c]["ELIGIBILITY_CHECKED"]
  BY DEF ChecksCover
<1>1. /\ IsFiniteSet(Cleared(c)) /\ Cardinality(Cleared(c)) \in Nat
      /\ Cardinality(Cleared(c)') \in Nat
  BY ClearedFinite DEF Cleared
<1>2. Cardinality(Cleared(c)') <= Cardinality(Cleared(c))
  BY <1>1, FS_Subset
<1>3. /\ executed[c] \in Nat /\ audits[c]["ELIGIBILITY_CHECKED"] \in Nat
      /\ audits'[c]["ELIGIBILITY_CHECKED"] \in Nat
  BY DEF TypeInv, StoreTypeOK, AuditEventType
<1> QED BY <1>1, <1>2, <1>3 DEF ChecksCover, ChecksStay

\* Whatever is stored, a step that only moves t and takes no action back keeps
\* what the other threads rely on.
LEMMA ReachedFrame ==
  ASSUME TypeInv, \A u \in Thread : Reached(u), NEW t \in Thread, OnlyMoves(t),
         \A c \in CaseId : executed[c] > 0 => executed'[c] > 0, Reached(t)'
  PROVE  \A u \in Thread : Reached(u)'
<1> SUFFICES ASSUME NEW u \in Thread, u # t PROVE Reached(u)'
  OBVIOUS
<1>1. th'[u] = th[u] /\ Reached(u)
  BY DEF OnlyMoves
<1>2. th[u].pc \in SnapPC => th[u].case \in CaseId
  BY CaseKnown DEF SnapPC, CasePC, RunPC
<1> QED BY <1>1, <1>2 DEF Reached, SnapPC

\* The quiet steps.
LEMMA LeavesKeeps ==
  ASSUME TypeInv, TypeInv', OutreachInv, NEW t \in Thread, Leaves(t), ChecksStay
  PROVE  OutreachInv'
<1>1. Reached(t)'
  BY DEF Leaves, Reached, SnapPC
<1>2. \A u \in Thread : Reached(u)'
  BY <1>1, ReachedFrame DEF OutreachInv, Leaves
<1>3. \A c \in CaseId : Cleared(c)' \subseteq Cleared(c)
  BY DEF Leaves, Cleared, OnlyMoves, SnapPC
<1>4. ChecksCover'
  BY <1>3, CoverFrame DEF OutreachInv, Leaves
<1>5. MonitoringImpliesOutreach'
  BY DEF OutreachInv, Leaves, MonitoringImpliesOutreach, Stored, Status
<1> QED BY <1>2, <1>4, <1>5 DEF OutreachInv

\* The steps that write one case: the record they write is not MONITORING, or is
\* one of a case that was acted on.
LEMMA WriteKeeps ==
  ASSUME TypeInv, TypeInv', OutreachInv, NEW t \in Thread, OnlyMoves(t),
         th'[t].pc \notin SnapPC, UNCHANGED <<audits, executed>>,
         NEW c \in CaseId, NEW v \in Case, cases' = [cases EXCEPT ![c] = v],
         v.status = "monitoring" => executed[c] > 0
  PROVE  OutreachInv'
<1>1. Reached(t)'
  BY DEF Reached, SnapPC
<1>2. \A u \in Thread : Reached(u)'
  BY <1>1, ReachedFrame DEF OutreachInv
<1>3. \A d \in CaseId : Cleared(d)' \subseteq Cleared(d)
  BY DEF Cleared, OnlyMoves, SnapPC
<1>4. ChecksCover'
  BY <1>3, CoverFrame, SameAudits DEF OutreachInv
<1>5. MonitoringImpliesOutreach'
  <2>1. \A d \in CaseId : cases'[d] = IF d = c THEN v ELSE cases[d]
    BY DEF TypeInv, StoreTypeOK
  <2> QED BY <2>1 DEF OutreachInv, MonitoringImpliesOutreach, Stored, Status
<1> QED BY <1>2, <1>4, <1>5 DEF OutreachInv

LEMMA IngestSaveOutreach ==
  ASSUME TypeInv, TypeInv', OutreachInv, NEW t \in Thread, IngestSave(t) PROVE OutreachInv'
<1>1. th[t].tx \in Tx
  BY ThreadType DEF IngestSave, At, Held, TxPC
<1>2. PICK c \in CaseId : /\ cases' = [cases EXCEPT ![c] = NewCase(th[t].tx)]
                          /\ th' = [th EXCEPT ![t].pc = "ingest_audit", ![t].case = c]
  BY DEF IngestSave
<1>3. OnlyMoves(t) /\ th'[t].pc \notin SnapPC
  BY <1>2 DEF OnlyMoves, SnapPC, TypeInv, StoreTypeOK, ThreadState
<1>4. NewCase(th[t].tx) \in Case /\ NewCase(th[t].tx).status # "monitoring"
  BY <1>1, NewCaseType DEF NewCase
<1> QED BY <1>2, <1>3, <1>4, WriteKeeps DEF IngestSave, ledger, outreach

LEMMA RunSaveOutreach ==
  ASSUME TypeInv, TypeInv', OutreachInv, NEW t \in Thread, RunSave(t) PROVE OutreachInv'
<1>1. /\ th[t].pc = "run_save" /\ th[t].case \in CaseId /\ th[t].snap \in Case
  BY CaseKnown, SnapKnown DEF RunSave, At, CasePC, SnapPC, RunPC
<1>2. th[t].snap.status = "monitoring" => executed[th[t].case] > 0
  BY <1>1 DEF OutreachInv, Reached, SnapPC
<1>3. OnlyMoves(t) /\ th'[t].pc \notin SnapPC
  BY DEF RunSave, OnlyMoves, SnapPC, TypeInv, StoreTypeOK, ThreadState
<1> QED BY <1>1, <1>2, <1>3, WriteKeeps DEF RunSave, ledger, outreach

LEMMA MarkSaveOutreach ==
  ASSUME TypeInv, TypeInv', OutreachInv, NEW t \in Thread, MarkSave(t) PROVE OutreachInv'
<1>1. th[t].case \in CaseId /\ th[t].snap \in Case
  BY CaseKnown, SnapKnown DEF MarkSave, At, CasePC, SnapPC
<1>2. Recovered(th[t].snap) \in Case /\ Recovered(th[t].snap).status # "monitoring"
  BY <1>1, RecoveredType DEF Recovered, Case
<1>3. OnlyMoves(t) /\ th'[t].pc \notin SnapPC
  BY DEF MarkSave, OnlyMoves, SnapPC, TypeInv, StoreTypeOK, ThreadState
<1> QED BY <1>1, <1>2, <1>3, WriteKeeps DEF MarkSave, ledger, outreach

-----------------------------------------------------------------------------
(* The steps of a run that change its snapshot *)

\* No action is executed and no thread cleared.
LEMMA SnapKeeps ==
  ASSUME TypeInv, TypeInv', OutreachInv, NEW t \in Thread, OnlyMoves(t), ChecksStay,
         UNCHANGED <<cases, executed>>, th'[t].pc # "run_execute", Reached(t)'
  PROVE  OutreachInv'
<1>1. \A u \in Thread : Reached(u)'
  BY ReachedFrame DEF OutreachInv
<1>2. \A c \in CaseId : Cleared(c)' \subseteq Cleared(c)
  BY DEF Cleared, OnlyMoves
<1>3. ChecksCover'
  BY <1>2, CoverFrame DEF OutreachInv
<1>4. MonitoringImpliesOutreach'
  BY DEF OutreachInv, MonitoringImpliesOutreach, Stored, Status
<1> QED BY <1>1, <1>3, <1>4 DEF OutreachInv

\* The case is read, for a run or to be marked.
LEMMA ReadOutreach ==
  ASSUME TypeInv, TypeInv', OutreachInv, NEW t \in Thread, RunCase(t) \/ MarkRead(t)
  PROVE  OutreachInv'
<1>1. th \in [Thread -> ThreadState] /\ th[t] \in ThreadState /\ th[t].case \in CaseId
      /\ cases[th[t].case] \in Case
  BY CaseKnown DEF TypeInv, StoreTypeOK, RunCase, MarkRead, At, CasePC, RunPC
<1>2. /\ OnlyMoves(t) /\ th'[t].pc \in {"run_context", "mark_save"}
      /\ th'[t].snap = cases[th[t].case] /\ th'[t].case = th[t].case
  BY <1>1 DEF RunCase, MarkRead, OnlyMoves, ThreadState
<1>3. UNCHANGED <<cases, executed, audits>>
  BY DEF RunCase, MarkRead, ledger, outreach
<1>4. cases[th[t].case].status = "monitoring" => executed[th[t].case] > 0
  BY <1>1, ConstantsAssumption DEF OutreachInv, MonitoringImpliesOutreach, Stored, Status
<1>5. Reached(t)'
  BY <1>2, <1>3, <1>4 DEF Reached
<1> QED BY <1>2, <1>3, <1>5, SameAudits, SnapKeeps

\* The context is built from a snapshot that stays.
LEMMA RunContextOutreach ==
  ASSUME TypeInv, TypeInv', OutreachInv, NEW t \in Thread, RunContext(t) PROVE OutreachInv'
<1>0. th \in [Thread -> ThreadState] /\ th[t] \in ThreadState /\ th[t].pc = "run_context"
  BY DEF TypeInv, StoreTypeOK, RunContext, At
<1>1. UNCHANGED <<cases, executed, audits>>
  BY DEF RunContext, ledger, outreach
<1>2. CASE EndRun(t)
  BY <1>1, <1>2, EndsWithoutSnapshot, SameAudits, LeavesKeeps DEF Leaves
<1>3. CASE ~EndRun(t)
  <2>1. /\ OnlyMoves(t) /\ th'[t].pc = "run_decide"
        /\ th'[t].snap = th[t].snap /\ th'[t].case = th[t].case
    BY <1>0, <1>3 DEF RunContext, OnlyMoves, ThreadState
  <2>2. Reached(t)'
    BY <1>0, <1>1, <2>1 DEF Reached, OutreachInv, SnapPC
  <2> QED BY <1>1, <2>1, <2>2, SameAudits, SnapKeeps
<1> QED BY <1>2, <1>3

\* The e-mail goes out, and its record is written, after the action was counted.
LEMMA SendOutreach ==
  ASSUME TypeInv, TypeInv', OutreachInv, NEW t \in Thread, ExecuteSend(t) \/ ExecuteDelivery(t)
  PROVE  OutreachInv'
<1>0. th \in [Thread -> ThreadState] /\ th[t] \in ThreadState
      /\ th[t].pc \in {"run_send", "run_delivery"}
  BY DEF TypeInv, StoreTypeOK, ExecuteSend, ExecuteDelivery, At
<1>1. UNCHANGED <<cases, executed, audits>>
  BY DEF ExecuteSend, ExecuteDelivery, ledger, outreach
<1>2. OnlyMoves(t) /\ th'[t].pc \in {"run_delivery", "run_save"} /\ th'[t].case = th[t].case
  BY <1>0 DEF ExecuteSend, ExecuteDelivery, Go, OnlyMoves, ThreadState
<1>3. Reached(t)'
  BY <1>0, <1>1, <1>2 DEF Reached, OutreachInv
<1> QED BY <1>1, <1>2, <1>3, SameAudits, SnapKeeps

\* An action is executed: one thread that was cleared for the case is no more.
LEMMA ActionOutreach ==
  ASSUME TypeInv, TypeInv', OutreachInv, NEW t \in Thread, ExecuteRetry(t) \/ ExecuteLink(t)
  PROVE  OutreachInv'
<1>0. th \in [Thread -> ThreadState] /\ th[t] \in ThreadState /\ th[t].pc = "run_execute"
      /\ th[t].case \in CaseId
  BY CaseKnown DEF TypeInv, StoreTypeOK, ExecuteRetry, ExecuteLink, At, CasePC, RunPC
<1> PICK c \in CaseId : c = th[t].case
  BY <1>0
<1>1. /\ UNCHANGED <<cases, audits>> /\ executed' = [executed EXCEPT ![c] = @ + 1]
  BY DEF ExecuteRetry, ExecuteLink, ledger
<1>2. OnlyMoves(t) /\ th'[t].pc \in {"run_send", "run_save"} /\ th'[t].case = c
  BY <1>0 DEF ExecuteRetry, ExecuteLink, Go, OnlyMoves, ThreadState
<1>3. /\ executed'[c] = executed[c] + 1 /\ executed[c] \in Nat
      /\ \A d \in CaseId : executed[d] > 0 => executed'[d] > 0
      /\ \A d \in CaseId \ {c} : executed'[d] = executed[d]
  BY <1>0, <1>1 DEF TypeInv, StoreTypeOK
<1>4. Reached(t)'
  BY <1>2, <1>3 DEF Reached
<1>5. \A u \in Thread : Reached(u)'
  BY <1>2, <1>3, <1>4, ReachedFrame DEF OutreachInv
<1>6. ChecksCover'
  <2>1. Cleared(c)' = Cleared(c) \ {t} /\ t \in Cleared(c)
    BY <1>0, <1>2 DEF Cleared, OnlyMoves
  <2>2. Cardinality(Cleared(c)') = Cardinality(Cleared(c)) - 1
        /\ Cardinality(Cleared(c)) \in Nat
    BY <2>1, ClearedFinite, FS_RemoveElement DEF Cleared
  <2>3. \A d \in CaseId \ {c} : Cleared(d)' = Cleared(d)
    BY <1>0, <1>2 DEF Cleared, OnlyMoves
  <2>4. \A d \in CaseId : audits'[d] = audits[d] /\ audits[d]["ELIGIBILITY_CHECKED"] \in Nat
    BY <1>1 DEF TypeInv, StoreTypeOK, AuditEventType
  <2>5. ChecksCover /\ \A d \in CaseId : executed[d] \in Nat
    BY DEF OutreachInv, TypeInv, StoreTypeOK
  <2> QED BY <1>3, <2>2, <2>3, <2>4, <2>5 DEF ChecksCover
<1>7. MonitoringImpliesOutreach'
  BY <1>1, <1>3 DEF OutreachInv, MonitoringImpliesOutreach, Stored, Status
<1> QED BY <1>5, <1>6, <1>7 DEF OutreachInv

\* A decision: its check is recorded before a thread is cleared to act.
LEMMA RunDecideOutreach ==
  ASSUME TypeInv, TypeInv', OutreachInv, NEW t \in Thread, RunDecide(t) PROVE OutreachInv'
<1>0. th \in [Thread -> ThreadState] /\ th[t] \in ThreadState /\ th[t].pc = "run_decide"
      /\ th[t].case \in CaseId /\ th[t].snap \in Case
  BY CaseKnown, SnapKnown DEF TypeInv, StoreTypeOK, RunDecide, At, CasePC, SnapPC, RunPC
<1> PICK c \in CaseId : c = th[t].case
  BY <1>0
<1>1. UNCHANGED <<cases, executed>> /\ Audit(c, {"ELIGIBILITY_CHECKED"})
  BY DEF RunDecide, outreach
<1>2. ChecksStay
  BY <1>0, <1>1, AuditGrows
<1>3. CASE EndRun(t)
  BY <1>1, <1>2, <1>3, EndsWithoutSnapshot, LeavesKeeps DEF Leaves
<1>4. CASE ~EndRun(t)
  <2>1. PICK d \in {"stop", "escalate", "recover"} :
          IF d = "recover"
          THEN \E a \in OutreachAction :
                 th' = [th EXCEPT ![t].pc = "run_execute", ![t].action = a,
                                  ![t].snap = Decided(@, d)]
          ELSE th' = [th EXCEPT ![t].pc = "run_save", ![t].snap = Decided(@, d)]
    BY <1>4 DEF RunDecide, PossibleDecisions
  <2>2. Decided(th[t].snap, d).status # "monitoring"
    BY <1>0 DEF Decided, Case, GraphEnd
  <2>3. /\ OnlyMoves(t) /\ th'[t].snap = Decided(th[t].snap, d) /\ th'[t].case = c
        /\ th'[t].pc = IF d = "recover" THEN "run_execute" ELSE "run_save"
    <3>1. CASE d = "recover"
      <4>1. PICK a \in OutreachAction :
              th' = [th EXCEPT ![t].pc = "run_execute", ![t].action = a,
                               ![t].snap = Decided(@, d)]
        BY <2>1, <3>1
      <4> QED BY <1>0, <3>1, <4>1 DEF OnlyMoves, ThreadState
    <3>2. CASE d # "recover"
      BY <1>0, <2>1, <3>2 DEF OnlyMoves, ThreadState
    <3> QED BY <3>1, <3>2
  <2>4. Reached(t)'
    BY <2>2, <2>3 DEF Reached
  <2>5. CASE d # "recover"
    BY <1>1, <1>2, <2>3, <2>4, <2>5, SnapKeeps
  <2>6. CASE d = "recover"
    <3>1. /\ audits'[c]["ELIGIBILITY_CHECKED"] = audits[c]["ELIGIBILITY_CHECKED"] + 1
          /\ \A e \in CaseId \ {c} : audits'[e] = audits[e]
          /\ \A e \in CaseId : audits[e]["ELIGIBILITY_CHECKED"] \in Nat /\ executed[e] \in Nat
      BY <1>0, <1>1 DEF Audit, TypeInv, StoreTypeOK, AuditEventType
    <3>2. Cleared(c)' = Cleared(c) \cup {t} /\ t \notin Cleared(c)
      BY <1>0, <2>3, <2>6 DEF Cleared, OnlyMoves
    <3>3. Cardinality(Cleared(c)') = Cardinality(Cleared(c)) + 1
          /\ Cardinality(Cleared(c)) \in Nat
      BY <3>2, ClearedFinite, FS_AddElement DEF Cleared
    <3>4. \A e \in CaseId \ {c} : Cleared(e)' = Cleared(e)
      BY <1>0, <2>3 DEF Cleared, OnlyMoves
    <3>5. ChecksCover'
      <4>1. ChecksCover
        BY DEF OutreachInv
      <4> QED BY <1>1, <3>1, <3>3, <3>4, <4>1 DEF ChecksCover
    <3>6. \A u \in Thread : Reached(u)'
      BY <1>1, <2>3, <2>4, ReachedFrame DEF OutreachInv
    <3>7. MonitoringImpliesOutreach'
      BY <1>1 DEF OutreachInv, MonitoringImpliesOutreach, Stored, Status
    <3> QED BY <3>5, <3>6, <3>7 DEF OutreachInv
  <2> QED BY <2>5, <2>6
<1> QED BY <1>3, <1>4

-----------------------------------------------------------------------------
(* All steps together *)

LEMMA RunStepOutreach ==
  ASSUME TypeInv, TypeInv', OutreachInv, NEW t \in Thread, RunStep(t) PROVE OutreachInv'
BY ReadOutreach, RunContextOutreach, RunDecideOutreach, ActionOutreach, SendOutreach,
   RunSaveOutreach, ServiceLeaves, LeavesKeeps
   DEF RunStep

\* Steps of the world outside: they move no thread.
LEMMA OutsideOutreach ==
  ASSUME TypeInv, TypeInv', OutreachInv, UNCHANGED <<th, cases, executed, audits>>
  PROVE  OutreachInv'
<1>1. \A c \in CaseId : Cleared(c)' \subseteq Cleared(c)
  BY DEF Cleared
<1>2. ChecksCover'
  BY <1>1, CoverFrame, SameAudits DEF OutreachInv
<1> QED BY <1>2 DEF OutreachInv, Reached, MonitoringImpliesOutreach, Stored, Status

LEMMA RestartOutreach ==
  ASSUME TypeInv, TypeInv', OutreachInv, Restart PROVE OutreachInv'
<1>1. UNCHANGED <<cases, executed, audits>> /\ \A t \in Thread : th'[t].pc = "idle"
  BY DEF Restart, outreach, ledger, Idle
<1>2. \A c \in CaseId : Cleared(c)' \subseteq Cleared(c)
  BY <1>1 DEF Cleared
<1>3. ChecksCover'
  BY <1>1, <1>2, CoverFrame, SameAudits DEF OutreachInv
<1> QED BY <1>1, <1>3 DEF OutreachInv, Reached, SnapPC, MonitoringImpliesOutreach, Stored, Status

LEMMA OutreachNext == TypeInv /\ OutreachInv /\ [Next]_vars => OutreachInv'
<1> SUFFICES ASSUME TypeInv, OutreachInv, [Next]_vars PROVE OutreachInv'
  OBVIOUS
<1>1. TypeInv'
  BY NextKeeps
<1>2. ASSUME NEW w \in Workers,
             NewPaymentEvent(w) \/ NewPayment(w) \/ StartRecovery(w) \/ WorkerStep(w)
      PROVE  OutreachInv'
  <2>1. w \in Thread
    BY DEF Thread
  <2>2. CASE NewPaymentEvent(w) \/ NewPayment(w) \/ StartRecovery(w) \/ CreateLink(w)
    BY <1>1, <2>1, <2>2, RequestLeaves, LeavesKeeps
  <2>3. CASE IngestCase(w) \/ IngestSave(w) \/ IngestAudit(w) \/ RunStep(w)
    BY <1>1, <2>1, <2>3, ServiceLeaves, LeavesKeeps, IngestSaveOutreach, RunStepOutreach
  <2> QED BY <1>2, <2>2, <2>3 DEF WorkerStep
<1>3. CASE WebhookStep
  <2>1. Webhook \in Thread
    BY DEF Thread
  <2>2. CASE \E e \in wire : WebhookIgnore(e)
    BY <1>1, <2>2, OutsideOutreach DEF WebhookIgnore, ledger, outreach
  <2>3. CASE (\E e \in wire : WebhookAccept(e)) \/ WebhookSaveTx \/ WebhookFindCase
             \/ WebhookAuditFailure \/ WebhookRecord
    BY <1>1, <2>1, <2>3, WebhookLeaves, LeavesKeeps
  <2>4. CASE IngestStep(Webhook) \/ RunStep(Webhook) \/ MarkStep(Webhook)
    BY <1>1, <2>1, <2>4, ServiceLeaves, LeavesKeeps, IngestSaveOutreach, RunStepOutreach,
       ReadOutreach, MarkSaveOutreach DEF IngestStep, MarkStep
  <2> QED BY <1>3, <2>2, <2>3, <2>4 DEF WebhookStep, WebhookHandle
<1>4. CASE Environment
  <2>1. UNCHANGED <<th, cases, executed, audits>>
    BY <1>4 DEF Environment, GatewayStep, AttemptFails, CustomerPays, LinkExpires, Redeliver,
                ledger, outreach
  <2> QED BY <1>1, <2>1, OutsideOutreach
<1>5. CASE Fault
  <2>1. Webhook \in Thread /\ Workers \subseteq Thread
    BY DEF Thread
  <2>2. ASSUME NEW t \in Thread, CallFails(t) PROVE OutreachInv'
    BY <1>1, <2>2, FailureLeaves, LeavesKeeps
  <2>3. ASSUME NEW w \in Workers, CreateLinkFails(w) PROVE OutreachInv'
    BY <1>1, <2>1, <2>3, RequestLeaves, LeavesKeeps
  <2>4. CASE RecordFails
    BY <1>1, <2>1, <2>4, WebhookLeaves, LeavesKeeps
  <2> QED BY <1>1, <1>5, <2>2, <2>3, <2>4, RestartOutreach DEF Fault
<1>6. CASE UNCHANGED vars
  BY <1>1, <1>6, OutsideOutreach DEF vars, ledger, outreach
<1> QED BY <1>2, <1>3, <1>4, <1>5, <1>6 DEF Next

LEMMA OutreachInit == Init => OutreachInv
<1> SUFFICES ASSUME Init PROVE OutreachInv
  OBVIOUS
<1>1. Stored = {} /\ \A t \in Thread : th[t].pc = "idle"
  BY DEF Init, StoreInit, Stored, Idle
<1>2. \A c \in CaseId : executed[c] = 0 /\ audits[c]["ELIGIBILITY_CHECKED"] = 0 /\ Cleared(c) = {}
  BY <1>1 DEF Init, StoreInit, Cleared, AuditEventType
<1>3. ChecksCover
  BY <1>2, FS_EmptySet DEF ChecksCover
<1> QED BY <1>1, <1>3 DEF OutreachInv, Reached, SnapPC, MonitoringImpliesOutreach

LEMMA OutreachInductive == Spec => []OutreachInv
BY OutreachInit, OutreachNext, TypeCorrect, PTL DEF Spec

\* However many runs of a case overlap, and whatever stale copies they save over
\* one another, a stored case is MONITORING only after an action was executed.
THEOREM MonitoringSafe == Spec => []MonitoringImpliesOutreach
<1>1. OutreachInv => MonitoringImpliesOutreach
  BY DEF OutreachInv
<1> QED BY <1>1, OutreachInductive, PTL

\* Any number of workers acting on one case never leave more actions than
\* ELIGIBILITY_CHECKED records, also when calls of the store fail in between.
THEOREM OutreachAudited == Spec => []OutreachIsAudited
<1>1. TypeInv /\ OutreachInv => OutreachIsAudited
  <2> SUFFICES ASSUME TypeInv, OutreachInv, NEW c \in CaseId
               PROVE  executed[c] <= audits[c]["ELIGIBILITY_CHECKED"]
    BY DEF OutreachIsAudited
  <2>1. Cardinality(Cleared(c)) \in Nat
    BY ClearedFinite DEF Cleared
  <2>2. executed[c] \in Nat /\ audits[c]["ELIGIBILITY_CHECKED"] \in Nat
    BY DEF TypeInv, StoreTypeOK, AuditEventType
  <2> QED BY <2>1, <2>2 DEF OutreachInv, ChecksCover
<1> QED BY <1>1, OutreachInductive, TypeCorrect, PTL

-----------------------------------------------------------------------------
(* What the merchant is told was recovered *)

\* The three fields that say a case was recovered say the same.
Truthful(v) ==
  /\ v.status = "recovered" <=> v.outcome = "recovered"
  /\ v.status = "recovered" <=> v.amount_recovered = 1

\* So do a thread's copies; a run acts on no RECOVERED one.
Told(t) ==
  /\ th[t].pc \in SnapPC => Truthful(th[t].snap)
  /\ th[t].pc \in {"run_execute", "run_send", "run_delivery"} => th[t].snap.status # "recovered"

FiguresInv ==
  /\ IsFiniteSet(Stored)
  /\ \A c \in Stored : Truthful(cases[c])
  /\ \A t \in Thread : Told(t)

\* No case is written.
LEMMA FiguresFrame ==
  ASSUME FiguresInv, NEW t \in Thread, OnlyMoves(t), UNCHANGED cases, Told(t)'
  PROVE  FiguresInv'
<1>1. \A u \in Thread : Told(u)'
  BY DEF FiguresInv, OnlyMoves, Told
<1>2. Stored' = Stored
  BY DEF Stored
<1> QED BY <1>1, <1>2 DEF FiguresInv

LEMMA LeavesFigures ==
  ASSUME FiguresInv, NEW t \in Thread, Leaves(t) PROVE FiguresInv'
BY FiguresFrame DEF Leaves, Told, SnapPC

\* One case is written, truthfully.
LEMMA WriteFigures ==
  ASSUME TypeInv, FiguresInv, NEW t \in Thread, OnlyMoves(t), th'[t].pc \notin SnapPC,
         NEW c \in CaseId, NEW v \in Case, cases' = [cases EXCEPT ![c] = v], Truthful(v)
  PROVE  FiguresInv'
<1>1. \A u \in Thread : Told(u)'
  BY DEF FiguresInv, OnlyMoves, Told, SnapPC
<1>2. \A d \in CaseId : cases'[d] = IF d = c THEN v ELSE cases[d]
  BY DEF TypeInv, StoreTypeOK
<1>3. Stored' = Stored \cup {c}
  BY <1>2, ConstantsAssumption DEF Stored
<1>4. IsFiniteSet(Stored')
  BY <1>3, FS_AddElement DEF FiguresInv
<1>5. \A d \in Stored' : Truthful(cases'[d])
  BY <1>2, <1>3 DEF FiguresInv, Stored
<1> QED BY <1>1, <1>4, <1>5 DEF FiguresInv, Truthful

LEMMA SaveFigures ==
  ASSUME TypeInv, FiguresInv, NEW t \in Thread, IngestSave(t) \/ RunSave(t) \/ MarkSave(t)
  PROVE  FiguresInv'
<1>0. th \in [Thread -> ThreadState] /\ th[t] \in ThreadState
  BY DEF TypeInv, StoreTypeOK
<1>1. CASE IngestSave(t)
  <2>1. PICK c \in CaseId : /\ cases' = [cases EXCEPT ![c] = NewCase(th[t].tx)]
                            /\ th' = [th EXCEPT ![t].pc = "ingest_audit", ![t].case = c]
    BY <1>1 DEF IngestSave
  <2>2. OnlyMoves(t) /\ th'[t].pc \notin SnapPC
    BY <1>0, <2>1 DEF OnlyMoves, SnapPC, ThreadState
  <2>3. NewCase(th[t].tx) \in Case /\ Truthful(NewCase(th[t].tx))
    BY <1>1, ThreadType, NewCaseType DEF IngestSave, At, Held, TxPC, Truthful, NewCase
  <2> QED BY <2>1, <2>2, <2>3, WriteFigures
<1>2. CASE RunSave(t)
  <2>1. th[t].pc = "run_save" /\ th[t].case \in CaseId /\ th[t].snap \in Case
    BY <1>2, CaseKnown, SnapKnown DEF RunSave, At, CasePC, SnapPC, RunPC
  <2>2. Truthful(th[t].snap)
    BY <2>1 DEF FiguresInv, Told, SnapPC
  <2>3. OnlyMoves(t) /\ th'[t].pc \notin SnapPC
    BY <1>0, <1>2 DEF RunSave, OnlyMoves, SnapPC, ThreadState
  <2> QED BY <1>2, <2>1, <2>2, <2>3, WriteFigures DEF RunSave
<1>3. CASE MarkSave(t)
  <2>1. th[t].case \in CaseId /\ th[t].snap \in Case
    BY <1>3, CaseKnown, SnapKnown DEF MarkSave, At, CasePC, SnapPC
  <2>2. Recovered(th[t].snap) \in Case /\ Truthful(Recovered(th[t].snap))
    BY <2>1, RecoveredType DEF Recovered, Case, Truthful
  <2>3. OnlyMoves(t) /\ th'[t].pc \notin SnapPC
    BY <1>0, <1>3 DEF MarkSave, OnlyMoves, SnapPC, ThreadState
  <2> QED BY <1>3, <2>1, <2>2, <2>3, WriteFigures DEF MarkSave
<1> QED BY <1>1, <1>2, <1>3

LEMMA ReadFigures ==
  ASSUME TypeInv, FiguresInv, NEW t \in Thread, RunCase(t) \/ MarkRead(t) \/ RunContext(t)
  PROVE  FiguresInv'
<1>0. th \in [Thread -> ThreadState] /\ th[t] \in ThreadState /\ UNCHANGED <<cases, executed>>
  BY DEF TypeInv, StoreTypeOK, RunCase, MarkRead, RunContext, outreach
<1>1. CASE RunCase(t) \/ MarkRead(t)
  <2>1. th[t].case \in CaseId /\ cases[th[t].case] \in Case
    BY <1>1, CaseKnown DEF RunCase, MarkRead, At, CasePC, RunPC
  <2>2. OnlyMoves(t) /\ th'[t].pc \in {"run_context", "mark_save"}
        /\ th'[t].snap = cases[th[t].case]
    BY <1>0, <1>1 DEF RunCase, MarkRead, OnlyMoves, ThreadState
  <2>3. Truthful(cases[th[t].case])
    BY <2>1, ConstantsAssumption DEF FiguresInv, Stored
  <2> QED BY <1>0, <2>2, <2>3, FiguresFrame DEF Told
<1>2. CASE RunContext(t)
  <2>1. CASE EndRun(t)
    BY <1>0, <2>1, EndsWithoutSnapshot, LeavesFigures DEF Leaves
  <2>2. CASE ~EndRun(t)
    <3>1. OnlyMoves(t) /\ th[t].pc = "run_context" /\ th'[t].pc = "run_decide"
          /\ th'[t].snap = th[t].snap
      BY <1>0, <1>2, <2>2 DEF RunContext, At, OnlyMoves, ThreadState
    <3> QED BY <1>0, <3>1, FiguresFrame DEF FiguresInv, Told, SnapPC
  <2> QED BY <2>1, <2>2
<1> QED BY <1>1, <1>2

\* Only a DETECTED copy is decided, so none that says anything was recovered.
LEMMA DecideFigures ==
  ASSUME TypeInv, FiguresInv, NEW t \in Thread, RunDecide(t) PROVE FiguresInv'
<1>0. /\ th \in [Thread -> ThreadState] /\ th[t] \in ThreadState /\ th[t].pc = "run_decide"
      /\ th[t].snap \in Case /\ UNCHANGED <<cases, executed>>
  BY SnapKnown DEF TypeInv, StoreTypeOK, RunDecide, At, SnapPC, outreach
<1>1. CASE EndRun(t)
  BY <1>0, <1>1, EndsWithoutSnapshot, LeavesFigures DEF Leaves
<1>2. CASE ~EndRun(t)
  <2>1. PICK d \in {"stop", "escalate", "recover"} :
          IF d = "recover"
          THEN \E a \in OutreachAction :
                 th' = [th EXCEPT ![t].pc = "run_execute", ![t].action = a,
                                  ![t].snap = Decided(@, d)]
          ELSE th' = [th EXCEPT ![t].pc = "run_save", ![t].snap = Decided(@, d)]
    BY <1>2 DEF RunDecide, PossibleDecisions
  <2>2. OnlyMoves(t) /\ th'[t].snap = Decided(th[t].snap, d)
    <3>1. CASE d = "recover"
      <4>1. PICK a \in OutreachAction :
              th' = [th EXCEPT ![t].pc = "run_execute", ![t].action = a,
                               ![t].snap = Decided(@, d)]
        BY <2>1, <3>1
      <4> QED BY <1>0, <4>1 DEF OnlyMoves, ThreadState
    <3>2. CASE d # "recover"
      BY <1>0, <2>1, <3>2 DEF OnlyMoves, ThreadState
    <3> QED BY <3>1, <3>2
  <2>3. th[t].snap.status # "recovered"
    BY <1>0, <1>2 DEF RunDecide, GraphAccepts, CanTransition, Allowed, TerminalStatus,
                      RecoveryStatus, Case
  <2>4. th[t].snap.outcome # "recovered" /\ th[t].snap.amount_recovered # 1
    BY <1>0, <2>3 DEF FiguresInv, Told, Truthful, SnapPC
  <2>5. LET v == Decided(th[t].snap, d)
        IN /\ v.status # "recovered" /\ v.outcome = th[t].snap.outcome
           /\ v.amount_recovered = th[t].snap.amount_recovered
    BY <1>0 DEF Decided, GraphEnd, Case
  <2>6. Told(t)'
    BY <2>2, <2>4, <2>5 DEF Told, Truthful
  <2> QED BY <1>0, <2>2, <2>6, FiguresFrame
<1> QED BY <1>1, <1>2

\* An action says nothing of what it will bring in.
LEMMA ActFigures ==
  ASSUME TypeInv, FiguresInv, NEW t \in Thread,
         ExecuteRetry(t) \/ ExecuteLink(t) \/ ExecuteSend(t) \/ ExecuteDelivery(t)
  PROVE  FiguresInv'
<1>0. /\ th \in [Thread -> ThreadState] /\ th[t] \in ThreadState
      /\ th[t].pc \in {"run_execute", "run_send", "run_delivery"}
      /\ UNCHANGED cases
  BY DEF TypeInv, StoreTypeOK, ExecuteRetry, ExecuteLink, ExecuteSend, ExecuteDelivery, At
<1>1. th[t].snap \in Case /\ Truthful(th[t].snap) /\ th[t].snap.status # "recovered"
  BY <1>0, SnapKnown DEF FiguresInv, Told, SnapPC
<1>2. OnlyMoves(t) /\ \/ th'[t].snap = th[t].snap
                      \/ th'[t].pc = "run_save" /\ th'[t].snap = Monitored(th[t].snap)
  BY <1>0 DEF ExecuteRetry, ExecuteLink, ExecuteSend, ExecuteDelivery, Go, OnlyMoves, ThreadState
<1>3. LET v == Monitored(th[t].snap)
      IN /\ v.status # "recovered" /\ v.outcome = th[t].snap.outcome
         /\ v.amount_recovered = th[t].snap.amount_recovered
  BY <1>1 DEF Monitored, Case
<1>4. Told(t)'
  BY <1>1, <1>2, <1>3 DEF Told, Truthful
<1> QED BY <1>0, <1>2, <1>4, FiguresFrame

LEMMA RunStepFigures ==
  ASSUME TypeInv, FiguresInv, NEW t \in Thread, RunStep(t) PROVE FiguresInv'
BY ReadFigures, DecideFigures, ActFigures, SaveFigures, ServiceLeaves, LeavesFigures DEF RunStep

LEMMA FiguresNext == TypeInv /\ FiguresInv /\ [Next]_vars => FiguresInv'
<1> SUFFICES ASSUME TypeInv, FiguresInv, [Next]_vars PROVE FiguresInv'
  OBVIOUS
<1>0. Webhook \in Thread /\ Workers \subseteq Thread
  BY DEF Thread
<1>1. ASSUME NEW w \in Workers,
             NewPaymentEvent(w) \/ NewPayment(w) \/ StartRecovery(w) \/ WorkerStep(w)
      PROVE  FiguresInv'
  <2>1. CASE NewPaymentEvent(w) \/ NewPayment(w) \/ StartRecovery(w) \/ CreateLink(w)
    BY <1>0, <2>1, RequestLeaves, LeavesFigures
  <2>2. CASE IngestCase(w) \/ IngestSave(w) \/ IngestAudit(w) \/ RunStep(w)
    BY <1>0, <2>2, ServiceLeaves, LeavesFigures, SaveFigures, RunStepFigures
  <2> QED BY <1>1, <2>1, <2>2 DEF WorkerStep
<1>2. ASSUME UNCHANGED <<th, cases>> PROVE FiguresInv'
  <2>1. Stored' = Stored
    BY <1>2 DEF Stored
  <2> QED BY <1>2, <2>1 DEF FiguresInv, Told
<1>3. CASE WebhookStep
  <2>1. CASE \E e \in wire : WebhookIgnore(e)
    BY <1>2, <2>1 DEF WebhookIgnore
  <2>2. CASE (\E e \in wire : WebhookAccept(e)) \/ WebhookSaveTx \/ WebhookFindCase
             \/ WebhookAuditFailure \/ WebhookRecord
    BY <1>0, <2>2, WebhookLeaves, LeavesFigures
  <2>3. CASE IngestStep(Webhook) \/ RunStep(Webhook) \/ MarkStep(Webhook)
    BY <1>0, <2>3, ServiceLeaves, LeavesFigures, SaveFigures, ReadFigures, RunStepFigures
       DEF IngestStep, MarkStep
  <2> QED BY <1>3, <2>1, <2>2, <2>3 DEF WebhookStep, WebhookHandle
<1>4. CASE Environment \/ UNCHANGED vars
  <2>1. UNCHANGED <<th, cases>>
    BY <1>4 DEF Environment, GatewayStep, AttemptFails, CustomerPays, LinkExpires, Redeliver, vars
  <2> QED BY <1>2, <2>1
<1>5. CASE Fault
  <2>1. CASE Restart
    <3>1. UNCHANGED cases /\ Stored' = Stored /\ \A t \in Thread : th'[t].pc = "idle"
      BY <2>1 DEF Restart, Idle, Stored
    <3> QED BY <3>1 DEF FiguresInv, Told, SnapPC
  <2> QED BY <1>0, <1>5, <2>1, FailureLeaves, RequestLeaves, WebhookLeaves, LeavesFigures DEF Fault
<1> QED BY <1>1, <1>3, <1>4, <1>5 DEF Next

LEMMA FiguresInductive == Spec => []FiguresInv
<1>1. Init => FiguresInv
  <2> SUFFICES ASSUME Init PROVE FiguresInv
    OBVIOUS
  <2>1. Stored = {} /\ \A t \in Thread : th[t].pc = "idle"
    BY DEF Init, StoreInit, Stored, Idle
  <2> QED BY <2>1, FS_EmptySet DEF FiguresInv, Told, SnapPC
<1> QED BY <1>1, FiguresNext, TypeCorrect, PTL DEF Spec

\* Two groups without a common member.
LEMMA DisjointCount ==
  ASSUME NEW S, NEW T, IsFiniteSet(S), IsFiniteSet(T), S \cap T = {}
  PROVE  /\ IsFiniteSet(S \cup T)
         /\ Cardinality(S \cup T) = Cardinality(S) + Cardinality(T)
         /\ Cardinality(S) \in Nat /\ Cardinality(T) \in Nat
BY FS_Union, FS_EmptySet, FS_CardinalityType

\* However runs that read a case earlier save it over a recovery, the summary, the
\* trends, the breakdown and the customers' pages show figures that agree.
THEOREM FiguresAgree == Spec => []DashboardAgrees
<1>1. TypeInv /\ FiguresInv => DashboardAgrees
  <2> SUFFICES ASSUME TypeInv, FiguresInv PROVE DashboardAgrees
    OBVIOUS
  <2> DEFINE R == WithStatus(Stored, "recovered")
             E == WithStatus(Stored, "escalated")
             S == WithStatus(Stored, "stopped")
             A == Active(Stored)
  <2>1. \A c \in Stored : cases[c] \in Case /\ Truthful(cases[c])
    BY DEF TypeInv, StoreTypeOK, Stored, FiguresInv
  <2>2. Successful(Stored) = R /\ {c \in Stored : cases[c].amount_recovered = 1} = R
    BY <2>1 DEF Successful, WithStatus, Truthful
  <2>3. /\ IsFiniteSet(Stored)
        /\ R \subseteq Stored /\ E \subseteq Stored /\ S \subseteq Stored /\ A \subseteq Stored
    BY DEF WithStatus, Active, FiguresInv
  <2>4. IsFiniteSet(R) /\ IsFiniteSet(E) /\ IsFiniteSet(S) /\ IsFiniteSet(A)
    BY <2>3, FS_Subset
  <2>5. /\ R \cap E = {} /\ (R \cup E) \cap S = {} /\ (R \cup E \cup S) \cap A = {}
        /\ S \cap E = {} /\ R \cup E \cup S \cup A = Stored /\ (S \cup E) \ R = S \cup E
    BY DEF WithStatus, Active, TerminalStatus
  <2>6. {c \in A : cases[c].transaction_id \in Tx} = A
    BY <2>1 DEF Active, Case
  <2> HIDE DEF R, E, S, A
  <2>7. /\ Cardinality(R \cup E) = Cardinality(R) + Cardinality(E) /\ IsFiniteSet(R \cup E)
        /\ Cardinality(S \cup E) = Cardinality(S) + Cardinality(E)
        /\ Cardinality(R) \in Nat /\ Cardinality(E) \in Nat /\ Cardinality(S) \in Nat
    BY <2>4, <2>5, DisjointCount
  <2>8. Cardinality(R \cup E \cup S) = Cardinality(R) + Cardinality(E) + Cardinality(S)
        /\ IsFiniteSet(R \cup E \cup S)
    BY <2>4, <2>5, <2>7, DisjointCount
  <2>9. Cardinality(Stored) = Cardinality(R) + Cardinality(E) + Cardinality(S) + Cardinality(A)
        /\ Cardinality(A) \in Nat
    BY <2>4, <2>5, <2>7, <2>8, DisjointCount
  <2>10. /\ Summary(Stored).total_recovery_cases = Cardinality(Stored)
         /\ Summary(Stored).total_recovered_revenue = Cardinality(R)
         /\ Summary(Stored).successful_recoveries = Cardinality(R)
         /\ Summary(Stored).escalated_cases = Cardinality(E)
         /\ Summary(Stored).stopped_cases = Cardinality(S)
         /\ Summary(Stored).active_recovery_cases = Cardinality(A)
    BY <2>2 DEF Summary, E, S, A
  <2>11. /\ Trend(Stored).recovered_count = Cardinality(R)
         /\ Trend(Stored).failed_count = Cardinality(S \cup E)
    BY <2>2, <2>5 DEF Trend, E, S
  <2>12. /\ ByStatus(Stored)["recovered"] = Cardinality(R)
         /\ ByStatus(Stored)["stopped"] = Cardinality(S)
         /\ ByStatus(Stored)["escalated"] = Cardinality(E)
    BY DEF ByStatus, R, E, S, RecoveryStatus
  <2>13. OpenRecoveryCases(Stored, Tx) = Cardinality(A)
    BY <2>6 DEF OpenRecoveryCases, A
  <2> QED BY <2>7, <2>9, <2>10, <2>11, <2>12, <2>13 DEF DashboardAgrees
<1> QED BY <1>1, FiguresInductive, TypeCorrect, PTL

-----------------------------------------------------------------------------
(* Every e-mail has its record, as long as no call fails *)

\* Nothing is sent or recorded, and nobody who sent something is disturbed.
MailStays ==
  /\ UNCHANGED <<emails, deliveries>>
  /\ \A t \in Thread : th[t].pc = "run_delivery" => th'[t] = th[t]

Unrecorded(c) == Running(c, {"run_delivery"})

\* EveryEmailRecorded while nothing failed.
AllRecorded ==
  \A c \in CaseId : emails[c] <= deliveries[c] + Cardinality(Unrecorded(c))

LEMMA MailFrame ==
  ASSUME TypeInv, AllRecorded, MailStays PROVE AllRecorded'
<1> SUFFICES ASSUME NEW c \in CaseId
             PROVE  emails'[c] <= deliveries'[c] + Cardinality(Unrecorded(c)')
  BY DEF AllRecorded, Unrecorded, Running
<1>1. Unrecorded(c) \subseteq Unrecorded(c)' /\ Unrecorded(c)' \subseteq Thread
      /\ Unrecorded(c) \subseteq Thread
  BY DEF Unrecorded, Running, MailStays
<1>2. /\ IsFiniteSet(Unrecorded(c)') /\ Cardinality(Unrecorded(c)') \in Nat
      /\ Cardinality(Unrecorded(c)) \in Nat
  BY <1>1, ClearedFinite
<1>3. Cardinality(Unrecorded(c)) <= Cardinality(Unrecorded(c)')
  BY <1>1, <1>2, FS_Subset
<1>4. emails[c] \in Nat /\ deliveries[c] \in Nat
      /\ emails[c] <= deliveries[c] + Cardinality(Unrecorded(c))
  BY DEF AllRecorded, Unrecorded, TypeInv, StoreTypeOK
<1> QED BY <1>2, <1>3, <1>4 DEF MailStays

\* A step of a request moves the thread that serves it, and no other.
LEMMA StepMoves ==
  ASSUME TypeInv, NEW t \in Thread, IngestStep(t) \/ RunStep(t) \/ (t = Webhook /\ MarkStep(t))
  PROVE  OnlyMoves(t)
<1>0. th \in [Thread -> ThreadState]
  BY DEF TypeInv, StoreTypeOK
<1>1. CASE IngestTx(t) \/ IngestCase(t) \/ IngestAudit(t) \/ RunAction(t) \/ RunAudit(t)
           \/ RunDetail(t) \/ (t = Webhook /\ MarkAudit(t))
  BY <1>1, ServiceLeaves DEF Leaves
<1>2. CASE IngestSave(t) \/ RunCase(t) \/ MarkRead(t) \/ RunSave(t) \/ MarkSave(t)
  BY <1>0, <1>2 DEF IngestSave, RunCase, MarkRead, RunSave, MarkSave, OnlyMoves
<1>3. CASE ExecuteRetry(t) \/ ExecuteLink(t) \/ ExecuteSend(t) \/ ExecuteDelivery(t)
  BY <1>0, <1>3 DEF ExecuteRetry, ExecuteLink, ExecuteSend, ExecuteDelivery, Go, OnlyMoves
<1>4. CASE EndRun(t)
  BY <1>4, EndsWithoutSnapshot
<1>5. CASE RunContext(t) /\ ~EndRun(t)
  BY <1>0, <1>5 DEF RunContext, OnlyMoves
<1>6. CASE RunDecide(t) /\ ~EndRun(t)
  <2>1. PICK d \in PossibleDecisions(th[t].seen) :
          IF d = "recover"
          THEN \E a \in OutreachAction :
                 th' = [th EXCEPT ![t].pc = "run_execute", ![t].action = a,
                                  ![t].snap = Decided(@, d)]
          ELSE th' = [th EXCEPT ![t].pc = "run_save", ![t].snap = Decided(@, d)]
    BY <1>6, Zenon DEF RunDecide
  <2>2. CASE d = "recover"
    BY <1>0, <2>1, <2>2 DEF OnlyMoves
  <2>3. CASE d # "recover"
    BY <1>0, <2>1, <2>3 DEF OnlyMoves
  <2> QED BY <2>2, <2>3
<1> QED BY <1>1, <1>2, <1>3, <1>4, <1>5, <1>6 DEF IngestStep, RunStep, MarkStep

\* The steps of a thread that neither send nor record.
LEMMA MailQuiet ==
  ASSUME TypeInv, NEW t \in Thread,
         \/ IngestStep(t) \/ RunCase(t) \/ RunContext(t) \/ RunDecide(t) \/ ExecuteRetry(t)
         \/ ExecuteLink(t) \/ RunSave(t) \/ RunAction(t) \/ RunAudit(t) \/ RunDetail(t)
         \/ t = Webhook /\ MarkStep(t)
  PROVE  MailStays
<1>1. SUFFICES th[t].pc # "run_delivery" /\ UNCHANGED <<emails, deliveries>>
  BY StepMoves DEF MailStays, OnlyMoves, RunStep
<1>2. CASE IngestStep(t) \/ (t = Webhook /\ MarkStep(t))
  BY <1>2 DEF IngestStep, IngestTx, IngestCase, IngestSave, IngestAudit, MarkStep, MarkRead,
              MarkSave, MarkAudit, At, outreach, ledger
<1>3. CASE RunCase(t) \/ RunContext(t) \/ ExecuteRetry(t) \/ ExecuteLink(t) \/ RunSave(t)
           \/ RunAction(t) \/ RunAudit(t) \/ RunDetail(t)
  BY <1>3 DEF RunCase, RunContext, ExecuteRetry, ExecuteLink, RunSave, RunAction, RunAudit,
              RunDetail, At, outreach, ledger
<1>4. CASE RunDecide(t)
  BY <1>4, Zenon DEF RunDecide, At, outreach, ledger
<1> QED BY <1>2, <1>3, <1>4

\* So do the requests, the deliveries and the world outside.
LEMMA MailRequests ==
  ASSUME TypeInv,
         \/ \E w \in Workers : NewPaymentEvent(w) \/ NewPayment(w) \/ StartRecovery(w)
                               \/ CreateLink(w)
         \/ \E e \in wire : WebhookIgnore(e) \/ WebhookAccept(e)
         \/ WebhookSaveTx \/ WebhookFindCase \/ WebhookAuditFailure \/ WebhookRecord
         \/ Environment \/ UNCHANGED vars
  PROVE  MailStays
<1>1. ASSUME NEW w \in Workers,
             NewPaymentEvent(w) \/ NewPayment(w) \/ StartRecovery(w) \/ CreateLink(w)
      PROVE  MailStays
  <2>1. OnlyMoves(w)
    BY <1>1, RequestLeaves DEF Leaves
  <2>2. th[w].pc \in {"idle", "create_link"} /\ UNCHANGED <<emails, deliveries>>
    <3>1. CASE NewPaymentEvent(w)
      BY <3>1, Zenon DEF NewPaymentEvent, PostPaymentEvent, At, outreach, ledger
    <3>2. CASE NewPayment(w) \/ StartRecovery(w) \/ CreateLink(w)
      BY <3>2 DEF NewPayment, CreatePayment, StartRecovery, PostRecovery, CreateLink, At, outreach,
                  ledger
    <3> QED BY <1>1, <3>1, <3>2
  <2> QED BY <2>1, <2>2 DEF MailStays, OnlyMoves
<1>2. CASE (\E e \in wire : WebhookAccept(e)) \/ WebhookSaveTx \/ WebhookFindCase
           \/ WebhookAuditFailure \/ WebhookRecord
  <2>1. OnlyMoves(Webhook)
    BY <1>2, WebhookLeaves DEF Leaves
  <2>2. th[Webhook].pc # "run_delivery" /\ UNCHANGED <<emails, deliveries>>
    BY <1>2, Zenon DEF WebhookAccept, WebhookSaveTx, WebhookFindCase, WebhookAuditFailure,
                       WebhookRecord, At, outreach, ledger
  <2> QED BY <2>1, <2>2 DEF MailStays, OnlyMoves
<1>3. CASE (\E e \in wire : WebhookIgnore(e)) \/ Environment \/ UNCHANGED vars
  <2>1. UNCHANGED <<th, emails, deliveries>>
    BY <1>3 DEF WebhookIgnore, Environment, GatewayStep, AttemptFails, CustomerPays, LinkExpires,
                Redeliver, vars, outreach, ledger
  <2> QED BY <2>1 DEF MailStays
<1> QED BY <1>1, <1>2, <1>3

\* An accepted e-mail makes a thread owe a record; writing it settles the debt.
LEMMA MailSent ==
  ASSUME TypeInv, AllRecorded, NEW t \in Thread, ExecuteSend(t) \/ ExecuteDelivery(t)
  PROVE  AllRecorded'
<1>0. /\ th \in [Thread -> ThreadState] /\ th[t] \in ThreadState /\ th[t].case \in CaseId
      /\ emails \in [CaseId -> Nat] /\ deliveries \in [CaseId -> Nat]
  BY CaseKnown DEF TypeInv, StoreTypeOK, ExecuteSend, ExecuteDelivery, At, CasePC, RunPC
<1> PICK c \in CaseId : c = th[t].case
  BY <1>0
<1>1. \A d \in CaseId : /\ IsFiniteSet(Unrecorded(d)) /\ Cardinality(Unrecorded(d)) \in Nat
                        /\ emails[d] <= deliveries[d] + Cardinality(Unrecorded(d))
  BY ClearedFinite DEF AllRecorded, Unrecorded, Running
<1>2. SUFFICES \A d \in CaseId : emails'[d] <= deliveries'[d] + Cardinality(Unrecorded(d)')
  BY DEF AllRecorded, Unrecorded
<1>3. CASE ExecuteSend(t)
  <2>1. /\ th[t].pc = "run_send" /\ OnlyMoves(t)
        /\ th'[t].pc = "run_delivery" /\ th'[t].case = c
    BY <1>0, <1>3 DEF ExecuteSend, At, Go, OnlyMoves, ThreadState
  <2>2. /\ Unrecorded(c)' = Unrecorded(c) \cup {t} /\ t \notin Unrecorded(c)
        /\ \A d \in CaseId \ {c} : Unrecorded(d)' = Unrecorded(d)
    BY <2>1 DEF Unrecorded, Running, OnlyMoves
  <2>3. Cardinality(Unrecorded(c)') = Cardinality(Unrecorded(c)) + 1
    BY <1>1, <2>2, FS_AddElement
  <2>4. /\ deliveries' = deliveries
        /\ \A d \in CaseId : emails'[d] \in {emails[d], IF d = c THEN emails[d] + 1 ELSE emails[d]}
    BY <1>0, <1>3 DEF ExecuteSend, ledger
  <2>5. emails'[c] <= deliveries'[c] + Cardinality(Unrecorded(c)')
    BY <1>0, <1>1, <2>3, <2>4
  <2>6. \A d \in CaseId \ {c} : emails'[d] <= deliveries'[d] + Cardinality(Unrecorded(d)')
    BY <1>1, <2>2, <2>4
  <2> QED BY <2>5, <2>6
<1>4. CASE ExecuteDelivery(t)
  <2>1. th[t].pc = "run_delivery" /\ OnlyMoves(t) /\ th'[t].pc = "run_save"
    BY <1>0, <1>4 DEF ExecuteDelivery, At, OnlyMoves, ThreadState
  <2>2. /\ Unrecorded(c)' = Unrecorded(c) \ {t} /\ t \in Unrecorded(c)
        /\ \A d \in CaseId \ {c} : Unrecorded(d)' = Unrecorded(d)
    BY <2>1 DEF Unrecorded, Running, OnlyMoves
  <2>3. Cardinality(Unrecorded(c)') = Cardinality(Unrecorded(c)) - 1
    BY <1>1, <2>2, FS_RemoveElement
  <2>4. /\ emails' = emails
        /\ \A d \in CaseId : deliveries'[d] = IF d = c THEN deliveries[d] + 1 ELSE deliveries[d]
    BY <1>0, <1>4 DEF ExecuteDelivery, outreach
  <2>5. emails'[c] <= deliveries'[c] + Cardinality(Unrecorded(c)')
    BY <1>0, <1>1, <2>3, <2>4
  <2>6. \A d \in CaseId \ {c} : emails'[d] <= deliveries'[d] + Cardinality(Unrecorded(d)')
    BY <1>1, <2>2, <2>4
  <2> QED BY <2>5, <2>6
<1> QED BY <1>3, <1>4

LEMMA MailNext ==
  TypeInv /\ AllRecorded /\ [Next]_vars /\ ~Fault => AllRecorded'
<1> SUFFICES ASSUME TypeInv, AllRecorded, [Next]_vars, ~Fault PROVE AllRecorded'
  OBVIOUS
<1>2. ASSUME NEW t \in Thread, IngestStep(t) \/ RunStep(t) \/ (t = Webhook /\ MarkStep(t))
      PROVE  AllRecorded'
  BY <1>2, MailQuiet, MailSent, MailFrame DEF RunStep
<1>3. CASE \E w \in Workers : WorkerStep(w)
  BY <1>2, <1>3, MailRequests, MailFrame DEF WorkerStep, IngestStep, Thread
<1>4. CASE WebhookStep
  BY <1>2, <1>4, MailRequests, MailFrame DEF WebhookStep, WebhookHandle, Thread
<1> QED BY <1>3, <1>4, MailRequests, MailFrame DEF Next

\* No step takes a fault back.
LEMMA FaultsStay ==
  TypeInv /\ Budget /\ [Next]_vars /\ faults' = 0 => faults = 0 /\ ~Fault
<1> SUFFICES ASSUME Budget, [Next]_vars, faults' = 0 PROVE faults = 0 /\ ~Fault
  OBVIOUS
<1>1. faults \in Nat
  BY BoundsAssumption DEF Budget
<1>2. ~Fault
  BY <1>1 DEF Fault
<1>3. faults' = faults
  BY <1>2 DEF Next, NewPaymentEvent, NewPayment, StartRecovery, WorkerStep, WebhookStep,
              Environment, vars, budget
<1> QED BY <1>2, <1>3

\* As long as no call has failed, however many runs of a case overlap: an e-mail is
\* on record, or is being recorded.
THEOREM EmailsRecorded == Spec => []EveryEmailRecorded
<1>1. Init => EveryEmailRecorded
  <2> SUFFICES ASSUME Init, NEW c \in CaseId
               PROVE  emails[c] <= deliveries[c] + Cardinality(Running(c, {"run_delivery"}))
    BY DEF EveryEmailRecorded
  <2>1. Cardinality(Running(c, {"run_delivery"})) \in Nat
    BY ClearedFinite DEF Running
  <2> QED BY <2>1 DEF Init, StoreInit
<1>2. Init => Budget
  BY BoundsAssumption DEF Init, Budget
<1>3. EveryEmailRecorded <=> (faults = 0 => AllRecorded)
  BY DEF EveryEmailRecorded, AllRecorded, Unrecorded
<1>4. TypeInv /\ Budget /\ EveryEmailRecorded /\ [Next]_vars => EveryEmailRecorded'
  <2>1. EveryEmailRecorded' <=> (faults' = 0 => AllRecorded')
    BY DEF EveryEmailRecorded, AllRecorded, Unrecorded
  <2> QED BY <1>3, <2>1, MailNext, FaultsStay
<1> QED BY <1>1, <1>2, <1>4, BudgetKept, TypeCorrect, PTL DEF Spec
-----------------------------------------------------------------------------
(* Nobody is contacted without a request or a failed payment *)

\* Where a thread in state r still is to act on its case: in a run, before its
\* action, or, on the webhook, with the case just opened.
WaitPC == {"run_case", "run_context", "run_decide", "run_execute"}

MayAct(t, r) ==
  \/ r.pc \in WaitPC
  \/ t = Webhook /\ r.pc = "ingest_audit"

Chances(c) == {t \in Thread : th[t].case = c /\ MayAct(t, th[t])}

\* The actions executed and those still to come are covered by the requests and
\* the one run the webhook makes of the case it opens.
RequestsCover ==
  \A c \in CaseId :
    /\ cases[c] = None => executed[c] = 0
    /\ executed[c] + Cardinality(Chances(c)) <= 1 + runs

\* Where the thread t may act afterwards it might have acted before.
Waits(t) ==
  /\ OnlyMoves(t)
  /\ MayAct(t, th'[t]) => MayAct(t, th[t]) /\ th'[t].case = th[t].case

\* A case that has no record yet had none before.
CasesRemain == \A c \in CaseId : cases'[c] = None => cases[c] = None

LEMMA ChancesNumber ==
  ASSUME NEW c
  PROVE  /\ IsFiniteSet(Chances(c)) /\ Cardinality(Chances(c)) \in Nat
         /\ IsFiniteSet(Chances(c)') /\ Cardinality(Chances(c)') \in Nat
BY ClearedFinite DEF Chances

\* A step after which no thread may act that might not.
LEMMA RequestsFrame ==
  ASSUME TypeInv, RequestsCover, Budget, CasesRemain, UNCHANGED executed,
         runs' \in {runs, runs + 1}, \A c \in CaseId : Chances(c)' \subseteq Chances(c)
  PROVE  RequestsCover'
<1> SUFFICES ASSUME NEW c \in CaseId
             PROVE  /\ cases'[c] = None => executed'[c] = 0
                    /\ executed'[c] + Cardinality(Chances(c)') <= 1 + runs'
  BY DEF RequestsCover
<1>1. Cardinality(Chances(c)') <= Cardinality(Chances(c))
  BY ChancesNumber, FS_Subset
<1>2. /\ executed[c] \in Nat /\ runs \in Nat
      /\ executed[c] + Cardinality(Chances(c)) <= 1 + runs
  BY BoundsAssumption DEF RequestsCover, TypeInv, StoreTypeOK, Budget
<1>3. executed'[c] + Cardinality(Chances(c)') <= 1 + runs'
  BY <1>1, <1>2, ChancesNumber
<1> QED BY <1>3 DEF RequestsCover, CasesRemain

LEMMA WaitsKeeps ==
  ASSUME TypeInv, RequestsCover, Budget, NEW t \in Thread, Waits(t), CasesRemain,
         UNCHANGED <<executed, runs>>
  PROVE  RequestsCover'
<1>1. \A c \in CaseId : Chances(c)' \subseteq Chances(c)
  BY DEF Waits, Chances, OnlyMoves
<1> QED BY <1>1, RequestsFrame

\* A thread that has its result is not to act.
LEMMA EndsWaiting ==
  ASSUME TypeInv, NEW t \in Thread,
         \/ th' = [th EXCEPT ![t] = Idle]
         \/ t = Webhook /\ GoRecord(t)
         \/ EndRun(t)
  PROVE  Waits(t)
<1>1. OnlyMoves(t)
  BY EndsWithoutSnapshot
<1>2. th'[t] = Idle \/ th'[t] = [Idle EXCEPT !.pc = "hook_record", !.event = th[t].event]
  BY DEF EndRun, GoRecord, TypeInv, StoreTypeOK
<1>3. CASE th'[t] = Idle
  BY <1>1, <1>3 DEF Waits, MayAct, WaitPC, Idle
<1>4. CASE th'[t] # Idle
  <2>1. th'[t].pc = "hook_record"
    BY <1>2, <1>4 DEF Idle
  <2> QED BY <1>1, <2>1 DEF Waits, MayAct, WaitPC
<1> QED BY <1>3, <1>4

\* The transaction the handler opens a case for has none.
LEMMA HandlerFindsNone ==
  ASSUME TypeInv, OwnInv, IngestCase(Webhook) PROVE Go(Webhook, "ingest_save")
<1>1. NoCase(th[Webhook].tx)
  BY DEF OwnInv, OwnersExclude, IngestCase, At, OwnPC, Thread
<1>2. CasesOf(th[Webhook].tx) = {}
  BY <1>1 DEF NoCase, CasesOf, Stored, TxOf
<1> QED BY <1>2 DEF IngestCase

\* The steps of the service, but the opening of a case and the action itself.
LEMMA ServiceWaits ==
  ASSUME TypeInv, OwnInv, NEW t \in Thread,
         \/ IngestTx(t) \/ IngestCase(t) \/ IngestAudit(t) \/ RunCase(t) \/ RunContext(t)
         \/ RunDecide(t) \/ ExecuteSend(t) \/ ExecuteDelivery(t) \/ RunSave(t) \/ RunAction(t)
         \/ RunAudit(t) \/ RunDetail(t)
         \/ t = Webhook /\ MarkStep(t)
  PROVE  Waits(t)
<1>0. th \in [Thread -> ThreadState] /\ th[t] \in ThreadState
  BY DEF TypeInv, StoreTypeOK
<1>1. OnlyMoves(t)
  BY StepMoves DEF IngestStep, RunStep
<1>2. CASE EndRun(t)
  BY <1>2, EndsWaiting
<1>3. CASE IngestTx(t)
  BY <1>0, <1>1, <1>3 DEF IngestTx, Go, ThreadState, Waits, MayAct, WaitPC
<1>4. CASE IngestCase(t)
  <2>1. CASE Go(t, "ingest_save")
    BY <1>0, <1>1, <2>1 DEF Go, ThreadState, Waits, MayAct, WaitPC
  <2>2. CASE ~Go(t, "ingest_save")
    <3>1. t # Webhook
      BY <1>4, <2>2, HandlerFindsNone
    <3>2. th' = [th EXCEPT ![t] = Idle]
      BY <1>4, <2>2, <3>1 DEF IngestCase, EndIngest
    <3> QED BY <3>2, EndsWaiting
  <2> QED BY <2>1, <2>2
<1>5. CASE IngestAudit(t)
  <2>1. CASE t = Webhook
    <3>1. th' = [th EXCEPT ![t] = [th[t] EXCEPT !.pc = "run_case", !.case = th[t].case]]
      BY <1>5, <2>1 DEF IngestAudit, EndIngest
    <3>2. th[t].pc = "ingest_audit" /\ th'[t].case = th[t].case
      BY <1>0, <1>5, <3>1 DEF IngestAudit, At, ThreadState
    <3> QED BY <1>1, <2>1, <3>2 DEF Waits, MayAct
  <2>2. CASE t # Webhook
    BY <1>5, <2>2, EndsWaiting DEF IngestAudit, EndIngest
  <2> QED BY <2>1, <2>2
<1>6. CASE RunCase(t) \/ (RunContext(t) /\ ~EndRun(t))
  <2>1. th[t].pc \in WaitPC /\ th'[t].case = th[t].case
    BY <1>0, <1>6 DEF RunCase, RunContext, At, ThreadState, WaitPC
  <2> QED BY <1>1, <2>1 DEF Waits, MayAct
<1>7. CASE RunDecide(t) /\ ~EndRun(t)
  <2>1. PICK d \in PossibleDecisions(th[t].seen) :
          IF d = "recover"
          THEN \E a \in OutreachAction :
                 th' = [th EXCEPT ![t].pc = "run_execute", ![t].action = a,
                                  ![t].snap = Decided(@, d)]
          ELSE th' = [th EXCEPT ![t].pc = "run_save", ![t].snap = Decided(@, d)]
    BY <1>7, Zenon DEF RunDecide
  <2>2. th'[t].case = th[t].case
    <3> DEFINE s == Decided(th[t].snap, d)
    <3>1. CASE d = "recover"
      <4>1. PICK a \in OutreachAction :
              th' = [th EXCEPT ![t].pc = "run_execute", ![t].action = a, ![t].snap = s]
        BY <2>1, <3>1
      <4> HIDE DEF s
      <4>2. th'[t] = [th[t] EXCEPT !.pc = "run_execute", !.action = a, !.snap = s]
        BY <1>0, <4>1
      <4> QED BY <1>0, <4>2 DEF ThreadState
    <3>2. CASE d # "recover"
      <4>1. th' = [th EXCEPT ![t].pc = "run_save", ![t].snap = s]
        BY <2>1, <3>2
      <4> HIDE DEF s
      <4>2. th'[t] = [th[t] EXCEPT !.pc = "run_save", !.snap = s]
        BY <1>0, <4>1
      <4> QED BY <1>0, <4>2 DEF ThreadState
    <3> QED BY <3>1, <3>2
  <2>3. th[t].pc \in WaitPC
    BY <1>7, Zenon DEF RunDecide, At, WaitPC
  <2> QED BY <1>1, <2>2, <2>3 DEF Waits, MayAct
<1>8. CASE ExecuteSend(t) \/ ExecuteDelivery(t) \/ RunSave(t) \/ RunAction(t) \/ RunAudit(t)
  <2>1. th'[t].pc \in {"run_delivery", "run_save", "run_action", "run_audit", "run_detail"}
    BY <1>0, <1>8 DEF ExecuteSend, ExecuteDelivery, RunSave, RunAction, RunAudit, Go, ThreadState
  <2> QED BY <1>1, <2>1 DEF Waits, MayAct, WaitPC
<1>9. CASE RunDetail(t)
  BY <1>2, <1>9 DEF RunDetail
<1>10. CASE t = Webhook /\ MarkStep(t)
  <2>1. CASE MarkAudit(t)
    BY <1>10, <2>1, EndsWaiting DEF MarkAudit
  <2>2. CASE MarkRead(t) \/ MarkSave(t)
    <3>1. th'[t].pc \in {"mark_save", "mark_audit"}
      BY <1>0, <2>2 DEF MarkRead, MarkSave, ThreadState
    <3> QED BY <1>1, <3>1 DEF Waits, MayAct, WaitPC
  <2> QED BY <1>10, <2>1, <2>2 DEF MarkStep
<1> QED BY <1>2, <1>3, <1>4, <1>5, <1>6, <1>7, <1>8, <1>9, <1>10

\* The steps of the handler before and after, and of creating a payment.
LEMMA HandlerWaits ==
  ASSUME TypeInv,
         \/ \E e \in wire : WebhookAccept(e)
         \/ WebhookSaveTx \/ WebhookFindCase \/ WebhookAuditFailure \/ WebhookRecord \/ RecordFails
  PROVE  Waits(Webhook)
<1>0. Webhook \in Thread /\ th \in [Thread -> ThreadState] /\ th[Webhook] \in ThreadState
  BY DEF TypeInv, StoreTypeOK, Thread
<1>1. OnlyMoves(Webhook)
  BY WebhookLeaves DEF Leaves
<1>2. CASE (\E e \in wire : WebhookAccept(e)) \/ WebhookSaveTx
  <2>1. th'[Webhook].pc \in {"hook_tx", "hook_case"}
    <3>1. ASSUME NEW e \in wire, WebhookAccept(e) PROVE th'[Webhook].pc = "hook_tx"
      BY <1>0, <3>1 DEF WebhookAccept, ThreadState
    <3>2. ASSUME WebhookSaveTx PROVE th'[Webhook].pc = "hook_case"
      BY <1>0, <3>2 DEF WebhookSaveTx, Go, ThreadState
    <3> QED BY <1>2, <3>1, <3>2
  <2> QED BY <1>1, <2>1 DEF Waits, MayAct, WaitPC
<1>3. CASE WebhookFindCase
  <2>1. PICK c \in Lookup(th[Webhook].tx) :
          LET next == AfterLookup(Handling, c)
          IN IF next = "hook_record"
             THEN GoRecord(Webhook)
             ELSE th' = [th EXCEPT ![Webhook].pc = next, ![Webhook].case = c]
    BY <1>3 DEF WebhookFindCase
  <2>2. CASE AfterLookup(Handling, c) = "hook_record"
    BY <1>0, <2>1, <2>2, EndsWaiting
  <2>3. CASE AfterLookup(Handling, c) # "hook_record"
    <3>1. AfterLookup(Handling, c) \in {"mark_read", "ingest_tx", "hook_audit"}
      BY <2>3 DEF AfterLookup
    <3>2. th'[Webhook].pc = AfterLookup(Handling, c)
      BY <1>0, <2>1, <2>3 DEF ThreadState
    <3> QED BY <1>1, <3>1, <3>2 DEF Waits, MayAct, WaitPC
  <2> QED BY <2>2, <2>3
<1>4. CASE WebhookAuditFailure \/ WebhookRecord \/ RecordFails
  BY <1>0, <1>4, EndsWaiting DEF WebhookAuditFailure, WebhookRecord, RecordFails
<1> QED BY <1>1, <1>2, <1>3, <1>4

LEMMA PaymentWaits ==
  ASSUME TypeInv, NEW w \in Workers,
         NewPaymentEvent(w) \/ NewPayment(w) \/ CreateLink(w) \/ CreateLinkFails(w)
  PROVE  Waits(w)
<1>0. /\ w \in Thread /\ w # Webhook /\ th \in [Thread -> ThreadState] /\ th[w] \in ThreadState
  BY ConstantsAssumption DEF TypeInv, StoreTypeOK, Thread
<1>1. OnlyMoves(w)
  BY RequestLeaves DEF Leaves
<1>2. CASE NewPaymentEvent(w)
  <2>1. PICK x \in Tx, s \in {"success", "failed", "pending", "abandoned", "refunded"} :
          PostPaymentEvent(w, x, s)
    BY <1>2 DEF NewPaymentEvent
  <2>2. CASE s = "success"
    BY <1>0, <2>1, <2>2, EndsWaiting DEF PostPaymentEvent
  <2>3. CASE s # "success"
    BY <1>0, <1>1, <2>1, <2>3 DEF PostPaymentEvent, ThreadState, Waits, MayAct, WaitPC
  <2> QED BY <2>2, <2>3
<1>3. CASE NewPayment(w)
  <2>1. PICK x \in Tx : th' = [th EXCEPT ![w].pc = "create_link", ![w].tx = x]
    BY <1>3 DEF NewPayment, CreatePayment
  <2>2. th'[w].pc = "create_link"
    BY <1>0, <2>1 DEF ThreadState
  <2> QED BY <1>1, <2>2 DEF Waits, MayAct, WaitPC
<1>4. CASE CreateLink(w) \/ CreateLinkFails(w)
  BY <1>0, <1>4, EndsWaiting DEF CreateLink, CreateLinkFails
<1> QED BY <1>2, <1>3, <1>4

\* A case is opened: the webhook may act on it next, and nobody else.
LEMMA OpeningCovered ==
  ASSUME TypeInv, RequestsCover, Budget, NEW t \in Thread, IngestSave(t), UNCHANGED runs
  PROVE  RequestsCover'
<1>0. th \in [Thread -> ThreadState] /\ th[t] \in ThreadState /\ th[t].tx \in Tx
  BY ThreadType DEF TypeInv, StoreTypeOK, IngestSave, At, Held, TxPC
<1>1. PICK c \in CaseId : /\ cases[c] = None
                          /\ cases' = [cases EXCEPT ![c] = NewCase(th[t].tx)]
                          /\ th' = [th EXCEPT ![t].pc = "ingest_audit", ![t].case = c]
  BY DEF IngestSave
<1>2. /\ OnlyMoves(t) /\ th'[t].pc = "ingest_audit" /\ th'[t].case = c
      /\ executed' = executed /\ th[t].pc = "ingest_save"
  BY <1>0, <1>1 DEF IngestSave, At, OnlyMoves, ThreadState, outreach
<1>3. CasesRemain
  BY <1>0, <1>1, NewCaseType, ConstantsAssumption DEF CasesRemain, TypeInv, StoreTypeOK
<1>4. Chances(c) = {}
  <2> SUFFICES ASSUME NEW u \in Chances(c) PROVE FALSE
    OBVIOUS
  <2>1. u \in Thread /\ th[u].case = c /\ th[u].pc \in CasePC
    BY DEF Chances, MayAct, WaitPC, CasePC, RunPC
  <2> QED BY <1>1, <2>1, CaseKnown, ConstantsAssumption
<1>5. Chances(c)' \subseteq {t}
  BY <1>2, <1>4 DEF Chances, OnlyMoves
<1>6. \A d \in CaseId \ {c} : Chances(d)' \subseteq Chances(d)
  BY <1>2 DEF Chances, OnlyMoves
<1> SUFFICES ASSUME NEW d \in CaseId
             PROVE  /\ cases'[d] = None => executed'[d] = 0
                    /\ executed'[d] + Cardinality(Chances(d)') <= 1 + runs'
  BY DEF RequestsCover
<1>7. /\ executed[d] \in Nat /\ runs \in Nat
      /\ executed[d] + Cardinality(Chances(d)) <= 1 + runs
  BY BoundsAssumption DEF RequestsCover, TypeInv, StoreTypeOK, Budget
<1>8. executed'[d] + Cardinality(Chances(d)') <= 1 + runs'
  <2>1. CASE d = c
    <3>1. Cardinality(Chances(d)') <= 1
      <4>1. Chances(d)' \subseteq {t}
        BY <1>5, <2>1
      <4>2. IsFiniteSet({t}) /\ Cardinality({t}) = 1
        BY FS_Singleton
      <4> QED BY <4>1, <4>2, FS_Subset
    <3>2. executed[d] = 0
      BY <1>1, <2>1 DEF RequestsCover
    <3> QED BY <1>2, <1>7, <3>1, <3>2, ChancesNumber
  <2>2. CASE d # c
    <3>1. Cardinality(Chances(d)') <= Cardinality(Chances(d))
      BY <1>6, <2>2, ChancesNumber, FS_Subset
    <3> QED BY <1>2, <1>7, <3>1, ChancesNumber
  <2> QED BY <2>1, <2>2
<1> QED BY <1>2, <1>3, <1>8 DEF RequestsCover, CasesRemain

\* An action uses up the thread's chance.
LEMMA ActionCovered ==
  ASSUME TypeInv, RequestsCover, Budget, NEW t \in Thread, ExecuteRetry(t) \/ ExecuteLink(t),
         UNCHANGED runs
  PROVE  RequestsCover'
<1>0. /\ th \in [Thread -> ThreadState] /\ th[t] \in ThreadState /\ th[t].pc = "run_execute"
      /\ th[t].case \in CaseId /\ cases[th[t].case] \in Case
  BY CaseKnown DEF TypeInv, StoreTypeOK, ExecuteRetry, ExecuteLink, At, CasePC, RunPC
<1> PICK c \in CaseId : c = th[t].case
  BY <1>0
<1>1. cases' = cases /\ executed' = [executed EXCEPT ![c] = @ + 1]
  BY DEF ExecuteRetry, ExecuteLink
<1>2. OnlyMoves(t) /\ th'[t].pc \in {"run_send", "run_save"}
  BY <1>0 DEF ExecuteRetry, ExecuteLink, Go, OnlyMoves, ThreadState
<1>3. Chances(c)' = Chances(c) \ {t} /\ t \in Chances(c)
  BY <1>0, <1>2 DEF Chances, OnlyMoves, MayAct, WaitPC
<1>4. \A d \in CaseId \ {c} : Chances(d)' = Chances(d)
  BY <1>0, <1>2 DEF Chances, OnlyMoves, MayAct, WaitPC
<1>5. Cardinality(Chances(c)') = Cardinality(Chances(c)) - 1
  BY <1>3, ChancesNumber, FS_RemoveElement
<1>6. /\ \A d \in CaseId : executed'[d] = IF d = c THEN executed[d] + 1 ELSE executed[d]
      /\ \A d \in CaseId : executed[d] \in Nat
      /\ runs' = runs /\ runs \in Nat
  BY <1>1, BoundsAssumption DEF TypeInv, StoreTypeOK, Budget
<1>7. cases[c] # None
  BY <1>0, ConstantsAssumption
<1>8. executed'[c] + Cardinality(Chances(c)') <= 1 + runs'
  BY <1>5, <1>6, ChancesNumber DEF RequestsCover
<1>9. \A d \in CaseId \ {c} : executed'[d] + Cardinality(Chances(d)') <= 1 + runs'
  BY <1>4, <1>6 DEF RequestsCover
<1> QED BY <1>1, <1>6, <1>7, <1>8, <1>9 DEF RequestsCover

\* A request gives its worker one chance.
LEMMA RequestCovered ==
  ASSUME TypeInv, RequestsCover, Budget, NEW w \in Workers, StartRecovery(w)
  PROVE  RequestsCover'
<1>0. /\ w \in Thread /\ w # Webhook /\ th \in [Thread -> ThreadState] /\ th[w] \in ThreadState
  BY ConstantsAssumption DEF TypeInv, StoreTypeOK, Thread
<1>1. PICK c \in CaseId : PostRecovery(w, c)
  BY DEF StartRecovery
<1>2. /\ OnlyMoves(w) /\ th'[w].pc = "run_case" /\ th'[w].case = c /\ th[w].pc = "idle"
      /\ cases' = cases /\ executed' = executed /\ runs' = runs + 1
  BY <1>0, <1>1 DEF StartRecovery, PostRecovery, At, OnlyMoves, ThreadState, outreach
<1>3. Chances(c)' = Chances(c) \cup {w} /\ w \notin Chances(c)
  BY <1>0, <1>2 DEF Chances, OnlyMoves, MayAct, WaitPC
<1>4. \A d \in CaseId \ {c} : Chances(d)' = Chances(d)
  BY <1>0, <1>2 DEF Chances, OnlyMoves, MayAct, WaitPC
<1>5. Cardinality(Chances(c)') = Cardinality(Chances(c)) + 1
  BY <1>3, ChancesNumber, FS_AddElement
<1>6. runs \in Nat /\ \A d \in CaseId : executed[d] \in Nat
  BY BoundsAssumption DEF TypeInv, StoreTypeOK, Budget
<1>7. executed'[c] + Cardinality(Chances(c)') <= 1 + runs'
  BY <1>2, <1>5, <1>6, ChancesNumber DEF RequestsCover
<1>8. \A d \in CaseId \ {c} : executed'[d] + Cardinality(Chances(d)') <= 1 + runs'
  BY <1>2, <1>4, <1>6, ChancesNumber DEF RequestsCover
<1> QED BY <1>2, <1>7, <1>8 DEF RequestsCover

\* No case is lost, and nobody is contacted, in the other steps.
LEMMA OthersContactNobody ==
  ASSUME TypeInv, NEW t \in Thread,
         \/ IngestTx(t) \/ IngestCase(t) \/ IngestAudit(t) \/ RunCase(t) \/ RunContext(t)
         \/ RunDecide(t) \/ ExecuteSend(t) \/ ExecuteDelivery(t) \/ RunSave(t) \/ RunAction(t)
         \/ RunAudit(t) \/ RunDetail(t)
         \/ t = Webhook /\ MarkStep(t)
  PROVE  CasesRemain /\ UNCHANGED executed
<1>1. CASE \/ IngestTx(t) \/ IngestCase(t) \/ IngestAudit(t) \/ RunCase(t) \/ RunContext(t)
           \/ ExecuteSend(t) \/ ExecuteDelivery(t) \/ RunAction(t) \/ RunAudit(t) \/ RunDetail(t)
           \/ MarkRead(t) \/ MarkAudit(t)
  BY <1>1 DEF IngestTx, IngestCase, IngestAudit, RunCase, RunContext, ExecuteSend, ExecuteDelivery,
              RunAction, RunAudit, RunDetail, MarkRead, MarkAudit, CasesRemain, outreach
<1>2. CASE RunDecide(t)
  BY <1>2, Zenon DEF RunDecide, CasesRemain, outreach
<1>3. CASE RunSave(t) \/ MarkSave(t)
  <2>1. th[t].case \in CaseId /\ cases[th[t].case] \in Case
    BY <1>3, CaseKnown DEF RunSave, MarkSave, At, CasePC, RunPC
  <2>2. PICK v : cases' = [cases EXCEPT ![th[t].case] = v]
    BY <1>3 DEF RunSave, MarkSave
  <2>3. v \in Case
    <3>1. th[t].snap \in Case
      BY <1>3, SnapKnown DEF RunSave, MarkSave, At, SnapPC
    <3>2. cases' = [cases EXCEPT ![th[t].case] = th[t].snap]
          \/ cases' = [cases EXCEPT ![th[t].case] = Recovered(th[t].snap)]
      BY <1>3 DEF RunSave, MarkSave
    <3>3. cases'[th[t].case] \in Case
      BY <2>1, <3>1, <3>2, RecoveredType DEF TypeInv, StoreTypeOK
    <3> QED BY <2>1, <2>2, <3>3 DEF TypeInv, StoreTypeOK
  <2>4. UNCHANGED executed
    BY <1>3 DEF RunSave, MarkSave, outreach
  <2> QED BY <2>1, <2>2, <2>3, <2>4, ConstantsAssumption DEF CasesRemain, TypeInv, StoreTypeOK
<1> QED BY <1>1, <1>2, <1>3 DEF MarkStep

LEMMA RequestsNext == TypeInv /\ OwnInv /\ Budget /\ RequestsCover /\ [Next]_vars => RequestsCover'
<1> SUFFICES ASSUME TypeInv, OwnInv, Budget, RequestsCover, [Next]_vars PROVE RequestsCover'
  OBVIOUS
<1>1. Webhook \in Thread /\ Workers \subseteq Thread
  BY DEF Thread
<1>2. ASSUME NEW t \in Thread, UNCHANGED runs,
             IngestStep(t) \/ RunStep(t) \/ (t = Webhook /\ MarkStep(t))
      PROVE  RequestsCover'
  <2>1. CASE IngestSave(t)
    BY <1>2, <2>1, OpeningCovered
  <2>2. CASE ExecuteRetry(t) \/ ExecuteLink(t)
    BY <1>2, <2>2, ActionCovered
  <2>3. CASE ~(IngestSave(t) \/ ExecuteRetry(t) \/ ExecuteLink(t))
    <3>1. Waits(t) /\ CasesRemain /\ UNCHANGED executed
      BY <1>2, <2>3, ServiceWaits, OthersContactNobody DEF IngestStep, RunStep
    <3> QED BY <1>2, <3>1, WaitsKeeps
  <2> QED BY <2>1, <2>2, <2>3
<1>3. ASSUME NEW w \in Workers, NewPaymentEvent(w) \/ NewPayment(w) \/ CreateLink(w)
                                \/ CreateLinkFails(w), UNCHANGED runs
      PROVE  RequestsCover'
  <2>1. UNCHANGED <<cases, executed>>
    BY <1>3, RequestLeaves DEF Leaves
  <2> QED BY <1>1, <1>3, <2>1, PaymentWaits, WaitsKeeps DEF CasesRemain
<1>4. ASSUME \/ \E e \in wire : WebhookAccept(e)
             \/ WebhookSaveTx \/ WebhookFindCase \/ WebhookAuditFailure \/ WebhookRecord
             \/ RecordFails,
             UNCHANGED runs
      PROVE  RequestsCover'
  <2>1. UNCHANGED <<cases, executed>>
    BY <1>4, WebhookLeaves DEF Leaves
  <2> QED BY <1>1, <1>4, <2>1, HandlerWaits, WaitsKeeps DEF CasesRemain
<1>5. ASSUME UNCHANGED <<th, cases, executed, runs>> PROVE RequestsCover'
  BY <1>5 DEF RequestsCover, Chances
<1>6. CASE \E w \in Workers : NewPaymentEvent(w) \/ NewPayment(w) \/ WorkerStep(w)
  <2>1. UNCHANGED runs
    BY <1>6, Zenon DEF NewPaymentEvent, NewPayment, WorkerStep, budget
  <2> QED BY <1>1, <1>2, <1>3, <1>6, <2>1 DEF WorkerStep, IngestStep
<1>7. CASE WebhookStep
  <2>1. UNCHANGED runs
    BY <1>7 DEF WebhookStep, budget
  <2>2. CASE \E e \in wire : WebhookIgnore(e)
    BY <1>5, <2>1, <2>2 DEF WebhookIgnore, outreach
  <2> QED BY <1>1, <1>2, <1>4, <1>7, <2>1, <2>2 DEF WebhookStep, WebhookHandle
<1>8. CASE Environment \/ UNCHANGED vars
  BY <1>5, <1>8 DEF Environment, GatewayStep, AttemptFails, CustomerPays, LinkExpires, Redeliver,
                    vars, outreach, budget
<1>9. CASE Fault
  <2>1. UNCHANGED runs
    BY <1>9 DEF Fault
  <2>2. ASSUME NEW t \in Thread, CallFails(t) PROVE RequestsCover'
    <3>1. UNCHANGED <<cases, executed>>
      BY <2>2, FailureLeaves DEF Leaves
    <3>2. Waits(t)
      BY <2>2, EndsWaiting DEF CallFails
    <3> QED BY <2>1, <3>1, <3>2, WaitsKeeps DEF CasesRemain
  <2>3. CASE Restart
    <3>1. UNCHANGED <<cases, executed>> /\ \A t \in Thread : th'[t].pc = "idle"
      BY <2>3 DEF Restart, outreach, Idle
    <3>2. \A c \in CaseId : Chances(c)' \subseteq Chances(c)
      BY <3>1 DEF Chances, MayAct, WaitPC
    <3> QED BY <2>1, <3>1, <3>2, RequestsFrame DEF CasesRemain
  <2> QED BY <1>3, <1>4, <1>9, <2>1, <2>2, <2>3 DEF Fault
<1>10. CASE \E w \in Workers : StartRecovery(w)
  BY <1>10, RequestCovered
<1> QED BY <1>6, <1>7, <1>8, <1>9, <1>10 DEF Next

LEMMA RequestsInductive == Spec => [](TypeInv /\ Budget /\ RequestsCover)
<1>1. Init => Budget /\ RequestsCover
  <2> SUFFICES ASSUME Init PROVE Budget /\ RequestsCover
    OBVIOUS
  <2>1. Budget
    BY BoundsAssumption DEF Init, Budget
  <2>2. \A c \in CaseId : executed[c] = 0 /\ Chances(c) = {} /\ runs = 0
    BY DEF Init, StoreInit, Idle, Chances, MayAct, WaitPC
  <2> QED BY <2>1, <2>2, FS_EmptySet DEF RequestsCover
<1> QED BY <1>1, RequestsNext, BudgetKept, OwnInit, OwnNext, TypeCorrect, PTL DEF Spec

\* A case is acted on once for its failed payment, and once more at most for each
\* POST /recoveries, whatever overlaps, fails or is delivered again: the webhook
\* runs a case only when it has just opened it.
THEOREM OutreachNeedsRequest == Spec => []OutreachBounded
<1>1. TypeInv /\ Budget /\ RequestsCover => OutreachBounded
  <2> SUFFICES ASSUME TypeInv, Budget, RequestsCover, NEW c \in CaseId
               PROVE  executed[c] <= 1 + runs
    BY DEF OutreachBounded
  <2>1. executed[c] \in Nat /\ runs \in Nat
    BY BoundsAssumption DEF TypeInv, StoreTypeOK, Budget
  <2> QED BY <2>1, ChancesNumber DEF RequestsCover
<1> QED BY <1>1, RequestsInductive, PTL
=============================================================================
