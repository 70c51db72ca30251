--------------------------- MODULE LifecycleProofs ---------------------------
(***************************************************************************)
(* Proofs about cases that only the webhook handler drives (nobody calls   *)
(* POST /recoveries, MaxRuns = 0): each stays RECOVERED once it is, and    *)
(* lives the life CaseLifecycle describes, which acts on it once; its      *)
(* counters tell whether it was acted on, it is completed once, and a      *)
(* repeated failure record needs a fault; for any number of transactions,  *)
(* workers, deliveries and faults.                                         *)
(***************************************************************************)
EXTENDS OutreachProofs

Conclusion == {"monitoring", "stopped", "escalated"}

\* Where the handler stands in the work on its case.
Fresh  == {"ingest_audit", "run_case", "run_context", "run_decide", "run_execute"}
Acted  == {"run_send", "run_delivery"}
Watched == Fresh \cup Acted \cup {"run_save", "mark_read", "mark_save"}

\* The handler runs the workflow only for the case it has just opened, which it
\* has not acted on yet, or has acted on once; it marks no RECOVERED case.
HandlerPlace ==
  LET r == th[Webhook]
      c == r.case
  IN /\ r.pc \in Fresh \cup Acted \cup {"run_save"} => cases[c].status = "detected"
     /\ r.pc \in Fresh => executed[c] = 0
     /\ r.pc \in Acted => executed[c] = 1
     /\ r.pc = "run_save" => /\ r.snap.status \in Conclusion
                             /\ r.snap.status = "monitoring" <=> executed[c] = 1
     /\ r.pc \in {"mark_read", "mark_save"} => cases[c].status # "recovered"

WorkersQuiet == \A w \in Workers : th[w].pc \notin RunPC

CasesDriven ==
  \A c \in CaseId :
    /\ executed[c] \in {0, 1}
    /\ cases[c] = None => executed[c] = 0
    /\ cases[c] # None => cases[c].status \in {"detected", "recovered"} \cup Conclusion

DrivenInv == HandlerPlace /\ WorkersQuiet /\ CasesDriven

-----------------------------------------------------------------------------
(* The steps of others *)

\* Somebody else moves, and opens a case at most.
LEMMA OthersKeep ==
  ASSUME TypeInv, DrivenInv, th'[Webhook] = th[Webhook], WorkersQuiet', executed' = executed,
         \/ cases' = cases
         \/ \E c \in CaseId, x \in Tx : /\ cases[c] = None
                                        /\ cases' = [cases EXCEPT ![c] = NewCase(x)]
  PROVE  DrivenInv'
<1>1. CASE cases' = cases
  BY <1>1 DEF DrivenInv, HandlerPlace, CasesDriven
<1>2. ASSUME NEW c \in CaseId, NEW x \in Tx, cases[c] = None,
             cases' = [cases EXCEPT ![c] = NewCase(x)]
      PROVE  DrivenInv'
  <2>1. \A d \in CaseId : cases'[d] = IF d = c THEN NewCase(x) ELSE cases[d]
    BY <1>2 DEF TypeInv, StoreTypeOK
  <2>2. CasesDriven'
    BY <2>1, <1>2 DEF DrivenInv, CasesDriven, NewCase
  <2>3. th[Webhook].pc \in Watched => th[Webhook].case \in CaseId /\ th[Webhook].case # c
    <3>1. Webhook \in Thread
      BY DEF Thread
    <3> QED BY <1>2, <3>1, ThreadType DEF Watched, Fresh, Acted, Held, CasePC, RunPC
  <2>4. HandlerPlace'
    BY <2>1, <2>3 DEF DrivenInv, HandlerPlace, Watched
  <2> QED BY <2>2, <2>4 DEF DrivenInv
<1> QED BY <1>1, <1>2

LEMMA WorkerIsNotHandler ==
  ASSUME NEW w \in Workers, OnlyMoves(w)
  PROVE  th'[Webhook] = th[Webhook]
BY ConstantsAssumption DEF OnlyMoves, Thread

\* A step of a run is one of a thread that is in a run.
LEMMA RunStepPlace ==
  ASSUME NEW t, RunStep(t)
  PROVE  th[t].pc \in RunPC
<1>1. CASE RunCase(t) \/ RunContext(t)
  BY <1>1 DEF RunCase, RunContext, At, RunPC
<1>2. CASE RunDecide(t)
  <2>1. At(t, "run_decide")
    BY <1>2, Zenon DEF RunDecide
  <2> QED BY <2>1 DEF At, RunPC
<1>3. CASE ExecuteRetry(t) \/ ExecuteLink(t)
  BY <1>3 DEF ExecuteRetry, ExecuteLink, At, RunPC
<1>4. CASE ExecuteSend(t) \/ ExecuteDelivery(t)
  BY <1>4 DEF ExecuteSend, ExecuteDelivery, At, RunPC
<1>5. CASE RunSave(t) \/ RunAction(t) \/ RunAudit(t) \/ RunDetail(t)
  BY <1>5 DEF RunSave, RunAction, RunAudit, RunDetail, At, RunPC
<1> QED BY <1>1, <1>2, <1>3, <1>4, <1>5 DEF RunStep

\* Every step of a worker, as long as none is asked for a run.
LEMMA WorkerDriven ==
  ASSUME MaxRuns = 0, TypeInv, Budget, DrivenInv, NEW w \in Workers,
         NewPaymentEvent(w) \/ NewPayment(w) \/ StartRecovery(w) \/ WorkerStep(w)
           \/ CallFails(w) \/ CreateLinkFails(w)
  PROVE  DrivenInv'
<1>0. /\ w \in Thread /\ w # Webhook
      /\ th \in [Thread -> ThreadState] /\ th[w] \in ThreadState
      /\ th[w].pc \notin RunPC
  BY ConstantsAssumption DEF TypeInv, StoreTypeOK, Thread, DrivenInv, WorkersQuiet
<1>1. ASSUME OnlyMoves(w), th'[w].pc \notin RunPC PROVE WorkersQuiet' /\ th'[Webhook] = th[Webhook]
  BY <1>1, WorkerIsNotHandler DEF OnlyMoves, WorkersQuiet, DrivenInv, Thread
<1>2. ~StartRecovery(w)
  BY DEF StartRecovery, Budget
<1>11. ~RunStep(w)
  BY <1>0, RunStepPlace
<1>3. ASSUME th' = [th EXCEPT ![w] = Idle] PROVE OnlyMoves(w) /\ th'[w].pc \notin RunPC
  BY <1>0, <1>3 DEF OnlyMoves, Idle, RunPC
<1>4. CASE NewPaymentEvent(w)
  <2>1. PICK x \in Tx, s \in {"success", "failed", "pending", "abandoned", "refunded"} :
          PostPaymentEvent(w, x, s)
    BY <1>4 DEF NewPaymentEvent
  <2>2. OnlyMoves(w) /\ th'[w].pc \notin RunPC
    <3>1. CASE s = "success"
      BY <1>3, <2>1, <3>1 DEF PostPaymentEvent
    <3>2. CASE s # "success"
      BY <1>0, <2>1, <3>2 DEF PostPaymentEvent, OnlyMoves, RunPC, ThreadState
    <3> QED BY <3>1, <3>2
  <2> QED BY <1>1, <2>1, <2>2, OthersKeep DEF PostPaymentEvent, outreach
<1>5. CASE NewPayment(w)
  <2>1. PICK x \in Tx : CreatePayment(w, x)
    BY <1>5 DEF NewPayment
  <2>2. OnlyMoves(w) /\ th'[w].pc = "create_link"
    BY <1>0, <2>1 DEF CreatePayment, OnlyMoves, ThreadState
  <2>3. th'[w].pc \notin RunPC
    BY <2>2 DEF RunPC
  <2> QED BY <1>1, <2>1, <2>2, <2>3, OthersKeep DEF CreatePayment, outreach
<1>6. CASE CreateLink(w) \/ CreateLinkFails(w)
  BY <1>1, <1>3, <1>6, OthersKeep DEF CreateLink, CreateLinkFails, outreach
<1>7. CASE IngestCase(w)
  <2>1. OnlyMoves(w) /\ th'[w].pc \notin RunPC
    <3>1. CASE Go(w, "ingest_save")
      BY <1>0, <3>1 DEF Go, OnlyMoves, RunPC, ThreadState
    <3>2. CASE ~Go(w, "ingest_save")
      BY <1>0, <1>3, <1>7, <3>2 DEF IngestCase, EndIngest
    <3> QED BY <3>1, <3>2
  <2> QED BY <1>1, <1>7, <2>1, OthersKeep DEF IngestCase, outreach
<1>8. CASE IngestSave(w)
  <2>1. PICK c \in CaseId : /\ cases[c] = None
                            /\ cases' = [cases EXCEPT ![c] = NewCase(th[w].tx)]
                            /\ th' = [th EXCEPT ![w].pc = "ingest_audit", ![w].case = c]
    BY <1>8 DEF IngestSave
  <2>2. OnlyMoves(w) /\ th'[w].pc \notin RunPC
    BY <1>0, <2>1 DEF OnlyMoves, RunPC, ThreadState
  <2>3. th[w].tx \in Tx
    BY <1>0, <1>8, ThreadType DEF IngestSave, At, Held, TxPC
  <2> QED BY <1>1, <1>8, <2>1, <2>2, <2>3, OthersKeep DEF IngestSave, outreach
<1>9. CASE IngestAudit(w)
  <2>1. th' = [th EXCEPT ![w] = Idle]
    BY <1>0, <1>9 DEF IngestAudit, EndIngest
  <2> QED BY <1>1, <1>3, <1>9, <2>1, OthersKeep DEF IngestAudit, outreach
<1>10. CASE CallFails(w)
  <2>1. th' = [th EXCEPT ![w] = Idle]
    BY <1>0, <1>10 DEF CallFails
  <2> QED BY <1>1, <1>3, <1>10, <2>1, OthersKeep DEF CallFails, outreach
<1> QED BY <1>2, <1>11, <1>4, <1>5, <1>6, <1>7, <1>8, <1>9, <1>10 DEF WorkerStep

-----------------------------------------------------------------------------
(* The steps of the handler *)

\* Where the handler is when it has its result.
LEMMA HandlerEnds ==
  ASSUME TypeInv,
         th' = [th EXCEPT ![Webhook] = Idle] \/ GoRecord(Webhook) \/ EndRun(Webhook)
  PROVE  OnlyMoves(Webhook) /\ th'[Webhook].pc \notin Watched
<1>1. th \in [Thread -> ThreadState] /\ Webhook \in Thread
  BY DEF TypeInv, StoreTypeOK, Thread
<1>2. CASE th' = [th EXCEPT ![Webhook] = Idle]
  <2>1. th'[Webhook].pc = "idle"
    BY <1>1, <1>2 DEF Idle
  <2> QED BY <1>1, <1>2, <2>1 DEF OnlyMoves, Watched, Fresh, Acted
<1>3. CASE GoRecord(Webhook) \/ EndRun(Webhook)
  <2>1. th' = [th EXCEPT ![Webhook] =
                 [Idle EXCEPT !.pc = "hook_record", !.event = th[Webhook].event]]
    BY <1>3 DEF GoRecord, EndRun
  <2>2. th'[Webhook].pc = "hook_record"
    BY <1>1, <2>1 DEF Idle
  <2> QED BY <1>1, <2>1, <2>2 DEF OnlyMoves, Watched, Fresh, Acted
<1> QED BY <1>2, <1>3

\* The handler leaves the work on its case, or has not begun it.
LEMMA HandlerLeaves ==
  ASSUME TypeInv, DrivenInv, OnlyMoves(Webhook), th'[Webhook].pc \notin Watched,
         UNCHANGED <<cases, executed>>
  PROVE  DrivenInv'
<1>1. HandlerPlace'
  BY DEF HandlerPlace, Watched
<1>2. WorkersQuiet'
  BY ConstantsAssumption DEF WorkersQuiet, OnlyMoves, DrivenInv, Thread
<1> QED BY <1>1, <1>2 DEF DrivenInv, CasesDriven

LEMMA HandlerAccepts ==
  ASSUME TypeInv, DrivenInv, NEW e \in wire, WebhookAccept(e)
  PROVE  DrivenInv' /\ UNCHANGED <<cases, executed, payments>>
<1>0. Webhook \in Thread /\ th \in [Thread -> ThreadState] /\ th[Webhook] \in ThreadState
  BY DEF TypeInv, StoreTypeOK, Thread
<1>1. OnlyMoves(Webhook) /\ th'[Webhook].pc = "hook_tx"
  BY <1>0 DEF WebhookAccept, OnlyMoves, ThreadState
<1>2. UNCHANGED <<cases, executed, payments>>
  BY DEF WebhookAccept, outreach, gateway
<1> QED BY <1>1, <1>2, HandlerLeaves DEF Watched, Fresh, Acted

LEMMA HandlerQuiet ==
  ASSUME TypeInv, OwnInv, DrivenInv,
         \/ \E e \in wire : WebhookAccept(e)
         \/ WebhookSaveTx \/ WebhookAuditFailure \/ WebhookRecord \/ RecordFails
         \/ IngestTx(Webhook) \/ IngestCase(Webhook) \/ RunAction(Webhook)
         \/ RunAudit(Webhook) \/ RunDetail(Webhook) \/ MarkAudit(Webhook)
         \/ CallFails(Webhook)
  PROVE  DrivenInv' /\ UNCHANGED <<cases, executed, payments>>
<1>0. Webhook \in Thread /\ th \in [Thread -> ThreadState] /\ th[Webhook] \in ThreadState
  BY DEF TypeInv, StoreTypeOK, Thread
<1>1. CASE \E e \in wire : WebhookAccept(e)
  BY <1>1, HandlerAccepts
<1>2. CASE \/ WebhookSaveTx \/ IngestTx(Webhook) \/ IngestCase(Webhook) \/ RunAction(Webhook)
           \/ RunAudit(Webhook)
  <2>1. PICK pc \in {"hook_case", "ingest_case", "ingest_save", "run_audit", "run_detail"} :
          Go(Webhook, pc)
    BY <1>2, HandlerFindsNone DEF WebhookSaveTx, IngestTx, RunAction, RunAudit
  <2>2. OnlyMoves(Webhook) /\ th'[Webhook].pc = pc
    BY <1>0, <2>1 DEF Go, OnlyMoves, ThreadState
  <2>3. UNCHANGED <<cases, executed, payments>>
    BY <1>2 DEF WebhookSaveTx, IngestTx, IngestCase, RunAction, RunAudit, outreach, gateway
  <2> QED BY <2>2, <2>3, HandlerLeaves DEF Watched, Fresh, Acted
<1>3. CASE \/ WebhookAuditFailure \/ WebhookRecord \/ RecordFails \/ RunDetail(Webhook)
           \/ MarkAudit(Webhook) \/ CallFails(Webhook)
  <2>1. th' = [th EXCEPT ![Webhook] = Idle] \/ GoRecord(Webhook) \/ EndRun(Webhook)
    BY <1>3 DEF WebhookAuditFailure, WebhookRecord, RecordFails, RunDetail, MarkAudit, CallFails
  <2>2. UNCHANGED <<cases, executed, payments>>
    BY <1>3 DEF WebhookAuditFailure, WebhookRecord, RecordFails, RunDetail, MarkAudit, CallFails,
                outreach, gateway
  <2> QED BY <2>1, <2>2, HandlerEnds, HandlerLeaves
<1> QED BY <1>1, <1>2, <1>3

\* The handler goes on with the work on its case.
LEMMA HandlerGoesOn ==
  ASSUME TypeInv, DrivenInv, OnlyMoves(Webhook), HandlerPlace', CasesDriven'
  PROVE  DrivenInv'
<1>1. WorkersQuiet'
  BY ConstantsAssumption DEF WorkersQuiet, OnlyMoves, DrivenInv, Thread
<1> QED BY <1>1 DEF DrivenInv

LEMMA HandlerFindCase ==
  ASSUME TypeInv, DrivenInv, WebhookFindCase
  PROVE  DrivenInv' /\ UNCHANGED <<cases, executed, payments>>
<1>0. Webhook \in Thread /\ th \in [Thread -> ThreadState] /\ th[Webhook] \in ThreadState
  BY DEF TypeInv, StoreTypeOK, Thread
<1>1. UNCHANGED <<cases, executed, payments>>
  BY DEF WebhookFindCase, outreach, gateway
<1>2. PICK c \in Lookup(th[Webhook].tx) :
        LET next == AfterLookup(Handling, c)
        IN IF next = "hook_record"
           THEN GoRecord(Webhook)
           ELSE th' = [th EXCEPT ![Webhook].pc = next, ![Webhook].case = c]
  BY DEF WebhookFindCase
<1>3. CASE AfterLookup(Handling, c) = "hook_record"
  BY <1>1, <1>2, <1>3, HandlerEnds, HandlerLeaves
<1>4. CASE AfterLookup(Handling, c) # "hook_record"
  <2>1. /\ OnlyMoves(Webhook)
        /\ th'[Webhook].pc = AfterLookup(Handling, c) /\ th'[Webhook].case = c
    BY <1>0, <1>2, <1>4 DEF OnlyMoves, ThreadState
  <2>2. CASE AfterLookup(Handling, c) = "mark_read"
    <3>1. cases[c].status # "recovered"
      BY <2>2 DEF AfterLookup
    <3>2. HandlerPlace'
      BY <1>1, <2>1, <2>2, <3>1 DEF HandlerPlace, Fresh, Acted
    <3> QED BY <1>1, <2>1, <3>2, HandlerGoesOn DEF DrivenInv, CasesDriven
  <2>3. CASE AfterLookup(Handling, c) # "mark_read"
    <3>1. AfterLookup(Handling, c) \in {"ingest_tx", "hook_audit"}
      BY <1>4, <2>3 DEF AfterLookup
    <3> QED BY <1>1, <2>1, <3>1, HandlerLeaves DEF Watched, Fresh, Acted
  <2> QED BY <2>2, <2>3
<1> QED BY <1>1, <1>3, <1>4

\* The decision: the case stays as it is.
LEMMA HandlerDecides ==
  ASSUME TypeInv, DrivenInv, RunDecide(Webhook)
  PROVE  DrivenInv' /\ UNCHANGED <<cases, executed, payments>>
<1>0. /\ Webhook \in Thread /\ th \in [Thread -> ThreadState] /\ th[Webhook] \in ThreadState
      /\ th[Webhook].pc = "run_decide" /\ th[Webhook].snap \in Case
  BY SnapKnown, Zenon DEF TypeInv, StoreTypeOK, Thread, RunDecide, At, SnapPC
<1>1. UNCHANGED <<cases, executed, payments>>
  BY Zenon DEF RunDecide, outreach, gateway
<1>2. CasesDriven'
  BY <1>1 DEF DrivenInv, CasesDriven
<1>3. CASE EndRun(Webhook)
  BY <1>1, <1>3, HandlerEnds, HandlerLeaves
<1>4. CASE ~EndRun(Webhook)
  <2>1. PICK d \in PossibleDecisions(th[Webhook].seen) :
          IF d = "recover"
          THEN \E a \in OutreachAction :
                 th' = [th EXCEPT ![Webhook].pc = "run_execute", ![Webhook].action = a,
                                  ![Webhook].snap = Decided(@, d)]
          ELSE th' = [th EXCEPT ![Webhook].pc = "run_save", ![Webhook].snap = Decided(@, d)]
    BY <1>4, Zenon DEF RunDecide
  <2>2. CASE d = "recover"
    <3>1. PICK a \in OutreachAction :
            th' = [th EXCEPT ![Webhook].pc = "run_execute", ![Webhook].action = a,
                             ![Webhook].snap = Decided(@, d)]
      BY <2>1, <2>2, Zenon
    <3>2. /\ OnlyMoves(Webhook)
          /\ th'[Webhook].pc = "run_execute" /\ th'[Webhook].case = th[Webhook].case
      BY <1>0, <3>1 DEF OnlyMoves, ThreadState
    <3>3. HandlerPlace'
      BY <1>0, <1>1, <3>2 DEF DrivenInv, HandlerPlace, Fresh, Acted
    <3> QED BY <1>1, <1>2, <3>2, <3>3, HandlerGoesOn
  <2>3. CASE d # "recover"
    <3>1. /\ OnlyMoves(Webhook)
          /\ th'[Webhook].pc = "run_save" /\ th'[Webhook].case = th[Webhook].case
          /\ th'[Webhook].snap = Decided(th[Webhook].snap, d)
      BY <1>0, <2>1, <2>3 DEF OnlyMoves, ThreadState
    <3>2. Decided(th[Webhook].snap, d).status \in {"stopped", "escalated"}
      BY <1>0, <2>3 DEF Decided, GraphEnd, PossibleDecisions, Case
    <3>3. HandlerPlace'
      BY <1>0, <1>1, <3>1, <3>2 DEF DrivenInv, HandlerPlace, Fresh, Acted, Conclusion
    <3> QED BY <1>1, <1>2, <3>1, <3>3, HandlerGoesOn
  <2> QED BY <2>2, <2>3
<1> QED BY <1>3, <1>4

\* The steps towards the action: the case stays as it is.
LEMMA HandlerTowards ==
  ASSUME TypeInv, DrivenInv,
         \/ IngestAudit(Webhook) \/ RunCase(Webhook) \/ RunContext(Webhook)
         \/ RunDecide(Webhook) \/ ExecuteSend(Webhook) \/ ExecuteDelivery(Webhook)
         \/ MarkRead(Webhook)
  PROVE  DrivenInv' /\ UNCHANGED <<cases, executed, payments>>
<1>0. Webhook \in Thread /\ th \in [Thread -> ThreadState] /\ th[Webhook] \in ThreadState
  BY DEF TypeInv, StoreTypeOK, Thread
<1>1. UNCHANGED <<cases, executed, payments>>
  <2>1. CASE IngestAudit(Webhook) \/ RunCase(Webhook) \/ RunContext(Webhook)
    BY <2>1, Zenon DEF IngestAudit, RunCase, RunContext, outreach, gateway
  <2>2. CASE ExecuteSend(Webhook) \/ ExecuteDelivery(Webhook) \/ MarkRead(Webhook)
    BY <2>2, Zenon DEF ExecuteSend, ExecuteDelivery, MarkRead, outreach, gateway
  <2>3. CASE RunDecide(Webhook)
    BY <2>3, HandlerDecides
  <2> QED BY <2>1, <2>2, <2>3
<1>2. CasesDriven'
  BY <1>1 DEF DrivenInv, CasesDriven
<1>3. CASE IngestAudit(Webhook)
  <2>1. th' = [th EXCEPT ![Webhook] =
                 [th[Webhook] EXCEPT !.pc = "run_case", !.case = th[Webhook].case]]
    BY <1>3 DEF IngestAudit, EndIngest
  <2>2. /\ OnlyMoves(Webhook)
        /\ th'[Webhook].pc = "run_case" /\ th'[Webhook].case = th[Webhook].case
    BY <1>0, <2>1 DEF OnlyMoves, ThreadState
  <2>3. HandlerPlace'
    BY <1>1, <1>3, <2>2 DEF IngestAudit, At, DrivenInv, HandlerPlace, Fresh, Acted
  <2> QED BY <1>1, <1>2, <2>2, <2>3, HandlerGoesOn
<1>4. CASE RunCase(Webhook)
  <2>1. /\ OnlyMoves(Webhook) /\ th[Webhook].pc = "run_case"
        /\ th'[Webhook].pc = "run_context" /\ th'[Webhook].case = th[Webhook].case
    BY <1>0, <1>4 DEF RunCase, At, OnlyMoves, ThreadState
  <2>2. HandlerPlace'
    BY <1>1, <2>1 DEF DrivenInv, HandlerPlace, Fresh, Acted
  <2> QED BY <1>1, <1>2, <2>1, <2>2, HandlerGoesOn
<1>5. CASE RunContext(Webhook)
  <2>1. CASE EndRun(Webhook)
    BY <1>1, <2>1, HandlerEnds, HandlerLeaves
  <2>2. CASE ~EndRun(Webhook)
    <3>1. /\ OnlyMoves(Webhook) /\ th[Webhook].pc = "run_context"
          /\ th'[Webhook].pc = "run_decide" /\ th'[Webhook].case = th[Webhook].case
      BY <1>0, <1>5, <2>2 DEF RunContext, At, OnlyMoves, ThreadState
    <3>2. HandlerPlace'
      BY <1>1, <3>1 DEF DrivenInv, HandlerPlace, Fresh, Acted
    <3> QED BY <1>1, <1>2, <3>1, <3>2, HandlerGoesOn
  <2> QED BY <2>1, <2>2
<1>6. CASE RunDecide(Webhook)
  BY <1>6, HandlerDecides
<1>7. CASE ExecuteSend(Webhook)
  <2>1. /\ OnlyMoves(Webhook) /\ th[Webhook].pc = "run_send"
        /\ th'[Webhook].pc = "run_delivery" /\ th'[Webhook].case = th[Webhook].case
    BY <1>0, <1>7 DEF ExecuteSend, Go, At, OnlyMoves, ThreadState
  <2>2. HandlerPlace'
    BY <1>1, <2>1 DEF DrivenInv, HandlerPlace, Fresh, Acted
  <2> QED BY <1>1, <1>2, <2>1, <2>2, HandlerGoesOn
<1>8. CASE ExecuteDelivery(Webhook)
  <2>0. th[Webhook].pc = "run_delivery" /\ th[Webhook].snap \in Case
    BY <1>0, <1>8, SnapKnown DEF ExecuteDelivery, At, SnapPC
  <2>1. /\ OnlyMoves(Webhook)
        /\ th'[Webhook].pc = "run_save" /\ th'[Webhook].case = th[Webhook].case
        /\ th'[Webhook].snap = Monitored(th[Webhook].snap)
    BY <1>0, <1>8 DEF ExecuteDelivery, OnlyMoves, ThreadState
  <2>2. Monitored(th[Webhook].snap).status = "monitoring"
    BY <2>0 DEF Monitored, Case
  <2>3. HandlerPlace'
    BY <1>1, <2>0, <2>1, <2>2 DEF DrivenInv, HandlerPlace, Fresh, Acted, Conclusion
  <2> QED BY <1>1, <1>2, <2>1, <2>3, HandlerGoesOn
<1>9. CASE MarkRead(Webhook)
  <2>1. /\ OnlyMoves(Webhook) /\ th[Webhook].pc = "mark_read"
        /\ th'[Webhook].pc = "mark_save" /\ th'[Webhook].case = th[Webhook].case
    BY <1>0, <1>9 DEF MarkRead, At, OnlyMoves, ThreadState
  <2>2. HandlerPlace'
    BY <1>1, <2>1 DEF DrivenInv, HandlerPlace, Fresh, Acted
  <2> QED BY <1>1, <1>2, <2>1, <2>2, HandlerGoesOn
<1> QED BY <1>1, <1>3, <1>4, <1>5, <1>6, <1>7, <1>8, <1>9

-----------------------------------------------------------------------------
(* What a step does to the life of a case *)

Opens ==
  \E c \in CaseId, x \in Tx :
    /\ cases[c] = None /\ NoCase(x)
    /\ cases' = [cases EXCEPT ![c] = NewCase(x)]
    /\ UNCHANGED <<executed, payments>>

Acts ==
  \E c \in CaseId :
    /\ cases[c] # None /\ cases[c].status = "detected" /\ executed[c] = 0
    /\ executed' = [executed EXCEPT ![c] = 1]
    /\ UNCHANGED <<cases, payments>>

Concludes ==
  \E c \in CaseId, v \in Case :
    /\ cases[c] # None /\ cases[c].status = "detected"
    /\ v.transaction_id = cases[c].transaction_id
    /\ v.status \in Conclusion
    /\ v.status = "monitoring" <=> executed[c] = 1
    /\ cases' = [cases EXCEPT ![c] = v]
    /\ UNCHANGED <<executed, payments>>

Recovers ==
  \E c \in CaseId, v \in Case :
    /\ cases[c] # None /\ cases[c].status # "recovered"
    /\ v.transaction_id = cases[c].transaction_id /\ v.status = "recovered"
    /\ payments[v.transaction_id] > 0
    /\ cases' = [cases EXCEPT ![c] = v]
    /\ UNCHANGED <<executed, payments>>

Pays ==
  \E x \in Tx : /\ payments' = [payments EXCEPT ![x] = @ + 1]
                /\ UNCHANGED <<cases, executed>>

Stays == UNCHANGED <<cases, executed, payments>>

LifeStep == Opens \/ Acts \/ Concludes \/ Recovers \/ Pays \/ Stays

\* Whoever opens a case opens the only one of its transaction.
LEMMA IngestSaveOpens ==
  ASSUME TypeInv, OwnInv, NEW t \in Thread, IngestSave(t) PROVE Opens
<1>1. th[t].tx \in Tx /\ NoCase(th[t].tx)
  BY ThreadType DEF IngestSave, At, Held, TxPC, OwnInv, OwnersExclude, OwnPC
<1>2. UNCHANGED <<executed, payments>>
  BY DEF IngestSave, outreach, gateway
<1> QED BY <1>1, <1>2 DEF IngestSave, Opens

LEMMA WorkerLives ==
  ASSUME MaxRuns = 0, TypeInv, Budget, OwnInv, DrivenInv, NEW w \in Workers,
         NewPaymentEvent(w) \/ NewPayment(w) \/ StartRecovery(w) \/ WorkerStep(w)
           \/ CallFails(w) \/ CreateLinkFails(w)
  PROVE  LifeStep
<1>0. w \in Thread /\ th[w].pc \notin RunPC
  BY DEF Thread, DrivenInv, WorkersQuiet
<1>1. CASE NewPaymentEvent(w) \/ NewPayment(w) \/ CallFails(w) \/ CreateLinkFails(w)
  <2>1. CASE NewPaymentEvent(w) \/ NewPayment(w)
    <3>1. UNCHANGED <<cases, gateway, outreach>>
      <4>1. CASE NewPaymentEvent(w)
        BY <4>1, Zenon DEF NewPaymentEvent, PostPaymentEvent
      <4>2. CASE NewPayment(w)
        BY <4>2, Zenon DEF NewPayment, CreatePayment
      <4> QED BY <2>1, <4>1, <4>2
    <3> QED BY <3>1 DEF Stays, LifeStep, outreach, gateway
  <2>2. CASE CallFails(w)
    BY <2>2, Zenon DEF CallFails, Stays, LifeStep, outreach, gateway
  <2>3. CASE CreateLinkFails(w)
    BY <2>3 DEF CreateLinkFails, Stays, LifeStep, outreach, gateway
  <2> QED BY <1>1, <2>1, <2>2, <2>3
<1>2. CASE StartRecovery(w)
  BY <1>2 DEF StartRecovery, Budget
<1>3. CASE CreateLink(w) \/ IngestCase(w) \/ IngestAudit(w)
  <2>1. Stays
    BY <1>3 DEF CreateLink, IngestCase, IngestAudit, Stays, outreach, gateway
  <2> QED BY <2>1 DEF LifeStep
<1>4. CASE IngestSave(w)
  BY <1>0, <1>4, IngestSaveOpens DEF LifeStep
<1>5. CASE RunStep(w)
  BY <1>0, <1>5, RunStepPlace
<1> QED BY <1>1, <1>2, <1>3, <1>4, <1>5 DEF WorkerStep

LEMMA HandlerOpens ==
  ASSUME TypeInv, OwnInv, DrivenInv, IngestSave(Webhook) PROVE DrivenInv' /\ Opens
<1>0. Webhook \in Thread /\ th \in [Thread -> ThreadState] /\ th[Webhook] \in ThreadState
  BY DEF TypeInv, StoreTypeOK, Thread
<1>1. PICK c \in CaseId : /\ cases[c] = None
                          /\ cases' = [cases EXCEPT ![c] = NewCase(th[Webhook].tx)]
                          /\ th' = [th EXCEPT ![Webhook].pc = "ingest_audit", ![Webhook].case = c]
  BY DEF IngestSave
<1>2. /\ OnlyMoves(Webhook)
      /\ th'[Webhook].pc = "ingest_audit" /\ th'[Webhook].case = c
  BY <1>0, <1>1 DEF OnlyMoves, ThreadState
<1>3. /\ executed' = executed
      /\ \A d \in CaseId : cases'[d] = IF d = c THEN NewCase(th[Webhook].tx) ELSE cases[d]
  BY <1>1 DEF IngestSave, outreach, TypeInv, StoreTypeOK
<1>4. NewCase(th[Webhook].tx).status = "detected" /\ cases'[c] # None
  <2>1. th[Webhook].tx \in Tx
    BY <1>0, ThreadType DEF IngestSave, At, Held, TxPC
  <2> QED BY <1>3, <2>1, NewCaseType, ConstantsAssumption DEF NewCase
<1>5. HandlerPlace'
  BY <1>1, <1>2, <1>3, <1>4 DEF HandlerPlace, Fresh, Acted, DrivenInv, CasesDriven
<1>6. CasesDriven'
  BY <1>1, <1>3, <1>4 DEF DrivenInv, CasesDriven
<1> QED BY <1>0, <1>2, <1>5, <1>6, HandlerGoesOn, IngestSaveOpens

LEMMA HandlerActs ==
  ASSUME TypeInv, DrivenInv, ExecuteRetry(Webhook) \/ ExecuteLink(Webhook)
  PROVE  DrivenInv' /\ Acts
<1>0. /\ Webhook \in Thread /\ th \in [Thread -> ThreadState] /\ th[Webhook] \in ThreadState
      /\ th[Webhook].pc = "run_execute"
  BY DEF TypeInv, StoreTypeOK, Thread, ExecuteRetry, ExecuteLink, At
<1>1. th[Webhook].case \in CaseId /\ cases[th[Webhook].case] # None /\ th[Webhook].snap \in Case
  BY <1>0, ThreadType, SnapKnown DEF Held, CasePC, SnapPC, RunPC
<1>2. PICK c \in CaseId : c = th[Webhook].case /\ cases[c] # None
  BY <1>1
<1>3. /\ UNCHANGED <<cases, payments>>
      /\ executed' = [executed EXCEPT ![c] = @ + 1]
  BY <1>2 DEF ExecuteRetry, ExecuteLink, gateway
<1>4. cases[c].status = "detected" /\ executed[c] = 0
  BY <1>0, <1>2 DEF DrivenInv, HandlerPlace, Fresh
<1>5. executed' = [executed EXCEPT ![c] = 1]
  BY <1>3, <1>4
<1>6. Acts
  BY <1>2, <1>3, <1>4, <1>5 DEF Acts
<1>7. \A d \in CaseId : executed'[d] = IF d = c THEN 1 ELSE executed[d]
  BY <1>5 DEF TypeInv, StoreTypeOK
<1>8. CasesDriven'
  BY <1>2, <1>3, <1>7 DEF DrivenInv, CasesDriven
<1>9. \/ th' = [th EXCEPT ![Webhook].pc = "run_send"]
      \/ th' = [th EXCEPT ![Webhook].pc = "run_save", ![Webhook].snap = Monitored(@)]
  BY DEF ExecuteRetry, ExecuteLink, Go
<1>10. CASE th' = [th EXCEPT ![Webhook].pc = "run_send"]
  <2>1. /\ OnlyMoves(Webhook) /\ th'[Webhook].pc = "run_send" /\ th'[Webhook].case = c
    BY <1>0, <1>2, <1>10 DEF OnlyMoves, ThreadState
  <2>2. HandlerPlace'
    BY <1>3, <1>4, <1>7, <2>1 DEF HandlerPlace, Fresh, Acted
  <2> QED BY <1>6, <1>8, <2>1, <2>2, HandlerGoesOn
<1>11. CASE th' = [th EXCEPT ![Webhook].pc = "run_save", ![Webhook].snap = Monitored(@)]
  <2>1. /\ OnlyMoves(Webhook) /\ th'[Webhook].pc = "run_save" /\ th'[Webhook].case = c
        /\ th'[Webhook].snap = Monitored(th[Webhook].snap)
    BY <1>0, <1>2, <1>11 DEF OnlyMoves, ThreadState
  <2>2. Monitored(th[Webhook].snap).status = "monitoring"
    BY <1>1 DEF Monitored, Case
  <2>3. HandlerPlace'
    BY <1>3, <1>4, <1>7, <2>1, <2>2 DEF HandlerPlace, Fresh, Acted, Conclusion
  <2> QED BY <1>6, <1>8, <2>1, <2>3, HandlerGoesOn
<1> QED BY <1>9, <1>10, <1>11

\* The handler writes the case it works on, and has nothing more to say about it.
LEMMA HandlerWrites ==
  ASSUME TypeInv, DrivenInv, NEW c \in CaseId, cases[c] # None, NEW v \in Case,
         v.status \in {"recovered"} \cup Conclusion,
         cases' = [cases EXCEPT ![c] = v], executed' = executed,
         OnlyMoves(Webhook), th'[Webhook].pc \notin Watched
  PROVE  DrivenInv'
<1>1. \A d \in CaseId : cases'[d] = IF d = c THEN v ELSE cases[d]
  BY DEF TypeInv, StoreTypeOK
<1>2. CasesDriven'
  BY <1>1, ConstantsAssumption DEF DrivenInv, CasesDriven
<1>3. HandlerPlace'
  BY DEF HandlerPlace, Watched
<1> QED BY <1>2, <1>3, HandlerGoesOn

LEMMA HandlerConcludes ==
  ASSUME TypeInv, DrivenInv, RunSave(Webhook) PROVE DrivenInv' /\ Concludes
<1>0. /\ Webhook \in Thread /\ th \in [Thread -> ThreadState] /\ th[Webhook] \in ThreadState
      /\ th[Webhook].pc = "run_save"
  BY DEF TypeInv, StoreTypeOK, Thread, RunSave, At
<1>1. PICK c \in CaseId, v \in Case :
        /\ c = th[Webhook].case /\ v = th[Webhook].snap
        /\ cases[c] # None /\ v.transaction_id = cases[c].transaction_id
  BY <1>0, ThreadType, SnapKnown DEF Held, CasePC, SnapPC, RunPC
<1>2. /\ cases[c].status = "detected" /\ v.status \in Conclusion
      /\ v.status = "monitoring" <=> executed[c] = 1
  BY <1>0, <1>1 DEF DrivenInv, HandlerPlace
<1>3. cases' = [cases EXCEPT ![c] = v] /\ UNCHANGED <<executed, payments>>
  BY <1>1 DEF RunSave, outreach, gateway
<1>4. OnlyMoves(Webhook) /\ th'[Webhook].pc \in {"run_action", "run_detail"}
  BY <1>0 DEF RunSave, OnlyMoves, ThreadState
<1>5. Concludes
  BY <1>1, <1>2, <1>3 DEF Concludes
<1>6. DrivenInv'
  BY <1>1, <1>2, <1>3, <1>4, HandlerWrites DEF Watched, Fresh, Acted
<1> QED BY <1>5, <1>6

LEMMA HandlerRecovers ==
  ASSUME TypeInv, PaidInv, DrivenInv, MarkSave(Webhook) PROVE DrivenInv' /\ Recovers
<1>0. /\ Webhook \in Thread /\ th \in [Thread -> ThreadState] /\ th[Webhook] \in ThreadState
      /\ th[Webhook].pc = "mark_save"
  BY DEF TypeInv, StoreTypeOK, Thread, MarkSave, At
<1>1. PICK c \in CaseId, snap \in Case :
        /\ c = th[Webhook].case /\ snap = th[Webhook].snap
        /\ cases[c] # None /\ snap.transaction_id = cases[c].transaction_id
  BY <1>0, ThreadType, SnapKnown DEF Held, CasePC, SnapPC
<1>2. payments[cases[c].transaction_id] > 0
  <2>1. /\ th[Webhook].event \in emitted /\ th[Webhook].event.kind \in PaidKind
        /\ th[Webhook].event.tx = cases[c].transaction_id
    BY <1>0, <1>1, ThreadType DEF Held, MarkPC
  <2> QED BY <2>1 DEF PaidInv, PaidEvents
<1>3. PICK v \in Case : /\ v = Recovered(snap) /\ v.status = "recovered"
                        /\ v.transaction_id = cases[c].transaction_id
  <2>1. Recovered(snap).status = "recovered"
    BY DEF Recovered, Case
  <2> QED BY <1>1, <2>1, RecoveredType
<1>4. cases' = [cases EXCEPT ![c] = v] /\ UNCHANGED <<executed, payments>>
  BY <1>1, <1>3 DEF MarkSave, outreach, gateway
<1>5. cases[c].status # "recovered"
  BY <1>0, <1>1 DEF DrivenInv, HandlerPlace
<1>6. OnlyMoves(Webhook) /\ th'[Webhook].pc = "mark_audit"
  BY <1>0 DEF MarkSave, OnlyMoves, ThreadState
<1>7. Recovers
  BY <1>1, <1>2, <1>3, <1>4, <1>5 DEF Recovers
<1>8. DrivenInv'
  BY <1>1, <1>3, <1>4, <1>6, HandlerWrites DEF Watched, Fresh, Acted
<1> QED BY <1>7, <1>8

-----------------------------------------------------------------------------
(* Every step *)

LEMMA HandlerLives ==
  ASSUME TypeInv, OwnInv, PaidInv, DrivenInv, WebhookStep PROVE DrivenInv' /\ LifeStep
<1>1. CASE \E e \in wire : WebhookIgnore(e)
  <2>1. UNCHANGED <<th, cases, executed, payments>>
    BY <1>1 DEF WebhookIgnore, outreach
  <2> QED BY <2>1 DEF DrivenInv, HandlerPlace, WorkersQuiet, CasesDriven, LifeStep, Stays
<1>2. CASE \/ \E e \in wire : WebhookAccept(e)
           \/ WebhookSaveTx \/ WebhookAuditFailure \/ WebhookRecord
           \/ IngestTx(Webhook) \/ IngestCase(Webhook) \/ RunAction(Webhook)
           \/ RunAudit(Webhook) \/ RunDetail(Webhook) \/ MarkAudit(Webhook)
  BY <1>2, HandlerQuiet DEF LifeStep, Stays
<1>3. CASE WebhookFindCase
  BY <1>3, HandlerFindCase DEF LifeStep, Stays
<1>4. CASE \/ IngestAudit(Webhook) \/ RunCase(Webhook) \/ RunContext(Webhook)
           \/ RunDecide(Webhook) \/ ExecuteSend(Webhook) \/ ExecuteDelivery(Webhook)
           \/ MarkRead(Webhook)
  BY <1>4, HandlerTowards DEF LifeStep, Stays
<1>5. CASE \/ IngestSave(Webhook) \/ ExecuteRetry(Webhook) \/ ExecuteLink(Webhook)
           \/ RunSave(Webhook) \/ MarkSave(Webhook)
  BY <1>5, HandlerOpens, HandlerActs, HandlerConcludes, HandlerRecovers DEF LifeStep
<1> QED BY <1>1, <1>2, <1>3, <1>4, <1>5
        DEF WebhookStep, WebhookHandle, IngestStep, RunStep, MarkStep

\* A restart forgets what was in flight; the gateway knows nothing of cases.
LEMMA OutsideLives ==
  ASSUME TypeInv, DrivenInv, Restart \/ Environment \/ UNCHANGED vars
  PROVE  DrivenInv' /\ LifeStep
<1>1. CASE Restart
  <2>1. \A t \in Thread : th'[t].pc = "idle"
    BY <1>1 DEF Restart, Idle
  <2>2. UNCHANGED <<cases, executed, payments>>
    BY <1>1 DEF Restart, outreach, gateway
  <2> QED BY <2>1, <2>2 DEF DrivenInv, HandlerPlace, WorkersQuiet, CasesDriven, Fresh, Acted,
                            RunPC, Thread, LifeStep, Stays
<1>2. ASSUME UNCHANGED <<th, cases, executed>> PROVE DrivenInv'
  BY <1>2 DEF DrivenInv, HandlerPlace, WorkersQuiet, CasesDriven
<1>3. CASE GatewayStep
  <2>1. PICK x \in Tx : AttemptFails(x) \/ CustomerPays(x) \/ LinkExpires(x)
    BY <1>3 DEF GatewayStep
  <2>2. UNCHANGED <<th, cases, executed>>
    BY <2>1 DEF AttemptFails, CustomerPays, LinkExpires, outreach
  <2>3. payments' = [payments EXCEPT ![x] = @ + 1] \/ payments' = payments
    BY <2>1 DEF AttemptFails, CustomerPays, LinkExpires
  <2> QED BY <1>2, <2>2, <2>3 DEF LifeStep, Pays, Stays
<1>4. CASE (\E e \in emitted : Redeliver(e)) \/ UNCHANGED vars
  <2>1. UNCHANGED <<th, cases, executed, payments>>
    BY <1>4 DEF Redeliver, vars, outreach, gateway
  <2> QED BY <1>2, <2>1 DEF LifeStep, Stays
<1> QED BY <1>1, <1>3, <1>4 DEF Environment

LEMMA DrivenNext ==
  ASSUME MaxRuns = 0, TypeInv, Budget, OwnInv, PaidInv, DrivenInv, [Next]_vars
  PROVE  DrivenInv' /\ LifeStep
<1>1. CASE \E w \in Workers : \/ NewPaymentEvent(w) \/ NewPayment(w) \/ StartRecovery(w)
                              \/ WorkerStep(w)
  BY <1>1, WorkerDriven, WorkerLives
<1>2. CASE WebhookStep
  BY <1>2, HandlerLives
<1>3. CASE Environment \/ UNCHANGED vars
  BY <1>3, OutsideLives
<1>4. CASE Fault
  <2>1. CASE \E t \in Thread : CallFails(t)
    <3>1. CASE CallFails(Webhook)
      BY <3>1, HandlerQuiet DEF LifeStep, Stays
    <3>2. CASE \E w \in Workers : CallFails(w)
      BY <3>2, WorkerDriven, WorkerLives
    <3> QED BY <2>1, <3>1, <3>2 DEF Thread
  <2>2. CASE \E w \in Workers : CreateLinkFails(w)
    BY <2>2, WorkerDriven, WorkerLives
  <2>3. CASE RecordFails
    BY <2>3, HandlerQuiet DEF LifeStep, Stays
  <2>4. CASE Restart
    BY <2>4, OutsideLives
  <2> QED BY <1>4, <2>1, <2>2, <2>3, <2>4 DEF Fault
<1> QED BY <1>1, <1>2, <1>3, <1>4 DEF Next

LEMMA DrivenInit == Init => DrivenInv
BY ConstantsAssumption
   DEF Init, StoreInit, Idle, DrivenInv, HandlerPlace, WorkersQuiet, CasesDriven, Fresh, Acted,
       RunPC, Thread

\* The invariants a case driven by the webhook rests on.
WholeInv == TypeInv /\ Budget /\ OwnInv /\ PaidInv /\ DrivenInv

LEMMA WholeInductive ==
  ASSUME MaxRuns = 0
  PROVE  Spec => []WholeInv
<1>1. Init => WholeInv
  <2>1. Init => Budget /\ PaidInv
    BY BoundsAssumption DEF Init, StoreInit, Budget, PaidInv, RecoveredImpliesPaid, PaidEvents,
                            Stored
  <2> QED BY <2>1, InitType, OwnInit, DrivenInit DEF WholeInv
<1>2. WholeInv /\ [Next]_vars => WholeInv'
  BY NextKeeps, BudgetKept, OwnNext, PaidNext, DrivenNext DEF WholeInv
<1> QED BY <1>1, <1>2, PTL DEF Spec

-----------------------------------------------------------------------------
(* The theorems *)

\* A RECOVERED case stays as it is, whatever is delivered late or repeated.
THEOREM RecoveredStays ==
  ASSUME MaxRuns = 0
  PROVE  Spec => RecoveredIsFinal
<1>1. WholeInv /\ [Next]_vars =>
        [\A c \in CaseId : (cases[c] # None /\ cases[c].status = "recovered")
                           => cases'[c] = cases[c]]_vars
  <2> SUFFICES ASSUME WholeInv, LifeStep, NEW c \in CaseId, cases[c] # None,
                      cases[c].status = "recovered"
               PROVE  cases'[c] = cases[c]
    BY DrivenNext DEF WholeInv
  <2>1. cases \in [CaseId -> Case \cup {None}]
    BY DEF WholeInv, TypeInv, StoreTypeOK
  <2> QED BY <2>1 DEF LifeStep, Opens, Acts, Concludes, Recovers, Pays, Stays
<1> QED BY <1>1, WholeInductive, PTL DEF Spec, RecoveredIsFinal

\* What the mapping makes of a step that writes one case.
LEMMA CaseMaps ==
  ASSUME TypeInv, NEW c \in CaseId, NEW v \in Case, cases' = [cases EXCEPT ![c] = v]
  PROVE  /\ OfTx' = [OfTx EXCEPT ![c] = v.transaction_id]
         /\ LifeState' = [LifeState EXCEPT ![c] = IF v.status = "detected" THEN "open"
                                                  ELSE v.status]
<1>1. /\ v # None
      /\ \A d \in CaseId : cases'[d] = IF d = c THEN v ELSE cases[d]
  BY ConstantsAssumption DEF TypeInv, StoreTypeOK
<1>2. \A d \in CaseId : OfTx'[d] = IF d = c THEN v.transaction_id ELSE OfTx[d]
  BY <1>1 DEF OfTx, TxOf
<1>3. \A d \in CaseId :
        LifeState'[d] = IF d = c THEN (IF v.status = "detected" THEN "open" ELSE v.status)
                        ELSE LifeState[d]
  BY <1>1 DEF LifeState, Status
<1> QED BY <1>2, <1>3 DEF OfTx, LifeState

LEMMA LifeMaps ==
  ASSUME TypeInv, DrivenInv, LifeStep
  PROVE  [Lifecycle!Next]_(Lifecycle!vars)
<1>0. cases \in [CaseId -> Case \cup {None}] /\ None \notin Case /\ None \notin Tx
  BY ConstantsAssumption DEF TypeInv, StoreTypeOK
<1>1. UNCHANGED cases => UNCHANGED <<OfTx, LifeState>>
  BY DEF OfTx, LifeState, TxOf, Status
<1>2. UNCHANGED payments => UNCHANGED PaidTx
  BY DEF PaidTx
<1>3. CASE Opens
  <2>1. PICK c \in CaseId, x \in Tx : /\ cases[c] = None /\ NoCase(x)
                                      /\ cases' = [cases EXCEPT ![c] = NewCase(x)]
                                      /\ UNCHANGED <<executed, payments>>
    BY <1>3 DEF Opens
  <2>2. LifeState[c] = "absent" /\ \A d \in CaseId : OfTx[d] # x
    BY <1>0, <2>1 DEF LifeState, OfTx, NoCase, Stored, TxOf
  <2>3. OfTx' = [OfTx EXCEPT ![c] = x] /\ LifeState' = [LifeState EXCEPT ![c] = "open"]
    BY <2>1, NewCaseType, CaseMaps DEF NewCase
  <2>4. Lifecycle!Open(c, x)
    BY <1>2, <2>1, <2>2, <2>3 DEF Lifecycle!Open
  <2> QED BY <2>4 DEF Lifecycle!Next
<1>4. CASE Acts
  <2>1. PICK c \in CaseId : /\ cases[c] # None /\ cases[c].status = "detected"
                            /\ executed[c] = 0 /\ executed' = [executed EXCEPT ![c] = 1]
                            /\ UNCHANGED <<cases, payments>>
    BY <1>4 DEF Acts
  <2>2. LifeState[c] = "open"
    BY <2>1 DEF LifeState, Status
  <2>3. Lifecycle!Contact(c)
    BY <1>1, <1>2, <2>1, <2>2 DEF Lifecycle!Contact
  <2> QED BY <2>3 DEF Lifecycle!Next
<1>5. CASE Concludes
  <2>1. PICK c \in CaseId, v \in Case :
          /\ cases[c] # None /\ cases[c].status = "detected"
          /\ v.transaction_id = cases[c].transaction_id
          /\ v.status \in Conclusion
          /\ v.status = "monitoring" <=> executed[c] = 1
          /\ cases' = [cases EXCEPT ![c] = v]
          /\ UNCHANGED <<executed, payments>>
    BY <1>5 DEF Concludes
  <2>2. LifeState[c] = "open" /\ OfTx[c] = v.transaction_id
    BY <2>1 DEF LifeState, Status, OfTx, TxOf
  <2>3. OfTx' = OfTx /\ LifeState' = [LifeState EXCEPT ![c] = v.status]
    <3>1. OfTx' = [OfTx EXCEPT ![c] = v.transaction_id]
          /\ LifeState' = [LifeState EXCEPT ![c] = v.status]
      BY <2>1, CaseMaps DEF Conclusion
    <3> QED BY <2>2, <3>1 DEF OfTx
  <2>4. Lifecycle!Conclude(c, v.status)
    BY <1>2, <2>1, <2>2, <2>3 DEF Lifecycle!Conclude
  <2> QED BY <2>1, <2>4 DEF Lifecycle!Next, Lifecycle!Conclusion, Conclusion
<1>6. CASE Recovers
  <2>1. PICK c \in CaseId, v \in Case :
          /\ cases[c] # None /\ cases[c].status # "recovered"
          /\ v.transaction_id = cases[c].transaction_id /\ v.status = "recovered"
          /\ payments[v.transaction_id] > 0
          /\ cases' = [cases EXCEPT ![c] = v]
          /\ UNCHANGED <<executed, payments>>
    BY <1>6 DEF Recovers
  <2>2. LifeState[c] # "absent" /\ OfTx[c] = v.transaction_id
    <3>1. cases[c].status \in RecoveryStatus
      BY <1>0, <2>1 DEF Case
    <3> QED BY <2>1, <3>1 DEF LifeState, Status, OfTx, TxOf, RecoveryStatus
  <2>3. OfTx[c] \in PaidTx
    BY <2>1, <2>2 DEF PaidTx, Case
  <2>4. OfTx' = OfTx /\ LifeState' = [LifeState EXCEPT ![c] = "recovered"]
    <3>1. OfTx' = [OfTx EXCEPT ![c] = v.transaction_id]
          /\ LifeState' = [LifeState EXCEPT ![c] = "recovered"]
      BY <2>1, CaseMaps
    <3> QED BY <2>2, <3>1 DEF OfTx
  <2>5. Lifecycle!Recover(c)
    BY <1>2, <2>1, <2>2, <2>3, <2>4 DEF Lifecycle!Recover
  <2> QED BY <2>5 DEF Lifecycle!Next
<1>7. CASE Pays
  <2>1. PICK x \in Tx : /\ payments' = [payments EXCEPT ![x] = @ + 1]
                        /\ UNCHANGED <<cases, executed>>
    BY <1>7 DEF Pays
  <2>2. payments \in [Tx -> Nat]
    BY DEF TypeInv, StoreTypeOK
  <2>3. PaidTx' = PaidTx \cup {x}
    <3>1. \A y \in Tx : payments'[y] > 0 <=> y = x \/ payments[y] > 0
      BY <2>1, <2>2
    <3> QED BY <3>1 DEF PaidTx
  <2>4. Lifecycle!Pay(x)
    BY <1>1, <2>1, <2>3 DEF Lifecycle!Pay
  <2> QED BY <2>4 DEF Lifecycle!Next
<1>8. CASE Stays
  BY <1>1, <1>2, <1>8 DEF Stays, Lifecycle!vars
<1> QED BY <1>3, <1>4, <1>5, <1>6, <1>7, <1>8 DEF LifeStep

\* The webhook handler, the store and the gateway, with every fault, implement
\* the life of a case that CaseLifecycle states without any of them.
THEOREM WebhookImplementsLifecycle ==
  ASSUME MaxRuns = 0
  PROVE  Spec => ImplementsLifecycle
<1>1. Init => Lifecycle!Init
  <2> SUFFICES ASSUME Init PROVE Lifecycle!Init
    OBVIOUS
  <2>1. /\ OfTx = [c \in CaseId |-> None] /\ LifeState = [c \in CaseId |-> "absent"]
        /\ PaidTx = {} /\ executed = [c \in CaseId |-> 0]
    BY DEF Init, StoreInit, OfTx, LifeState, PaidTx
  <2> QED BY <2>1 DEF Lifecycle!Init
<1>2. WholeInv /\ [Next]_vars => [Lifecycle!Next]_(Lifecycle!vars)
  BY DrivenNext, LifeMaps DEF WholeInv
<1> QED BY <1>1, <1>2, WholeInductive, PTL DEF Spec, ImplementsLifecycle, Lifecycle!Spec

-----------------------------------------------------------------------------
(* The counters of a case agree with what was done *)

\* The action on case c is executed, and not yet saved in the case.
InFlight(c) == th[Webhook].case = c /\ th[Webhook].pc \in Acted \cup {"run_save"}

SameCounters(v, w) == v.retry_count = w.retry_count /\ v.message_count = w.message_count

CaseCounted(c) ==
  /\ cases[c].retry_count = cases[c].message_count
  /\ cases[c].retry_count <= executed[c]
  /\ cases[c].status = "detected" => cases[c].retry_count = 0
  /\ executed[c] <= cases[c].retry_count + faults \/ InFlight(c)

\* The handler's copy has the counters of the case until the action is counted.
CopyCounted ==
  LET r == th[Webhook]
  IN /\ r.pc \in SnapPC \ {"run_save"} => SameCounters(r.snap, cases[r.case])
     /\ r.pc = "run_save" => /\ r.snap.retry_count = executed[r.case]
                             /\ r.snap.message_count = executed[r.case]

CountInv == (\A c \in Stored : CaseCounted(c)) /\ CopyCounted

\* What a step of a worker can mean to the handler, when nobody asks for a run.
LEMMA WorkerFrame ==
  ASSUME MaxRuns = 0, TypeInv, Budget, DrivenInv, NEW w \in Workers,
         NewPaymentEvent(w) \/ NewPayment(w) \/ StartRecovery(w) \/ WorkerStep(w)
           \/ CallFails(w) \/ CreateLinkFails(w)
  PROVE  /\ OnlyMoves(w) /\ th'[Webhook] = th[Webhook]
         /\ UNCHANGED <<cases, executed>> \/ (IngestSave(w) /\ UNCHANGED executed)
<1>1. w \in Thread /\ ~RunStep(w)
  BY RunStepPlace DEF Thread, DrivenInv, WorkersQuiet
<1>2. CASE \/ NewPaymentEvent(w) \/ NewPayment(w) \/ StartRecovery(w) \/ CreateLink(w)
           \/ CreateLinkFails(w) \/ IngestCase(w) \/ IngestAudit(w) \/ CallFails(w)
  <2>1. Leaves(w)
    BY <1>1, <1>2, RequestLeaves, ServiceLeaves, FailureLeaves
  <2> QED BY <2>1, WorkerIsNotHandler DEF Leaves
<1>3. CASE IngestSave(w)
  <2>1. OnlyMoves(w) /\ UNCHANGED executed
    BY <1>1, <1>3 DEF IngestSave, OnlyMoves, outreach, TypeInv, StoreTypeOK
  <2> QED BY <1>3, <2>1, WorkerIsNotHandler
<1> QED BY <1>1, <1>2, <1>3 DEF WorkerStep

\* Faults only grow, and a fault that strikes makes up for an uncounted action.
LEMMA FaultsGrow ==
  ASSUME Budget, [Next]_vars
  PROVE  faults \in Nat /\ faults' \in Nat /\ faults' >= faults /\ (Fault => faults' >= 1)
<1>1. faults \in Nat /\ faults' \in {faults, faults + 1} /\ (Fault => faults' = faults + 1)
  BY BoundsAssumption
     DEF Budget, Next, Fault, Environment, vars, budget, NewPaymentEvent, NewPayment, StartRecovery,
         WorkerStep, WebhookStep
<1> QED BY <1>1

\* What the invariants say of numbers.
LEMMA CountTypes ==
  ASSUME TypeInv, DrivenInv, NEW c \in Stored
  PROVE  /\ c \in CaseId /\ cases[c] \in Case /\ executed[c] \in {0, 1}
         /\ cases[c].retry_count \in Nat /\ cases[c].message_count \in Nat
BY DEF TypeInv, StoreTypeOK, Stored, DrivenInv, CasesDriven, Case

\* Cases and actions stay; what was in flight is, or a fault struck.
LEMMA CountFrame ==
  ASSUME TypeInv, DrivenInv, Budget, [Next]_vars, CountInv, UNCHANGED <<cases, executed>>,
         \/ faults' >= 1
         \/ \A c \in CaseId : InFlight(c) => InFlight(c)',
         CopyCounted'
  PROVE  CountInv'
<1> SUFFICES ASSUME NEW c \in Stored PROVE CaseCounted(c)'
  BY DEF CountInv, Stored
<1>1. faults \in Nat /\ faults' \in Nat /\ faults' >= faults
  BY FaultsGrow
<1>2. /\ c \in CaseId /\ executed[c] \in {0, 1} /\ cases[c].retry_count \in Nat
      /\ CaseCounted(c)
  BY CountTypes DEF CountInv
<1>3. executed[c] <= cases[c].retry_count + faults' \/ InFlight(c)'
  BY <1>1, <1>2 DEF CaseCounted
<1> QED BY <1>2, <1>3 DEF CaseCounted

\* The handler is where it has no copy, and had nothing in flight.
LEMMA CountLeaves ==
  ASSUME TypeInv, DrivenInv, Budget, [Next]_vars, CountInv, UNCHANGED <<cases, executed>>,
         th'[Webhook].pc \notin SnapPC,
         faults' >= 1 \/ th[Webhook].pc \notin Acted \cup {"run_save"}
  PROVE  CountInv'
BY CountFrame DEF CopyCounted, SnapPC, InFlight

\* One case is written, with counters that tell what was done for it.
LEMMA CountWrite ==
  ASSUME TypeInv, DrivenInv, Budget, [Next]_vars, CountInv, UNCHANGED executed,
         NEW c \in CaseId, NEW v \in Case, cases' = [cases EXCEPT ![c] = v],
         v.retry_count = v.message_count, v.retry_count <= executed[c],
         v.status = "detected" => v.retry_count = 0,
         executed[c] <= v.retry_count + faults,
         \A d \in CaseId \ {c} : InFlight(d) => InFlight(d)',
         CopyCounted'
  PROVE  CountInv'
<1>1. \A d \in CaseId : cases'[d] = IF d = c THEN v ELSE cases[d]
  BY DEF TypeInv, StoreTypeOK
<1>2. faults \in Nat /\ faults' \in Nat /\ faults' >= faults
  BY FaultsGrow
<1>3. executed[c] \in {0, 1} /\ v.retry_count \in Nat
  BY DEF DrivenInv, CasesDriven, Case
<1>4. CaseCounted(c)'
  <2>1. executed[c] <= v.retry_count + faults'
    BY <1>2, <1>3
  <2> QED BY <1>1, <2>1 DEF CaseCounted
<1>5. ASSUME NEW d \in Stored', d # c PROVE CaseCounted(d)'
  <2>1. d \in Stored /\ cases'[d] = cases[d]
    BY <1>1, <1>5 DEF Stored
  <2>2. executed[d] \in {0, 1} /\ cases[d].retry_count \in Nat /\ CaseCounted(d) /\ d \in CaseId
    BY <2>1, CountTypes DEF CountInv
  <2>3. executed[d] <= cases[d].retry_count + faults' \/ InFlight(d)'
    BY <1>2, <1>5, <2>2 DEF CaseCounted
  <2> QED BY <2>1, <2>2, <2>3 DEF CaseCounted
<1> QED BY <1>4, <1>5 DEF CountInv, Stored

\* A case is opened with counters of 0, by the handler or by a worker.
LEMMA CountOpens ==
  ASSUME TypeInv, DrivenInv, Budget, [Next]_vars, CountInv, NEW t \in Thread, IngestSave(t)
  PROVE  CountInv'
<1>0. th \in [Thread -> ThreadState] /\ th[t] \in ThreadState /\ Webhook \in Thread
  BY DEF TypeInv, StoreTypeOK, Thread
<1>1. PICK c \in CaseId : /\ cases[c] = None
                          /\ cases' = [cases EXCEPT ![c] = NewCase(th[t].tx)]
                          /\ th' = [th EXCEPT ![t].pc = "ingest_audit", ![t].case = c]
  BY DEF IngestSave
<1>2. PICK v \in Case : /\ v = NewCase(th[t].tx)
                       /\ v.retry_count = 0 /\ v.message_count = 0
  <2>1. NewCase(th[t].tx) \in Case
    BY ThreadType, NewCaseType DEF IngestSave, At, Held, TxPC
  <2> QED BY <2>1 DEF NewCase
<1>3. executed[c] = 0 /\ UNCHANGED executed
  BY <1>1 DEF DrivenInv, CasesDriven, IngestSave, outreach
<1>6. SUFFICES /\ \A d \in CaseId \ {c} : InFlight(d) => InFlight(d)'
               /\ CopyCounted'
  <2>1. /\ v.retry_count = v.message_count /\ v.retry_count <= executed[c]
        /\ executed[c] <= v.retry_count + faults
    BY <1>2, <1>3, FaultsGrow
  <2> QED BY <1>1, <1>2, <1>3, <2>1, CountWrite
<1>4. CASE t = Webhook
  <2>1. th[Webhook].pc = "ingest_save" /\ th'[Webhook].pc = "ingest_audit"
    BY <1>0, <1>1, <1>4 DEF IngestSave, At, ThreadState
  <2>2. CopyCounted' /\ \A d \in CaseId : ~InFlight(d)
    BY <2>1 DEF CopyCounted, SnapPC, InFlight, Acted
  <2> QED BY <2>2
<1>5. CASE t # Webhook
  <2>1. th'[Webhook] = th[Webhook]
    BY <1>0, <1>1, <1>5
  <2>2. th[Webhook].pc \in SnapPC => th[Webhook].case \in CaseId /\ th[Webhook].case # c
    BY <1>0, <1>1, ThreadType DEF Held, CasePC, SnapPC, RunPC
  <2>3. \A d \in CaseId \ {c} : cases'[d] = cases[d]
    BY <1>1 DEF TypeInv, StoreTypeOK
  <2>4. CopyCounted'
    BY <1>3, <2>1, <2>2, <2>3 DEF CountInv, CopyCounted, SnapPC
  <2>5. \A d \in CaseId : InFlight(d) => InFlight(d)'
    BY <2>1 DEF InFlight
  <2> QED BY <2>4, <2>5
<1> QED BY <1>4, <1>5

\* What the handler's copy is compared with.
LEMMA CopyTypes ==
  ASSUME TypeInv, th[Webhook].pc \in SnapPC
  PROVE  LET r == th[Webhook]
         IN /\ r.case \in Stored /\ r.snap \in Case /\ cases[r.case] \in Case
            /\ r.snap.retry_count \in Nat /\ r.snap.message_count \in Nat
<1>1. Webhook \in Thread
  BY DEF Thread
<1>2. th[Webhook].case \in CaseId /\ cases[th[Webhook].case] \in Case /\ th[Webhook].snap \in Case
  BY <1>1, CaseKnown, SnapKnown DEF SnapPC, CasePC, RunPC
<1>3. th[Webhook].case \in Stored
  BY <1>2, ConstantsAssumption DEF Stored
<1> QED BY <1>2, <1>3 DEF Case

\* The copy is taken, or kept as it is while the case is.
LEMMA CountReads ==
  ASSUME TypeInv, DrivenInv, Budget, [Next]_vars, CountInv,
         \/ RunCase(Webhook) \/ MarkRead(Webhook) \/ RunContext(Webhook) \/ ExecuteSend(Webhook)
  PROVE  CountInv'
<1>0. /\ Webhook \in Thread /\ th \in [Thread -> ThreadState] /\ th[Webhook] \in ThreadState
      /\ UNCHANGED <<cases, executed>>
  BY DEF TypeInv, StoreTypeOK, Thread, RunCase, MarkRead, RunContext, ExecuteSend, outreach
<1>1. CASE RunCase(Webhook) \/ MarkRead(Webhook)
  <2>1. /\ th[Webhook].pc \in {"run_case", "mark_read"}
        /\ th'[Webhook].pc \in {"run_context", "mark_save"}
        /\ th'[Webhook].case = th[Webhook].case /\ th'[Webhook].snap = cases[th[Webhook].case]
    BY <1>0, <1>1 DEF RunCase, MarkRead, At, ThreadState
  <2>2. CopyCounted' /\ \A c \in CaseId : ~InFlight(c)
    BY <1>0, <2>1 DEF CopyCounted, SameCounters, InFlight, Acted
  <2> QED BY <1>0, <2>2, CountFrame
<1>2. CASE RunContext(Webhook)
  <2>1. th[Webhook].pc = "run_context"
    BY <1>2 DEF RunContext, At
  <2>2. CASE EndRun(Webhook)
    <3>1. th'[Webhook].pc \notin SnapPC
      BY <1>0, <2>2, EndsWithoutSnapshot
    <3> QED BY <1>0, <2>1, <3>1, CountLeaves DEF Acted
  <2>3. CASE ~EndRun(Webhook)
    <3>1. /\ th'[Webhook].pc = "run_decide" /\ th'[Webhook].case = th[Webhook].case
          /\ th'[Webhook].snap = th[Webhook].snap
      BY <1>0, <1>2, <2>3 DEF RunContext, ThreadState
    <3>2. CopyCounted' /\ \A c \in CaseId : ~InFlight(c)
      BY <1>0, <2>1, <3>1 DEF CountInv, CopyCounted, SameCounters, InFlight, Acted, SnapPC
    <3> QED BY <1>0, <3>2, CountFrame
  <2> QED BY <2>2, <2>3
<1>3. CASE ExecuteSend(Webhook)
  <2>1. /\ th[Webhook].pc = "run_send" /\ th'[Webhook].pc = "run_delivery"
        /\ th'[Webhook].case = th[Webhook].case /\ th'[Webhook].snap = th[Webhook].snap
    BY <1>0, <1>3 DEF ExecuteSend, At, Go, ThreadState
  <2>2. CopyCounted' /\ \A c \in CaseId : InFlight(c) => InFlight(c)'
    BY <1>0, <2>1 DEF CountInv, CopyCounted, SameCounters, InFlight, Acted, SnapPC
  <2> QED BY <1>0, <2>2, CountFrame
<1> QED BY <1>1, <1>2, <1>3

\* A case that has not been acted on is decided, its counters being 0.
LEMMA CountDecides ==
  ASSUME TypeInv, DrivenInv, Budget, [Next]_vars, CountInv, RunDecide(Webhook)
  PROVE  CountInv'
<1>0. /\ Webhook \in Thread /\ th \in [Thread -> ThreadState] /\ th[Webhook] \in ThreadState
      /\ th[Webhook].pc = "run_decide" /\ UNCHANGED <<cases, executed>>
  BY Zenon DEF TypeInv, StoreTypeOK, Thread, RunDecide, At, outreach
<1>1. CASE EndRun(Webhook)
  <2>1. th'[Webhook].pc \notin SnapPC
    BY <1>0, <1>1, EndsWithoutSnapshot
  <2> QED BY <1>0, <2>1, CountLeaves DEF Acted
<1>2. CASE ~EndRun(Webhook)
  <2>1. PICK d \in PossibleDecisions(th[Webhook].seen) :
          IF d = "recover"
          THEN \E a \in OutreachAction :
                 th' = [th EXCEPT ![Webhook].pc = "run_execute", ![Webhook].action = a,
                                  ![Webhook].snap = Decided(@, d)]
          ELSE th' = [th EXCEPT ![Webhook].pc = "run_save", ![Webhook].snap = Decided(@, d)]
    BY <1>2, Zenon DEF RunDecide
  <2>2. /\ th'[Webhook].pc \in {"run_execute", "run_save"}
        /\ th'[Webhook].case = th[Webhook].case
        /\ th'[Webhook].snap = Decided(th[Webhook].snap, d)
    <3>1. CASE d = "recover"
      <4>1. PICK a \in OutreachAction :
              th' = [th EXCEPT ![Webhook].pc = "run_execute", ![Webhook].action = a,
                               ![Webhook].snap = Decided(@, d)]
        BY <2>1, <3>1, Zenon
      <4> QED BY <1>0, <4>1 DEF ThreadState
    <3>2. CASE d # "recover"
      BY <1>0, <2>1, <3>2 DEF ThreadState
    <3> QED BY <3>1, <3>2
  <2>3. SameCounters(Decided(th[Webhook].snap, d), th[Webhook].snap)
    BY <1>0, CopyTypes DEF Decided, SameCounters, Case, SnapPC
  <2>4. th[Webhook].case \in Stored /\ executed[th[Webhook].case] = 0
    BY <1>0, CopyTypes DEF SnapPC, DrivenInv, HandlerPlace, Fresh
  <2>5. /\ SameCounters(th[Webhook].snap, cases[th[Webhook].case])
        /\ cases[th[Webhook].case].retry_count = 0 /\ cases[th[Webhook].case].message_count = 0
    BY <1>0, <2>4, CountTypes DEF CountInv, CaseCounted, CopyCounted, SnapPC
  <2>6. CopyCounted' /\ \A c \in CaseId : ~InFlight(c)
    BY <1>0, <2>2, <2>3, <2>4, <2>5 DEF CopyCounted, SameCounters, InFlight, Acted
  <2> QED BY <1>0, <2>6, CountFrame
<1> QED BY <1>1, <1>2

\* The e-mail's record is written, and the action counted in the copy.
LEMMA CountDelivers ==
  ASSUME TypeInv, DrivenInv, Budget, [Next]_vars, CountInv, ExecuteDelivery(Webhook)
  PROVE  CountInv'
<1>0. /\ Webhook \in Thread /\ th \in [Thread -> ThreadState] /\ th[Webhook] \in ThreadState
      /\ th[Webhook].pc = "run_delivery" /\ UNCHANGED <<cases, executed>>
  BY DEF TypeInv, StoreTypeOK, Thread, ExecuteDelivery, At, outreach
<1>1. /\ th'[Webhook].pc = "run_save" /\ th'[Webhook].case = th[Webhook].case
      /\ th'[Webhook].snap = Monitored(th[Webhook].snap)
  BY <1>0 DEF ExecuteDelivery, ThreadState
<1>2. /\ th[Webhook].case \in Stored /\ cases[th[Webhook].case].status = "detected"
      /\ executed[th[Webhook].case] = 1
  BY <1>0, CopyTypes DEF SnapPC, DrivenInv, HandlerPlace, Acted
<1>3. th[Webhook].snap.retry_count = 0 /\ th[Webhook].snap.message_count = 0
  BY <1>0, <1>2 DEF CountInv, CaseCounted, CopyCounted, SameCounters, SnapPC
<1>4. /\ Monitored(th[Webhook].snap).retry_count = 1
      /\ Monitored(th[Webhook].snap).message_count = 1
  BY <1>0, <1>3, CopyTypes DEF Monitored, Case, SnapPC
<1>5. CopyCounted' /\ \A c \in CaseId : InFlight(c) => InFlight(c)'
  BY <1>0, <1>1, <1>2, <1>4 DEF CopyCounted, InFlight, Acted
<1> QED BY <1>0, <1>5, CountFrame

\* The action is executed: from here on it is in flight.
LEMMA CountActs ==
  ASSUME TypeInv, DrivenInv, Budget, [Next]_vars, CountInv,
         ExecuteRetry(Webhook) \/ ExecuteLink(Webhook)
  PROVE  CountInv'
<1>0. /\ Webhook \in Thread /\ th \in [Thread -> ThreadState] /\ th[Webhook] \in ThreadState
      /\ th[Webhook].pc = "run_execute" /\ UNCHANGED cases
  BY DEF TypeInv, StoreTypeOK, Thread, ExecuteRetry, ExecuteLink, At
<1>1. PICK c \in Stored : c = th[Webhook].case
  BY <1>0, CopyTypes DEF SnapPC
<1>2. cases[c].status = "detected" /\ executed[c] = 0 /\ c \in CaseId
  BY <1>0, <1>1 DEF DrivenInv, HandlerPlace, Fresh, Stored
<1>3. \A d \in CaseId : executed'[d] = IF d = c THEN 1 ELSE executed[d]
  BY <1>1, <1>2 DEF ExecuteRetry, ExecuteLink, TypeInv, StoreTypeOK
<1>4. /\ cases[c].retry_count = 0 /\ cases[c].message_count = 0
      /\ th[Webhook].snap.retry_count = 0 /\ th[Webhook].snap.message_count = 0
  BY <1>0, <1>1, <1>2 DEF CountInv, CaseCounted, CopyCounted, SameCounters, SnapPC
<1>5. /\ Monitored(th[Webhook].snap).retry_count = 1
      /\ Monitored(th[Webhook].snap).message_count = 1
  BY <1>0, <1>4, CopyTypes DEF Monitored, Case, SnapPC
<1>6. /\ th'[Webhook].case = c
      /\ \/ th'[Webhook].pc = "run_send" /\ th'[Webhook].snap = th[Webhook].snap
         \/ th'[Webhook].pc = "run_save" /\ th'[Webhook].snap = Monitored(th[Webhook].snap)
  BY <1>0, <1>1 DEF ExecuteRetry, ExecuteLink, Go, ThreadState
<1>7. CopyCounted'
  BY <1>0, <1>2, <1>3, <1>4, <1>5, <1>6 DEF CopyCounted, SameCounters
<1>8. CaseCounted(c)'
  BY <1>0, <1>2, <1>3, <1>4, <1>6 DEF CaseCounted, InFlight, Acted
<1>9. ASSUME NEW d \in Stored, d # c PROVE CaseCounted(d)'
  <2>1. faults \in Nat /\ faults' \in Nat /\ faults' >= faults
    BY FaultsGrow
  <2>2. /\ CaseCounted(d) /\ ~InFlight(d) /\ executed'[d] = executed[d] /\ executed[d] \in {0, 1}
        /\ cases[d].retry_count \in Nat
    BY <1>0, <1>1, <1>3, <1>9, CountTypes DEF CountInv, InFlight
  <2>3. executed[d] <= cases[d].retry_count + faults'
    BY <2>1, <2>2 DEF CaseCounted
  <2> QED BY <1>0, <2>2, <2>3 DEF CaseCounted
<1>10. Stored' = Stored
  BY <1>0 DEF Stored
<1> QED BY <1>7, <1>8, <1>9, <1>10 DEF CountInv

\* The copy is saved: what was in flight is counted.
LEMMA CountSaves ==
  ASSUME TypeInv, DrivenInv, Budget, [Next]_vars, CountInv, RunSave(Webhook) \/ MarkSave(Webhook)
  PROVE  CountInv'
<1>0. /\ Webhook \in Thread /\ th \in [Thread -> ThreadState] /\ th[Webhook] \in ThreadState
      /\ th[Webhook].pc \in {"run_save", "mark_save"} /\ UNCHANGED executed
  BY DEF TypeInv, StoreTypeOK, Thread, RunSave, MarkSave, At, outreach
<1>1. PICK c \in Stored : c = th[Webhook].case
  BY <1>0, CopyTypes DEF SnapPC
<1>2. /\ CaseCounted(c) /\ c \in CaseId /\ th[Webhook].snap \in Case
      /\ executed[c] \in {0, 1} /\ faults \in Nat
  BY <1>0, <1>1, CopyTypes, CountTypes, FaultsGrow DEF CountInv, Stored, SnapPC
<1>3. th'[Webhook].pc \in {"run_action", "run_detail", "mark_audit"}
  BY <1>0 DEF RunSave, MarkSave, ThreadState
<1>4. CopyCounted' /\ \A d \in CaseId \ {c} : ~InFlight(d)
  BY <1>1, <1>3 DEF CopyCounted, SnapPC, InFlight
<1>5. PICK v \in Case :
        /\ cases' = [cases EXCEPT ![c] = v]
        /\ v.retry_count = v.message_count /\ v.retry_count <= executed[c]
        /\ v.status = "detected" => v.retry_count = 0
        /\ executed[c] <= v.retry_count + faults
  <2>1. CASE RunSave(Webhook)
    <3>1. th[Webhook].pc = "run_save" /\ cases' = [cases EXCEPT ![c] = th[Webhook].snap]
      BY <1>1, <2>1 DEF RunSave, At
    <3>2. /\ th[Webhook].snap.retry_count = executed[c]
          /\ th[Webhook].snap.message_count = executed[c]
          /\ th[Webhook].snap.status \in Conclusion
      BY <1>1, <3>1 DEF CountInv, CopyCounted, DrivenInv, HandlerPlace
    <3>3. PICK v \in Case : v = th[Webhook].snap
      BY <1>2
    <3>4. /\ cases' = [cases EXCEPT ![c] = v] /\ v.status # "detected"
          /\ v.retry_count = executed[c] /\ v.message_count = executed[c]
      BY <3>1, <3>2, <3>3 DEF Conclusion
    <3>5. v.retry_count <= executed[c] /\ executed[c] <= v.retry_count + faults
      BY <1>2, <3>4
    <3> QED BY <3>4, <3>5
  <2>2. CASE MarkSave(Webhook)
    <3> DEFINE v == Recovered(th[Webhook].snap)
    <3>1. th[Webhook].pc = "mark_save" /\ cases' = [cases EXCEPT ![c] = v]
      BY <1>1, <2>2 DEF MarkSave, At
    <3>2. v \in Case /\ v.status = "recovered" /\ SameCounters(v, th[Webhook].snap)
      BY <1>2, RecoveredType DEF Recovered, Case, SameCounters
    <3>3. SameCounters(th[Webhook].snap, cases[c]) /\ ~InFlight(c)
      BY <1>1, <3>1 DEF CountInv, CopyCounted, SnapPC, InFlight, Acted
    <3> HIDE DEF v
    <3> QED BY <1>2, <3>1, <3>2, <3>3 DEF SameCounters, CaseCounted
  <2> QED BY <1>0, <2>1, <2>2
<1> QED BY <1>0, <1>2, <1>4, <1>5, CountWrite

\* The steps of the handler that leave cases and actions alone.
LEMMA CountQuiet ==
  ASSUME TypeInv, DrivenInv, Budget, [Next]_vars, CountInv,
         \/ \E e \in wire : WebhookIgnore(e) \/ WebhookAccept(e)
         \/ WebhookSaveTx \/ WebhookFindCase \/ WebhookAuditFailure \/ WebhookRecord
         \/ RecordFails \/ IngestTx(Webhook) \/ IngestCase(Webhook) \/ IngestAudit(Webhook)
         \/ RunAction(Webhook) \/ RunAudit(Webhook) \/ RunDetail(Webhook) \/ MarkAudit(Webhook)
  PROVE  CountInv'
<1>1. CASE \E e \in wire : WebhookIgnore(e)
  <2>1. UNCHANGED <<th, cases, executed>>
    BY <1>1 DEF WebhookIgnore, outreach
  <2>2. CopyCounted' /\ \A c \in CaseId : InFlight(c) => InFlight(c)'
    BY <2>1 DEF CountInv, CopyCounted, InFlight
  <2> QED BY <2>1, <2>2, CountFrame
<1>2. CASE \/ \E e \in wire : WebhookAccept(e)
           \/ WebhookSaveTx \/ WebhookFindCase \/ WebhookAuditFailure \/ WebhookRecord
           \/ RecordFails
  <2>1. Leaves(Webhook)
    BY <1>2, WebhookLeaves
  <2>2. th[Webhook].pc \in {"idle", "hook_tx", "hook_case", "hook_audit", "hook_record"}
    BY <1>2 DEF WebhookAccept, WebhookSaveTx, WebhookFindCase, WebhookAuditFailure, WebhookRecord,
                RecordFails, At
  <2> QED BY <2>1, <2>2, CountLeaves DEF Leaves, Acted
<1>3. CASE \/ IngestTx(Webhook) \/ IngestCase(Webhook) \/ IngestAudit(Webhook)
           \/ RunAction(Webhook) \/ RunAudit(Webhook) \/ RunDetail(Webhook) \/ MarkAudit(Webhook)
  <2>1. Webhook \in Thread
    BY DEF Thread
  <2>2. Leaves(Webhook)
    BY <1>3, <2>1, ServiceLeaves
  <2>3. th[Webhook].pc \in {"ingest_tx", "ingest_case", "ingest_audit", "run_action", "run_audit",
                            "run_detail", "mark_audit"}
    BY <1>3 DEF IngestTx, IngestCase, IngestAudit, RunAction, RunAudit, RunDetail, MarkAudit, At
  <2> QED BY <2>2, <2>3, CountLeaves DEF Leaves, Acted
<1> QED BY <1>1, <1>2, <1>3

\* A worker can only open a case.
LEMMA CountWorker ==
  ASSUME MaxRuns = 0, TypeInv, DrivenInv, Budget, [Next]_vars, CountInv, NEW w \in Workers,
         NewPaymentEvent(w) \/ NewPayment(w) \/ StartRecovery(w) \/ WorkerStep(w)
           \/ CallFails(w) \/ CreateLinkFails(w)
  PROVE  CountInv'
<1>1. CASE IngestSave(w)
  BY <1>1, CountOpens DEF Thread
<1>2. CASE ~IngestSave(w)
  <2>1. th'[Webhook] = th[Webhook] /\ UNCHANGED <<cases, executed>>
    BY <1>2, WorkerFrame
  <2>2. CopyCounted' /\ \A c \in CaseId : InFlight(c) => InFlight(c)'
    BY <2>1 DEF CountInv, CopyCounted, InFlight
  <2> QED BY <2>1, <2>2, CountFrame
<1> QED BY <1>1, <1>2

\* A fault that strikes makes up for the action it keeps from being counted.
LEMMA CountFault ==
  ASSUME MaxRuns = 0, TypeInv, DrivenInv, Budget, [Next]_vars, CountInv, Fault
  PROVE  CountInv'
<1>1. faults' >= 1
  BY FaultsGrow
<1>2. CASE CallFails(Webhook)
  <2>1. Leaves(Webhook)
    BY <1>2, FailureLeaves DEF Thread
  <2> QED BY <1>1, <2>1, CountLeaves DEF Leaves
<1>3. CASE Restart
  <2>1. th'[Webhook].pc \notin SnapPC /\ UNCHANGED <<cases, executed>>
    BY <1>3 DEF Restart, Idle, Thread, SnapPC, outreach
  <2> QED BY <1>1, <2>1, CountLeaves
<1>4. CASE \E w \in Workers : CallFails(w) \/ CreateLinkFails(w)
  BY <1>4, CountWorker
<1> QED BY <1>2, <1>3, <1>4, CountQuiet DEF Fault, Thread

LEMMA CountNext ==
  ASSUME MaxRuns = 0, WholeInv, CountInv, [Next]_vars
  PROVE  CountInv'
<1>0. TypeInv /\ DrivenInv /\ Budget
  BY DEF WholeInv
<1>1. CASE \E w \in Workers : \/ NewPaymentEvent(w) \/ NewPayment(w) \/ StartRecovery(w)
                              \/ WorkerStep(w)
  BY <1>0, <1>1, CountWorker
<1>2. CASE WebhookStep
  BY <1>0, <1>2, CountQuiet, CountReads, CountDecides, CountDelivers, CountActs, CountSaves,
     CountOpens
     DEF WebhookStep, WebhookHandle, IngestStep, RunStep, MarkStep, Thread
<1>3. CASE Environment \/ UNCHANGED vars
  <2>1. UNCHANGED <<th, cases, executed>>
    BY <1>3 DEF Environment, GatewayStep, AttemptFails, CustomerPays, LinkExpires, Redeliver,
                vars, outreach
  <2>2. CopyCounted' /\ \A c \in CaseId : InFlight(c) => InFlight(c)'
    BY <2>1 DEF CountInv, CopyCounted, InFlight
  <2> QED BY <1>0, <2>1, <2>2, CountFrame
<1> QED BY <1>0, <1>1, <1>2, <1>3, CountFault DEF Next

\* The counters the policy limits are checked against tell how often the case was
\* acted on: each fault can keep one action from being counted, none is counted
\* twice, and the two counters never differ.
THEOREM CountersKept ==
  ASSUME MaxRuns = 0
  PROVE  Spec => []CountersAgree
<1>1. Init => CountInv
  BY DEF Init, StoreInit, CountInv, CopyCounted, Stored, SnapPC, Idle, Thread
<1>2. WholeInv /\ CountInv => CountersAgree
  <2> SUFFICES ASSUME WholeInv, CountInv, NEW c \in Stored, Running(c, RunPC) = {}
               PROVE  /\ cases[c].retry_count = cases[c].message_count
                      /\ cases[c].retry_count <= executed[c]
                      /\ executed[c] <= cases[c].retry_count + faults
    BY DEF CountersAgree
  <2>1. ~InFlight(c)
    BY DEF Running, InFlight, Thread, Acted, RunPC
  <2> QED BY <2>1 DEF CountInv, CaseCounted
<1>3. WholeInv /\ CountInv /\ [Next]_vars => CountInv'
  BY CountNext
<1> QED BY <1>1, <1>2, <1>3, WholeInductive, PTL DEF Spec

-----------------------------------------------------------------------------
(* Which steps write the audit records that are counted *)

\* No record of a failure, of an expired link or of a completed recovery.
SameRecords ==
  \A c \in CaseId, a \in {"PAYMENT_FAILED", "RECOVERY_STOPPED", "RECOVERY_COMPLETED"} :
    audits'[c][a] = audits[c][a]

LEMMA AuditCounts ==
  ASSUME TypeInv, NEW c \in CaseId, NEW types, Audit(c, types)
  PROVE  \A d \in CaseId, a \in AuditEventType :
           audits'[d][a] = IF d = c /\ a \in types THEN audits[d][a] + 1 ELSE audits[d][a]
BY DEF Audit, TypeInv, StoreTypeOK

\* Every other record leaves the counted ones alone.
LEMMA OtherRecord ==
  ASSUME TypeInv, NEW c \in CaseId, NEW types, Audit(c, types),
         "PAYMENT_FAILED" \notin types, "RECOVERY_STOPPED" \notin types,
         "RECOVERY_COMPLETED" \notin types
  PROVE  SameRecords
BY AuditCounts DEF SameRecords, AuditEventType

\* The steps of a thread that write none of them.
LEMMA ServiceRecords ==
  ASSUME TypeInv, NEW t \in Thread, RunStep(t) \/ IngestStep(t) \/ MarkRead(t) \/ MarkSave(t)
  PROVE  SameRecords \/ IngestAudit(t)
<1>1. CASE RunDecide(t)
  <2>1. At(t, "run_decide") /\ Audit(th[t].case, {"ELIGIBILITY_CHECKED"})
    BY <1>1, Zenon DEF RunDecide
  <2>2. th[t].case \in CaseId
    BY <2>1, CaseKnown DEF At, CasePC, RunPC
  <2> QED BY <2>1, <2>2, OtherRecord
<1>2. CASE RunAudit(t)
  <2>1. PICK types \in {{"ACTION_SELECTED", "PAYMENT_LINK_CREATED"}, {"ACTION_SELECTED"}} :
          Audit(th[t].case, types)
    BY <1>2 DEF RunAudit
  <2>2. th[t].case \in CaseId
    BY <1>2, CaseKnown DEF RunAudit, At, CasePC, RunPC
  <2> QED BY <2>1, <2>2, OtherRecord
<1>3. CASE IngestTx(t) \/ IngestCase(t) \/ IngestSave(t) \/ MarkRead(t) \/ MarkSave(t)
  BY <1>3 DEF IngestTx, IngestCase, IngestSave, MarkRead, MarkSave, ledger, SameRecords
<1>4. CASE RunCase(t) \/ RunContext(t) \/ ExecuteRetry(t) \/ ExecuteLink(t) \/ ExecuteSend(t)
           \/ ExecuteDelivery(t) \/ RunSave(t) \/ RunAction(t) \/ RunDetail(t)
  BY <1>4 DEF RunCase, RunContext, ExecuteRetry, ExecuteLink, ExecuteSend, ExecuteDelivery, RunSave,
              RunAction, RunDetail, ledger, SameRecords
<1> QED BY <1>1, <1>2, <1>3, <1>4 DEF RunStep, IngestStep

\* A call that fails can have written the first of two records.
LEMMA FailureRecords ==
  ASSUME TypeInv, NEW t \in Thread, CallFails(t)
  PROVE  \/ SameRecords
         \/ At(t, "ingest_audit") /\ Audit(th[t].case, {"PAYMENT_FAILED"})
<1>1. CASE UNCHANGED audits
  BY <1>1 DEF SameRecords
<1>2. CASE ~UNCHANGED audits
  <2>1. /\ At(t, "ingest_audit") \/ At(t, "run_audit") \/ At(t, "mark_audit")
        /\ Audit(th[t].case, {AuditWritten(th[t].pc)})
    BY <1>2 DEF CallFails
  <2>2. th[t].case \in CaseId
    BY <2>1, CaseKnown DEF At, CasePC, RunPC
  <2>3. CASE At(t, "ingest_audit")
    BY <2>1, <2>3 DEF At, AuditWritten
  <2>4. CASE At(t, "run_audit") \/ At(t, "mark_audit")
    <3>1. PICK a \in {"ACTION_SELECTED", "PAYMENT_SUCCEEDED"} : Audit(th[t].case, {a})
      BY <2>1, <2>4 DEF At, AuditWritten
    <3> QED BY <2>2, <3>1, OtherRecord
  <2> QED BY <2>1, <2>3, <2>4
<1> QED BY <1>1, <1>2

LEMMA RecordSteps ==
  ASSUME TypeInv, [Next]_vars
  PROVE  \/ SameRecords
         \/ \E t \in Thread : IngestAudit(t)
         \/ \E t \in Thread : /\ CallFails(t) /\ At(t, "ingest_audit") /\ Fault
                              /\ Audit(th[t].case, {"PAYMENT_FAILED"})
         \/ MarkAudit(Webhook)
         \/ WebhookAuditFailure
<1>1. ASSUME NEW w \in Workers,
             NewPaymentEvent(w) \/ NewPayment(w) \/ StartRecovery(w) \/ CreateLink(w)
               \/ CreateLinkFails(w)
      PROVE  SameRecords
  BY <1>1 DEF NewPaymentEvent, PostPaymentEvent, NewPayment, CreatePayment, StartRecovery,
              PostRecovery, CreateLink, CreateLinkFails, ledger, SameRecords
<1>2. CASE \E w \in Workers : WorkerStep(w)
  BY <1>1, <1>2, ServiceRecords DEF WorkerStep, IngestStep, Thread
<1>3. CASE WebhookStep
  <2>1. CASE (\E e \in wire : WebhookIgnore(e) \/ WebhookAccept(e)) \/ WebhookSaveTx
             \/ WebhookFindCase \/ WebhookRecord
    BY <2>1 DEF WebhookIgnore, WebhookAccept, WebhookSaveTx, WebhookFindCase, WebhookRecord,
                ledger, SameRecords
  <2>2. CASE IngestStep(Webhook) \/ RunStep(Webhook) \/ MarkRead(Webhook) \/ MarkSave(Webhook)
    BY <2>2, ServiceRecords DEF Thread
  <2> QED BY <1>3, <2>1, <2>2 DEF WebhookStep, WebhookHandle, MarkStep
<1>4. CASE Environment \/ UNCHANGED vars
  BY <1>4 DEF Environment, GatewayStep, AttemptFails, CustomerPays, LinkExpires, Redeliver, vars,
              ledger, SameRecords
<1>5. CASE Fault
  <2>1. CASE \E t \in Thread : CallFails(t)
    BY <1>5, <2>1, FailureRecords
  <2>2. CASE RecordFails \/ Restart
    BY <2>2 DEF RecordFails, Restart, ledger, SameRecords
  <2> QED BY <1>1, <1>5, <2>1, <2>2 DEF Fault
<1> QED BY <1>1, <1>2, <1>3, <1>4, <1>5 DEF Next

-----------------------------------------------------------------------------
(* How the handler moves *)

\* Places where a failure or an expiry has its record already.
SettledPC == RunPC \cup {"hook_record"}

\* The moves of the handler from state r to state q: it has recorded its event,
\* has its result, goes on with the workflow, with what comes before it, or has
\* found the case of a failure.
Drops(r, q) == q = Idle /\ WebhookRecord

Finishes(r, q) ==
  /\ q.pc = "hook_record" /\ q.event = r.event
  /\ \/ r.pc \in RunPC \cup {"hook_audit", "mark_audit"}
     \/ r.pc = "hook_case" /\ r.event.kind \in PaidKind

Runs(r, q) ==
  /\ q.event = r.event /\ q.case = r.case
  /\ r.pc \in RunPC \cup {"ingest_audit"} /\ q.pc \in RunPC

Prepares(r, q) ==
  /\ q.event = r.event /\ r.pc \notin SettledPC \cup {"idle"}
  /\ q.pc \in {"hook_case", "ingest_tx", "ingest_case", "ingest_save", "mark_read", "mark_save"}
  /\ q.pc \in IngestPC => r.event.kind \notin PaidKind \/ r.pc \in IngestPC

Finds(r, q) ==
  /\ q.event = r.event /\ r.pc = "hook_case" /\ q.pc = "hook_audit"
  /\ r.event.kind \notin PaidKind /\ q.case \in CasesOf(r.tx) /\ UNCHANGED cases

HandlerMove(r, q) ==
  \/ q = r
  \/ \E e \in wire : WebhookAccept(e)
  \/ Drops(r, q) \/ Finishes(r, q) \/ Runs(r, q) \/ Prepares(r, q) \/ Finds(r, q)
  \/ IngestSave(Webhook) \/ MarkSave(Webhook)

LEMMA RunMoves ==
  ASSUME TypeInv, RunStep(Webhook)
  PROVE  Finishes(th[Webhook], th'[Webhook]) \/ Runs(th[Webhook], th'[Webhook])
<1>0. /\ th \in [Thread -> ThreadState] /\ Webhook \in Thread /\ th[Webhook] \in ThreadState
      /\ th[Webhook].pc \in RunPC
  BY RunStepPlace DEF TypeInv, StoreTypeOK, Thread
<1>1. CASE EndRun(Webhook)
  <2>1. th'[Webhook] = [Idle EXCEPT !.pc = "hook_record", !.event = th[Webhook].event]
    BY <1>0, <1>1 DEF EndRun, GoRecord
  <2> QED BY <1>0, <2>1 DEF Finishes, Idle
<1>2. ASSUME ~EndRun(Webhook) PROVE Runs(th[Webhook], th'[Webhook])
  <2>0. SUFFICES /\ th'[Webhook].event = th[Webhook].event
                 /\ th'[Webhook].case = th[Webhook].case /\ th'[Webhook].pc \in RunPC
    BY <1>0 DEF Runs
  <2>1. CASE RunCase(Webhook) \/ RunContext(Webhook)
    BY <1>0, <1>2, <2>1 DEF RunCase, RunContext, ThreadState, RunPC
  <2>2. CASE RunDecide(Webhook)
    <3>1. PICK d \in PossibleDecisions(th[Webhook].seen) :
            IF d = "recover"
            THEN \E a \in OutreachAction :
                   th' = [th EXCEPT ![Webhook].pc = "run_execute", ![Webhook].action = a,
                                    ![Webhook].snap = Decided(@, d)]
            ELSE th' = [th EXCEPT ![Webhook].pc = "run_save", ![Webhook].snap = Decided(@, d)]
      BY <1>2, <2>2, Zenon DEF RunDecide
    <3>2. CASE d = "recover"
      <4>1. PICK a \in OutreachAction :
              th' = [th EXCEPT ![Webhook].pc = "run_execute", ![Webhook].action = a,
                               ![Webhook].snap = Decided(@, d)]
        BY <3>1, <3>2, Zenon
      <4> QED BY <1>0, <4>1 DEF ThreadState, RunPC
    <3>3. CASE d # "recover"
      BY <1>0, <3>1, <3>3 DEF ThreadState, RunPC
    <3> QED BY <3>2, <3>3
  <2>3. CASE ExecuteRetry(Webhook) \/ ExecuteLink(Webhook)
    BY <1>0, <2>3 DEF ExecuteRetry, ExecuteLink, Go, ThreadState, RunPC
  <2>4. CASE ExecuteSend(Webhook) \/ ExecuteDelivery(Webhook)
    BY <1>0, <2>4 DEF ExecuteSend, ExecuteDelivery, Go, ThreadState, RunPC
  <2>5. CASE RunSave(Webhook) \/ RunAction(Webhook) \/ RunAudit(Webhook)
    BY <1>0, <2>5 DEF RunSave, RunAction, RunAudit, Go, ThreadState, RunPC
  <2>6. CASE RunDetail(Webhook)
    BY <1>2, <2>6 DEF RunDetail
  <2> QED BY <2>1, <2>2, <2>3, <2>4, <2>5, <2>6 DEF RunStep
<1> QED BY <1>1, <1>2

LEMMA FindMoves ==
  ASSUME TypeInv, WebhookFindCase
  PROVE  HandlerMove(th[Webhook], th'[Webhook])
<1>0. /\ th \in [Thread -> ThreadState] /\ Webhook \in Thread /\ th[Webhook] \in ThreadState
      /\ th[Webhook].pc = "hook_case" /\ UNCHANGED cases
  BY DEF TypeInv, StoreTypeOK, Thread, WebhookFindCase, At
<1>1. PICK c \in Lookup(th[Webhook].tx) :
        LET next == AfterLookup(Handling, c)
        IN IF next = "hook_record"
           THEN GoRecord(Webhook)
           ELSE th' = [th EXCEPT ![Webhook].pc = next, ![Webhook].case = c]
  BY DEF WebhookFindCase
<1>2. CASE AfterLookup(Handling, c) = "hook_record"
  <2>1. th[Webhook].event.kind \in PaidKind
    BY <1>2 DEF AfterLookup, Handling
  <2>2. th'[Webhook] = [Idle EXCEPT !.pc = "hook_record", !.event = th[Webhook].event]
    BY <1>0, <1>1, <1>2 DEF GoRecord
  <2> QED BY <1>0, <2>1, <2>2 DEF HandlerMove, Finishes, Idle
<1>3. CASE AfterLookup(Handling, c) # "hook_record"
  <2>1. /\ th'[Webhook].pc = AfterLookup(Handling, c) /\ th'[Webhook].case = c
        /\ th'[Webhook].event = th[Webhook].event
    BY <1>0, <1>1, <1>3 DEF ThreadState
  <2>2. CASE th[Webhook].event.kind \in PaidKind
    <3>1. AfterLookup(Handling, c) = "mark_read"
      BY <1>3, <2>2 DEF AfterLookup, Handling
    <3> QED BY <1>0, <2>1, <3>1 DEF HandlerMove, Prepares, SettledPC, RunPC, IngestPC
  <2>3. CASE th[Webhook].event.kind \notin PaidKind
    <3>1. CASE c = None
      BY <1>0, <2>1, <2>3, <3>1
         DEF HandlerMove, Prepares, AfterLookup, Handling, SettledPC, RunPC
    <3>2. CASE c # None
      BY <1>0, <1>1, <2>1, <2>3, <3>2 DEF HandlerMove, Finds, AfterLookup, Handling, Lookup
    <3> QED BY <3>1, <3>2
  <2> QED BY <2>2, <2>3
<1> QED BY <1>2, <1>3

LEMMA WebhookMoves ==
  ASSUME TypeInv, OwnInv, WebhookStep
  PROVE  HandlerMove(th[Webhook], th'[Webhook])
<1>0. th \in [Thread -> ThreadState] /\ Webhook \in Thread /\ th[Webhook] \in ThreadState
  BY DEF TypeInv, StoreTypeOK, Thread
<1>1. CASE \E e \in wire : WebhookIgnore(e) \/ WebhookAccept(e)
  BY <1>1 DEF WebhookIgnore, HandlerMove
<1>2. CASE WebhookSaveTx \/ IngestTx(Webhook) \/ IngestCase(Webhook)
  <2>1. PICK pc \in {"hook_case", "ingest_case", "ingest_save"} : Go(Webhook, pc)
    BY <1>2, HandlerFindsNone DEF WebhookSaveTx, IngestTx
  <2>2. /\ th[Webhook].pc \in {"hook_tx", "ingest_tx", "ingest_case"}
        /\ th[Webhook].pc = "hook_tx" => Go(Webhook, "hook_case")
    BY <1>2 DEF WebhookSaveTx, IngestTx, IngestCase, At
  <2>3. /\ th'[Webhook].pc = pc /\ th'[Webhook].event = th[Webhook].event
        /\ th[Webhook].pc = "hook_tx" => th'[Webhook].pc = "hook_case"
    BY <1>0, <2>1, <2>2 DEF Go, ThreadState
  <2> QED BY <2>2, <2>3 DEF HandlerMove, Prepares, SettledPC, RunPC, IngestPC
<1>3. CASE WebhookFindCase
  BY <1>3, FindMoves
<1>4. CASE WebhookAuditFailure \/ MarkAudit(Webhook)
  <2>1. th'[Webhook] = [Idle EXCEPT !.pc = "hook_record", !.event = th[Webhook].event]
    BY <1>0, <1>4 DEF WebhookAuditFailure, MarkAudit, GoRecord
  <2>2. th[Webhook].pc \in {"hook_audit", "mark_audit"}
    BY <1>4 DEF WebhookAuditFailure, MarkAudit, At
  <2> QED BY <2>1, <2>2 DEF HandlerMove, Finishes, Idle
<1>5. CASE WebhookRecord
  BY <1>0, <1>5 DEF WebhookRecord, HandlerMove, Drops
<1>6. CASE IngestAudit(Webhook)
  <2>1. th' = [th EXCEPT ![Webhook] =
                 [th[Webhook] EXCEPT !.pc = "run_case", !.case = th[Webhook].case]]
    BY <1>6 DEF IngestAudit, EndIngest
  <2>2. /\ th'[Webhook].pc = "run_case" /\ th'[Webhook].event = th[Webhook].event
        /\ th'[Webhook].case = th[Webhook].case /\ th[Webhook].pc = "ingest_audit"
    BY <1>0, <1>6, <2>1 DEF ThreadState, IngestAudit, At
  <2> QED BY <2>2 DEF HandlerMove, Runs, RunPC
<1>7. CASE RunStep(Webhook)
  BY <1>7, RunMoves DEF HandlerMove
<1>8. CASE MarkRead(Webhook)
  <2>1. /\ th'[Webhook].pc = "mark_save" /\ th'[Webhook].event = th[Webhook].event
        /\ th[Webhook].pc = "mark_read"
    BY <1>0, <1>8 DEF MarkRead, At, ThreadState
  <2> QED BY <2>1 DEF HandlerMove, Prepares, SettledPC, RunPC, IngestPC
<1>9. CASE IngestSave(Webhook) \/ MarkSave(Webhook)
  BY <1>9 DEF HandlerMove
<1> QED BY <1>1, <1>2, <1>3, <1>4, <1>5, <1>6, <1>7, <1>8, <1>9
        DEF WebhookStep, WebhookHandle, IngestStep, MarkStep

\* Any step: the handler moves so, or a fault makes it forget what it was doing.
LEMMA AnyMoves ==
  ASSUME MaxRuns = 0, WholeInv, [Next]_vars
  PROVE  HandlerMove(th[Webhook], th'[Webhook]) \/ (Fault /\ th'[Webhook] = Idle)
<1>0. /\ TypeInv /\ OwnInv /\ DrivenInv /\ Budget
      /\ th \in [Thread -> ThreadState] /\ Webhook \in Thread /\ th[Webhook] \in ThreadState
  BY DEF WholeInv, TypeInv, StoreTypeOK, Thread
<1>1. ASSUME NEW w \in Workers,
             NewPaymentEvent(w) \/ NewPayment(w) \/ StartRecovery(w) \/ WorkerStep(w)
               \/ CallFails(w) \/ CreateLinkFails(w)
      PROVE  HandlerMove(th[Webhook], th'[Webhook])
  BY <1>0, <1>1, WorkerFrame DEF HandlerMove
<1>2. CASE WebhookStep
  BY <1>0, <1>2, WebhookMoves
<1>3. CASE Environment \/ UNCHANGED vars
  BY <1>3 DEF Environment, GatewayStep, AttemptFails, CustomerPays, LinkExpires, Redeliver, vars,
              HandlerMove
<1>4. CASE Fault
  <2>1. CASE CallFails(Webhook)
    <3>1. CASE th[Webhook].pc \in RunPC
      <4>1. th'[Webhook] = [Idle EXCEPT !.pc = "hook_record", !.event = th[Webhook].event]
        BY <1>0, <2>1, <3>1 DEF CallFails, EndRun, GoRecord
      <4> QED BY <3>1, <4>1 DEF HandlerMove, Finishes, Idle
    <3>2. CASE th[Webhook].pc \notin RunPC
      BY <1>0, <1>4, <2>1, <3>2 DEF CallFails
    <3> QED BY <3>1, <3>2
  <2>2. CASE RecordFails \/ Restart
    BY <1>0, <1>4, <2>2 DEF RecordFails, Restart
  <2> QED BY <1>1, <1>4, <2>1, <2>2 DEF Fault, Thread
<1> QED BY <1>1, <1>2, <1>3, <1>4 DEF Next

-----------------------------------------------------------------------------
(* A recovery is completed once *)

Completing(c) == th[Webhook].pc = "mark_audit" /\ th[Webhook].case = c

IsRecovered(c) == cases[c] # None /\ cases[c].status = "recovered"

\* The record of a completed recovery is that of a RECOVERED case the handler has
\* done with.
CompletedInv ==
  \A c \in CaseId :
    /\ Completing(c) => IsRecovered(c)
    /\ audits[c]["RECOVERY_COMPLETED"] <= 1
    /\ audits[c]["RECOVERY_COMPLETED"] > 0 => IsRecovered(c) /\ ~Completing(c)

LEMMA RecoveredKept ==
  ASSUME TypeInv, LifeStep, NEW c \in CaseId, IsRecovered(c)
  PROVE  IsRecovered(c)' /\ cases'[c] = cases[c]
<1>1. cases \in [CaseId -> Case \cup {None}]
  BY DEF TypeInv, StoreTypeOK
<1>2. cases'[c] = cases[c]
  BY <1>1 DEF IsRecovered, LifeStep, Opens, Acts, Concludes, Recovers, Pays, Stays
<1> QED BY <1>2 DEF IsRecovered

\* The handler completes a case only by saving it, before which it was not
\* RECOVERED.
LEMMA CompletingSteps ==
  ASSUME TypeInv, DrivenInv, LifeStep, CompletedInv, NEW c \in CaseId, Completing(c)',
         HandlerMove(th[Webhook], th'[Webhook]) \/ th'[Webhook] = Idle
  PROVE  IsRecovered(c)' /\ (Completing(c) \/ ~IsRecovered(c))
<1>0. th \in [Thread -> ThreadState] /\ Webhook \in Thread /\ th[Webhook] \in ThreadState
  BY DEF TypeInv, StoreTypeOK, Thread
<1>1. th'[Webhook].pc = "mark_audit" /\ th'[Webhook].case = c
  BY DEF Completing
<1>2. CASE th'[Webhook] = th[Webhook]
  BY <1>2, RecoveredKept DEF Completing, CompletedInv
<1>3. CASE MarkSave(Webhook)
  <2>1. /\ th[Webhook].pc = "mark_save" /\ th[Webhook].case = c /\ th[Webhook].snap \in Case
    BY <1>0, <1>1, <1>3, SnapKnown DEF MarkSave, At, SnapPC, ThreadState
  <2>2. ~IsRecovered(c)
    BY <2>1 DEF DrivenInv, HandlerPlace, IsRecovered
  <2>3. cases' = [cases EXCEPT ![c] = Recovered(th[Webhook].snap)]
    BY <1>3, <2>1 DEF MarkSave
  <2>4. PICK v \in Case : v = Recovered(th[Webhook].snap) /\ v.status = "recovered"
    BY <2>1, RecoveredType DEF Recovered, Case
  <2>5. cases'[c] = v
    BY <2>3, <2>4 DEF TypeInv, StoreTypeOK
  <2> QED BY <2>2, <2>4, <2>5, ConstantsAssumption DEF IsRecovered
<1>4. CASE (\E e \in wire : WebhookAccept(e)) \/ IngestSave(Webhook)
  <2>1. th'[Webhook].pc \in {"hook_tx", "ingest_audit"}
    <3>1. CASE \E e \in wire : WebhookAccept(e)
      BY <1>0, <3>1 DEF WebhookAccept, ThreadState
    <3>2. CASE IngestSave(Webhook)
      BY <1>0, <3>2 DEF IngestSave, ThreadState
    <3> QED BY <1>4, <3>1, <3>2
  <2> QED BY <1>1, <2>1
<1>5. CASE \/ th'[Webhook] = Idle
           \/ Drops(th[Webhook], th'[Webhook]) \/ Finishes(th[Webhook], th'[Webhook])
           \/ Runs(th[Webhook], th'[Webhook]) \/ Prepares(th[Webhook], th'[Webhook])
           \/ Finds(th[Webhook], th'[Webhook])
  BY <1>1, <1>5 DEF Drops, Finishes, Runs, Prepares, Finds, Idle, RunPC
<1> QED BY <1>2, <1>3, <1>4, <1>5 DEF HandlerMove

LEMMA CompletedNext ==
  ASSUME MaxRuns = 0, WholeInv, CompletedInv, [Next]_vars
  PROVE  CompletedInv'
<1>0. /\ TypeInv /\ DrivenInv /\ LifeStep /\ TypeInv'
      /\ HandlerMove(th[Webhook], th'[Webhook]) \/ th'[Webhook] = Idle
  BY AnyMoves, DrivenNext, NextKeeps DEF WholeInv
<1>1. \A c \in CaseId : audits[c]["RECOVERY_COMPLETED"] \in Nat
  BY <1>0 DEF TypeInv, StoreTypeOK, AuditEventType
<1>2. CASE \A c \in CaseId : audits'[c]["RECOVERY_COMPLETED"] = audits[c]["RECOVERY_COMPLETED"]
  <2> SUFFICES ASSUME NEW c \in CaseId
               PROVE  /\ Completing(c)' => IsRecovered(c)'
                      /\ audits[c]["RECOVERY_COMPLETED"] > 0 => IsRecovered(c)' /\ ~Completing(c)'
    BY <1>2 DEF CompletedInv
  <2>1. Completing(c)' => IsRecovered(c)' /\ (Completing(c) \/ ~IsRecovered(c))
    BY <1>0, CompletingSteps
  <2>2. IsRecovered(c) => IsRecovered(c)'
    BY <1>0, RecoveredKept
  <2> QED BY <2>1, <2>2 DEF CompletedInv
<1>3. CASE MarkAudit(Webhook)
  <2>1. PICK c \in CaseId : c = th[Webhook].case /\ Completing(c)
    BY <1>0, <1>3, CaseKnown DEF MarkAudit, At, CasePC, Thread, Completing
  <2>2. Audit(c, {"PAYMENT_SUCCEEDED", "RECOVERY_COMPLETED"})
    BY <1>3, <2>1 DEF MarkAudit
  <2>3. \A d \in CaseId : audits'[d]["RECOVERY_COMPLETED"] =
          IF d = c THEN audits[d]["RECOVERY_COMPLETED"] + 1 ELSE audits[d]["RECOVERY_COMPLETED"]
    BY <1>0, <2>2, AuditCounts DEF AuditEventType
  <2>4. th'[Webhook].pc = "hook_record" /\ UNCHANGED cases
    BY <1>0, <1>3 DEF MarkAudit, GoRecord, Idle, TypeInv, StoreTypeOK, Thread
  <2>5. IsRecovered(c) /\ audits[c]["RECOVERY_COMPLETED"] = 0
    BY <1>1, <2>1 DEF CompletedInv
  <2> QED BY <2>3, <2>4, <2>5 DEF CompletedInv, Completing, IsRecovered
<1>4. CASE (\E t \in Thread : IngestAudit(t)) \/ WebhookAuditFailure
           \/ \E t \in Thread : CallFails(t) /\ At(t, "ingest_audit")
                                /\ Audit(th[t].case, {"PAYMENT_FAILED"})
  <2>1. PICK t \in Thread, types \in SUBSET (AuditEventType \ {"RECOVERY_COMPLETED"}) :
          th[t].pc \in {"ingest_audit", "hook_audit"} /\ Audit(th[t].case, types)
    <3>1. CASE \E t \in Thread : IngestAudit(t)
      BY <3>1 DEF IngestAudit, At, AuditEventType
    <3>2. CASE WebhookAuditFailure
      BY <3>2 DEF WebhookAuditFailure, FailureAudit, At, AuditEventType, Thread
    <3>3. CASE \E t \in Thread : CallFails(t) /\ At(t, "ingest_audit")
                                 /\ Audit(th[t].case, {"PAYMENT_FAILED"})
      BY <3>3 DEF At, AuditEventType
    <3> QED BY <1>4, <3>1, <3>2, <3>3
  <2>2. th[t].case \in CaseId
    BY <1>0, <2>1, CaseKnown DEF CasePC
  <2> QED BY <1>0, <1>2, <2>1, <2>2, AuditCounts DEF AuditEventType
<1>5. CASE SameRecords
  BY <1>2, <1>5 DEF SameRecords
<1> QED BY <1>0, <1>3, <1>4, <1>5, RecordSteps

\* A recovery is completed, and audited as completed, once: whatever is repeated
\* or cut short, the handler marks no case that is RECOVERED already.
THEOREM CompletedOnce ==
  ASSUME MaxRuns = 0
  PROVE  Spec => []CompletionAuditedOnce
<1>1. Init => CompletedInv
  BY DEF Init, StoreInit, CompletedInv, Completing, Idle, Thread, AuditEventType
<1>2. CompletedInv => CompletionAuditedOnce
  BY DEF CompletedInv, CompletionAuditedOnce
<1>3. WholeInv /\ CompletedInv /\ [Next]_vars => CompletedInv'
  BY CompletedNext
<1> QED BY <1>1, <1>2, <1>3, WholeInductive, PTL DEF Spec

-----------------------------------------------------------------------------
(* A failure event is audited once *)

\* The records of failures and of expired links of case c.
FailureCount(c) == audits[c]["PAYMENT_FAILED"] + audits[c]["RECOVERY_STOPPED"]

\* The failure events of transaction x that the handler need not audit any more.
Settled(x) ==
  {e \in FailureEvents(x) : \/ e \in processed
                            \/ Handling = e /\ th[Webhook].pc \in SettledPC}

\* Razorpay has nothing to say about transaction x.
Unlinked(x) == links[x] = 0 /\ \A e \in emitted : e.tx # x

\* What the event the handler works on has to do with its place and its case.
EventInv ==
  LET r == th[Webhook]
  IN /\ r.pc # "idle" => r.event \notin processed
     /\ r.pc \in IngestPC \cup RunPC \cup {"hook_audit"} => r.event.kind \notin PaidKind
     /\ r.pc \in RunPC \cup {"ingest_audit", "hook_audit"} => r.event.tx = TxOf(r.case)

\* Thread t has saved case c, and not audited it yet.
Opening(t, c) == th[t].pc = "ingest_audit" /\ th[t].case = c

\* A case has no failure record before the one of its opening, which one thread
\* writes; a worker opens cases only of transactions nobody outside knows.
FreshInv ==
  \A c \in CaseId :
    /\ cases[c] = None => FailureCount(c) = 0
    /\ \A t \in Thread : Opening(t, c) =>
         /\ FailureCount(c) = 0
         /\ t \in Workers => Unlinked(TxOf(c))
         /\ \A u \in Thread \ {t} : ~Opening(u, c)

\* Every record but one of each fault is that of an event that is settled, or the
\* single one of a case that a worker opened.
AuditedInv ==
  \A c \in Stored :
    \/ FailureCount(c) <= faults + Cardinality(Settled(TxOf(c)))
    \/ Unlinked(TxOf(c)) /\ FailureCount(c) <= faults + 1

FailureInv == IsFiniteSet(emitted) /\ EventInv /\ FreshInv /\ AuditedInv

\* Who tells of payments, opens links and records events.
WorldStep ==
  /\ UNCHANGED emitted \/ GatewayStep
  /\ UNCHANGED processed \/ WebhookRecord
  /\ \/ UNCHANGED links
     \/ GatewayStep
     \/ \E w \in Workers : CreateLink(w)
     \/ \E t \in Thread : ExecuteLink(t)

LEMMA WorldSteps ==
  ASSUME [Next]_vars PROVE WorldStep
<1>1. CASE \E w \in Workers : NewPaymentEvent(w) \/ NewPayment(w) \/ StartRecovery(w)
                               \/ CreateLink(w) \/ CreateLinkFails(w)
  BY <1>1 DEF NewPaymentEvent, PostPaymentEvent, NewPayment, CreatePayment, StartRecovery,
              PostRecovery, CreateLink, CreateLinkFails, gateway, WorldStep
<1>2. CASE \E t \in Thread : IngestStep(t) \/ RunCase(t) \/ RunContext(t) \/ MarkStep(t)
  BY <1>2 DEF IngestStep, IngestTx, IngestCase, IngestSave, IngestAudit, RunCase, RunContext,
              MarkStep, MarkRead, MarkSave, MarkAudit, gateway, WorldStep
<1>3. CASE \E t \in Thread : RunDecide(t)
  BY <1>3, Zenon DEF RunDecide, gateway, WorldStep
<1>4. CASE \E t \in Thread : ExecuteRetry(t) \/ ExecuteLink(t) \/ ExecuteSend(t)
                              \/ ExecuteDelivery(t)
  BY <1>4 DEF ExecuteRetry, ExecuteLink, ExecuteSend, ExecuteDelivery, gateway, WorldStep
<1>5. CASE \E t \in Thread : RunSave(t) \/ RunAction(t) \/ RunAudit(t) \/ RunDetail(t)
  BY <1>5 DEF RunSave, RunAction, RunAudit, RunDetail, gateway, WorldStep
<1>6. CASE \/ \E e \in wire : WebhookIgnore(e) \/ WebhookAccept(e)
           \/ WebhookSaveTx \/ WebhookFindCase \/ WebhookAuditFailure \/ WebhookRecord
  BY <1>6 DEF WebhookIgnore, WebhookAccept, WebhookSaveTx, WebhookFindCase, WebhookAuditFailure,
              WebhookRecord, gateway, WorldStep
<1>7. CASE (\E t \in Thread : CallFails(t)) \/ RecordFails \/ Restart
  BY <1>7, Zenon DEF CallFails, RecordFails, Restart, gateway, WorldStep
<1>8. CASE GatewayStep \/ (\E e \in emitted : Redeliver(e)) \/ UNCHANGED vars
  BY <1>8 DEF GatewayStep, AttemptFails, CustomerPays, LinkExpires, Redeliver, vars, gateway,
              WorldStep
<1>9. CASE Environment \/ Fault
  BY <1>1, <1>7, <1>8, <1>9 DEF Environment, Fault
<1>10. CASE WebhookStep
  BY <1>2, <1>3, <1>4, <1>5, <1>6, <1>10 DEF WebhookStep, WebhookHandle, RunStep, Thread
<1>11. CASE \E w \in Workers : WorkerStep(w)
  BY <1>1, <1>2, <1>3, <1>4, <1>5, <1>11 DEF WorkerStep, IngestStep, RunStep, Thread
<1> QED BY <1>1, <1>8, <1>9, <1>10, <1>11 DEF Next

\* What the gateway says is finite, and is not taken back.
LEMMA EmittedGrows ==
  ASSUME IsFiniteSet(emitted), WorldStep
  PROVE  IsFiniteSet(emitted') /\ emitted \subseteq emitted'
<1>1. CASE GatewayStep
  <2>1. PICK x \in Tx : AttemptFails(x) \/ CustomerPays(x) \/ LinkExpires(x)
    BY <1>1 DEF GatewayStep
  <2>2. PICK S : emitted' = emitted \cup S /\ IsFiniteSet(S)
    <3>1. CASE AttemptFails(x) \/ LinkExpires(x)
      <4>1. PICK k \in {"payment.failed", "payment_link.expired"} :
              emitted' = emitted \cup {EventOf(k, x)}
        BY <3>1 DEF AttemptFails, LinkExpires, Emit
      <4>2. IsFiniteSet({EventOf(k, x)})
        BY FS_Singleton
      <4> QED BY <4>1, <4>2
    <3>2. CASE CustomerPays(x)
      <4> DEFINE p == EventOf("payment_link.paid", x)
                 q == EventOf("payment.captured", x)
      <4>1. {EventOf(k, x) : k \in PaidKind} = {p} \cup {q}
        BY DEF PaidKind
      <4>2. emitted' = emitted \cup ({p} \cup {q})
        BY <3>2, <4>1 DEF CustomerPays, Emit
      <4> HIDE DEF p, q
      <4>3. IsFiniteSet({p} \cup {q})
        BY FS_Singleton, FS_AddElement
      <4> QED BY <4>2, <4>3
    <3> QED BY <2>1, <3>1, <3>2
  <2> QED BY <2>2, FS_Union
<1>2. CASE UNCHANGED emitted
  BY <1>2
<1> QED BY <1>1, <1>2 DEF WorldStep

\* A stored case stays, and stays a case of its transaction.
LEMMA StoredStays ==
  ASSUME TypeInv, LifeStep
  PROVE  \A c \in Stored : c \in Stored' /\ TxOf(c)' = TxOf(c)
<1> SUFFICES ASSUME NEW c \in CaseId, cases[c] # None
             PROVE  cases'[c] # None /\ cases'[c].transaction_id = cases[c].transaction_id
  BY DEF Stored, TxOf
<1>1. cases \in [CaseId -> Case \cup {None}] /\ None \notin Case
  BY ConstantsAssumption DEF TypeInv, StoreTypeOK
<1> QED BY <1>1 DEF LifeStep, Opens, Acts, Concludes, Recovers, Pays, Stays

\* The event is not recorded before the handler is done with it, a failure never
\* leads to the places of a payment, and the handler works on the case of its
\* event's transaction.
LEMMA EventNext ==
  ASSUME MaxRuns = 0, WholeInv, EventInv, [Next]_vars
  PROVE  EventInv'
<1>0. /\ TypeInv /\ OwnInv /\ LifeStep /\ WorldStep
      /\ th \in [Thread -> ThreadState] /\ Webhook \in Thread /\ th[Webhook] \in ThreadState
      /\ Held(Webhook, th[Webhook])
  BY DrivenNext, WorldSteps DEF WholeInv, TypeInv, StoreTypeOK, ThreadInv, Thread
<1>1. CASE th'[Webhook] = Idle
  BY <1>1 DEF EventInv, Idle, RunPC, IngestPC
<1>2. CASE th'[Webhook] # Idle
  <2>1. /\ HandlerMove(th[Webhook], th'[Webhook]) /\ ~Drops(th[Webhook], th'[Webhook])
        /\ processed' = processed
    BY <1>0, <1>2, AnyMoves DEF Drops, WorldStep, WebhookRecord
  <2>2. CASE th'[Webhook] = th[Webhook]
    <3>1. \A c : th[Webhook].pc \in RunPC \cup {"ingest_audit", "hook_audit"}
                   /\ c = th[Webhook].case => TxOf(c)' = TxOf(c)
      BY <1>0, StoredStays DEF Held, CasePC, Stored
    <3>2. /\ th'[Webhook].pc = th[Webhook].pc /\ th'[Webhook].event = th[Webhook].event
          /\ th'[Webhook].case = th[Webhook].case
      BY <2>2
    <3> QED BY <2>1, <3>1, <3>2 DEF EventInv, TxOf
  <2>3. CASE \E e \in wire : WebhookAccept(e)
    <3>1. PICK e \in wire : WebhookAccept(e)
      BY <2>3
    <3>2. e \notin processed
      BY <3>1, Zenon DEF WebhookAccept, IsEventProcessed
    <3>3. th'[Webhook].pc = "hook_tx" /\ th'[Webhook].event = e
      <4>1. th' = [th EXCEPT ![Webhook].pc = "hook_tx", ![Webhook].event = e,
                             ![Webhook].tx = e.tx]
        BY <3>1 DEF WebhookAccept
      <4> QED BY <1>0, <4>1 DEF ThreadState
    <3> QED BY <2>1, <3>2, <3>3 DEF EventInv, RunPC, IngestPC
  <2>4. CASE Finishes(th[Webhook], th'[Webhook]) \/ Prepares(th[Webhook], th'[Webhook])
    <3>1. /\ th'[Webhook].event = th[Webhook].event /\ th[Webhook].pc # "idle"
          /\ th'[Webhook].pc \notin RunPC \cup {"ingest_audit", "hook_audit"}
          /\ th'[Webhook].pc \in IngestPC =>
               th[Webhook].event.kind \notin PaidKind \/ th[Webhook].pc \in IngestPC
      BY <2>4 DEF Finishes, Prepares, RunPC, IngestPC
    <3> QED BY <2>1, <3>1 DEF EventInv
  <2>5. CASE Runs(th[Webhook], th'[Webhook])
    <3>1. /\ th'[Webhook].event = th[Webhook].event /\ th'[Webhook].case = th[Webhook].case
          /\ th[Webhook].pc \in RunPC \cup {"ingest_audit"} /\ th[Webhook].pc # "idle"
      BY <2>5 DEF Runs, RunPC
    <3>2. \A c : c = th[Webhook].case => TxOf(c)' = TxOf(c)
      BY <1>0, <3>1, StoredStays DEF Held, CasePC, Stored
    <3> QED BY <2>1, <3>1, <3>2 DEF EventInv, TxOf, IngestPC
  <2>6. CASE Finds(th[Webhook], th'[Webhook])
    <3>1. /\ th'[Webhook].event = th[Webhook].event /\ th[Webhook].pc = "hook_case"
          /\ th[Webhook].event.kind \notin PaidKind /\ UNCHANGED cases
          /\ TxOf(th'[Webhook].case) = th[Webhook].tx
      BY <2>6 DEF Finds, CasesOf, TxOf
    <3>2. th[Webhook].event.tx = th[Webhook].tx
      BY <1>0, <3>1 DEF Held, TxPC
    <3> QED BY <2>1, <3>1, <3>2 DEF EventInv, TxOf
  <2>7. CASE IngestSave(Webhook)
    <3>1. PICK c \in CaseId :
            /\ cases' = [cases EXCEPT ![c] = NewCase(th[Webhook].tx)]
            /\ th' = [th EXCEPT ![Webhook].pc = "ingest_audit", ![Webhook].case = c]
      BY <2>7 DEF IngestSave
    <3>2. /\ th'[Webhook].pc = "ingest_audit" /\ th'[Webhook].case = c
          /\ th'[Webhook].event = th[Webhook].event /\ th[Webhook].pc = "ingest_save"
      BY <1>0, <2>7, <3>1 DEF IngestSave, At, ThreadState
    <3>3. cases'[c].transaction_id = th[Webhook].tx
      BY <1>0, <3>1 DEF TypeInv, StoreTypeOK, NewCase
    <3>4. th[Webhook].event.tx = th[Webhook].tx
      BY <1>0, <3>2 DEF Held, TxPC
    <3> QED BY <2>1, <3>2, <3>3, <3>4 DEF EventInv, TxOf, IngestPC
  <2>8. CASE MarkSave(Webhook)
    <3>1. /\ th'[Webhook].pc = "mark_audit" /\ th'[Webhook].event = th[Webhook].event
          /\ th[Webhook].pc = "mark_save"
      BY <1>0, <2>8 DEF MarkSave, At, ThreadState
    <3> QED BY <2>1, <3>1 DEF EventInv, RunPC, IngestPC
  <2> QED BY <2>1, <2>2, <2>3, <2>4, <2>5, <2>6, <2>7, <2>8 DEF HandlerMove
<1> QED BY <1>1, <1>2

\* What is settled stays settled, unless a fault strikes: then the event at hand
\* may have to be handled again.
LEMMA SettledStays ==
  ASSUME MaxRuns = 0, WholeInv, IsFiniteSet(emitted), [Next]_vars, NEW x \in Tx
  PROVE  \/ Settled(x) \subseteq Settled(x)'
         \/ Fault /\ Settled(x) \ {Handling} \subseteq Settled(x)'
<1>0. /\ th \in [Thread -> ThreadState] /\ Webhook \in Thread /\ th[Webhook] \in ThreadState
      /\ emitted \subseteq emitted' /\ processed \subseteq processed' /\ WorldStep
  BY WorldSteps, EmittedGrows DEF WholeInv, TypeInv, StoreTypeOK, Thread, WorldStep, WebhookRecord
<1>1. Settled(x) \ {Handling} \subseteq Settled(x)'
  BY <1>0 DEF Settled, FailureEvents
<1>2. CASE /\ th[Webhook].pc \in SettledPC
           /\ th'[Webhook].pc \in SettledPC /\ th'[Webhook].event = th[Webhook].event
  BY <1>0, <1>2 DEF Settled, FailureEvents, Handling
<1>3. CASE th[Webhook].pc \notin SettledPC
  BY <1>0, <1>3 DEF Settled, FailureEvents
<1>4. CASE WebhookRecord
  <2>1. Handling \in processed'
    BY <1>4 DEF WebhookRecord
  <2> QED BY <1>0, <2>1 DEF Settled, FailureEvents
<1>5. CASE th[Webhook].pc \in SettledPC /\ HandlerMove(th[Webhook], th'[Webhook])
  <2>1. CASE th'[Webhook] = th[Webhook]
    <3>1. th'[Webhook].pc = th[Webhook].pc /\ th'[Webhook].event = th[Webhook].event
      BY <2>1
    <3> QED BY <1>2, <1>5, <3>1
  <2>2. CASE Finishes(th[Webhook], th'[Webhook]) \/ Runs(th[Webhook], th'[Webhook])
    BY <1>2, <1>5, <2>2 DEF Finishes, Runs, SettledPC
  <2>3. CASE (\E e \in wire : WebhookAccept(e)) \/ IngestSave(Webhook) \/ MarkSave(Webhook)
             \/ Prepares(th[Webhook], th'[Webhook]) \/ Finds(th[Webhook], th'[Webhook])
    BY <1>5, <2>3 DEF WebhookAccept, IngestSave, MarkSave, At, Prepares, Finds, SettledPC, RunPC
  <2> QED BY <1>4, <1>5, <2>1, <2>2, <2>3 DEF HandlerMove, Drops
<1> QED BY <1>1, <1>3, <1>5, AnyMoves

LEMMA OneLess ==
  ASSUME NEW S, IsFiniteSet(S), NEW e
  PROVE  Cardinality(S) - 1 <= Cardinality(S \ {e}) /\ Cardinality(S \ {e}) \in Nat
<1>1. IsFiniteSet(S \ {e}) /\ Cardinality(S) \in Nat /\ Cardinality(S \ {e}) \in Nat
  BY FS_RemoveElement, FS_CardinalityType
<1>2. CASE e \in S
  <2>1. Cardinality(S \ {e}) = Cardinality(S) - 1
    BY <1>2, FS_RemoveElement
  <2> QED BY <1>1, <2>1
<1>3. CASE e \notin S
  <2>1. S \ {e} = S
    BY <1>3
  <2> QED BY <1>1, <2>1
<1> QED BY <1>2, <1>3

\* So the faults and what is settled count no less than before.
LEMMA SettledCounts ==
  ASSUME MaxRuns = 0, WholeInv, IsFiniteSet(emitted), [Next]_vars, NEW x \in Tx
  PROVE  /\ IsFiniteSet(Settled(x)) /\ Cardinality(Settled(x)) \in Nat
         /\ IsFiniteSet(Settled(x)') /\ Cardinality(Settled(x)') \in Nat
         /\ faults + Cardinality(Settled(x)) <= faults' + Cardinality(Settled(x)')
<1>1. IsFiniteSet(emitted')
  BY WorldSteps, EmittedGrows
<1>2. Settled(x) \subseteq emitted /\ Settled(x)' \subseteq emitted'
  BY DEF Settled, FailureEvents
<1>3. /\ IsFiniteSet(Settled(x)) /\ Cardinality(Settled(x)) \in Nat
      /\ IsFiniteSet(Settled(x)') /\ Cardinality(Settled(x)') \in Nat
  BY <1>1, <1>2, FS_Subset, FS_CardinalityType
<1>4. faults \in Nat /\ faults' \in Nat /\ faults' >= faults /\ (Fault => faults' = faults + 1)
  BY FaultsGrow DEF WholeInv, Fault
<1>5. CASE Settled(x) \subseteq Settled(x)'
  <2>1. Cardinality(Settled(x)) <= Cardinality(Settled(x)')
    BY <1>3, <1>5, FS_Subset
  <2> QED BY <1>3, <1>4, <2>1
<1>6. CASE Fault /\ Settled(x) \ {Handling} \subseteq Settled(x)'
  <2>1. /\ Cardinality(Settled(x)) - 1 <= Cardinality(Settled(x) \ {Handling})
        /\ Cardinality(Settled(x) \ {Handling}) \in Nat
    BY <1>3, OneLess
  <2>2. Cardinality(Settled(x) \ {Handling}) <= Cardinality(Settled(x)')
    BY <1>3, <1>6, FS_Subset
  <2> QED BY <1>3, <1>4, <1>6, <2>1, <2>2
<1> QED BY <1>3, <1>5, <1>6, SettledStays

\* Razorpay never hears of the transaction of a case a worker opened: a link for
\* it would be created before the case, or by the handler for an event of it.
LEMMA UnlinkedStays ==
  ASSUME MaxRuns = 0, WholeInv, EventInv, [Next]_vars, NEW c \in Stored, Unlinked(TxOf(c)),
         NEW x \in Tx, x = TxOf(c)
  PROVE  Unlinked(x)'
<1>0. /\ TypeInv /\ OwnInv /\ DrivenInv /\ WorldStep /\ links \in [Tx -> Nat]
      /\ links[x] = 0 /\ \A e \in emitted : e.tx # x
  BY WorldSteps DEF WholeInv, TypeInv, StoreTypeOK, Unlinked
<1>1. CASE GatewayStep
  <2>1. PICK y \in Tx : AttemptFails(y) \/ CustomerPays(y) \/ LinkExpires(y)
    BY <1>1 DEF GatewayStep
  <2>2. y # x
    BY <1>0, <2>1 DEF AttemptFails, CustomerPays, LinkExpires
  <2>3. links'[x] = links[x]
    BY <1>0, <2>1, <2>2 DEF AttemptFails, CustomerPays, LinkExpires
  <2>4. PICK events \in SUBSET Event : Emit(events) /\ \A e \in events : e.tx = y
    BY <1>0, <2>1, GatewayEmits DEF TypeInv
  <2> QED BY <1>0, <2>2, <2>3, <2>4 DEF Unlinked, Emit
<1>2. CASE UNCHANGED emitted /\ \E w \in Workers : CreateLink(w)
  <2>1. PICK w \in Workers : CreateLink(w)
    BY <1>2
  <2>2. th[w].tx # x
    BY <1>0, <2>1 DEF CreateLink, At, OwnInv, OwnersExclude, OwnPC, NoCase, Thread
  <2>3. links'[x] = links[x]
    BY <1>0, <2>1, <2>2 DEF CreateLink
  <2> QED BY <1>0, <1>2, <2>3 DEF Unlinked
<1>3. CASE UNCHANGED emitted /\ \E t \in Thread : ExecuteLink(t)
  <2>1. PICK t \in Thread : ExecuteLink(t) /\ th[t].pc = "run_execute"
    BY <1>3 DEF ExecuteLink, At
  <2>2. t = Webhook
    BY <1>0, <2>1 DEF Thread, DrivenInv, WorkersQuiet, RunPC
  <2>3. /\ th[t].event \in emitted /\ th[t].event.tx = cases[th[t].case].transaction_id
        /\ th[t].snap.transaction_id = cases[th[t].case].transaction_id
    BY <1>0, <2>1, <2>2, ThreadType, SnapKnown DEF Held, SnapPC, EventInv, RunPC, TxOf
  <2>4. links'[x] = links[x]
    BY <1>0, <2>1, <2>3 DEF ExecuteLink
  <2> QED BY <1>0, <1>3, <2>4 DEF Unlinked
<1>4. CASE UNCHANGED emitted /\ UNCHANGED links
  BY <1>0, <1>4 DEF Unlinked
<1> QED BY <1>0, <1>1, <1>2, <1>3, <1>4 DEF WorldStep

\* A thread that opens a case has just saved it, or was opening it before.
LEMMA OpeningSteps ==
  ASSUME MaxRuns = 0, WholeInv, [Next]_vars, NEW t \in Thread, th'[t].pc = "ingest_audit"
  PROVE  th'[t] = th[t] \/ IngestSave(t)
<1>0. /\ TypeInv /\ OwnInv /\ DrivenInv /\ Budget /\ th \in [Thread -> ThreadState]
  BY DEF WholeInv, TypeInv, StoreTypeOK
<1>1. CASE t = Webhook
  <2>1. CASE (\E e \in wire : WebhookAccept(e)) \/ MarkSave(Webhook)
    <3>1. th'[Webhook].pc \in {"hook_tx", "mark_audit"}
      <4>1. CASE \E e \in wire : WebhookAccept(e)
        BY <1>0, <1>1, <4>1 DEF WebhookAccept, ThreadState
      <4>2. CASE MarkSave(Webhook)
        BY <1>0, <1>1, <4>2 DEF MarkSave, ThreadState
      <4> QED BY <2>1, <4>1, <4>2
    <3> QED BY <1>1, <3>1
  <2>2. CASE \/ th'[Webhook] = Idle
             \/ Drops(th[Webhook], th'[Webhook]) \/ Finishes(th[Webhook], th'[Webhook])
             \/ Runs(th[Webhook], th'[Webhook]) \/ Prepares(th[Webhook], th'[Webhook])
             \/ Finds(th[Webhook], th'[Webhook])
    BY <1>1, <2>2 DEF Drops, Finishes, Runs, Prepares, Finds, Idle, RunPC
  <2> QED BY <1>1, <2>1, <2>2, AnyMoves DEF HandlerMove
<1>2. ASSUME NEW w \in Workers, t = w,
             NewPaymentEvent(w) \/ NewPayment(w) \/ StartRecovery(w) \/ WorkerStep(w)
               \/ CallFails(w) \/ CreateLinkFails(w)
      PROVE  IngestSave(t)
  <2>0. th[w] \in ThreadState /\ w \in Thread /\ w # Webhook /\ th[w].pc \notin RunPC
    BY <1>0, ConstantsAssumption DEF Thread, DrivenInv, WorkersQuiet
  <2>1. th' # [th EXCEPT ![w] = Idle]
    BY <1>0, <1>2, <2>0 DEF Idle
  <2>2. CASE NewPaymentEvent(w)
    <3>1. PICK x \in Tx, s \in {"success", "failed", "pending", "abandoned", "refunded"} :
            PostPaymentEvent(w, x, s)
      BY <2>2 DEF NewPaymentEvent
    <3>2. th' = [th EXCEPT ![w].pc = "ingest_case", ![w].tx = x]
      BY <2>1, <3>1 DEF PostPaymentEvent
    <3> QED BY <1>0, <1>2, <2>0, <3>2 DEF ThreadState
  <2>3. CASE NewPayment(w) \/ StartRecovery(w)
    BY <1>0, <1>2, <2>0, <2>3
       DEF NewPayment, CreatePayment, StartRecovery, PostRecovery, ThreadState
  <2>4. CASE CreateLink(w) \/ CreateLinkFails(w) \/ CallFails(w) \/ IngestAudit(w)
    BY <2>0, <2>1, <2>4 DEF CreateLink, CreateLinkFails, CallFails, IngestAudit, EndIngest
  <2>5. CASE IngestCase(w)
    <3>1. Go(w, "ingest_save")
      BY <2>0, <2>1, <2>5 DEF IngestCase, EndIngest
    <3> QED BY <1>0, <1>2, <2>0, <3>1 DEF Go, ThreadState
  <2>6. ~RunStep(w)
    BY <2>0, RunStepPlace
  <2> QED BY <1>2, <2>2, <2>3, <2>4, <2>5, <2>6 DEF WorkerStep
<1>3. ASSUME NEW w \in Workers, t # w,
             NewPaymentEvent(w) \/ NewPayment(w) \/ StartRecovery(w) \/ WorkerStep(w)
               \/ CallFails(w) \/ CreateLinkFails(w)
      PROVE  th'[t] = th[t]
  BY <1>0, <1>3, WorkerFrame DEF OnlyMoves
<1>4. CASE t # Webhook /\ (WebhookStep \/ CallFails(Webhook) \/ RecordFails)
  <2>1. CASE \E e \in wire : WebhookIgnore(e)
    BY <2>1 DEF WebhookIgnore
  <2>2. CASE \/ \E e \in wire : WebhookAccept(e)
             \/ WebhookSaveTx \/ WebhookFindCase \/ WebhookAuditFailure \/ WebhookRecord
             \/ RecordFails \/ CallFails(Webhook)
    BY <1>0, <1>4, <2>2, WebhookLeaves, FailureLeaves DEF Leaves, OnlyMoves, Thread
  <2>3. CASE IngestStep(Webhook) \/ RunStep(Webhook) \/ MarkStep(Webhook)
    BY <1>0, <1>4, <2>3, StepMoves DEF OnlyMoves, Thread
  <2> QED BY <1>4, <2>1, <2>2, <2>3 DEF WebhookStep, WebhookHandle
<1>5. ~Restart
  BY DEF Restart, Idle
<1>6. CASE Environment \/ UNCHANGED vars
  BY <1>6 DEF Environment, GatewayStep, AttemptFails, CustomerPays, LinkExpires, Redeliver, vars
<1> QED BY <1>1, <1>2, <1>3, <1>4, <1>5, <1>6 DEF Next, Fault, Thread

\* Who writes the record of a failure.
Reports(c) ==
  \/ \E t \in Thread : Opening(t, c) /\ IngestAudit(t)
  \/ \E t \in Thread : Opening(t, c) /\ CallFails(t) /\ Fault
  \/ WebhookAuditFailure /\ th[Webhook].case = c

LEMMA OneReport ==
  ASSUME TypeInv, NEW c \in CaseId, NEW d \in CaseId, NEW types, Audit(d, types),
         "PAYMENT_FAILED" \notin types \/ "RECOVERY_STOPPED" \notin types
  PROVE  FailureCount(c)' = FailureCount(c) \/ (d = c /\ FailureCount(c)' = FailureCount(c) + 1)
<1> DEFINE m == audits[c]["PAYMENT_FAILED"]
           n == audits[c]["RECOVERY_STOPPED"]
<1>1. m \in Nat /\ n \in Nat
  BY DEF TypeInv, StoreTypeOK, AuditEventType
<1>2. /\ audits'[c]["PAYMENT_FAILED"] = IF c = d /\ "PAYMENT_FAILED" \in types THEN m + 1 ELSE m
      /\ audits'[c]["RECOVERY_STOPPED"] = IF c = d /\ "RECOVERY_STOPPED" \in types THEN n + 1 ELSE n
  BY AuditCounts DEF AuditEventType
<1>3. FailureCount(c) = m + n
      /\ FailureCount(c)' = audits'[c]["PAYMENT_FAILED"] + audits'[c]["RECOVERY_STOPPED"]
  BY DEF FailureCount
<1> HIDE DEF m, n
<1> QED BY <1>1, <1>2, <1>3

LEMMA FailureCounts ==
  ASSUME TypeInv, [Next]_vars, NEW c \in CaseId
  PROVE  /\ FailureCount(c) \in Nat
         /\ \/ FailureCount(c)' = FailureCount(c)
            \/ FailureCount(c)' = FailureCount(c) + 1 /\ Reports(c)
<1>0. FailureCount(c) \in Nat
  <2>1. audits[c]["PAYMENT_FAILED"] \in Nat /\ audits[c]["RECOVERY_STOPPED"] \in Nat
    BY DEF TypeInv, StoreTypeOK, AuditEventType
  <2> QED BY <2>1 DEF FailureCount
<1>2. CASE SameRecords
  <2>1. /\ audits'[c]["PAYMENT_FAILED"] = audits[c]["PAYMENT_FAILED"]
        /\ audits'[c]["RECOVERY_STOPPED"] = audits[c]["RECOVERY_STOPPED"]
    BY <1>2 DEF SameRecords
  <2>2. FailureCount(c)' = FailureCount(c)
    BY <2>1 DEF FailureCount
  <2> QED BY <1>0, <2>2
<1>3. CASE \E t \in Thread : IngestAudit(t)
  <2>1. PICK t \in Thread : IngestAudit(t)
    BY <1>3
  <2>2. PICK d \in CaseId : /\ th[t].pc = "ingest_audit" /\ d = th[t].case
                            /\ Audit(d, {"PAYMENT_FAILED", "RECOVERY_CASE_CREATED"})
    BY <2>1, CaseKnown DEF IngestAudit, At, CasePC
  <2>3. FailureCount(c)' = FailureCount(c) \/ (d = c /\ FailureCount(c)' = FailureCount(c) + 1)
    BY <2>2, OneReport
  <2> QED BY <1>0, <2>1, <2>2, <2>3 DEF Reports, Opening
<1>4. CASE \E t \in Thread : /\ CallFails(t) /\ At(t, "ingest_audit") /\ Fault
                             /\ Audit(th[t].case, {"PAYMENT_FAILED"})
  <2>1. PICK t \in Thread : /\ CallFails(t) /\ th[t].pc = "ingest_audit" /\ Fault
                            /\ Audit(th[t].case, {"PAYMENT_FAILED"})
    BY <1>4 DEF At
  <2>2. PICK d \in CaseId : d = th[t].case
    BY <2>1, CaseKnown DEF CasePC
  <2>3. FailureCount(c)' = FailureCount(c) \/ (d = c /\ FailureCount(c)' = FailureCount(c) + 1)
    BY <2>1, <2>2, OneReport
  <2> QED BY <1>0, <2>1, <2>2, <2>3 DEF Reports, Opening
<1>5. CASE MarkAudit(Webhook)
  <2>1. Audit(th[Webhook].case, {"PAYMENT_SUCCEEDED", "RECOVERY_COMPLETED"})
        /\ th[Webhook].case \in CaseId
    BY <1>5, CaseKnown DEF MarkAudit, At, CasePC, Thread
  <2>2. \A a \in {"PAYMENT_FAILED", "RECOVERY_STOPPED"} : audits'[c][a] = audits[c][a]
    BY <2>1, AuditCounts DEF AuditEventType
  <2> QED BY <1>0, <2>2 DEF FailureCount
<1>6. CASE WebhookAuditFailure
  <2>1. PICK a : a = FailureAudit(Handling) /\ Audit(th[Webhook].case, {a})
    BY <1>6 DEF WebhookAuditFailure
  <2>2. PICK d \in CaseId : d = th[Webhook].case
    BY <1>6, CaseKnown DEF WebhookAuditFailure, At, CasePC, Thread
  <2>3. FailureCount(c)' = FailureCount(c) \/ (d = c /\ FailureCount(c)' = FailureCount(c) + 1)
    BY <2>1, <2>2, OneReport
  <2> QED BY <1>0, <1>6, <2>2, <2>3 DEF Reports
<1> QED BY <1>0, <1>2, <1>3, <1>4, <1>5, <1>6, RecordSteps

\* What a report says of the thread that writes it.
LEMMA ReportPlaces ==
  ASSUME TypeInv, EventInv, NEW c \in CaseId, Reports(c)
  PROVE  /\ c \in Stored
         /\ \/ \E t \in Thread : Opening(t, c) /\ th'[t] # th[t]
            \/ th[Webhook].pc = "hook_audit" /\ ~Unlinked(TxOf(c))
<1>0. th \in [Thread -> ThreadState] /\ Webhook \in Thread
  BY DEF TypeInv, StoreTypeOK, Thread
<1>1. ASSUME NEW t \in Thread, Opening(t, c), IngestAudit(t) \/ CallFails(t)
      PROVE  c \in Stored /\ th'[t] # th[t]
  <2>1. c \in Stored
    BY <1>0, <1>1, ThreadType DEF Opening, Held, CasePC, Stored
  <2>2. th'[t].pc \in {"run_case", "idle"}
    <3>1. CASE IngestAudit(t)
      <4>1. th'[t] = IF t = Webhook THEN [th[t] EXCEPT !.pc = "run_case", !.case = th[t].case]
                                    ELSE Idle
        BY <1>0, <3>1 DEF IngestAudit, EndIngest
      <4> QED BY <1>0, <4>1 DEF Idle, ThreadState
    <3>2. CASE CallFails(t)
      BY <1>0, <1>1, <3>2 DEF CallFails, Opening, RunPC, Idle
    <3> QED BY <1>1, <3>1, <3>2
  <2>3. th'[t] # th[t]
    <3>1. th[t].pc = "ingest_audit"
      BY <1>1 DEF Opening
    <3> QED BY <2>2, <3>1
  <2> QED BY <2>1, <2>3
<1>2. CASE WebhookAuditFailure /\ th[Webhook].case = c
  <2>1. th[Webhook].pc = "hook_audit"
    BY <1>2 DEF WebhookAuditFailure, At
  <2>2. c \in Stored /\ th[Webhook].event \in emitted /\ th[Webhook].event.tx = TxOf(c)
    BY <1>0, <1>2, <2>1, ThreadType DEF Held, CasePC, Stored, EventInv
  <2> QED BY <2>1, <2>2 DEF Unlinked
<1> QED BY <1>1, <1>2 DEF Reports

\* A case that is not stored has no record, and one opening none but its opener's
\* to come.
LEMMA FreshNext ==
  ASSUME MaxRuns = 0, WholeInv, EventInv, FreshInv, [Next]_vars
  PROVE  FreshInv'
<1>0. /\ TypeInv /\ OwnInv /\ LifeStep /\ Webhook \in Thread
      /\ th \in [Thread -> ThreadState] /\ cases \in [CaseId -> Case \cup {None}]
  BY DrivenNext DEF WholeInv, TypeInv, StoreTypeOK, Thread
<1>1. ASSUME NEW c \in CaseId, cases'[c] = None
      PROVE  FailureCount(c)' = 0
  <2>1. c \notin Stored
    BY <1>0, <1>1, StoredStays DEF Stored
  <2>2. ~Reports(c)
    BY <1>0, <2>1, ReportPlaces
  <2> QED BY <1>0, <2>1, <2>2, FailureCounts DEF FreshInv, Stored
<1>2. ASSUME NEW c \in CaseId, NEW t \in Thread, Opening(t, c)'
      PROVE  /\ FailureCount(c)' = 0
             /\ t \in Workers => Unlinked(TxOf(c))'
             /\ \A u \in Thread \ {t} : ~Opening(u, c)'
  <2>1. th'[t].pc = "ingest_audit" /\ th'[t].case = c
    BY <1>2 DEF Opening
  <2>2. CASE th'[t] = th[t]
    <3>1. Opening(t, c) /\ c \in Stored
      BY <1>0, <2>1, <2>2, ThreadType DEF Opening, Held, CasePC, Stored
    <3>2. \A u \in Thread \ {t} : ~Opening(u, c)'
      <4> SUFFICES ASSUME NEW u \in Thread \ {t}, Opening(u, c)'
                   PROVE  FALSE
        OBVIOUS
      <4>1. th'[u].pc = "ingest_audit" /\ th'[u].case = c
        BY DEF Opening
      <4>2. CASE th'[u] = th[u]
        BY <3>1, <4>1, <4>2 DEF FreshInv, Opening
      <4>3. CASE IngestSave(u)
        BY <1>0, <3>1, <4>1, <4>3 DEF IngestSave, ThreadState, Stored
      <4> QED BY <4>1, <4>2, <4>3, OpeningSteps
    <3>3. ~Reports(c)
      BY <1>0, <2>2, <3>1, ReportPlaces DEF FreshInv, Opening, Thread
    <3>4. FailureCount(c)' = 0
      BY <1>0, <3>1, <3>3, FailureCounts DEF FreshInv
    <3>5. ASSUME t \in Workers PROVE Unlinked(TxOf(c))'
      <4>1. Unlinked(TxOf(c))
        BY <3>1, <3>5 DEF FreshInv
      <4>2. PICK x \in Tx : x = TxOf(c)
        BY <1>0, <3>1 DEF Stored, TxOf, Case
      <4>3. Unlinked(x)'
        BY <3>1, <4>1, <4>2, UnlinkedStays
      <4>4. TxOf(c)' = x
        BY <1>0, <3>1, <4>2, StoredStays
      <4> QED BY <4>3, <4>4 DEF Unlinked
    <3> QED BY <3>2, <3>4, <3>5
  <2>3. CASE IngestSave(t)
    <3>1. /\ cases[c] = None /\ cases' = [cases EXCEPT ![c] = NewCase(th[t].tx)]
          /\ th[t].pc = "ingest_save" /\ \A u \in Thread \ {t} : th'[u] = th[u]
          /\ UNCHANGED <<audits, links, emitted>>
      BY <1>0, <2>1, <2>3 DEF IngestSave, At, ThreadState, ledger, gateway
    <3>2. FailureCount(c)' = 0
      BY <3>1 DEF FreshInv, FailureCount
    <3>3. \A u \in Thread \ {t} : ~Opening(u, c)'
      BY <1>0, <3>1, ThreadType DEF Opening, Held, CasePC
    <3>4. ASSUME t \in Workers PROVE Unlinked(TxOf(c))'
      <4>1. links[th[t].tx] = 0 /\ \A e \in emitted : e.tx # th[t].tx
        BY <1>0, <3>1, <3>4 DEF OwnInv, OwnersExclude, OwnPC, Unknown
      <4>2. cases'[c].transaction_id = th[t].tx
        BY <1>0, <3>1 DEF NewCase
      <4> QED BY <3>1, <4>1, <4>2 DEF Unlinked, TxOf
    <3> QED BY <3>2, <3>3, <3>4
  <2> QED BY <2>1, <2>2, <2>3, OpeningSteps
<1> QED BY <1>1, <1>2 DEF FreshInv

\* One more event is settled by the record of a failure of a known case.
LEMMA OneMore ==
  ASSUME NEW S, NEW T, IsFiniteSet(S), IsFiniteSet(T), S \subseteq T, NEW e \in T \ S
  PROVE  Cardinality(S) + 1 <= Cardinality(T)
<1>1. /\ IsFiniteSet(S \cup {e}) /\ Cardinality(S \cup {e}) = Cardinality(S) + 1
      /\ Cardinality(S) \in Nat /\ Cardinality(T) \in Nat
  BY FS_AddElement, FS_CardinalityType
<1>2. Cardinality(S \cup {e}) <= Cardinality(T)
  BY FS_Subset
<1> QED BY <1>1, <1>2

\* A record of a failure settles an event, is the first one of the case of a
\* worker, or was cut short by a fault.
LEMMA AuditedNext ==
  ASSUME MaxRuns = 0, WholeInv, FailureInv, [Next]_vars
  PROVE  AuditedInv'
<1>0. /\ TypeInv /\ TypeInv' /\ OwnInv /\ LifeStep /\ Webhook \in Thread /\ EventInv /\ FreshInv
      /\ th \in [Thread -> ThreadState] /\ cases' \in [CaseId -> Case \cup {None}]
      /\ cases \in [CaseId -> Case \cup {None}] /\ IsFiniteSet(emitted)
  BY DrivenNext, NextKeeps DEF WholeInv, TypeInv, StoreTypeOK, Thread, FailureInv
<1>f. faults \in Nat /\ faults' \in Nat /\ faults <= faults' /\ (Fault => faults' = faults + 1)
  BY FaultsGrow DEF WholeInv, Fault
<1>p. PICK old \in Nat, new \in Nat : old = faults /\ new = faults' /\ old <= new
  BY <1>f
<1>q. old <= new
  BY <1>p
<1> SUFFICES ASSUME NEW c \in CaseId, cases'[c] # None
             PROVE  \/ FailureCount(c)' <= faults' + Cardinality(Settled(TxOf(c)))'
                    \/ Unlinked(TxOf(c))' /\ FailureCount(c)' <= faults' + 1
  BY DEF AuditedInv, Stored
<1>1. PICK x \in Tx : x = TxOf(c)'
  BY <1>0 DEF TxOf, Case
<1>2. Settled(TxOf(c))' = Settled(x)' /\ (Unlinked(x)' => Unlinked(TxOf(c))')
  BY <1>1 DEF Settled, FailureEvents, Unlinked
<1>s. PICK S, T : S = Settled(x) /\ T = Settled(x)'
  OBVIOUS
<1>t. /\ IsFiniteSet(S) /\ Cardinality(S) \in Nat /\ IsFiniteSet(T) /\ Cardinality(T) \in Nat
      /\ faults + Cardinality(S) <= faults' + Cardinality(T)
  BY <1>0, <1>s, SettledCounts
<1>3. PICK k \in Nat, l \in Nat : k = Cardinality(S) /\ l = Cardinality(T) /\ old + k <= new + l
  BY <1>p, <1>t
<1>4. PICK n \in Nat, m \in Nat : n = FailureCount(c) /\ m = FailureCount(c)'
  BY <1>0, FailureCounts
<1>r. m = n \/ (m = n + 1 /\ Reports(c))
  BY <1>0, <1>4, FailureCounts
\* What is left to show, in terms of these numbers.
<1>g. (m <= new + l \/ (Unlinked(x)' /\ m <= new + 1))
        => \/ FailureCount(c)' <= faults' + Cardinality(Settled(TxOf(c)))'
           \/ Unlinked(TxOf(c))' /\ FailureCount(c)' <= faults' + 1
  <2>1. /\ FailureCount(c)' = m /\ faults' = new /\ Settled(TxOf(c))' = T /\ Cardinality(T) = l
        /\ Unlinked(x)' => Unlinked(TxOf(c))'
    BY <1>p, <1>2, <1>s, <1>3, <1>4
  <2> QED BY <2>1, Zenon
<1>5. CASE c \notin Stored
  <2>1. n = 0 /\ ~Reports(c)
    BY <1>0, <1>4, <1>5, ReportPlaces DEF FreshInv, Stored
  <2>2. m = 0
    BY <1>r, <2>1
  <2>3. m <= new + l
    BY <2>2
  <2> QED BY <1>g, <2>3, Zenon
<1>6. CASE c \in Stored
  <2>1. TxOf(c) = x
    BY <1>0, <1>1, <1>6, StoredStays
  <2>2. \/ n <= old + k
        \/ Unlinked(x) /\ n <= old + 1
    <3>1. FailureCount(c) = n /\ faults = old /\ Cardinality(Settled(TxOf(c))) = k
      BY <1>p, <1>s, <1>3, <1>4, <2>1, Zenon
    <3> QED BY <1>6, <2>1, <3>1, Zenon DEF FailureInv, AuditedInv
  <2>3. Unlinked(x) => Unlinked(x)'
    BY <1>0, <1>6, <2>1, UnlinkedStays
  <2>4. m <= new + l \/ (Unlinked(x)' /\ m <= new + 1)
    <3>1. CASE m = n
      <4>1. CASE n <= old + k
        <5>1. m <= new + l
          BY <1>3, <3>1, <4>1
        <5> QED BY <5>1
      <4>2. CASE n <= old + 1 /\ Unlinked(x)
        <5>1. m <= new + 1
          <6>1. n <= old + 1
            BY <4>2
          <6> QED BY <1>q, <3>1, <6>1
        <5>2. Unlinked(x)'
          BY <2>3, <4>2, Zenon
        <5> QED BY <5>1, <5>2, Zenon
      <4> QED BY <2>2, <4>1, <4>2, Zenon
    <3>2. CASE m = n + 1 /\ \E t \in Thread : Opening(t, c) /\ IngestAudit(t)
      <4>1. PICK t \in Thread : Opening(t, c) /\ IngestAudit(t)
        BY <3>2
      <4>2. n = 0 /\ (t \in Workers => Unlinked(x))
        <5>1. FailureCount(c) = 0 /\ (t \in Workers => Unlinked(TxOf(c)))
          BY <1>0, <4>1, Zenon DEF FreshInv
        <5> QED BY <1>4, <2>1, <5>1, Zenon
      <4>3. m = 1
        BY <3>2, <4>2
      <4>4. CASE t \in Workers
        <5>1. m <= new + 1
          BY <4>3
        <5> QED BY <2>3, <4>2, <4>4, <5>1, Zenon
      <4>5. CASE t = Webhook
        <5>1. /\ th[Webhook].event \in emitted /\ th[Webhook].event.tx = x
              /\ th[Webhook].event.kind \notin PaidKind
          BY <1>0, <2>1, <4>1, <4>5, ThreadType DEF Opening, Held, EventInv, IngestPC
        <5>2. /\ emitted' = emitted /\ th'[Webhook].pc = "run_case"
              /\ th'[Webhook].event = th[Webhook].event
          BY <1>0, <4>1, <4>5 DEF IngestAudit, EndIngest, gateway, ThreadState
        <5>3. th[Webhook].event \in T
          BY <1>s, <5>1, <5>2 DEF Settled, FailureEvents, Handling, SettledPC, RunPC
        <5>4. Cardinality(T) # 0
          BY <1>t, <5>3, FS_EmptySet
        <5>5. m <= new + l
          BY <1>3, <4>3, <5>4
        <5> QED BY <5>5
      <4> QED BY <4>4, <4>5 DEF Thread
    <3>3. CASE m = n + 1 /\ \E t \in Thread : Opening(t, c) /\ CallFails(t) /\ Fault
      <4>1. n = 0 /\ new = old + 1
        BY <1>0, <1>f, <1>p, <1>4, <3>3 DEF FreshInv
      <4>2. m <= new + l
        BY <3>3, <4>1
      <4> QED BY <4>2
    <3>4. CASE m = n + 1 /\ WebhookAuditFailure /\ th[Webhook].case = c
      <4>1. /\ th[Webhook].pc = "hook_audit" /\ th[Webhook].event \in emitted
            /\ th[Webhook].event.tx = x /\ th[Webhook].event.kind \notin PaidKind
            /\ th[Webhook].event \notin processed
        BY <1>0, <2>1, <3>4, ThreadType DEF WebhookAuditFailure, At, Held, EventInv
      <4>2. /\ emitted' = emitted /\ processed' = processed /\ th'[Webhook].pc = "hook_record"
            /\ th'[Webhook].event = th[Webhook].event
        BY <1>0, <3>4 DEF WebhookAuditFailure, GoRecord, gateway, ThreadState
      <4>3. th[Webhook].event \in T \ S
        BY <1>s, <4>1, <4>2 DEF Settled, FailureEvents, Handling, SettledPC, RunPC
      <4>4. S \subseteq T
        BY <1>s, <4>1, <4>2 DEF Settled, FailureEvents, SettledPC, RunPC
      <4>5. k + 1 <= l
        <5>1. Cardinality(S) + 1 <= Cardinality(T)
          BY <1>t, <4>3, <4>4, OneMore
        <5> QED BY <1>3, <5>1
      <4>6. ~Unlinked(x)
        BY <4>1 DEF Unlinked
      <4>7. n <= old + k
        BY <2>2, <4>6, Zenon
      <4>8. m <= new + l
        <5>1. m = n + 1
          BY <3>4
        <5> QED BY <1>q, <4>5, <4>7, <5>1
      <4> QED BY <4>8
    <3> QED BY <1>r, <3>1, <3>2, <3>3, <3>4 DEF Reports
  <2> QED BY <1>g, <2>4, Zenon
<1> QED BY <1>5, <1>6

\* A failure event is audited at most once, however often it is delivered, apart
\* from one record for each fault that made the handler begin anew.
THEOREM FailuresAudited ==
  ASSUME MaxRuns = 0
  PROVE  Spec => []FailuresAuditedOnce
<1>1. Init => FailureInv
  BY FS_EmptySet DEF Init, StoreInit, FailureInv, EventInv, FreshInv, AuditedInv, Opening, Stored,
                     FailureCount, Idle, Thread, AuditEventType, RunPC, IngestPC
<1>2. ASSUME WholeInv, FailureInv PROVE FailuresAuditedOnce
  <2> SUFFICES ASSUME NEW c \in Stored
               PROVE  FailureCount(c) <= faults + IF Cardinality(FailureEvents(TxOf(c))) = 0 THEN 1
                                                  ELSE Cardinality(FailureEvents(TxOf(c)))
    BY DEF FailuresAuditedOnce, FailureCount
  <2> DEFINE x == TxOf(c)
             n == FailureCount(c)
             k == Cardinality(Settled(x))
             r == Cardinality(FailureEvents(x))
  <2>1. /\ IsFiniteSet(FailureEvents(x)) /\ Settled(x) \subseteq FailureEvents(x)
        /\ Unlinked(x) => FailureEvents(x) = {}
    <3>1. FailureEvents(x) \subseteq emitted
      BY DEF FailureEvents
    <3>2. IsFiniteSet(FailureEvents(x))
      BY <1>2, <3>1, FS_Subset DEF FailureInv
    <3> QED BY <3>2 DEF Settled, FailureEvents, Unlinked
  <2>2. k \in Nat /\ r \in Nat /\ k <= r /\ (Unlinked(x) => r = 0)
    BY <2>1, FS_Subset, FS_CardinalityType, FS_EmptySet
  <2>3. n <= faults + k \/ (Unlinked(x) /\ n <= faults + 1)
    BY <1>2 DEF FailureInv, AuditedInv
  <2>4. faults \in Nat /\ n \in Nat
    <3>1. audits[c]["PAYMENT_FAILED"] \in Nat /\ audits[c]["RECOVERY_STOPPED"] \in Nat
      BY <1>2 DEF WholeInv, TypeInv, StoreTypeOK, AuditEventType, Stored
    <3> QED BY <1>2, <3>1, BoundsAssumption DEF FailureCount, WholeInv, Budget
  <2> HIDE DEF x, n, k, r
  <2>5. n <= faults + IF r = 0 THEN 1 ELSE r
    BY <2>2, <2>3, <2>4
  <2> QED BY <2>5 DEF x, n, r
<1>3. ASSUME WholeInv, FailureInv, [Next]_vars PROVE FailureInv'
  <2>1. IsFiniteSet(emitted')
    BY <1>3, WorldSteps, EmittedGrows DEF FailureInv
  <2>2. EventInv' /\ FreshInv'
    BY <1>3, EventNext, FreshNext DEF FailureInv
  <2> QED BY <1>3, <2>1, <2>2, AuditedNext DEF FailureInv
<1> QED BY <1>1, <1>2, <1>3, WholeInductive, PTL DEF Spec
=============================================================================
