------------------------------- MODULE PayBack -------------------------------
(***************************************************************************)
(* The payment recovery core of PayBack: the worker threads that serve     *)
(* POST /events/payment, POST /payments/create and POST /recoveries, the   *)
(* event loop that serves the Razorpay webhook, the store they share, and  *)
(* the gateway and the faults around them.                                 *)
(*                                                                         *)
(* MaxFaults = 0 is the in-memory backend, whose calls do not fail.  With  *)
(* MaxFaults > 0 the store is Supabase: every repository call is an HTTP   *)
(* request that may raise, and the process may restart between two calls   *)
(* (the in-memory store would not survive that).                           *)
(***************************************************************************)
EXTENDS RazorpayWebhook, RazorpayGateway, PaymentCreation

CONSTANTS
  MaxRuns,        \* bound: POST /recoveries requests
  MaxDuplicates,  \* bound: deliveries of events already answered
  MaxFaults       \* bound: raised repository calls and restarts

ASSUME BoundsAssumption ==
  {MaxEvents, MaxRuns, MaxDuplicates, MaxFaults} \subseteq Nat

VARIABLES runs, dups, faults

budget == <<runs, dups, faults>>
vars == <<txs, cases, ledger, processed, th, gateway, outreach, budget>>

Init ==
  /\ StoreInit
  /\ runs = 0 /\ dups = 0 /\ faults = 0

-----------------------------------------------------------------------------
(* Requests *)

NewPaymentEvent(w) ==
  /\ \E t \in Tx, s \in {"success", "failed", "pending", "abandoned", "refunded"} :
       PostPaymentEvent(w, t, s)
  /\ UNCHANGED budget

NewPayment(w) ==
  /\ \E t \in Tx : CreatePayment(w, t)
  /\ UNCHANGED budget

StartRecovery(w) ==
  /\ runs < MaxRuns
  /\ \E c \in CaseId : PostRecovery(w, c)
  /\ runs' = runs + 1
  /\ UNCHANGED <<dups, faults>>

\* The next step of the request a worker is serving.
WorkerStep(w) ==
  /\ CreateLink(w) \/ IngestCase(w) \/ IngestSave(w) \/ IngestAudit(w) \/ RunStep(w)
  /\ UNCHANGED budget

WebhookStep ==
  /\ (\E e \in wire : WebhookIgnore(e) \/ WebhookAccept(e)) \/ WebhookHandle
  /\ UNCHANGED budget

-----------------------------------------------------------------------------
(* Faults *)

\* The audits a failing call may have written before it raised: where the code
\* records two in a row, the second may be the one that fails.
AuditWritten(pc) ==
  CASE pc = "ingest_audit" -> "PAYMENT_FAILED"
    [] pc = "run_audit"    -> "ACTION_SELECTED"
    [] pc = "mark_audit"   -> "PAYMENT_SUCCEEDED"

\* Calls of the payment and delivery providers never raise, and at run_detail
\* the code raises anyway.
StoreCallPC == (RunPC \ {"run_execute", "run_send", "run_detail"})
               \cup IngestPC \cup (WebhookPC \ {"hook_record"})

\* A repository call of the thread raises.  A worker answers with an error; the
\* webhook handler swallows it inside run_recovery and answers 500 elsewhere, so
\* that the event is delivered again from the start.
CallFails(t) ==
  /\ th[t].pc \in StoreCallPC
  /\ \/ UNCHANGED audits
     \/ /\ At(t, "ingest_audit") \/ At(t, "run_audit") \/ At(t, "mark_audit")
        /\ Audit(th[t].case, {AuditWritten(th[t].pc)})
  /\ IF th[t].pc \in RunPC THEN EndRun(t) ELSE th' = [th EXCEPT ![t] = Idle]
  /\ UNCHANGED <<txs, cases, action_records, deliveries, processed, gateway, outreach>>

\* record_processed_event raises: logged, and the delivery is answered 200.
RecordFails ==
  /\ At(Webhook, "hook_record")
  /\ Answer(Handling)
  /\ th' = [th EXCEPT ![Webhook] = Idle]
  /\ UNCHANGED <<txs, cases, ledger, processed, links, payments, emitted, seq, outreach>>

\* The process restarts: every request in flight is gone, the store is not.
Restart ==
  /\ \E t \in Thread : ~At(t, "idle")
  /\ th' = [t \in Thread |-> Idle]
  /\ UNCHANGED <<txs, cases, ledger, processed, gateway, outreach>>

Fault ==
  /\ faults < MaxFaults
  /\ \/ \E t \in Thread : CallFails(t)
     \/ \E w \in Workers : CreateLinkFails(w)
     \/ RecordFails
     \/ Restart
  /\ faults' = faults + 1
  /\ UNCHANGED <<runs, dups>>

-----------------------------------------------------------------------------
Environment ==
  \/ GatewayStep /\ UNCHANGED budget
  \/ /\ dups < MaxDuplicates
     /\ \E e \in emitted : Redeliver(e)
     /\ dups' = dups + 1
     /\ UNCHANGED <<runs, faults>>

Next ==
  \/ \E w \in Workers : NewPaymentEvent(w) \/ NewPayment(w) \/ StartRecovery(w)
                        \/ WorkerStep(w)
  \/ WebhookStep
  \/ Environment
  \/ Fault

Spec == Init /\ [][Next]_vars

\* The server keeps executing the requests it has accepted, and Razorpay keeps
\* delivering what was not answered.  No request, payment or fault is owed.
Fairness == WF_vars(WebhookStep) /\ \A w \in Workers : WF_vars(WorkerStep(w))

FairSpec == Spec /\ Fairness
=============================================================================
