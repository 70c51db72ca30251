--------------------------- MODULE RazorpayWebhook ---------------------------
(***************************************************************************)
(* POST /events/webhook/razorpay: process_razorpay_webhook_event of        *)
(* backend/app/services/razorpay/webhook.py with the idempotency guard of  *)
(* backend/app/core/idempotency.py.  The endpoint is "async def" and the   *)
(* handler awaits nothing, so the event loop runs one delivery to its end  *)
(* before it takes the next: the handler is the single thread Webhook,     *)
(* interleaved with the thread-pool workers only.                          *)
(***************************************************************************)
EXTENDS RecoveryService

Handling == th[Webhook].event

\* Mutant: the guard never finds the event.
IsEventProcessed_Never(e) == FALSE

\* Mutant: the guard is keyed by transaction, not by event.
IsEventProcessed_PerTx(e) == \E d \in processed : d.tx = e.tx

\* is_event_processed.
IsEventProcessed(e) == e \in processed

\* The delivery is answered with HTTP 200; Razorpay will not repeat it for want
\* of an answer.
Answer(e) == wire' = wire \ {e}

\* Answered at once: a duplicate of a recorded event, or an event about a
\* transaction that is not stored, which is "ignored" and not recorded.
WebhookIgnore(e) ==
  /\ At(Webhook, "idle")
  /\ e \in wire
  /\ IsEventProcessed(e) \/ txs[e.tx] = "none"
  /\ Answer(e)
  /\ UNCHANGED <<txs, cases, ledger, processed, th, links, payments, emitted, seq, outreach>>

WebhookAccept(e) ==
  /\ At(Webhook, "idle")
  /\ e \in wire
  /\ ~IsEventProcessed(e)
  /\ txs[e.tx] # "none"
  /\ th' = [th EXCEPT ![Webhook].pc = "hook_tx", ![Webhook].event = e,
                      ![Webhook].tx = e.tx]
  /\ UNCHANGED <<txs, cases, ledger, processed, gateway, outreach>>

\* The status an event stores in its transaction, whatever the stored one is.
StatusOf(e) == IF e.kind \in PaidKind THEN "success" ELSE "failed"

WebhookSaveTx ==
  /\ At(Webhook, "hook_tx")
  /\ txs' = [txs EXCEPT ![th[Webhook].tx] = StatusOf(Handling)]
  /\ Go(Webhook, "hook_case")
  /\ UNCHANGED <<cases, ledger, processed, gateway, outreach>>

\* Mutant: an expired link of an existing case is handled like a paid one.
AfterLookup_Closed(e, c) ==
  CASE c = None -> IF e.kind \in PaidKind THEN "hook_record" ELSE "ingest_tx"
    [] c # None /\ e.kind \in FailedKind -> "hook_audit"
    [] OTHER -> "mark_read"

\* Mutant: a failure event runs the workflow of an existing case again, as the
\* flow chart of PayBack's README has it (there only while retries remain).
AfterLookup_Rerun(e, c) ==
  IF e.kind \in PaidKind
  THEN IF c = None \/ cases[c].status = "recovered" THEN "hook_record" ELSE "mark_read"
  ELSE IF c = None THEN "ingest_tx" ELSE "run_case"

\* Mutant: the second event of a payment completes the recovery again.
AfterLookup_NoSkip(e, c) ==
  CASE c = None -> IF e.kind \in PaidKind THEN "hook_record" ELSE "ingest_tx"
    [] c # None -> IF e.kind \in PaidKind THEN "mark_read" ELSE "hook_audit"

\* What the handler does once it has looked the case c up (None if there is
\* none): a payment recovers it unless it is recovered already; a failure or an
\* expired link is only audited when a case exists, and opens one otherwise.
AfterLookup(e, c) ==
  IF e.kind \in PaidKind
  THEN IF c = None THEN "hook_record"
       ELSE IF cases[c].status = "recovered" THEN "hook_record" ELSE "mark_read"
  ELSE IF c = None THEN "ingest_tx" ELSE "hook_audit"

\* get_case_by_transaction_id: what it may return.
Lookup(t) == IF CasesOf(t) = {} THEN {None} ELSE CasesOf(t)

WebhookFindCase ==
  /\ At(Webhook, "hook_case")
  /\ \E c \in Lookup(th[Webhook].tx) :
       LET next == AfterLookup(Handling, c)
       IN IF next = "hook_record"
          THEN GoRecord(Webhook)
          ELSE th' = [th EXCEPT ![Webhook].pc = next, ![Webhook].case = c]
  /\ UNCHANGED <<txs, cases, ledger, processed, gateway, outreach>>

\* Mutant: an expired link stops the case, whatever its status.
WebhookAuditFailure_Stops ==
  /\ At(Webhook, "hook_audit")
  /\ cases' = [cases EXCEPT ![th[Webhook].case].status = "stopped"]
  /\ Audit(th[Webhook].case, {"RECOVERY_STOPPED"})
  /\ GoRecord(Webhook)
  /\ UNCHANGED <<txs, action_records, deliveries, processed, gateway, outreach>>

\* A failure or an expiry of a case that exists changes neither its status nor
\* its outcome; an expired link is audited as RECOVERY_STOPPED all the same.
FailureAudit(e) == IF e.kind \in ExpiredKind THEN "RECOVERY_STOPPED" ELSE "PAYMENT_FAILED"

WebhookAuditFailure ==
  /\ At(Webhook, "hook_audit")
  /\ Audit(th[Webhook].case, {FailureAudit(Handling)})
  /\ GoRecord(Webhook)
  /\ UNCHANGED <<txs, cases, action_records, deliveries, processed, gateway, outreach>>

\* record_processed_event, after every effect of the event, and the answer.
WebhookRecord ==
  /\ At(Webhook, "hook_record")
  /\ processed' = processed \cup {Handling}
  /\ Answer(Handling)
  /\ th' = [th EXCEPT ![Webhook] = Idle]
  /\ UNCHANGED <<txs, cases, ledger, links, payments, emitted, seq, outreach>>

\* The next step of the handler once a delivery is accepted.
WebhookHandle ==
  \/ WebhookSaveTx \/ WebhookFindCase \/ WebhookAuditFailure \/ WebhookRecord
  \/ IngestStep(Webhook) \/ RunStep(Webhook) \/ MarkStep(Webhook)
=============================================================================
