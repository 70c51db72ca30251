--------------------------- MODULE RecoveryService ---------------------------
(***************************************************************************)
(* RecoveryService (backend/app/services/recovery.py): ingestion of a      *)
(* payment event and one run of the recovery workflow, both shared by the  *)
(* worker threads (POST /events/payment, POST /recoveries) and by the      *)
(* webhook handler, which calls them on a payment that failed.             *)
(***************************************************************************)
EXTENDS RecoveryStore

\* Where a thread goes when a call of the service returns or raises: a worker
\* answers its request; the webhook handler goes on, because it wraps
\* run_recovery in try/except, and reports the event processed either way.
EndRun(t) == IF t = Webhook THEN GoRecord(t) ELSE th' = [th EXCEPT ![t] = Idle]

\* ingest_payment_event returns the case; only the webhook handler runs it.
EndIngest(t, c) ==
  th' = [th EXCEPT ![t] = IF t = Webhook
                          THEN [@ EXCEPT !.pc = "run_case", !.case = c]
                          ELSE Idle]

-----------------------------------------------------------------------------
(* ingest_payment_event *)

NewCase(t) == [transaction_id |-> t, status |-> "detected", decision |-> "none",
               outcome |-> "none", amount_recovered |-> 0,
               retry_count |-> 0, message_count |-> 0]

\* POST /events/payment: every request builds a transaction with a fresh id;
\* customer and transaction are saved before a SUCCESS status is refused (422).
PostPaymentEvent(w, t, s) ==
  /\ At(w, "idle")
  /\ txs[t] = "none"
  /\ txs' = [txs EXCEPT ![t] = s]
  /\ th' = [th EXCEPT ![w] = IF s = "success" THEN Idle
                             ELSE [@ EXCEPT !.pc = "ingest_case", !.tx = t]]
  /\ UNCHANGED <<cases, ledger, processed, gateway, outreach>>

\* The same save when the webhook handler calls ingest_payment_event with the
\* transaction it has just stored as FAILED.
IngestTx(t) ==
  /\ At(t, "ingest_tx")
  /\ txs' = [txs EXCEPT ![th[t].tx] = "failed"]
  /\ Go(t, "ingest_case")
  /\ UNCHANGED <<cases, ledger, processed, gateway, outreach>>

\* get_by_transaction_id: a case it finds is returned as it is.
IngestCase(t) ==
  /\ At(t, "ingest_case")
  /\ LET found == CasesOf(th[t].tx)
     IN IF found = {} THEN Go(t, "ingest_save") ELSE \E c \in found : EndIngest(t, c)
  /\ UNCHANGED <<txs, cases, ledger, processed, gateway, outreach>>

\* Otherwise a DETECTED case with a fresh id is saved.
IngestSave(t) ==
  /\ At(t, "ingest_save")
  /\ \E c \in CaseId :
       /\ cases[c] = None
       /\ cases' = [cases EXCEPT ![c] = NewCase(th[t].tx)]
       /\ th' = [th EXCEPT ![t].pc = "ingest_audit", ![t].case = c]
  /\ UNCHANGED <<txs, ledger, processed, gateway, outreach>>

IngestAudit(t) ==
  /\ At(t, "ingest_audit")
  /\ Audit(th[t].case, {"PAYMENT_FAILED", "RECOVERY_CASE_CREATED"})
  /\ EndIngest(t, th[t].case)
  /\ UNCHANGED <<txs, cases, action_records, deliveries, processed, gateway, outreach>>

-----------------------------------------------------------------------------
(* run_recovery *)

\* POST /recoveries for an existing case.
PostRecovery(w, c) ==
  /\ At(w, "idle")
  /\ cases[c] # None
  /\ th' = [th EXCEPT ![w].pc = "run_case", ![w].case = c]
  /\ UNCHANGED <<txs, cases, ledger, processed, gateway, outreach>>

RunCase(t) ==
  /\ At(t, "run_case")
  /\ th' = [th EXCEPT ![t].pc = "run_context", ![t].snap = cases[th[t].case]]
  /\ UNCHANGED <<txs, cases, ledger, processed, gateway, outreach>>

\* Transaction, customer and policy are read; of these only the transaction's
\* status is ever written by another handler.  KeyError when it is not stored.
RunContext(t) ==
  /\ At(t, "run_context")
  /\ LET read == txs[th[t].snap.transaction_id]
     IN IF read = "none"
        THEN EndRun(t)
        ELSE th' = [th EXCEPT ![t].pc = "run_decide", ![t].seen = read]
  /\ UNCHANGED <<txs, cases, ledger, processed, gateway, outreach>>

\* node_decide, and node_stop or node_escalate when the decision ends the run.
Decided(snap, d) ==
  [snap EXCEPT !.decision = d,
               !.status = IF d = "recover" THEN "action_pending" ELSE GraphEnd(d)]

\* The ELIGIBILITY_CHECKED audit, then the graph up to its first external call.
\* A case that is not DETECTED makes node_analyze raise InvalidTransitionError.
RunDecide(t) ==
  /\ At(t, "run_decide")
  /\ Audit(th[t].case, {"ELIGIBILITY_CHECKED"})
  /\ IF GraphAccepts(th[t].snap.status)
     THEN \E d \in PossibleDecisions(th[t].seen) :
            IF d = "recover"
            THEN \E a \in OutreachAction :
                   th' = [th EXCEPT ![t].pc = "run_execute", ![t].action = a,
                                    ![t].snap = Decided(@, d)]
            ELSE th' = [th EXCEPT ![t].pc = "run_save", ![t].snap = Decided(@, d)]
     ELSE EndRun(t)
  /\ UNCHANGED <<txs, cases, action_records, deliveries, processed, gateway, outreach>>

\* Mutant: only a node that sends messages counts them.
Monitored_RetryOnly(snap) == [snap EXCEPT !.status = "monitoring", !.retry_count = @ + 1]

\* node_execute_action after the dispatch, and node_monitor.  Both counters grow
\* with every action, whatever it was and whether it succeeded.
Monitored(snap) ==
  [snap EXCEPT !.status = "monitoring",
               !.retry_count = @ + 1, !.message_count = @ + 1]

\* A retry is only simulated by both payment providers.
ExecuteRetry(t) ==
  /\ At(t, "run_execute") /\ th[t].action = "retry_payment"
  /\ executed' = [executed EXCEPT ![th[t].case] = @ + 1]
  /\ th' = [th EXCEPT ![t].pc = "run_save", ![t].snap = Monitored(@)]
  /\ UNCHANGED <<txs, cases, ledger, processed, gateway, emails>>

\* CREATE_PAYMENT_LINK, and the first half of SEND_EMAIL.  The provider swallows
\* every API error and answers FAILED without a link; the run does not look.
ExecuteLink(t) ==
  /\ At(t, "run_execute") /\ th[t].action \in {"create_payment_link", "send_email"}
  /\ executed' = [executed EXCEPT ![th[t].case] = @ + 1]
  /\ \/ links' = [links EXCEPT ![th[t].snap.transaction_id] = @ + 1]
     \/ UNCHANGED links
  /\ IF th[t].action = "send_email"
     THEN Go(t, "run_send")
     ELSE th' = [th EXCEPT ![t].pc = "run_save", ![t].snap = Monitored(@)]
  /\ UNCHANGED <<txs, cases, ledger, processed, payments, emitted, wire, seq, emails>>

\* Mutant: an accepted e-mail is not recorded.
ExecuteSend_Unrecorded(t) ==
  /\ At(t, "run_send")
  /\ \/ /\ emails' = [emails EXCEPT ![th[t].case] = @ + 1]
        /\ th' = [th EXCEPT ![t].pc = "run_save", ![t].snap = Monitored(@)]
     \/ UNCHANGED emails /\ Go(t, "run_delivery")
  /\ UNCHANGED <<txs, cases, ledger, processed, gateway, executed>>

\* The delivery provider reports a failure in its result, never by raising.
ExecuteSend(t) ==
  /\ At(t, "run_send")
  /\ \/ emails' = [emails EXCEPT ![th[t].case] = @ + 1]
     \/ UNCHANGED emails
  /\ Go(t, "run_delivery")
  /\ UNCHANGED <<txs, cases, ledger, processed, gateway, executed>>

\* The MessageDeliveryRecord of the attempt.
ExecuteDelivery(t) ==
  /\ At(t, "run_delivery")
  /\ deliveries' = [deliveries EXCEPT ![th[t].case] = @ + 1]
  /\ th' = [th EXCEPT ![t].pc = "run_save", ![t].snap = Monitored(@)]
  /\ UNCHANGED <<txs, cases, audits, action_records, processed, gateway, outreach>>

\* The whole snapshot read at RunCase is written back, over whatever is stored.
RunSave(t) ==
  /\ At(t, "run_save")
  /\ cases' = [cases EXCEPT ![th[t].case] = th[t].snap]
  /\ th' = [th EXCEPT ![t].pc = IF th[t].snap.decision = "recover" THEN "run_action"
                                                                  ELSE "run_detail",
                      ![t].snap = None, ![t].seen = None]
  /\ UNCHANGED <<txs, ledger, processed, gateway, outreach>>

RunAction(t) ==
  /\ At(t, "run_action")
  /\ action_records' = [action_records EXCEPT ![th[t].case] = @ + 1]
  /\ Go(t, "run_audit")
  /\ UNCHANGED <<txs, cases, audits, deliveries, processed, gateway, outreach>>

RunAudit(t) ==
  /\ At(t, "run_audit")
  /\ Audit(th[t].case, IF th[t].action = "create_payment_link"
                       THEN {"ACTION_SELECTED", "PAYMENT_LINK_CREATED"}
                       ELSE {"ACTION_SELECTED"})
  /\ Go(t, "run_detail")
  /\ UNCHANGED <<txs, cases, action_records, deliveries, processed, gateway, outreach>>

\* The detail of the DECISION_MADE audit is formatted with math.round, which
\* Python's math module does not have: evaluating it raises AttributeError, and
\* neither this audit nor RECOVERY_STOPPED or RECOVERY_ESCALATED is written.
RunDetail(t) ==
  /\ At(t, "run_detail")
  /\ EndRun(t)
  /\ UNCHANGED <<txs, cases, ledger, processed, gateway, outreach>>

-----------------------------------------------------------------------------
(* mark_case_recovered, called by the webhook handler only *)

MarkRead(t) ==
  /\ At(t, "mark_read")
  /\ th' = [th EXCEPT ![t].pc = "mark_save", ![t].snap = cases[th[t].case]]
  /\ UNCHANGED <<txs, cases, ledger, processed, gateway, outreach>>

\* Mutant: the status is left to whoever monitors the case.
Recovered_OutcomeOnly(snap) ==
  [snap EXCEPT !.outcome = "recovered", !.amount_recovered = 1]

\* From any status: a case that is not MONITORING is moved there in memory
\* first, so that the asserted transition to RECOVERED always passes.
Recovered(snap) ==
  [snap EXCEPT !.status = "recovered", !.outcome = "recovered",
               !.amount_recovered = 1]

MarkSave(t) ==
  /\ At(t, "mark_save")
  /\ cases' = [cases EXCEPT ![th[t].case] = Recovered(th[t].snap)]
  /\ th' = [th EXCEPT ![t].pc = "mark_audit", ![t].snap = None]
  /\ UNCHANGED <<txs, ledger, processed, gateway, outreach>>

MarkAudit(t) ==
  /\ At(t, "mark_audit")
  /\ Audit(th[t].case, {"PAYMENT_SUCCEEDED", "RECOVERY_COMPLETED"})
  /\ GoRecord(t)
  /\ UNCHANGED <<txs, cases, action_records, deliveries, processed, gateway, outreach>>

-----------------------------------------------------------------------------
\* The next step of a run or an ingestion, on whichever thread it runs.
IngestStep(t) == IngestTx(t) \/ IngestCase(t) \/ IngestSave(t) \/ IngestAudit(t)

RunStep(t) ==
  \/ RunCase(t) \/ RunContext(t) \/ RunDecide(t)
  \/ ExecuteRetry(t) \/ ExecuteLink(t) \/ ExecuteSend(t) \/ ExecuteDelivery(t)
  \/ RunSave(t) \/ RunAction(t) \/ RunAudit(t) \/ RunDetail(t)

MarkStep(t) == MarkRead(t) \/ MarkSave(t) \/ MarkAudit(t)
=============================================================================
