-------------------------- MODULE PayBackProperties --------------------------
(***************************************************************************)
(* What the recovery core promises, and what the repository says it does.  *)
(* The properties of the first section hold in any interleaving; those of  *)
(* the others need the circumstances their heading names, which the runs   *)
(* fix by a bound of 0.                                                    *)
(***************************************************************************)
EXTENDS PayBack, Dashboard

Stored == {c \in CaseId : cases[c] # None}
Status(c) == cases[c].status
TxOf(c) == cases[c].transaction_id

\* Threads that are running the workflow on case c, at one of the given places.
Running(c, pcs) == {t \in Thread : th[t].case = c /\ th[t].pc \in pcs}

\* Every variable holds a value of its type, and the budgets are kept.
TypeOK ==
  /\ StoreTypeOK
  /\ runs \in 0..MaxRuns /\ dups \in 0..MaxDuplicates /\ faults \in 0..MaxFaults

-----------------------------------------------------------------------------
(* In any interleaving of requests, deliveries and faults *)

\* No revenue is reported as recovered that was not captured: however runs,
\* failures, expiries and payments of a transaction interleave, a RECOVERED case
\* means Razorpay captured a payment of its transaction (mark_case_recovered is
\* reached from payment events only).
RecoveredImpliesPaid ==
  \A c \in Stored : Status(c) = "recovered" => payments[TxOf(c)] > 0

\* A transaction never gets two recovery cases, although the lookup and the save
\* of ingest_payment_event are separate calls that nothing makes atomic.
OneCasePerTransaction ==
  \A c, d \in Stored : TxOf(c) = TxOf(d) => c = d

\* A case that waits for a payment (MONITORING) has had an action executed: no
\* snapshot is written back that claims an outreach nobody made.
MonitoringImpliesOutreach ==
  \A c \in Stored : Status(c) = "monitoring" => executed[c] > 0

\* Every executed action was preceded by its own ELIGIBILITY_CHECKED record, so
\* the audit trail shows at least as many checks as actions.
OutreachIsAudited ==
  \A c \in CaseId : executed[c] <= audits[c]["ELIGIBILITY_CHECKED"]

\* A customer hears of a case once for its failed payment and at most once more for
\* each POST /recoveries: runs that overlap, deliveries, failing calls and
\* restarts add no outreach of their own.  So a later failed payment adds none
\* either, although the README of PayBack lets it re-enter the decision
\* (LateFailureRetried of PayBackClaims).
OutreachBounded == \A c \in CaseId : executed[c] <= 1 + runs

\* The figures a merchant is shown agree at every instant, also while a run that
\* read the case earlier saves it over a recovery: each case is in one of the
\* four groups of the summary, the trends and the customers' pages count the
\* same cases, and the recovered revenue is that of the successful recoveries.
DashboardAgrees ==
  LET s == Summary(Stored)
      t == Trend(Stored)
      d == ByStatus(Stored)
  IN /\ s.successful_recoveries + s.escalated_cases + s.stopped_cases
          + s.active_recovery_cases = s.total_recovery_cases
     /\ s.total_recovered_revenue = s.successful_recoveries
     /\ t.recovered_count = d["recovered"]
     /\ t.failed_count = d["stopped"] + d["escalated"]
     /\ OpenRecoveryCases(Stored, Tx) = s.active_recovery_cases

\* Every e-mail handed to the delivery provider has its MessageDeliveryRecord,
\* or the thread that sent it is about to write it, as long as no call failed and
\* the process was not restarted (on the in-memory backend: always).
EveryEmailRecorded ==
  faults = 0 =>
    \A c \in CaseId :
      emails[c] <= deliveries[c] + Cardinality(Running(c, {"run_delivery"}))

\* A payment event always finds its transaction: no link exists for one that
\* create_payment has not stored, or has deleted when cleaning up.
EventsMatchTransaction == \A e \in emitted : txs[e.tx] # "none"

-----------------------------------------------------------------------------
(* Webhook-driven cases: nobody calls POST /recoveries (MaxRuns = 0), faults *)
(* and repeated deliveries are possible                                      *)

\* Once a case is RECOVERED nothing changes it any more: late failures, expired
\* links, duplicates and retried deliveries leave status, outcome and amount.
RecoveredIsFinal ==
  [][\A c \in CaseId : (cases[c] # None /\ cases[c].status = "recovered")
                       => cases'[c] = cases[c]]_vars

\* A case as CaseLifecycle sees it.
OfTx == [c \in CaseId |-> IF cases[c] = None THEN None ELSE TxOf(c)]

LifeState ==
  [c \in CaseId |-> IF cases[c] = None THEN "absent"
                    ELSE IF Status(c) = "detected" THEN "open" ELSE Status(c)]

PaidTx == {t \in Tx : payments[t] > 0}

Lifecycle ==
  INSTANCE CaseLifecycle WITH
    NoTx <- None, of <- OfTx, state <- LifeState, contacts <- executed, paid <- PaidTx

\* The code implements the abstract life of a case.  That life is the code's: the
\* README of PayBack also draws another attempt and an escalation out of MONITORING,
\* and no delivery of an event makes either.
ImplementsLifecycle == Lifecycle!Spec

-----------------------------------------------------------------------------
(* Webhook-driven cases: what the audit trail and the counters tell.  A      *)
(* delivery that a fault cut short is handled again from its start, so that  *)
(* each fault may repeat, or keep from being counted, one thing at most.     *)

\* A recovery is completed, and audited as completed, once, although one payment
\* is announced by two events, each may be delivered again, and a fault may make
\* the handler begin anew: a completion is not even repeated then.
CompletionAuditedOnce ==
  \A c \in CaseId : audits[c]["RECOVERY_COMPLETED"] <= 1

FailureEvents(t) == {e \in emitted : e.tx = t /\ e.kind \notin PaidKind}

\* A failure event is audited at most once, however often it is delivered: a
\* case has at most one record for each failure or expiry of its transaction, or
\* the single one of POST /events/payment when Razorpay reported none.
FailuresAuditedOnce ==
  \A c \in Stored :
    LET reported == Cardinality(FailureEvents(TxOf(c)))
    IN audits[c]["PAYMENT_FAILED"] + audits[c]["RECOVERY_STOPPED"]
         <= faults + IF reported = 0 THEN 1 ELSE reported

\* The counters the policy limits are checked against agree with what was done,
\* whenever no run is between an action and the save of the case: each fault can
\* keep one action from being counted, and none can be counted twice.
CountersAgree ==
  \A c \in Stored :
    Running(c, RunPC) = {} => /\ cases[c].retry_count = cases[c].message_count
                              /\ cases[c].retry_count <= executed[c]
                              /\ executed[c] <= cases[c].retry_count + faults

-----------------------------------------------------------------------------
(* Liveness, under FairSpec *)

\* A payment not yet handled whose transaction has a case makes the case
\* RECOVERED in the end, whatever faults hit the handler on the way.
PaidCaseRecovered ==
  \A c \in CaseId :
    (/\ cases[c] # None
     /\ \E e \in wire \ processed : e.kind \in PaidKind /\ e.tx = TxOf(c))
    ~> (cases[c] # None /\ Status(c) = "recovered")

\* A case the webhook handler works on gets decided, unless a fault hits.
WebhookCaseDecided ==
  \A c \in CaseId :
    (cases[c] # None /\ th[Webhook].case = c)
    ~> (faults > 0 \/ (cases[c] # None /\ Status(c) # "detected"))
=============================================================================
