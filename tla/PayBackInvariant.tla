-------------------------- MODULE PayBackInvariant --------------------------
(***************************************************************************)
(* The inductive invariant behind TypeOK, RecoveredImpliesPaid,            *)
(* OneCasePerTransaction and EventsMatchTransaction.  Its parts say what a *)
(* thread's local copies still have to do with the store at each place.    *)
(***************************************************************************)
EXTENDS PayBackProperties

CasePC == RunPC \cup {"ingest_audit", "hook_audit", "mark_read", "mark_save",
                      "mark_audit"}
SnapPC == {"run_context", "run_decide", "run_execute", "run_send", "run_delivery",
           "run_save", "mark_save"}
TxPC   == {"create_link", "ingest_tx", "ingest_case", "ingest_save", "hook_tx",
           "hook_case"}
MarkPC == {"mark_read", "mark_save", "mark_audit"}

\* What thread t, in state r, relies on.  The case it works on is stored, and its
\* snapshot is one of that case; a run never saves a RECOVERED snapshot; the event
\* the webhook handler works on was emitted, and is about the transaction it
\* works on; it marks a case only for a payment of the case's transaction; only
\* the handler handles events, and it never creates a link itself.
Held(t, r) ==
  /\ r.pc \in CasePC => r.case \in CaseId /\ cases[r.case] # None
  /\ r.pc \in SnapPC => /\ r.snap \in Case
                        /\ r.snap.transaction_id = cases[r.case].transaction_id
  /\ r.pc = "run_save" => r.snap.status # "recovered"
  /\ r.pc \in TxPC => r.tx \in Tx
  /\ t = Webhook =>
       /\ r.pc # "create_link"
       /\ r.pc # "idle" => r.event \in emitted
       /\ r.pc \in TxPC => r.event.tx = r.tx
       /\ r.pc \in MarkPC => /\ r.event.kind \in PaidKind
                             /\ r.event.tx = cases[r.case].transaction_id
  /\ t \in Workers => r.pc \notin WebhookPC \cup {"ingest_tx"}

ThreadInv == \A t \in Thread : Held(t, th[t])

-----------------------------------------------------------------------------
(* Why a RECOVERED case was paid for *)

\* Payment events tell of payments.
PaidEvents == \A e \in emitted : e.kind \in PaidKind => payments[e.tx] > 0

PaidInv == RecoveredImpliesPaid /\ PaidEvents

-----------------------------------------------------------------------------
(* Why a transaction has one case *)

\* Places where the thread is about to create, or give up, the case of its tx.
OwnPC  == {"create_link", "ingest_tx", "ingest_case", "ingest_save"}

NoCase(x) == \A c \in Stored : TxOf(c) # x

\* Nothing outside knows the transaction: no link, no event, no case.
Unknown(x) == links[x] = 0 /\ NoCase(x) /\ \A e \in emitted : e.tx # x

Owns(t, x) == th[t].pc \in OwnPC /\ th[t].tx = x

\* A transaction that is not stored is unknown and nobody works on it.
AbsentUnknown ==
  \A x \in Tx : txs[x] = "none" => Unknown(x) /\ \A t \in Thread : ~Owns(t, x)

\* A worker ingests only transactions that are still unknown; the webhook
\* handler opens a case only where it found none.
OwnersExclude ==
  \A t \in Thread : th[t].pc \in OwnPC =>
    /\ NoCase(th[t].tx)
    /\ t \in Workers => Unknown(th[t].tx)
    /\ \A u \in Thread \ {t} : ~Owns(u, th[t].tx)

OwnInv ==
  OneCasePerTransaction /\ EventsMatchTransaction /\ AbsentUnknown /\ OwnersExclude

IInv == TypeOK /\ ThreadInv /\ PaidInv /\ OwnInv
=============================================================================
