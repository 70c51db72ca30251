--------------------------- MODULE RazorpayGateway ---------------------------
(***************************************************************************)
(* What Razorpay and the customer do: code outside this repository, as the *)
(* payment provider (backend/app/services/actions/razorpay.py) and the     *)
(* webhook handler use it.  A payment captured on a link closes the link   *)
(* and is announced twice, as payment_link.paid and as payment.captured;   *)
(* events are delivered in any order, at least once, possibly repeated     *)
(* after they were answered.                                               *)
(***************************************************************************)
EXTENDS RecoveryStore

CONSTANT MaxEvents  \* bound: payments, attempts and expiries that get an id

Emit(events) == /\ emitted' = emitted \cup events
                /\ wire' = wire \cup events
                /\ seq' = seq + 1

EventOf(kind, t) == [kind |-> kind, tx |-> t, n |-> seq]

\* The customer tries to pay an open link and fails; the link stays open.
AttemptFails(t) ==
  /\ links[t] > 0 /\ seq < MaxEvents
  /\ Emit({EventOf("payment.failed", t)})
  /\ UNCHANGED <<txs, cases, ledger, processed, th, links, payments, outreach>>

CustomerPays(t) ==
  /\ links[t] > 0 /\ seq < MaxEvents
  /\ links' = [links EXCEPT ![t] = @ - 1]
  /\ payments' = [payments EXCEPT ![t] = @ + 1]
  /\ Emit({EventOf(k, t) : k \in PaidKind})
  /\ UNCHANGED <<txs, cases, ledger, processed, th, outreach>>

LinkExpires(t) ==
  /\ links[t] > 0 /\ seq < MaxEvents
  /\ links' = [links EXCEPT ![t] = @ - 1]
  /\ Emit({EventOf("payment_link.expired", t)})
  /\ UNCHANGED <<txs, cases, ledger, processed, th, payments, outreach>>

\* An event already answered is delivered again.
Redeliver(e) ==
  /\ e \in emitted \ wire
  /\ wire' = wire \cup {e}
  /\ UNCHANGED <<txs, cases, ledger, processed, th, links, payments, emitted, seq, outreach>>

GatewayStep == \E t \in Tx : AttemptFails(t) \/ CustomerPays(t) \/ LinkExpires(t)
=============================================================================
