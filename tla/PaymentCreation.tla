--------------------------- MODULE PaymentCreation ---------------------------
(***************************************************************************)
(* POST /payments/create and /payments/create-with-customer                *)
(* (backend/app/api/v1/payments.py): a PENDING transaction is stored, then *)
(* a Razorpay order and link are created for it and the transaction is     *)
(* saved again with the order id.                                          *)
(***************************************************************************)
EXTENDS RecoveryStore

CreatePayment(w, t) ==
  /\ At(w, "idle")
  /\ txs[t] = "none"
  /\ txs' = [txs EXCEPT ![t] = "pending"]
  /\ th' = [th EXCEPT ![w].pc = "create_link", ![w].tx = t]
  /\ UNCHANGED <<cases, ledger, processed, gateway, outreach>>

\* Mutant: the clean-up after a failing save runs although the link went out.
CreateLink_CleanUp(w) ==
  /\ At(w, "create_link")
  /\ links' = [links EXCEPT ![th[w].tx] = @ + 1]
  /\ txs' \in {txs, [txs EXCEPT ![th[w].tx] = "none"]}
  /\ th' = [th EXCEPT ![w] = Idle]
  /\ UNCHANGED <<cases, ledger, processed, payments, emitted, wire, seq, outreach>>

\* The provider answers without a link when the API fails.  Only the response
\* tells anybody the URL of the link, so no event of it precedes the second
\* save, which writes the status PENDING once more.
CreateLink(w) ==
  /\ At(w, "create_link")
  /\ \/ links' = [links EXCEPT ![th[w].tx] = @ + 1]
     \/ UNCHANGED links
  /\ txs' = [txs EXCEPT ![th[w].tx] = "pending"]
  /\ th' = [th EXCEPT ![w] = Idle]
  /\ UNCHANGED <<cases, ledger, processed, payments, emitted, wire, seq, outreach>>

\* The second save raises: the transaction is deleted (a failing delete is
\* swallowed) and the request answered with 500; nobody learns the link.
CreateLinkFails(w) ==
  /\ At(w, "create_link")
  /\ \/ txs' = [txs EXCEPT ![th[w].tx] = "none"]
     \/ UNCHANGED txs
  /\ th' = [th EXCEPT ![w] = Idle]
  /\ UNCHANGED <<cases, ledger, processed, gateway, outreach>>
=============================================================================
