--------------------------- MODULE ReportProperties ---------------------------
(***************************************************************************)
(* What the answers of module Reports may and may not be.                  *)
(***************************************************************************)
EXTENDS Reports

Answered(kind) == answer # NoAnswer /\ input.of = kind

\* A text holds what the validator does not look for.
Unchecked(text) == text.wrong_amount \/ "unseen" \in text.urls

\* Whatever a language model writes, no customer reads a placeholder, a claim on
\* the list, or an http:// or https:// URL other than the case's own: a message
\* shows the payment link exactly when there is one, and a WhatsApp message says
\* how to opt out.  It takes the validator and the templates it falls back to.  A
\* link of another form and a wrong amount do get through (the README of PayBack
\* says they do not), but only in a text the model wrote that passed the rest.
NothingInventedIsSent ==
  Answered("dispatch") =>
    LET text == answer.text
        link == answer.channel = "email" /\ input.dispatch.link_created
    IN /\ ~text.blank /\ ~text.placeholder /\ ~text.claim
       /\ Matched(text) \subseteq ReadAsLink(answer.channel)
       /\ Matched(text) # {} <=> link
       /\ answer.channel = "whatsapp" => text.opt_out
       /\ Unchecked(text) =>
            /\ input.dispatch.generator # "mock"
            /\ Acceptable(answer.channel, input.dispatch.raw, link)

\* What the delivery record of an e-mail tells: SENT, that a gateway took it and
\* said so; DELIVERED, that it did not leave the process; FAILED, that the action
\* failed, and that the provider sends no e-mail or the gateway did not confirm it
\* (not that the customer got nothing, for the gateway may have taken it).
\* Every provider sees its own part of this only.
RecordTellsDelivery ==
  Answered("dispatch") /\ answer.channel = "email" =>
    LET d == input.dispatch
        real == d.provider \in {"resend", "smtp"} /\ d.configured
        lost == real /\ d.gateway # "accepted"
    IN /\ answer.status = "failed" <=> answer.outcome = "failed"
       /\ answer.status = "sent" <=> real /\ d.gateway = "accepted"
       /\ answer.status = "failed" <=> lost \/ d.provider = "whatsapp"
       /\ answer.status = "delivered" <=> ~real /\ d.provider # "whatsapp"

Owned(fps, id) == TotalFootprint(CHOOSE f \in {fps[i] : i \in DOMAIN fps} : f.id = id)

\* The plan loses no data a merchant may need: what it discards is a test
\* artifact or owns nothing, the merchant it migrates to is not in it, and the
\* source, of which nobody owns more, is discarded only as an artifact or where
\* nobody owns anything.
PlanKeepsData ==
  Answered("plan") =>
    LET fps == input.footprints
        Artifact(id) ==
          \E i \in DOMAIN fps : fps[i].id = id /\ Classify(fps[i]) = "confirmed_test_artifact"
    IN /\ \A id \in answer.discard : Artifact(id) \/ Owned(fps, id) = 0
       /\ input.target \notin answer.discard \cup answer.ambiguous
       /\ answer.discard \cap answer.ambiguous = {}
       /\ \A i \in DOMAIN fps : TotalFootprint(fps[i]) <= Owned(fps, answer.source)
       /\ answer.source \in answer.discard =>
            Artifact(answer.source) \/ \A i \in DOMAIN fps : TotalFootprint(fps[i]) = 0

Leaves(s, i) == Decide(s, input.benchmark, i) = "stop"

\* The comparison is fair: a strategy that leaves alone the same willing
\* customers as another, and never takes a less efficient action for one, wins
\* every case the other wins, since both meet the same rolls at the same cases.
\* (Strategies that leave different willing customers alone do not.)
FairComparison ==
  Answered("comparison") =>
    LET d == input.benchmark.dataset
        willing == {i \in DOMAIN d : d[i].willing}
    IN \A s, t \in Strategies :
         (\A i \in willing :
            /\ Leaves(s, i) <=> Leaves(t, i)
            /\ Efficiency(Decide(s, input.benchmark, i))
                 >= Efficiency(Decide(t, input.benchmark, i)))
         => /\ answer[t].wins \subseteq answer[s].wins
            /\ answer[t].recovered <= answer[s].recovered
=============================================================================
