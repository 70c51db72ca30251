------------------------------ MODULE Delivery ------------------------------
(***************************************************************************)
(* How a message leaves: the providers of backend/app/services/messaging   *)
(* and the two branches of the ActionExecutor that send one and record it. *)
(***************************************************************************)
EXTENDS Messages

\* get_delivery_provider: "smtp" and "email" name the same provider, every other
\* name is the mock.
Providers == {"mock", "resend", "smtp", "whatsapp"}

Result(provider, success, status) ==
  [success |-> success, provider |-> provider, status |-> status]

Delivered(provider) == Result(provider, TRUE, "delivered")
Refused(provider) == Result(provider, FALSE, "failed")

\* What a gateway does with a message: it refuses it (or is not reached), takes it
\* and says so, or takes it and the answer does not come through: it is late or
\* unreadable, or the SMTP session fails after sendmail.
Gateway == {"refused", "accepted", "unanswered"}

\* Mutant: the answer of the gateway is not looked at (no raise_for_status).
Attempt_Unchecked(provider, configured, gateway) ==
  IF ~configured THEN Delivered(provider) ELSE Result(provider, TRUE, "sent")

\* A delivery is simulated while there are no credentials; every error becomes a
\* failed result, also one that comes after the gateway took the message.
Attempt(provider, configured, gateway) ==
  IF ~configured THEN Delivered(provider)
  ELSE IF gateway = "accepted" THEN Result(provider, TRUE, "sent")
  ELSE Refused(provider)

\* send_email and send_whatsapp of the providers: the mock sends both channels and
\* never fails, the others refuse the channel that is not theirs.
MockProvider == Delivered("mock")

ResendProvider(channel, configured, gateway) ==
  IF channel = "email" THEN Attempt("email_smtp", configured, gateway)
  ELSE Refused("email_smtp")

EmailProvider(channel, configured, gateway) ==
  IF channel = "email" THEN Attempt("email_smtp", configured, gateway)
  ELSE Refused("email_smtp")

WhatsAppProvider(channel, configured, gateway) ==
  IF channel = "whatsapp" THEN Attempt("whatsapp_api", configured, gateway)
  ELSE Refused("whatsapp_api")

Send(provider, channel, configured, gateway) ==
  IF provider = "mock" THEN MockProvider
  ELSE IF provider = "resend" THEN ResendProvider(channel, configured, gateway)
  ELSE IF provider = "smtp" THEN EmailProvider(channel, configured, gateway)
  ELSE WhatsAppProvider(channel, configured, gateway)

-----------------------------------------------------------------------------
(* ActionExecutor *)

\* The link of an e-mail is the one just created, None when that failed.
EmailLink(d) == d.link_created

\* SEND_EMAIL: the e-mail goes out even when no link could be created, and the
\* record takes its status from the provider's result.
SendEmail(d) ==
  LET delivered == Send(d.provider, "email", d.configured, d.gateway)
  IN [channel  |-> "email",
      text     |-> Generate(d.generator, "email", d.raw, EmailLink(d)),
      outcome  |-> IF delivered.success THEN "recovered" ELSE "failed",
      provider |-> delivered.provider,
      status   |-> delivered.status]

\* SEND_WHATSAPP does not ask the delivery provider: the messaging stub answers
\* FAILED with a detail that says "stub", which makes the record DELIVERED.  Its
\* text is written without a link.
SendWhatsApp(d) ==
  [channel  |-> "whatsapp",
   text     |-> Generate(d.generator, "whatsapp", d.raw, FALSE),
   outcome  |-> "failed",
   provider |-> "mock",
   status   |-> "delivered"]

Dispatch(d) == IF d.channel = "email" THEN SendEmail(d) ELSE SendWhatsApp(d)

Dispatches(raws) ==
  [channel : Channel, generator : Generators, raw : raws, link_created : BOOLEAN,
   provider : Providers, configured : BOOLEAN, gateway : Gateway]
=============================================================================
