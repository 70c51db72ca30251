------------------------------ MODULE Messages ------------------------------
(***************************************************************************)
(* The texts PayBack sends: the generators of backend/app/services/llm and *)
(* MessageValidator, which replaces what a language model wrote by a       *)
(* template unless it passes every check.                                  *)
(*                                                                         *)
(* A text is what the checks tell apart: whether it is blank, holds a      *)
(* placeholder or an invented claim, asks to reply STOP, and which URLs it *)
(* holds; and whether an amount in it is not the case's, which no check    *)
(* looks at.  A URL is classified by how it stands in the text: the        *)
(* payment link alone ("bare"), in quotes, before a full stop or the like, *)
(* before a closing tag, as the beginning of a longer URL; another URL     *)
(* that begins with http:// or https:// in lower case ("foreign"); or a    *)
(* link the regular expressions do not match, for its scheme has capitals  *)
(* or is missing ("unseen": HTTPS://, www., //).                           *)
(***************************************************************************)

CONSTANT None

Channel == {"whatsapp", "email"}
Url == {"bare", "quoted", "punctuated", "tagged", "longer", "foreign", "unseen"}

Text == [blank : BOOLEAN, placeholder : BOOLEAN, claim : BOOLEAN,
         opt_out : BOOLEAN, wrong_amount : BOOLEAN, urls : SUBSET Url]

\* What the regular expression of the channel matches of the payment link is the
\* link itself: the e-mail one stops at a quote, for WhatsApp trailing
\* punctuation is stripped.
ReadAsLink(channel) ==
  IF channel = "whatsapp" THEN {"bare", "punctuated"} ELSE {"bare", "quoted"}

\* The URLs of a text that the regular expressions, https?://, find.
Matched(text) == text.urls \ {"unseen"}

\* Mutant: it is enough that the link is there.
LinksIntact_Contained(channel, text, link) ==
  IF link THEN text.urls \ {"foreign", "unseen"} # {} ELSE Matched(text) = {}

\* With a link in the context the text holds it, and no matched URL that reads
\* differently; without one no URL is matched.
LinksIntact(channel, text, link) ==
  IF link
  THEN Matched(text) # {} /\ Matched(text) \subseteq ReadAsLink(channel)
  ELSE Matched(text) = {}

\* get_fallback_whatsapp and get_fallback_email, and the texts of
\* MockMessageGenerator: the same but for the wording.
Template(channel, link) ==
  [blank |-> FALSE, placeholder |-> FALSE, claim |-> FALSE,
   opt_out |-> channel = "whatsapp", wrong_amount |-> FALSE,
   urls |-> CASE ~link -> {}
              [] link /\ channel = "whatsapp" -> {"bare"}
              [] link /\ channel = "email" -> {"quoted"}]

Acceptable(channel, text, link) ==
  ~text.blank /\ ~text.placeholder /\ ~text.claim /\ LinksIntact(channel, text, link)

\* validate_whatsapp and validate_email.  None: the model did not answer.
Validate(channel, raw, link) ==
  IF raw = None THEN Template(channel, link)
  ELSE IF Acceptable(channel, raw, link)
       THEN [raw EXCEPT !.opt_out = @ \/ channel = "whatsapp"]
       ELSE Template(channel, link)

\* get_message_generator: "mock", "ollama" or "huggingface"; any other name is
\* mock.  Hugging Face without a key, an error, or no answer gives None.
Generators == {"mock", "ollama", "huggingface"}

Generate(generator, channel, raw, link) ==
  IF generator = "mock" THEN Template(channel, link) ELSE Validate(channel, raw, link)
=============================================================================
