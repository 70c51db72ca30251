----------------------------- MODULE ReportProofs -----------------------------
(***************************************************************************)
(* What is sent and what is recorded of it, for whatever a language model  *)
(* may write (Raws is any set of texts); that the reconciliation plan      *)
(* keeps every row somebody needs, for any footprints; and when two        *)
(* strategies of a benchmark are compared on equal terms, for any data set *)
(* and rolls. What a loop of the code computes is followed through it by   *)
(* the least-number principle.                                             *)
(***************************************************************************)
EXTENDS ReportProperties, WellFoundedInduction, TLAPS

\* A text that may be sent on a channel, with or without a payment link.
Clean(channel, text, link) ==
  /\ ~text.blank /\ ~text.placeholder /\ ~text.claim
  /\ Matched(text) \subseteq ReadAsLink(channel)
  /\ Matched(text) # {} <=> link
  /\ channel = "whatsapp" => text.opt_out

\* The templates need no validation.
LEMMA TemplateIsClean ==
  ASSUME NEW channel \in Channel, NEW link \in BOOLEAN
  PROVE  Clean(channel, Template(channel, link), link)
<1>1. LET text == Template(channel, link)
      IN /\ ~text.blank /\ ~text.placeholder /\ ~text.claim
         /\ channel = "whatsapp" => text.opt_out
         /\ text.urls = IF ~link THEN {}
                        ELSE IF channel = "whatsapp" THEN {"bare"} ELSE {"quoted"}
  BY DEF Template, Channel
<1>2. Matched(Template(channel, link))
        = IF ~link THEN {} ELSE IF channel = "whatsapp" THEN {"bare"} ELSE {"quoted"}
  BY <1>1 DEF Matched
<1>3. QED
  BY <1>1, <1>2 DEF Clean, ReadAsLink

\* What the validator lets through is clean, whatever the text was.
LEMMA ValidatedIsClean ==
  ASSUME NEW channel \in Channel, NEW link \in BOOLEAN, NEW raw \in Raws
  PROVE  Clean(channel, Validate(channel, raw, link), link)
<1>1. CASE raw = None \/ ~Acceptable(channel, raw, link)
  BY <1>1, TemplateIsClean DEF Validate
<1>2. CASE raw # None /\ Acceptable(channel, raw, link)
  <2>1. raw \in Text
    BY <1>2, ReportsAssumption
  <2> DEFINE sent == [raw EXCEPT !.opt_out = @ \/ channel = "whatsapp"]
  <2>2. /\ sent.blank = raw.blank /\ sent.placeholder = raw.placeholder
        /\ sent.claim = raw.claim /\ Matched(sent) = Matched(raw)
        /\ sent.opt_out = (raw.opt_out \/ channel = "whatsapp")
    BY <2>1 DEF Text, Matched
  <2>3. Validate(channel, raw, link) = sent
    BY <1>2 DEF Validate
  <2>4. Matched(raw) \subseteq ReadAsLink(channel) /\ (Matched(raw) # {} <=> link)
    BY <1>2 DEF Acceptable, LinksIntact
  <2> HIDE DEF sent
  <2>5. QED
    BY <1>2, <2>2, <2>3, <2>4 DEF Clean, Acceptable
<1>3. QED
  BY <1>1, <1>2

LEMMA GeneratedIsClean ==
  ASSUME NEW channel \in Channel, NEW link \in BOOLEAN, NEW raw \in Raws, NEW generator
  PROVE  Clean(channel, Generate(generator, channel, raw, link), link)
BY TemplateIsClean, ValidatedIsClean DEF Generate

\* What the validator does not look for is in no template: a text that holds it is
\* one the model wrote and the validator let through.
LEMMA UncheckedIsWritten ==
  ASSUME NEW channel \in Channel, NEW link \in BOOLEAN, NEW raw, NEW generator,
         Unchecked(Generate(generator, channel, raw, link))
  PROVE  generator # "mock" /\ Acceptable(channel, raw, link)
<1>1. ~Unchecked(Template(channel, link))
  <2>1. /\ ~Template(channel, link).wrong_amount
        /\ Template(channel, link).urls = CASE ~link -> {}
                                            [] link /\ channel = "whatsapp" -> {"bare"}
                                            [] link /\ channel = "email" -> {"quoted"}
    BY DEF Template
  <2>2. "unseen" \notin Template(channel, link).urls
    BY <2>1 DEF Channel
  <2>3. QED
    BY <2>1, <2>2 DEF Unchecked
<1>2. QED
  BY <1>1 DEF Generate, Validate

-----------------------------------------------------------------------------
\* An answer to a dispatch is the dispatch the input asks for.
AnswerInv ==
  /\ input.of = "dispatch" => input.dispatch \in Dispatches(Raws)
  /\ Answered("dispatch") => answer = Dispatch(input.dispatch)

LEMMA AnswerInvariant == Spec => []AnswerInv
<1>1. Init => AnswerInv
  BY DEF Init, AnswerInv, Answered
<1>2. AnswerInv /\ [Next]_vars => AnswerInv'
  BY DEF AnswerInv, Answered, Next, SendMessage, BuildPlan, CompareStrategies, vars
<1>3. QED
  BY <1>1, <1>2, PTL DEF Spec

LEMMA DispatchChannel ==
  ASSUME NEW d \in Dispatches(Raws)
  PROVE  /\ d.channel = "email" => Dispatch(d) = SendEmail(d) /\ Dispatch(d).channel = "email"
         /\ d.channel # "email" => /\ Dispatch(d) = SendWhatsApp(d)
                                   /\ Dispatch(d).channel = "whatsapp"
BY DEF Dispatch, SendEmail, SendWhatsApp

\* Whatever the language model answers, no placeholder, claim of the list or
\* http:// or https:// URL of its own reaches a customer, and the payment link is
\* there exactly when it exists; a link of another form and a wrong amount come
\* only from a text the validator accepted.
THEOREM NothingInvented == Spec => []NothingInventedIsSent
<1>1. AnswerInv => NothingInventedIsSent
  <2> SUFFICES ASSUME AnswerInv, Answered("dispatch")
               PROVE  NothingInventedIsSent
    BY DEF NothingInventedIsSent
  <2> PICK d \in Dispatches(Raws) : d = input.dispatch /\ answer = Dispatch(d)
    BY DEF AnswerInv, Answered
  <2> DEFINE link == answer.channel = "email" /\ d.link_created
  <2>1. d.raw \in Raws /\ d.link_created \in BOOLEAN
    BY DEF Dispatches
  <2>2. /\ answer.channel \in Channel /\ link \in BOOLEAN
        /\ answer.text = Generate(d.generator, answer.channel, d.raw, link)
    <3>1. CASE d.channel = "email"
      BY <3>1, <2>1, DispatchChannel DEF SendEmail, EmailLink, Channel
    <3>2. CASE d.channel # "email"
      <4>1. answer = SendWhatsApp(d) /\ answer.channel = "whatsapp"
        BY <3>2, DispatchChannel
      <4>2. SendWhatsApp(d).text = Generate(d.generator, "whatsapp", d.raw, FALSE)
        BY Zenon DEF SendWhatsApp
      <4>3. link = FALSE
        BY <4>1
      <4>4. QED
        BY <4>1, <4>2, <4>3, Zenon DEF Channel
    <3>3. QED
      BY <3>1, <3>2
  <2> HIDE DEF link
  <2>3. Clean(answer.channel, answer.text, link)
    BY <2>1, <2>2, GeneratedIsClean
  <2>4. Unchecked(answer.text) =>
          d.generator # "mock" /\ Acceptable(answer.channel, d.raw, link)
    BY <2>2, UncheckedIsWritten
  <2>5. QED
    BY <2>3, <2>4 DEF NothingInventedIsSent, Clean, link
<1>2. QED
  BY <1>1, AnswerInvariant, PTL

\* The delivery record tells what the provider learned, for every provider and
\* whatever the gateway does.
THEOREM RecordsTellDelivery == Spec => []RecordTellsDelivery
<1>1. AnswerInv => RecordTellsDelivery
  <2> SUFFICES ASSUME AnswerInv, Answered("dispatch"), answer.channel = "email"
               PROVE  RecordTellsDelivery
    BY DEF RecordTellsDelivery
  <2> PICK d \in Dispatches(Raws) : d = input.dispatch /\ answer = Dispatch(d)
    BY DEF AnswerInv, Answered
  <2> DEFINE sent == Send(d.provider, "email", d.configured, d.gateway)
  <2>1. d.provider \in Providers /\ d.configured \in BOOLEAN /\ d.gateway \in Gateway
    BY DEF Dispatches
  <2>2. /\ answer.status = sent.status
        /\ answer.outcome = IF sent.success THEN "recovered" ELSE "failed"
    BY DispatchChannel DEF SendEmail
  <2>3. /\ sent.success <=> sent.status # "failed"
        /\ sent.status = "sent" <=>
             d.provider \in {"resend", "smtp"} /\ d.configured /\ d.gateway = "accepted"
        /\ sent.status = "failed" <=>
             \/ d.provider \in {"resend", "smtp"} /\ d.configured /\ d.gateway # "accepted"
             \/ d.provider = "whatsapp"
        /\ sent.status = "delivered" <=>
             ~(d.provider \in {"resend", "smtp"} /\ d.configured) /\ d.provider # "whatsapp"
    <3>1. CASE d.provider = "mock"
      <4>1. sent = Delivered("mock")
        BY <3>1 DEF Send, MockProvider
      <4>2. QED
        BY <3>1, <4>1 DEF Delivered, Result
    <3>2. CASE d.provider \in {"resend", "smtp"}
      <4>1. sent = Attempt("email_smtp", d.configured, d.gateway)
        BY <3>2 DEF Send, ResendProvider, EmailProvider
      <4>2. QED
        BY <2>1, <3>2, <4>1 DEF Attempt, Delivered, Refused, Result
    <3>3. CASE d.provider = "whatsapp"
      <4>1. sent = Refused("whatsapp_api")
        BY <3>3 DEF Send, WhatsAppProvider
      <4>2. QED
        BY <3>3, <4>1 DEF Refused, Result
    <3>4. QED
      BY <2>1, <3>1, <3>2, <3>3 DEF Providers
  <2> HIDE DEF sent
  <2>4. QED
    BY <2>2, <2>3 DEF RecordTellsDelivery
<1>2. QED
  BY <1>1, AnswerInvariant, PTL

-----------------------------------------------------------------------------
\* Induction over data: a set of numbers that is not empty has a least one, so
\* what fails anywhere fails first somewhere.
LEMMA LeastNumber ==
  ASSUME NEW S \in SUBSET Nat, S # {}
  PROVE  \E n \in S : \A m \in S : n <= m
<1> DEFINE R == OpToRel(<, Nat)
<1>1. IsWellFoundedOn(R, Nat)
  BY NatLessThanWellFounded
<1>2. \A m, n \in Nat : m < n => <<m, n>> \in R
  BY DEF OpToRel
<1> HIDE DEF R
<1>3. PICK n \in S : \A m \in S : ~(<<m, n>> \in R)
  BY <1>1, WFMin
<1>4. \A m \in S : m \in Nat
  OBVIOUS
<1>5. n \in Nat /\ \A m \in S : ~(m < n)
  BY <1>2, <1>3, <1>4
<1>6. QED
  BY <1>4, <1>5

-----------------------------------------------------------------------------
(* The plan *)

\* The order of tuples is transitive, and no tuple precedes itself.
LEMMA LessTransitive ==
  ASSUME NEW n \in Nat, NEW a \in [1 .. n -> Nat], NEW b \in [1 .. n -> Nat],
         NEW c \in [1 .. n -> Nat], Less(a, b), Less(b, c)
  PROVE  Less(a, c)
<1>1. PICK i \in 1 .. n : a[i] < b[i] /\ \A j \in 1 .. i - 1 : a[j] = b[j]
  BY DEF Less
<1>2. PICK k \in 1 .. n : b[k] < c[k] /\ \A j \in 1 .. k - 1 : b[j] = c[j]
  BY DEF Less
<1>3. CASE i <= k
  <2>1. a[i] < c[i]
    BY <1>1, <1>2, <1>3
  <2>2. \A j \in 1 .. i - 1 : a[j] = c[j]
    BY <1>1, <1>2, <1>3
  <2>3. QED
    BY <2>1, <2>2 DEF Less
<1>4. CASE k < i
  <2>1. a[k] < c[k]
    BY <1>1, <1>2, <1>4
  <2>2. \A j \in 1 .. k - 1 : a[j] = c[j]
    BY <1>1, <1>2, <1>4
  <2>3. QED
    BY <2>1, <2>2 DEF Less
<1>5. QED
  BY <1>3, <1>4

LEMMA LessIrreflexive ==
  ASSUME NEW n \in Nat, NEW a \in [1 .. n -> Nat]
  PROVE  ~Less(a, a)
BY DEF Less

\* The sort key of a footprint, and what it begins with.
LEMMA SortKeyType ==
  ASSUME NEW f \in Footprint
  PROVE  /\ TotalFootprint(f) \in Nat /\ SortKey(f) \in [1 .. 5 -> Nat]
         /\ SortKey(f)[1] = TotalFootprint(f)
BY DEF SortKey, TotalFootprint, Footprint

\* The merchants of a list that no other one precedes.
Best(fps) == {i \in DOMAIN fps : \A j \in DOMAIN fps : ~Less(SortKey(fps[i]), SortKey(fps[j]))}

\* Some merchant comes first, by induction over the length of the list.
LEMMA BestExists ==
  ASSUME NEW fps \in Seq(Footprint), fps # <<>>
  PROVE  Best(fps) # {}
<1> DEFINE key(i) == SortKey(fps[i])
           Leads(i, n) == \A j \in 1 .. n : ~Less(key(i), key(j))
           Bad == {n \in 1 .. Len(fps) : ~\E i \in 1 .. n : Leads(i, n)}
<1>1. Len(fps) \in Nat /\ Len(fps) >= 1 /\ DOMAIN fps = 1 .. Len(fps)
  OBVIOUS
<1>2. \A i \in 1 .. Len(fps) : key(i) \in [1 .. 5 -> Nat]
  BY <1>1, SortKeyType
<1> HIDE DEF key
<1>3. ASSUME NEW n \in 1 .. Len(fps), \A m \in 1 .. n - 1 : m \notin Bad
      PROVE  \E i \in 1 .. n : Leads(i, n)
  <2>1. CASE n = 1
    <3>1. 1 \in 1 .. Len(fps) /\ \A j \in 1 .. n : j = 1
      BY <1>1, <2>1
    <3>2. ~Less(key(1), key(1))
      BY <1>2, <3>1, LessIrreflexive
    <3>3. Leads(1, n)
      BY <3>1, <3>2
    <3>4. QED
      BY <2>1, <3>3
  <2>2. CASE n # 1
    <3>1. n - 1 \in 1 .. Len(fps) /\ n - 1 \in 1 .. n - 1
      BY <1>1, <2>2
    <3>2. PICK i \in 1 .. n - 1 : Leads(i, n - 1)
      BY <1>3, <3>1
    <3>3. CASE ~Less(key(i), key(n))
      <4>1. \A j \in 1 .. n : j \in 1 .. n - 1 \/ j = n
        OBVIOUS
      <4>2. Leads(i, n)
        BY <3>2, <3>3, <4>1
      <4>3. QED
        BY <4>2
    <3>4. CASE Less(key(i), key(n))
      <4>1. ASSUME NEW j \in 1 .. n, Less(key(n), key(j))
            PROVE  FALSE
        <5>1. i \in 1 .. Len(fps) /\ j \in 1 .. Len(fps)
          BY <1>1
        <5>2. j # n
          BY <1>2, <4>1, LessIrreflexive
        <5>3. Less(key(i), key(j))
          BY <1>2, <3>4, <4>1, <5>1, LessTransitive
        <5>4. QED
          BY <3>2, <5>2, <5>3
      <4>2. QED
        BY <4>1
    <3>5. QED
      BY <3>3, <3>4
  <2>3. QED
    BY <2>1, <2>2
<1>4. Bad = {}
  <2>1. SUFFICES ASSUME Bad # {} PROVE FALSE
    OBVIOUS
  <2>2. Bad \subseteq Nat
    OBVIOUS
  <2>3. PICK n \in Bad : \A m \in Bad : n <= m
    BY <2>1, <2>2, LeastNumber
  <2>4. n \in 1 .. Len(fps) /\ \A m \in 1 .. n - 1 : m \notin Bad
    BY <2>3
  <2>5. QED
    BY <1>3, <2>4
<1>5. PICK i \in 1 .. Len(fps) : Leads(i, Len(fps))
  <2>1. Len(fps) \in 1 .. Len(fps)
    BY <1>1
  <2>2. Len(fps) \notin Bad
    BY <1>4, Zenon
  <2>3. QED
    BY <2>1, <2>2
<1>6. QED
  BY <1>1, <1>5 DEF Best, key

\* The source is a merchant of the list, and nobody owns more.
LEMMA SourceOwnsMost ==
  ASSUME NEW fps \in Seq(Footprint), fps # <<>>
  PROVE  \E i \in DOMAIN fps :
           /\ SelectSource(fps) = fps[i]
           /\ \A j \in DOMAIN fps : TotalFootprint(fps[j]) <= TotalFootprint(fps[i])
<1>1. Best(fps) # {} /\ Best(fps) \subseteq Nat /\ Best(fps) \subseteq DOMAIN fps
  BY BestExists DEF Best
<1>2. \E i \in Best(fps) : \A j \in Best(fps) : i <= j
  BY <1>1, LeastNumber
<1> DEFINE s == CHOOSE i \in Best(fps) : \A j \in Best(fps) : i <= j
<1>3. s \in Best(fps)
  BY <1>2
<1>4. SelectSource(fps) = fps[s]
  BY DEF SelectSource, Best
<1> HIDE DEF s
<1>5. s \in DOMAIN fps /\ \A j \in DOMAIN fps : ~Less(SortKey(fps[s]), SortKey(fps[j]))
  BY <1>3 DEF Best
<1>6. ASSUME NEW j \in DOMAIN fps
      PROVE  TotalFootprint(fps[j]) <= TotalFootprint(fps[s])
  <2>1. fps[s] \in Footprint /\ fps[j] \in Footprint
    BY <1>5
  <2> DEFINE a == SortKey(fps[s])
             b == SortKey(fps[j])
  <2>2. a \in [1 .. 5 -> Nat] /\ b \in [1 .. 5 -> Nat]
    BY <2>1, SortKeyType
  <2>3. ~Less(a, b)
    BY <1>5
  <2> HIDE DEF a, b
  <2>4. ~(a[1] < b[1])
    BY <2>2, <2>3 DEF Less
  <2>5. a[1] \in Nat /\ b[1] \in Nat
    BY <2>2
  <2>6. b[1] <= a[1]
    BY <2>4, <2>5
  <2>7. QED
    BY <2>1, <2>6, SortKeyType DEF a, b
<1>7. QED
  BY <1>4, <1>5, <1>6

\* What a merchant of the list owns, since there is one footprint of each.
LEMMA OwnedByOne ==
  ASSUME NEW fps \in Footprints, NEW i \in DOMAIN fps
  PROVE  Owned(fps, fps[i].id) = TotalFootprint(fps[i])
<1> DEFINE F == {fps[j] : j \in DOMAIN fps}
           f == CHOOSE g \in F : g.id = fps[i].id
<1>1. fps[i] \in F
  OBVIOUS
<1>2. f \in F /\ f.id = fps[i].id
  BY <1>1
<1>3. f = fps[i]
  BY <1>2, ReportsAssumption
<1>4. QED
  BY <1>3 DEF Owned

\* An answer to a reconciliation is the plan for the merchants given.
PlanInv ==
  /\ input.of = "plan" => input.footprints \in Footprints
  /\ Answered("plan") => answer = Plan(input.footprints, input.target)

LEMMA PlanInvariant == Spec => []PlanInv
<1>1. Init => PlanInv
  BY DEF Init, PlanInv, Answered
<1>2. PlanInv /\ [Next]_vars => PlanInv'
  BY DEF PlanInv, Answered, Next, SendMessage, BuildPlan, CompareStrategies, vars
<1>3. QED
  BY <1>1, <1>2, PTL DEF Spec

\* A plan discards nothing but test artifacts and merchants that own nothing, and
\* never the merchant it migrates to, however many merchants there are.
THEOREM PlansKeepData == Spec => []PlanKeepsData
<1>1. PlanInv => PlanKeepsData
  <2> SUFFICES ASSUME PlanInv, Answered("plan")
               PROVE  PlanKeepsData
    BY DEF PlanKeepsData
  <2> PICK fps \in Footprints : fps = input.footprints
    BY DEF PlanInv, Answered
  <2> DEFINE target == input.target
             others == {i \in DOMAIN fps : fps[i].id # target}
             Artifact(id) ==
               \E i \in DOMAIN fps : fps[i].id = id
                                      /\ Classify(fps[i]) = "confirmed_test_artifact"
  <2>1. /\ answer.source = SelectSource(fps).id
        /\ answer.discard = {fps[i].id : i \in {j \in others : Discarded(fps[j])}}
        /\ answer.ambiguous =
             {fps[i].id : i \in {j \in others : Classify(fps[j]) = "ambiguous"}}
    BY DEF PlanInv, Plan
  <2>2. /\ fps \in Seq(Footprint) /\ fps # <<>>
        /\ \A i, j \in DOMAIN fps : fps[i].id = fps[j].id => i = j
    BY ReportsAssumption
  <2>3. \A id \in answer.discard :
          \E i \in DOMAIN fps : /\ fps[i].id = id /\ id # target /\ Discarded(fps[i])
    BY <2>1
  <2>4. \A id \in answer.ambiguous :
          \E i \in DOMAIN fps : /\ fps[i].id = id /\ id # target
                                /\ Classify(fps[i]) = "ambiguous"
    BY <2>1
  <2>5. \A id \in answer.discard : Artifact(id) \/ Owned(fps, id) = 0
    <3> TAKE id \in answer.discard
    <3>1. PICK i \in DOMAIN fps : fps[i].id = id /\ Discarded(fps[i])
      BY <2>3
    <3>2. CASE Classify(fps[i]) = "confirmed_test_artifact"
      BY <3>1, <3>2
    <3>3. CASE TotalFootprint(fps[i]) = 0
      BY <3>1, <3>3, OwnedByOne
    <3>4. QED
      BY <3>1, <3>2, <3>3 DEF Discarded
  <2>6. target \notin answer.discard \cup answer.ambiguous
    BY <2>3, <2>4
  <2>7. answer.discard \cap answer.ambiguous = {}
    <3>1. \A i \in DOMAIN fps : Discarded(fps[i]) => Classify(fps[i]) # "ambiguous"
      BY DEF Discarded
    <3>2. QED
      BY <2>2, <2>3, <2>4, <3>1
  <2>8. PICK s \in DOMAIN fps :
          /\ answer.source = fps[s].id
          /\ \A j \in DOMAIN fps : TotalFootprint(fps[j]) <= TotalFootprint(fps[s])
    BY <2>1, <2>2, SourceOwnsMost
  <2>9. Owned(fps, answer.source) = TotalFootprint(fps[s])
    BY <2>8, OwnedByOne
  <2>10. \A i \in DOMAIN fps : TotalFootprint(fps[i]) <= Owned(fps, answer.source)
    BY <2>8, <2>9
  <2>11. ASSUME Owned(fps, answer.source) = 0
         PROVE  \A i \in DOMAIN fps : TotalFootprint(fps[i]) = 0
    <3>1. \A i \in DOMAIN fps : TotalFootprint(fps[i]) \in Nat
      <4>1. \A i \in DOMAIN fps : fps[i] \in Footprint
        BY <2>2
      <4>2. QED
        BY <4>1, SortKeyType
    <3>2. QED
      BY <2>10, <2>11, <3>1
  <2>12. answer.source \in answer.discard =>
           Artifact(answer.source) \/ \A i \in DOMAIN fps : TotalFootprint(fps[i]) = 0
    BY <2>5, <2>11
  <2>13. QED
    BY <2>5, <2>6, <2>7, <2>10, <2>12 DEF PlanKeepsData
<1>2. QED
  BY <1>1, PlanInvariant, PTL

-----------------------------------------------------------------------------
(* The comparison of strategies *)

\* The counters after n cases, as a function that repeats the body of the loop.
Counters(strategy, in, n, g) ==
  g = [i \in 0 .. n |-> IF i = 0 THEN Zero ELSE Counted(strategy, in, g[i - 1], i)]

\* The recursion defines the counters of every data set, by induction over its
\* length.
LEMMA CountersExist ==
  ASSUME NEW strategy, NEW in, NEW len \in Nat
  PROVE  \E g : Counters(strategy, in, len, g)
<1> DEFINE Bad == {n \in Nat : ~\E g : Counters(strategy, in, n, g)}
<1>1. ASSUME NEW n \in Nat, \A m \in Nat : m < n => m \notin Bad
      PROVE  \E g : Counters(strategy, in, n, g)
  <2>1. CASE n = 0
    <3> DEFINE g == [i \in 0 .. 0 |-> Zero]
    <3>1. g = [i \in 0 .. n |-> IF i = 0 THEN Zero ELSE Counted(strategy, in, g[i - 1], i)]
      BY <2>1
    <3>2. QED
      BY <3>1 DEF Counters
  <2>2. CASE n # 0
    <3>1. n - 1 \in Nat /\ n - 1 < n
      BY <2>2
    <3>2. PICK g : Counters(strategy, in, n - 1, g)
      BY <1>1, <3>1
    <3> DEFINE next == Counted(strategy, in, g[n - 1], n)
               h == [i \in 0 .. n |-> IF i = n THEN next ELSE g[i]]
    <3>3. ASSUME NEW i \in 0 .. n
          PROVE  h[i] = IF i = 0 THEN Zero ELSE Counted(strategy, in, h[i - 1], i)
      <4>1. CASE i = 0
        <5>1. h[i] = g[i] /\ i \in 0 .. n - 1
          BY <2>2, <4>1
        <5>2. g[i] = Zero
          BY <3>2, <4>1, <5>1 DEF Counters
        <5>3. QED
          BY <4>1, <5>1, <5>2
      <4>2. CASE i # 0 /\ i # n
        <5>1. h[i] = g[i] /\ h[i - 1] = g[i - 1] /\ i \in 0 .. n - 1
          BY <4>2
        <5>2. g[i] = Counted(strategy, in, g[i - 1], i)
          BY <3>2, <4>2, <5>1 DEF Counters
        <5>3. QED
          BY <4>2, <5>1, <5>2
      <4>3. CASE i = n
        <5>1. h[i] = next /\ h[i - 1] = g[i - 1]
          BY <2>2, <4>3
        <5>2. QED
          BY <2>2, <4>3, <5>1
      <4>4. QED
        BY <4>1, <4>2, <4>3
    <3>4. h = [i \in 0 .. n |-> IF i = 0 THEN Zero ELSE Counted(strategy, in, h[i - 1], i)]
      BY <3>3
    <3>5. QED
      BY <3>4 DEF Counters
  <2>3. QED
    BY <2>1, <2>2
<1>2. Bad = {}
  <2>1. SUFFICES ASSUME Bad # {} PROVE FALSE
    OBVIOUS
  <2>2. Bad \subseteq Nat
    OBVIOUS
  <2>3. PICK n \in Bad : \A m \in Bad : n <= m
    BY <2>1, <2>2, LeastNumber
  <2>4. n \in Nat /\ \A m \in Nat : m < n => m \notin Bad
    BY <2>3
  <2>5. QED
    BY <1>1, <2>4
<1>3. QED
  BY <1>2

LEMMA TallyCounts ==
  ASSUME NEW strategy, NEW in, Len(in.dataset) \in Nat
  PROVE  Counters(strategy, in, Len(in.dataset), Tally(strategy, in))
<1> DEFINE len == Len(in.dataset)
<1>1. \E g : g = [i \in 0 .. len |-> IF i = 0 THEN Zero ELSE Counted(strategy, in, g[i - 1], i)]
  <2>1. PICK g : Counters(strategy, in, len, g)
    BY CountersExist
  <2>2. QED
    BY <2>1 DEF Counters
<1>2. Tally(strategy, in) =
        CHOOSE g : g = [i \in 0 .. len |-> IF i = 0 THEN Zero
                                           ELSE Counted(strategy, in, g[i - 1], i)]
  BY DEF Tally
<1>3. QED
  BY <1>1, <1>2 DEF Counters

\* An input of the comparison: as many rolls and choices as there are cases.
LEMMA BenchmarkParts ==
  ASSUME NEW b \in Benchmarks
  PROVE  /\ Len(b.dataset) \in Nat /\ DOMAIN b.dataset = 1 .. Len(b.dataset)
         /\ \A i \in DOMAIN b.dataset :
              /\ b.dataset[i] \in SyntheticCase
              /\ b.rolls[i] \in Nat /\ b.chosen[i] \in BenchAction
<1>1. PICK d \in Datasets :
        b \in [dataset : {d}, rolls : [DOMAIN d -> Rolls], chosen : [DOMAIN d -> Choices]]
  BY DEF Benchmarks
<1>2. d \in Seq(SyntheticCase) /\ b.dataset = d
  BY <1>1, ReportsAssumption
<1>3. Len(d) \in Nat /\ DOMAIN d = 1 .. Len(d) /\ \A i \in DOMAIN d : d[i] \in SyntheticCase
  BY <1>2
<1>4. \A i \in DOMAIN d : b.rolls[i] \in Nat
  BY <1>1, ReportsAssumption
<1>5. \A i \in DOMAIN d : b.chosen[i] \in BenchAction
  BY <1>1, ReportsAssumption
<1>6. QED
  BY <1>2, <1>3, <1>4, <1>5

\* What an action is worth is a number, whatever a strategy decides.
LEMMA DecisionWorth ==
  ASSUME NEW b \in Benchmarks, NEW i \in DOMAIN b.dataset, NEW s \in Strategies
  PROVE  Decide(s, b, i) \in BenchAction /\ Efficiency(Decide(s, b, i)) \in Nat
<1> DEFINE c == b.dataset[i]
<1>1. b.chosen[i] \in BenchAction /\ c \in SyntheticCase
  BY BenchmarkParts
<1>2. c.opted_out \in BOOLEAN /\ c.abandoned \in BOOLEAN /\ c.upi \in BOOLEAN
  BY <1>1 DEF SyntheticCase
<1>3. Decide(s, b, i) \in BenchAction
  BY <1>1, <1>2 DEF Decide, RuleBased, Strategies, BenchAction
<1>4. \A a \in BenchAction : Efficiency(a) \in Nat
  BY DEF BenchAction, Efficiency
<1>5. QED
  BY <1>3, <1>4

\* One case: strategies that are level stay level.  They need a roll for the same
\* cases, hence see the same one, and what wins for the less efficient action
\* wins for the other.
LEMMA LevelCase ==
  ASSUME NEW b \in Benchmarks, NEW s \in Strategies, NEW t \in Strategies,
         NEW i \in DOMAIN b.dataset, NEW m, NEW n,
         m.used = n.used, m.used \in 0 .. i - 1,
         n.wins \subseteq m.wins, m.recovered \in Nat, n.recovered \in Nat,
         n.recovered <= m.recovered,
         b.dataset[i].willing =>
           /\ Decide(s, b, i) = "stop" <=> Decide(t, b, i) = "stop"
           /\ Efficiency(Decide(s, b, i)) >= Efficiency(Decide(t, b, i))
  PROVE  LET x == Counted(s, b, m, i)
             y == Counted(t, b, n, i)
         IN /\ x.used = y.used /\ x.used \in 0 .. i
            /\ y.wins \subseteq x.wins /\ x.recovered \in Nat /\ y.recovered \in Nat
            /\ y.recovered <= x.recovered
<1> DEFINE c == b.dataset[i]
           p == Decide(s, b, i)
           q == Decide(t, b, i)
           used == m.used + One(UsesRoll(c, p))
           other == n.used + One(UsesRoll(c, q))
           won == c.willing /\ UsesRoll(c, p) /\ b.rolls[used] < Efficiency(p)
           lost == c.willing /\ UsesRoll(c, q) /\ b.rolls[other] < Efficiency(q)
<1>1. /\ Len(b.dataset) \in Nat /\ i \in 1 .. Len(b.dataset) /\ c \in SyntheticCase
      /\ \A k \in 1 .. Len(b.dataset) : b.rolls[k] \in Nat
  BY BenchmarkParts
<1>2. \A k \in 1 .. i : b.rolls[k] \in Nat
  BY <1>1
<1>3. c.amount \in Nat /\ c.willing \in BOOLEAN
  BY <1>1 DEF SyntheticCase
<1>4. Efficiency(p) \in Nat /\ Efficiency(q) \in Nat
  BY DecisionWorth
<1>5. UsesRoll(c, p) <=> UsesRoll(c, q)
  BY DEF UsesRoll
<1>6. used = other
  BY <1>5 DEF One
<1>7. used \in 0 .. i /\ (UsesRoll(c, p) => used \in 1 .. i)
  BY <1>1 DEF One
<1>8. lost => won
  <2>1. SUFFICES ASSUME lost PROVE won
    OBVIOUS
  <2>2. UsesRoll(c, p) /\ c.willing /\ b.rolls[used] < Efficiency(q)
    BY <1>5, <1>6, <2>1
  <2>3. b.rolls[used] \in Nat
    <3>1. used \in 1 .. i
      BY <1>7, <2>2
    <3> HIDE DEF used
    <3>2. QED
      BY <1>2, <3>1
  <2>4. Efficiency(p) >= Efficiency(q)
    BY <2>2
  <2> DEFINE roll == b.rolls[used]
             x == Efficiency(p)
             y == Efficiency(q)
  <2>5. x \in Nat /\ y \in Nat /\ roll \in Nat /\ roll < y /\ x >= y
    BY <1>4, <2>2, <2>3, <2>4
  <2> HIDE DEF roll, x, y
  <2>6. roll < x
    BY <2>5
  <2>7. QED
    BY <2>2, <2>6 DEF roll, x
<1>9. /\ Counted(s, b, m, i).used = used /\ Counted(t, b, n, i).used = other
      /\ Counted(s, b, m, i).wins = IF won THEN m.wins \cup {i} ELSE m.wins
      /\ Counted(t, b, n, i).wins = IF lost THEN n.wins \cup {i} ELSE n.wins
      /\ Counted(s, b, m, i).recovered = m.recovered + IF won THEN c.amount ELSE 0
      /\ Counted(t, b, n, i).recovered = n.recovered + IF lost THEN c.amount ELSE 0
  BY DEF Counted
<1> HIDE DEF c, p, q, used, other, won, lost
<1>10. CASE won
  BY <1>3, <1>6, <1>7, <1>9, <1>10
<1>11. CASE ~won
  BY <1>3, <1>6, <1>7, <1>8, <1>9, <1>11
<1>12. QED
  BY <1>10, <1>11

\* An answer to a comparison has the counters of every strategy.
CompareInv ==
  /\ input.of = "comparison" => input.benchmark \in Benchmarks
  /\ Answered("comparison") => answer = Compare(input.benchmark)

LEMMA CompareInvariant == Spec => []CompareInv
<1>1. Init => CompareInv
  BY DEF Init, CompareInv, Answered
<1>2. CompareInv /\ [Next]_vars => CompareInv'
  BY DEF CompareInv, Answered, Next, SendMessage, BuildPlan, CompareStrategies, vars
<1>3. QED
  BY <1>1, <1>2, PTL DEF Spec

\* A strategy that leaves alone the same willing customers as another and acts no
\* less efficiently wins whatever the other wins, in data sets of every length
\* and for all rolls.
THEOREM ComparisonIsFair == Spec => []FairComparison
<1>1. CompareInv => FairComparison
  <2>1. SUFFICES ASSUME CompareInv, Answered("comparison"),
                        NEW b \in Benchmarks, b = input.benchmark,
                        NEW s \in Strategies, NEW t \in Strategies,
                        \A i \in DOMAIN b.dataset :
                          b.dataset[i].willing =>
                            /\ Decide(s, b, i) = "stop" <=> Decide(t, b, i) = "stop"
                            /\ Efficiency(Decide(s, b, i)) >= Efficiency(Decide(t, b, i))
                 PROVE  /\ answer[t].wins \subseteq answer[s].wins
                        /\ answer[t].recovered <= answer[s].recovered
    BY DEF FairComparison, CompareInv, Answered, Leaves
  <2> DEFINE len == Len(b.dataset)
             S == Tally(s, b)
             T == Tally(t, b)
             Level(i) ==
               /\ S[i].used = T[i].used /\ S[i].used \in 0 .. i
               /\ T[i].wins \subseteq S[i].wins
               /\ S[i].recovered \in Nat /\ T[i].recovered \in Nat
               /\ T[i].recovered <= S[i].recovered
             Bad == {i \in 0 .. len : ~Level(i)}
  <2>2. len \in Nat /\ DOMAIN b.dataset = 1 .. len
    BY ReportsAssumption DEF Benchmarks
  <2>3. /\ S[0] = Zero /\ T[0] = Zero
        /\ \A i \in 1 .. len : /\ S[i] = Counted(s, b, S[i - 1], i)
                               /\ T[i] = Counted(t, b, T[i - 1], i)
    <3>1. Counters(s, b, len, S) /\ Counters(t, b, len, T)
      BY <2>2, TallyCounts
    <3> HIDE DEF S, T, len
    <3>2. QED
      BY <2>2, <3>1 DEF Counters
  <2>4. answer[s] = S[len] /\ answer[t] = T[len]
    BY <2>1 DEF CompareInv, Compare, Evaluate
  <2> HIDE DEF S, T, len
  <2>5. Level(0)
    BY <2>3 DEF Zero
  <2>6. ASSUME NEW i \in 1 .. len, Level(i - 1)
        PROVE  Level(i)
    <3>1. i \in DOMAIN b.dataset
      BY <2>2
    <3>2. /\ S[i] = Counted(s, b, S[i - 1], i) /\ T[i] = Counted(t, b, T[i - 1], i)
      BY <2>3
    <3>3. QED
      BY <2>1, <2>6, <3>1, <3>2, LevelCase
  <2>7. Bad = {}
    <3>1. SUFFICES ASSUME Bad # {} PROVE FALSE
      OBVIOUS
    <3>2. Bad \subseteq Nat
      BY <2>2
    <3>3. PICK i \in Bad : \A j \in Bad : i <= j
      BY <3>1, <3>2, LeastNumber
    <3>4. i \in 1 .. len
      BY <2>2, <2>5, <3>3
    <3>5. i - 1 \in 0 .. len /\ i - 1 \notin Bad
      BY <2>2, <3>3, <3>4
    <3>6. Level(i - 1) /\ ~Level(i)
      BY <3>3, <3>5
    <3>7. QED
      BY <2>6, <3>4, <3>6
  <2>8. Level(len)
    BY <2>2, <2>7
  <2>9. QED
    BY <2>4, <2>8
<1>2. QED
  BY <1>1, CompareInvariant, PTL
=============================================================================
