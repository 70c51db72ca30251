------------------------------ MODULE Accounts ------------------------------
(***************************************************************************)
(* Registration, login, profile and notification settings of merchants.  A *)
(* session is the set of claims its token carries.  get_current_merchant   *)
(* builds the merchant from them, or from the id a request without a token *)
(* gives in its X-Merchant-ID header, and reads no repository.             *)
(***************************************************************************)
EXTENDS ConsoleRequests

CONSTANTS
  MerchantId,   \* fresh ids (uuid4)
  DemoId,       \* "merchant_demo"
  Addresses,    \* addresses people type at register and login; an id stands for
                \* the address <id>@example.com
  DemoAddress   \* demo@payback.io

VARIABLES
  merchants,    \* rows of merchants, in the order of insertion
  settings,     \* merchant id |-> saved notification settings
  sessions,     \* claims of every token issued
  unchecked     \* history: merchants that a request without a token has saved

accounts == <<merchants, settings, sessions, unchecked>>

MerchantIds == MerchantId \cup HeaderIds \cup {DemoId}

\* An e-mail is an address and the case it is written in.
Case == {"lower", "mixed"}
Email == (Addresses \cup MerchantIds) \X Case
DemoEmail == <<DemoAddress, "lower">>
Name == {"registered", "generated", "renamed"}

\* history: before holds the ids that were stored when the e-mail was looked up.
Merchant == [id : MerchantIds, email : Email, name : Name,
             phone : {"given", "changed", None}, before : SUBSET MerchantIds]

\* A uuid is neither "merchant_demo" nor an id somebody gives before it is issued.
ASSUME AccountsAssumption ==
  DemoId \notin MerchantId /\ HeaderIds \cap MerchantId = {} /\ None \notin Merchant

Settings == [notify_recovery_completed : BOOLEAN, notify_action_failed : BOOLEAN]
DefaultSettings == [notify_recovery_completed |-> TRUE, notify_action_failed |-> TRUE]

SettingsOf(m) == IF m \in DOMAIN settings THEN settings[m] ELSE DefaultSettings

\* Mutant: case matters everywhere.
SameEmail_Exact(d, e) == d = e

\* The in-memory repository ignores case, the SQL comparison does not.
SameEmail(d, e) == IF backend = "memory" THEN d[1] = e[1] ELSE d = e

\* get_by_email: the first row with this e-mail.
Matches(e) == {i \in DOMAIN merchants : SameEmail(merchants[i].email, e)}
FindByEmail(e) ==
  IF Matches(e) = {} THEN None
  ELSE merchants[CHOOSE i \in Matches(e) : \A j \in Matches(e) : i <= j]

\* merchants.email is UNIQUE in SQL: an upsert that repeats it raises.
EmailTaken(rec) ==
  backend = "supabase" /\ \E i \in DOMAIN merchants :
                            merchants[i].email = rec.email /\ merchants[i].id # rec.id

Claims(m) == [id |-> m.id, email |-> m.email, name |-> m.name]

\* Ids a header may name: any that is known, and others.
Named == HeaderIds \cup {DemoId} \cup Ids(merchants)

\* The merchant that get_current_merchant makes of an id in the header.
HeaderClaims(id) == [id |-> id, email |-> <<id, "lower">>, name |-> "generated"]

FreshId == MerchantId \ (Ids(merchants)
             \cup {calls[w].row.id : w \in {v \in Thread : At(v, "save_merchant")}})

-----------------------------------------------------------------------------
\* POST /auth/register: a known e-mail is answered with 400.
Register(w, e) ==
  /\ UNCHANGED <<accounts, history>>
  /\ IF FindByEmail(e) # None
     THEN Arrive(w, "accounts", Idle)
     ELSE /\ FreshId # {}
          /\ Arrive(w, "accounts",
               [pc |-> "save_merchant",
                row |-> [id |-> Fresh(FreshId), email |-> e, name |-> "registered",
                         phone |-> "given", before |-> Ids(merchants)]])

\* POST /auth/login: the demo account is created when it is missing; anybody
\* else who is unknown is answered with 401.
Login(w, e) ==
  /\ UNCHANGED <<merchants, settings, unchecked, history>>
  /\ LET m == FindByEmail(e) IN
     \/ /\ m # None
        /\ Arrive(w, "accounts", Idle)
        /\ sessions' = sessions \cup {Claims(m)}
     \/ /\ m = None
        /\ Arrive(w, "accounts",
             IF e = DemoEmail
             THEN [pc |-> "save_merchant",
                   row |-> [id |-> DemoId, email |-> e, name |-> "registered",
                            phone |-> "given", before |-> Ids(merchants)]]
             ELSE Idle)
        /\ UNCHANGED sessions

\* merchants.save, then the token.  _ensure_merchant_settings saves nothing:
\* get_settings answers with defaults that have an id.
SaveMerchant(w) ==
  /\ At(w, "save_merchant")
  /\ LET row == calls[w].row IN
     IF EmailTaken(row) THEN UNCHANGED <<merchants, sessions>>
     ELSE /\ merchants' = Put(merchants, row)
          /\ sessions' = sessions \cup {Claims(row)}
  /\ Finish(w)
  /\ UNCHANGED <<settings, unchecked, history>>

\* What PUT /settings/profile saves: the merchant of the token or header, whose
\* phone is unknown, with the fields of the request.
Profile(s, change) ==
  Over(change, [id |-> s.id, email |-> s.email, name |-> s.name, phone |-> None])

\* PUT /settings/profile looks for no other merchant with the e-mail it saves.
UpdateProfile(w, s, change) ==
  LET before == IF s.id \in Ids(merchants) THEN Get(merchants, s.id).before ELSE {}
      row == Over(Profile(s, change), [before |-> before]) IN
  /\ Arrive(w, "accounts", Idle)
  /\ IF EmailTaken(row) THEN UNCHANGED <<merchants, unchecked>>
     ELSE /\ merchants' = Put(merchants, row)
          /\ unchecked' = IF s \in sessions THEN unchecked ELSE unchecked \cup {s.id}
  /\ UNCHANGED <<settings, sessions, history>>

\* PUT /settings/notifications of merchant m reads the settings and saves them
\* later.  Whoever has a token could as well have given the id.
ReadSettings(w, m, change) ==
  /\ Arrive(w, "accounts", [pc |-> "save_settings", doc |-> m, change |-> change,
                            read |-> SettingsOf(m)])
  /\ UNCHANGED <<accounts, history>>

\* merchant_settings references merchants in SQL: the upsert of the settings of
\* a merchant that has no row raises.
NoMerchant(m) == backend = "supabase" /\ m \notin Ids(merchants)

SaveSettings(w) ==
  /\ At(w, "save_settings")
  /\ LET m == calls[w].doc IN
     IF NoMerchant(m) THEN UNCHANGED <<settings, history>>
     ELSE /\ settings' = With(settings, m,
                              Merge(calls[w].change, calls[w].read, DefaultSettings))
          /\ NoteSave(w, m, Over(calls[w].change, IF m \in DOMAIN expected THEN expected[m]
                                                  ELSE DefaultSettings))
  /\ Finish(w)
  /\ UNCHANGED <<merchants, sessions, unchecked>>

\* The development merchant that the in-memory bundle is seeded with has an
\* e-mail of its own and is left out.
AccountsInit == merchants = <<>> /\ settings = <<>> /\ sessions = {} /\ unchecked = {}

AccountsStep(w) ==
  \/ /\ Accepts(w, "accounts")
     /\ \/ \E e \in Addresses \X Case : Register(w, e) \/ Login(w, e)
        \/ \E s \in sessions \cup {HeaderClaims(m) : m \in Named},
              change \in {[name |-> "renamed"], [phone |-> "changed"]} :
             UpdateProfile(w, s, change)
        \/ \E m \in Named, change \in {[notify_recovery_completed |-> FALSE],
                                       [notify_action_failed |-> FALSE]} :
             ReadSettings(w, m, change)
  \/ SaveMerchant(w) \/ SaveSettings(w)
=============================================================================
