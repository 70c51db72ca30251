------------------------------ MODULE Policies ------------------------------
(***************************************************************************)
(* The policies of merchants and the one a recovery runs under.  The       *)
(* in-memory repository keeps one default policy for everybody and replaces*)
(* it by each active policy that is saved; the Supabase one writes to a    *)
(* table that has neither the column action_costs nor a unique merchant_id,*)
(* so that every save raises and every merchant has the built-in policy.   *)
(***************************************************************************)
EXTENDS ConsoleRequests

CONSTANTS
  PolicyId      \* fresh ids (uuid4)

VARIABLES
  policies,     \* rows of policies, in the order of insertion
  default,      \* the in-memory repository's _default
  ran           \* history: the policy the last webhook run of a merchant used

policyStore == <<policies, default, ran>>

BuiltIn == [id |-> None, merchant |-> None, is_active |-> TRUE, maximum_retries |-> 3]

Policy == [id : PolicyId \cup {None}, merchant : HeaderIds \cup {None},
           is_active : BOOLEAN, maximum_retries : Nat]

\* save: an active policy becomes the default, and stays it when it changes to
\* inactive.
SavePolicy(row) ==
  IF backend = "memory"
  THEN /\ policies' = Put(policies, row)
       /\ default' = IF row.is_active THEN row ELSE default
  ELSE UNCHANGED <<policies, default>>

\* POST /policies
CreatePolicy(w, m, active, retries) ==
  /\ Arrive(w, "policies", Idle)
  /\ PolicyId \ Ids(policies) # {}
  /\ LET id == Fresh(PolicyId \ Ids(policies))
         row == [id |-> id, merchant |-> m, is_active |-> active, maximum_retries |-> retries]
     IN SavePolicy(row) /\ NoteSave(w, id, row)
  /\ UNCHANGED ran

\* PUT /policies/{id}: a policy of another merchant is answered with 403, an
\* unknown one (every one, on Supabase) with 404; else it is read now and saved
\* later.
ReadPolicy(w, m, id, change) ==
  /\ UNCHANGED <<policyStore, history>>
  /\ Arrive(w, "policies",
       IF id \in Ids(policies) /\ Get(policies, id).merchant \in {m, None}
       THEN [pc |-> "save_policy", doc |-> id, change |-> change, read |-> Get(policies, id)]
       ELSE Idle)

SaveUpdate(w) ==
  /\ At(w, "save_policy")
  /\ LET c == calls[w] IN
     /\ SavePolicy(Merge(c.change, c.read, [BuiltIn EXCEPT !.id = c.doc]))
     /\ NoteSave(w, c.doc, Over(c.change, expected[c.doc]))
  /\ Finish(w)
  /\ UNCHANGED ran

\* The policy of run_recovery: the one of the request, else get_default.
\* POST /recoveries builds one from its payload, the webhook handler gives none.
RunPolicy(given) == IF given # None THEN given ELSE default

\* A failed payment of merchant m starts a run in the webhook handler.
WebhookRuns(m) ==
  /\ Arrive(Webhook, "policies", Idle)
  /\ ran' = [ran EXCEPT ![m] = RunPolicy(None)]
  /\ UNCHANGED <<policies, default, history>>

PoliciesInit == policies = <<>> /\ default = BuiltIn /\ ran = [m \in HeaderIds |-> None]

PoliciesStep(w) ==
  \/ /\ Accepts(w, "policies")
     /\ \E m \in HeaderIds :
          \/ \E active \in BOOLEAN : CreatePolicy(w, m, active, 3)
          \/ \E id \in PolicyId, change \in {[is_active |-> FALSE], [is_active |-> TRUE],
                                             [maximum_retries |-> 5]} :
               ReadPolicy(w, m, id, change)
  \/ SaveUpdate(w)
=============================================================================
