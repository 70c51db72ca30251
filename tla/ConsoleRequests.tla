--------------------------- MODULE ConsoleRequests ---------------------------
(***************************************************************************)
(* The threads that serve the merchant console (accounts, settings,        *)
(* policies, payments).  A request is one record in calls while it is being*)
(* served; one repository call is one step, and what a handler read it     *)
(* keeps in its record until it saves.                                     *)
(***************************************************************************)
EXTENDS Naturals, Sequences, FiniteSets, SequencesExt

CONSTANTS
  Workers,    \* pool threads that run the "def" endpoints
  Webhook,    \* the event loop, which runs the webhook endpoint
  HeaderIds,  \* merchant ids given in the X-Merchant-ID header
  None,
  Budgets     \* bound: requests of each area, a set of functions on Area

ASSUME RequestsAssumption == Webhook \notin Workers

Thread == Workers \cup {Webhook}
Area == {"accounts", "policies", "payments"}

VARIABLES
  backend,    \* "memory" or "supabase": get_repository_bundle chooses one
  calls,      \* the request each thread serves
  budget,     \* requests of each area that may still arrive
  expected,   \* history: document |-> what its finished updates add up to
  overlapped  \* history: documents of which two updates were in progress at once

requests == <<calls, budget>>
history == <<expected, overlapped>>

Idle == [pc |-> "idle"]

At(w, pc) == calls[w].pc = pc

Go(w, call) == calls' = [calls EXCEPT ![w] = call] /\ UNCHANGED budget

Finish(w) == Go(w, Idle)

\* An idle thread takes the next request of an area.
Accepts(w, area) == At(w, "idle") /\ budget[area] > 0

\* A request of an area arrives; it is answered at once when call is Idle.
Arrive(w, area, call) ==
  /\ Accepts(w, area)
  /\ budget' = [budget EXCEPT ![area] = @ - 1]
  /\ calls' = [calls EXCEPT ![w] = call]

\* A Supabase call raises (network, timeout, constraint): the request ends.
CallFails(w) == backend = "supabase" /\ ~At(w, "idle") /\ Finish(w)

\* Mutant: saving never replaces a row.
Put_Append(rows, rec) == Append(rows, rec)

\* A dictionary keyed by id, or a table with that primary key: rec replaces the
\* row of its id and keeps its place, or comes last.
Put(rows, rec) ==
  IF \E i \in DOMAIN rows : rows[i].id = rec.id
  THEN [i \in DOMAIN rows |-> IF rows[i].id = rec.id THEN rec ELSE rows[i]]
  ELSE Append(rows, rec)

Ids(rows) == {rows[i].id : i \in DOMAIN rows}

Get(rows, id) == rows[CHOOSE i \in DOMAIN rows : rows[i].id = id]

\* uuid4: an id that was never used; which one makes no difference.
Fresh(unused) == CHOOSE id \in unused : TRUE

\* f, and g where f says nothing.
Over(f, g) ==
  [x \in DOMAIN f \cup DOMAIN g |-> IF x \in DOMAIN f THEN f[x] ELSE g[x]]

\* The map f with d |-> v.
With(f, d, v) == [x \in DOMAIN f \cup {d} |-> IF x = d THEN v ELSE f[x]]

\* Mutant: the fields a request leaves out get their defaults.
Merge_Unset(new, old, default) == Over(new, default)

\* model_copy(update=...): the fields a request sets, the rest as it was.
Merge(new, old, default) == Over(new, old)

\* The thread has read a document that it will save.
Updates(w) == calls[w].pc \in {"save_settings", "save_policy"}

\* history: thread w saves an update of document d.  Another thread that read d
\* and has yet to save it holds a copy that is stale now.
NoteSave(w, d, doc) ==
  /\ expected' = With(expected, d, doc)
  /\ overlapped' = IF \E v \in Thread \ {w} : Updates(v) /\ calls[v].doc = d
                   THEN overlapped \cup {d} ELSE overlapped

RequestsInit ==
  /\ backend \in {"memory", "supabase"}
  /\ calls = [w \in Thread |-> Idle]
  /\ budget \in Budgets
  /\ expected = <<>>
  /\ overlapped = {}
=============================================================================
