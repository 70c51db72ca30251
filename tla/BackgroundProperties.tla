------------------------- MODULE BackgroundProperties -------------------------
(***************************************************************************)
(* What the background executor guarantees, and how much its idempotency   *)
(* keys are worth when submissions race and functions fail half-way.       *)
(***************************************************************************)
EXTENDS BackgroundExecutor

Known == {t \in TaskId : tasks[t] # None}
TasksOf(k) == {t \in Known : tasks[t].key = k}

Places == {"none", "call", "returned", "unprintable", "raised", "noted", "result", "done"}

\* Every variable holds a value of its type.
BackgroundTypeOK ==
  /\ tasks \in [TaskId -> Task \cup {None}]
  /\ idempotency \in [Keys -> TaskId \cup {None}]
  /\ calls \in [Callers -> [pc : {"out", "store", "map", "pool"},
                            key : Keys \cup {None}, task : TaskId \cup {None}]]
  /\ queue \in Seq(TaskId)
  /\ jobs \in [TaskId -> [pc : Places, attempt : Nat]]
  /\ effects \in [Keys -> Nat]
  /\ submits \in Nat /\ restarts \in Nat

-----------------------------------------------------------------------------
(* The inductive invariant *)

\* A caller inside submit holds the task it has stored, and is the only one.
CallersInv ==
  \A c \in Callers :
    /\ calls[c].pc = "map" => calls[c].key # None
    /\ calls[c].pc \in {"map", "pool"} =>
         /\ calls[c].task \in Known
         /\ tasks[calls[c].task].by = c
         /\ tasks[calls[c].task].key = calls[c].key
         /\ tasks[calls[c].task].status = "pending"
         /\ jobs[calls[c].task].pc = "none"

\* A key is mapped as soon as the caller that stored its task goes on: a stored
\* task whose key is not mapped belongs to a caller at the step between the two.
KeysMapped ==
  \A t \in Known :
    LET k == tasks[t].key
        c == tasks[t].by
    IN k # None /\ idempotency[k] = None
         => calls[c].pc = "map" /\ calls[c].task = t

\* A caller that is about to store a task for a key has stored none for it.
StoreInv ==
  \A c \in Callers : calls[c].pc = "store" /\ calls[c].key # None =>
    \A t \in Known : ~(tasks[t].key = calls[c].key /\ tasks[t].by = c)

\* The place of the pool thread and the record of the task belong together.
JobInv(t) ==
  /\ jobs[t].pc # "none" => t \in Known
  /\ jobs[t].pc = "none" /\ t \in Known => tasks[t].status = "pending"
  /\ jobs[t].pc = "done" => tasks[t].status \in {"completed", "failed"}
  /\ jobs[t].pc \in {"call", "returned", "unprintable"} =>
       tasks[t].status \in {"running", "retrying"}
  /\ jobs[t].pc \in {"raised", "noted"} => tasks[t].status \in {"running", "retrying", "completed"}
  /\ jobs[t].pc = "result" => tasks[t].status = "completed"
  /\ jobs[t].pc = "none" => jobs[t].attempt = 0
  /\ jobs[t].pc = "call" => jobs[t].attempt <= MaxRetries
  /\ jobs[t].pc \in {"returned", "unprintable", "raised", "noted"} =>
       jobs[t].attempt \in 1..MaxRetries + 1
  /\ jobs[t].pc = "noted" => tasks[t].retry_count = jobs[t].attempt

JobsInv == \A t \in TaskId : JobInv(t)

\* A waiting task is pending, is in the queue once, and nobody still submits it.
QueueInv ==
  \A i \in 1..Len(queue) :
    /\ queue[i] \in Known /\ tasks[queue[i]].status = "pending"
    /\ jobs[queue[i]].pc = "none"
    /\ \A j \in 1..Len(queue) : queue[i] = queue[j] => i = j
    /\ \A c \in Callers : calls[c].pc \in {"map", "pool"} => calls[c].task # queue[i]

-----------------------------------------------------------------------------
(* The properties *)

\* A thread that submits the same key again and again gets one task for it, and
\* so does a program that submits from one thread: only submissions that are
\* both inside submit can give a key two tasks.
OneTaskPerCallerAndKey ==
  \A t, u \in Known :
    tasks[t].key # None /\ tasks[t].key = tasks[u].key /\ tasks[t].by = tasks[u].by
      => t = u

\* A reader who sees a task failed sees a counter of one more than max_retries.
\* The converse needs a word: the counter is written before the status, so that a
\* reader may see it beyond max_retries on a task that still reads running,
\* retrying, or even completed; such a task is at the write that fails it and is
\* never tried again.
RetryCountOf(t) ==
  /\ tasks[t].status = "failed" => tasks[t].retry_count = MaxRetries + 1
  /\ tasks[t].retry_count > MaxRetries => tasks[t].status = "failed" \/ jobs[t].pc = "noted"

RetryCountTellsTheEnd == \A t \in Known : RetryCountOf(t)

\* The work of a key is bounded although its function may raise after it took
\* effect: every effect is an attempt of one of the tasks of the key, of which
\* each caller has at most one in each life of the process.
EffectsBounded ==
  \A k \in Keys :
    effects[k] <= Cardinality(Callers) * (MaxRetries + 1) * (restarts + 1)

\* The inductive invariant.
BackgroundInv ==
  /\ BackgroundTypeOK
  /\ CallersInv /\ KeysMapped /\ StoreInv /\ JobsInv /\ QueueInv
  /\ OneTaskPerCallerAndKey /\ RetryCountTellsTheEnd

\* The code implements the life of a task its submitter may rely on.
LifeOf(t) ==
  IF tasks[t] = None THEN "absent"
  ELSE CASE jobs[t].pc = "none" -> "waiting"
         [] jobs[t].pc \in {"call", "unprintable", "raised", "noted"} -> "working"
         [] jobs[t].pc = "returned" -> "returned"
         [] OTHER -> tasks[t].status

Lives == [t \in TaskId |-> LifeOf(t)]
Tries == [t \in TaskId |-> jobs[t].attempt]

Life == INSTANCE TaskLife WITH MaxTries <- MaxRetries + 1, life <- Lives, tries <- Tries

ImplementsTaskLife == Life!Spec

-----------------------------------------------------------------------------
(* Liveness, under FairSpec *)

\* A task that was handed to the pool ends, completed with its result or failed
\* after its last attempt, unless the process restarts: no task starves in the
\* queue behind tasks that are being retried.
TasksEnd ==
  \A t \in TaskId :
    (tasks[t] # None) ~>
      \/ tasks[t] = None
      \/ tasks[t].status = "completed" /\ tasks[t].result
      \/ tasks[t].status = "failed"
=============================================================================
