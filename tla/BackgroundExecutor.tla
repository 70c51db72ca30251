-------------------------- MODULE BackgroundExecutor --------------------------
(***************************************************************************)
(* InMemoryBackgroundExecutor: any number of threads submit functions,     *)
(* with or without an idempotency key; the threads of a pool run them and  *)
(* retry the ones that raise.  Two dictionaries are shared by all of them  *)
(* and nothing locks: submit looks the key up, stores the task, maps the   *)
(* key and hands the task to the pool in four steps.  The dictionaries, the*)
(* queue and the tries in progress are lost when the process restarts; what*)
(* the functions did outside is not.                                       *)
(***************************************************************************)
EXTENDS Naturals, FiniteSets, Sequences

CONSTANTS
  Callers,      \* threads that call submit
  Keys,         \* idempotency keys
  TaskId,       \* fresh ids (uuid4)
  None,
  MaxWorkers,   \* threads of the pool
  MaxRetries,   \* the argument max_retries
  MaxSubmits,   \* bound: calls of submit
  MaxRestarts   \* bound: restarts of the process

TaskStatus == {"pending", "running", "retrying", "completed", "failed"}

\* BackgroundTask; "by" is the caller that submitted it.
Task == [key : Keys \cup {None}, status : TaskStatus, retry_count : Nat,
         result : BOOLEAN, by : Callers]

ASSUME ExecutorAssumption ==
  /\ None \notin Keys \cup TaskId \cup Task
  /\ MaxRetries \in Nat /\ MaxWorkers \in Nat \ {0}
  /\ MaxSubmits \in Nat /\ MaxRestarts \in Nat

ASSUME CallersAssumption == IsFiniteSet(Callers)

VARIABLES
  tasks,        \* _tasks: the record of each task, None when there is none
  idempotency,  \* _idempotency_map
  calls,        \* the place of each caller inside submit
  queue,        \* the work queue of the pool
  jobs,         \* the place of the pool thread that runs a task, and its attempt
  effects,      \* times the function of a key took effect outside the process
  submits, restarts

memory == <<tasks, idempotency, calls, queue, jobs>>
vars == <<memory, effects, submits, restarts>>

Out == [pc |-> "out", key |-> None, task |-> None]
NoJob == [pc |-> "none", attempt |-> 0]

Empty ==
  /\ tasks' = [t \in TaskId |-> None]
  /\ idempotency' = [k \in Keys |-> None]
  /\ calls' = [c \in Callers |-> Out]
  /\ queue' = <<>>
  /\ jobs' = [t \in TaskId |-> NoJob]

Init ==
  /\ tasks = [t \in TaskId |-> None]
  /\ idempotency = [k \in Keys |-> None]
  /\ calls = [c \in Callers |-> Out]
  /\ queue = <<>>
  /\ jobs = [t \in TaskId |-> NoJob]
  /\ effects = [k \in Keys |-> 0]
  /\ submits = 0 /\ restarts = 0

-----------------------------------------------------------------------------
(* submit *)

\* Mutant: the dictionary of keys is never consulted.
Mapped_Never(k) == FALSE

Mapped(k) == k # None /\ idempotency[k] # None

\* A key that is mapped answers with the task it is mapped to, whatever became
\* of it, and nothing is submitted.
Submit(c, k) ==
  /\ calls[c].pc = "out" /\ submits < MaxSubmits
  /\ submits' = submits + 1
  /\ calls' = IF Mapped(k) THEN calls
              ELSE [calls EXCEPT ![c] = [pc |-> "store", key |-> k, task |-> None]]
  /\ UNCHANGED <<tasks, idempotency, queue, jobs, effects, restarts>>

NewTask(c) == [key |-> calls[c].key, status |-> "pending", retry_count |-> 0,
               result |-> FALSE, by |-> c]

\* Ids are uuids: it makes no difference which unused one a task gets.
FreshId == CHOOSE t \in TaskId : tasks[t] = None

StoreTask(c) ==
  /\ calls[c].pc = "store"
  /\ \E t \in TaskId :
       /\ tasks[t] = None /\ t = FreshId
       /\ tasks' = [tasks EXCEPT ![t] = NewTask(c)]
       /\ calls' = [calls EXCEPT ![c] = [@ EXCEPT !.pc = IF calls[c].key = None
                                                         THEN "pool" ELSE "map",
                                                  !.task = t]]
  /\ UNCHANGED <<idempotency, queue, jobs, effects, submits, restarts>>

MapKey(c) ==
  /\ calls[c].pc = "map"
  /\ idempotency' = [idempotency EXCEPT ![calls[c].key] = calls[c].task]
  /\ calls' = [calls EXCEPT ![c].pc = "pool"]
  /\ UNCHANGED <<tasks, queue, jobs, effects, submits, restarts>>

PoolSubmit(c) ==
  /\ calls[c].pc = "pool"
  /\ queue' = Append(queue, calls[c].task)
  /\ calls' = [calls EXCEPT ![c] = Out]
  /\ UNCHANGED <<tasks, idempotency, jobs, effects, submits, restarts>>

-----------------------------------------------------------------------------
(* _run_wrapper, on a thread of the pool *)

Busy == {t \in TaskId : jobs[t].pc \notin {"none", "done"}}

TakeTask ==
  /\ queue # <<>> /\ Cardinality(Busy) < MaxWorkers
  /\ LET t == Head(queue) IN
       /\ tasks' = [tasks EXCEPT ![t].status = "running"]
       /\ jobs' = [jobs EXCEPT ![t] = [pc |-> "call", attempt |-> 0]]
  /\ queue' = Tail(queue)
  /\ UNCHANGED <<idempotency, calls, effects, submits, restarts>>

\* The function may raise although it had its effect, and it may return a value
\* whose text, which is all that is kept of it, cannot be made.
CallFunction(t) ==
  /\ jobs[t].pc = "call"
  /\ \E pc \in {"returned", "unprintable", "raised"}, effect \in BOOLEAN :
       /\ pc # "raised" => effect
       /\ jobs' = [jobs EXCEPT ![t] = [pc |-> pc, attempt |-> @.attempt + 1]]
       /\ effects' = IF effect /\ tasks[t].key # None
                     THEN [effects EXCEPT ![tasks[t].key] = @ + 1] ELSE effects
  /\ UNCHANGED <<tasks, idempotency, calls, queue, submits, restarts>>

\* Mutant: the loop goes on after a try that returned.
Complete_NoReturn(t) ==
  /\ jobs[t].pc \in {"returned", "unprintable"}
  /\ tasks' = [tasks EXCEPT ![t].status = "completed"]
  /\ jobs' = [jobs EXCEPT ![t].pc = IF jobs[t].attempt <= MaxRetries THEN "call"
                                    ELSE "result"]
  /\ UNCHANGED <<idempotency, calls, queue, effects, submits, restarts>>

\* The status is visible before the result; a result that has no text makes the
\* try one that raised, after readers could see it completed.
Complete(t) ==
  /\ jobs[t].pc \in {"returned", "unprintable"}
  /\ tasks' = [tasks EXCEPT ![t].status = "completed"]
  /\ jobs' = [jobs EXCEPT ![t].pc = IF @ = "returned" THEN "result" ELSE "raised"]
  /\ UNCHANGED <<idempotency, calls, queue, effects, submits, restarts>>

StoreResult(t) ==
  /\ jobs[t].pc = "result"
  /\ tasks' = [tasks EXCEPT ![t].result = TRUE]
  /\ jobs' = [jobs EXCEPT ![t].pc = "done"]
  /\ UNCHANGED <<idempotency, calls, queue, effects, submits, restarts>>

\* The counter is visible before the status that goes with it.
NoteError(t) ==
  /\ jobs[t].pc = "raised"
  /\ tasks' = [tasks EXCEPT ![t].retry_count = jobs[t].attempt]
  /\ jobs' = [jobs EXCEPT ![t].pc = "noted"]
  /\ UNCHANGED <<idempotency, calls, queue, effects, submits, restarts>>

\* Mutant: max_retries is read as retries after the last one.
MayRetry_OffByOne(attempt) == attempt <= MaxRetries + 1
MayRetry(attempt) == attempt <= MaxRetries

\* Mutant: the last failure is logged and the status left as it was.
HandleError_NoStatus(t) ==
  /\ jobs[t].pc = "noted"
  /\ LET again == MayRetry(jobs[t].attempt) IN
       /\ tasks' = [tasks EXCEPT ![t].status = IF again THEN "retrying" ELSE @]
       /\ jobs' = [jobs EXCEPT ![t].pc = IF again THEN "call" ELSE "done"]
  /\ UNCHANGED <<idempotency, calls, queue, effects, submits, restarts>>

HandleError(t) ==
  /\ jobs[t].pc = "noted"
  /\ LET again == MayRetry(jobs[t].attempt) IN
       /\ tasks' = [tasks EXCEPT ![t].status = IF again THEN "retrying" ELSE "failed"]
       /\ jobs' = [jobs EXCEPT ![t].pc = IF again THEN "call" ELSE "done"]
  /\ UNCHANGED <<idempotency, calls, queue, effects, submits, restarts>>

-----------------------------------------------------------------------------
Restart ==
  /\ restarts < MaxRestarts
  /\ restarts' = restarts + 1
  /\ Empty
  /\ UNCHANGED <<effects, submits>>

CallerStep(c) == StoreTask(c) \/ MapKey(c) \/ PoolSubmit(c)
JobStep(t) ==
  CallFunction(t) \/ Complete(t) \/ StoreResult(t) \/ NoteError(t) \/ HandleError(t)

Next ==
  \/ \E c \in Callers : CallerStep(c) \/ \E k \in Keys \cup {None} : Submit(c, k)
  \/ TakeTask
  \/ \E t \in TaskId : JobStep(t)
  \/ Restart

Spec == Init /\ [][Next]_vars

\* Threads that are inside submit or run a task go on, and the functions return
\* or raise in the end; nobody owes a submission or a restart.
Fairness ==
  /\ \A c \in Callers : WF_vars(CallerStep(c))
  /\ WF_vars(TakeTask)
  /\ \A t \in TaskId : WF_vars(JobStep(t))

FairSpec == Spec /\ Fairness
=============================================================================
