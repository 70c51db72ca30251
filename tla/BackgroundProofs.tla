--------------------------- MODULE BackgroundProofs ---------------------------
(***************************************************************************)
(* BackgroundInv is an invariant of the executor, for any number of        *)
(* callers, keys, workers, retries and restarts, the executor implements   *)
(* TaskLife, and the work done for a key is bounded.                       *)
(***************************************************************************)
EXTENDS BackgroundProperties, SequenceTheorems, FiniteSetTheorems, TLAPS

ShapeInv ==
  CallersInv /\ KeysMapped /\ StoreInv /\ JobsInv /\ QueueInv
    /\ OneTaskPerCallerAndKey /\ RetryCountTellsTheEnd

-----------------------------------------------------------------------------
(* Typing *)

\* What the type invariant says of one task, one call and one job.
LEMMA Typed ==
  ASSUME BackgroundTypeOK
  PROVE  /\ \A t \in Known : tasks[t] \in Task
         /\ \A t \in TaskId \ Known : tasks[t] = None
         /\ \A c \in Callers : calls[c] \in [pc : {"out", "store", "map", "pool"},
                                             key : Keys \cup {None}, task : TaskId \cup {None}]
         /\ \A t \in TaskId : jobs[t] \in
              [pc : Places, attempt : Nat]
BY DEF BackgroundTypeOK, Known

LEMMA InitTyped == Init => BackgroundTypeOK
<1> SUFFICES ASSUME Init PROVE BackgroundTypeOK
  OBVIOUS
<1>1. queue \in Seq(TaskId)
  BY DEF Init
<1>2. QED
  BY <1>1 DEF Init, BackgroundTypeOK, Places, Out, NoJob

LEMMA SubmitTyped ==
  ASSUME BackgroundTypeOK, NEW c \in Callers, NEW k \in Keys \cup {None}, Submit(c, k)
  PROVE  BackgroundTypeOK'
BY DEF BackgroundTypeOK, Submit

LEMMA StoreTaskTyped ==
  ASSUME BackgroundTypeOK, NEW c \in Callers, StoreTask(c)
  PROVE  BackgroundTypeOK'
<1> PICK t \in TaskId :
       /\ tasks[t] = None
       /\ tasks' = [tasks EXCEPT ![t] = NewTask(c)]
       /\ calls' = [calls EXCEPT ![c] = [@ EXCEPT !.pc = IF calls[c].key = None
                                                         THEN "pool" ELSE "map",
                                                  !.task = t]]
  BY DEF StoreTask
<1>1. NewTask(c) \in Task
  BY DEF NewTask, Task, TaskStatus, BackgroundTypeOK
<1>2. tasks' \in [TaskId -> Task \cup {None}]
  BY <1>1 DEF BackgroundTypeOK
<1>3. calls' \in [Callers -> [pc : {"out", "store", "map", "pool"},
                              key : Keys \cup {None}, task : TaskId \cup {None}]]
  <2> DEFINE new == [calls[c] EXCEPT !.pc = IF calls[c].key = None THEN "pool" ELSE "map",
                                     !.task = t]
  <2>1. new \in [pc : {"out", "store", "map", "pool"},
                 key : Keys \cup {None}, task : TaskId \cup {None}]
    BY Typed
  <2>2. calls' = [calls EXCEPT ![c] = new]
    OBVIOUS
  <2> HIDE DEF new
  <2>3. QED
    BY <2>1, <2>2 DEF BackgroundTypeOK
<1>4. QED
  BY <1>2, <1>3 DEF BackgroundTypeOK, StoreTask

LEMMA MapKeyTyped ==
  ASSUME BackgroundTypeOK, NEW c \in Callers, MapKey(c)
  PROVE  BackgroundTypeOK'
BY DEF BackgroundTypeOK, MapKey

LEMMA PoolSubmitTyped ==
  ASSUME BackgroundTypeOK, CallersInv, NEW c \in Callers, PoolSubmit(c)
  PROVE  BackgroundTypeOK'
<1>1. calls[c].task \in TaskId
  BY DEF CallersInv, PoolSubmit, Known
<1>2. queue' \in Seq(TaskId)
  BY <1>1 DEF BackgroundTypeOK, PoolSubmit
<1>3. QED
  BY <1>2 DEF BackgroundTypeOK, PoolSubmit, Out

LEMMA TakeTaskTyped ==
  ASSUME BackgroundTypeOK, QueueInv, TakeTask
  PROVE  BackgroundTypeOK'
<1>1. queue # <<>> /\ Head(queue) \in TaskId /\ Tail(queue) \in Seq(TaskId)
  BY DEF BackgroundTypeOK, TakeTask
<1>2. Head(queue) \in Known
  BY <1>1 DEF QueueInv, BackgroundTypeOK
<1>3. tasks[Head(queue)] \in Task
  BY <1>2, Typed
<1>4. tasks' \in [TaskId -> Task \cup {None}]
  BY <1>1, <1>3 DEF BackgroundTypeOK, TakeTask, Task, TaskStatus
<1>5. QED
  BY <1>1, <1>4 DEF BackgroundTypeOK, Places, TakeTask

LEMMA JobStepTyped ==
  ASSUME BackgroundTypeOK, JobsInv, NEW t \in TaskId, JobStep(t)
  PROVE  BackgroundTypeOK'
<1>1. t \in Known /\ tasks[t] \in Task
  BY Typed DEF JobsInv, JobInv, JobStep, CallFunction, Complete, StoreResult, NoteError, HandleError
<1>2. CASE CallFunction(t)
  <2>1. tasks[t].key # None => tasks[t].key \in Keys
    BY <1>1 DEF Task
  <2>2. effects' \in [Keys -> Nat]
    BY <1>2, <2>1 DEF CallFunction, BackgroundTypeOK
  <2>3. QED
    BY <1>2, <2>2 DEF CallFunction, BackgroundTypeOK, Places
<1>3. CASE Complete(t)
  <2>1. tasks' \in [TaskId -> Task \cup {None}]
    BY <1>1, <1>3 DEF Complete, BackgroundTypeOK, Task, TaskStatus
  <2>2. jobs' = [jobs EXCEPT ![t].pc = IF jobs[t].pc = "returned" THEN "result" ELSE "raised"]
    BY <1>3 DEF Complete
  <2>3. jobs' \in [TaskId -> [pc : Places, attempt : Nat]]
    BY <2>2 DEF BackgroundTypeOK, Places
  <2>4. QED
    BY <1>3, <2>1, <2>3 DEF Complete, BackgroundTypeOK
<1>4. CASE StoreResult(t)
  <2>1. tasks' \in [TaskId -> Task \cup {None}]
    BY <1>1, <1>4 DEF StoreResult, BackgroundTypeOK, Task
  <2>2. QED
    BY <1>4, <2>1 DEF StoreResult, BackgroundTypeOK, Places
<1>5. CASE HandleError(t)
  <2>1. tasks' \in [TaskId -> Task \cup {None}]
    BY <1>1, <1>5 DEF HandleError, BackgroundTypeOK, Task, TaskStatus
  <2>2. jobs' = [jobs EXCEPT ![t].pc = IF MayRetry(jobs[t].attempt) THEN "call" ELSE "done"]
    BY <1>5 DEF HandleError
  <2>3. jobs' \in [TaskId -> [pc : Places, attempt : Nat]]
    BY <2>2 DEF BackgroundTypeOK, Places
  <2>4. QED
    BY <1>5, <2>1, <2>3 DEF HandleError, BackgroundTypeOK
<1>6. CASE NoteError(t)
  <2>1. tasks' \in [TaskId -> Task \cup {None}]
    BY <1>1, <1>6, Typed DEF NoteError, BackgroundTypeOK, Task
  <2>2. QED
    BY <1>6, <2>1 DEF NoteError, BackgroundTypeOK, Places
<1>7. QED
  BY <1>2, <1>3, <1>4, <1>5, <1>6 DEF JobStep

LEMMA RestartTyped ==
  ASSUME BackgroundTypeOK, Restart
  PROVE  BackgroundTypeOK'
<1>1. queue' \in Seq(TaskId)
  BY DEF Restart, Empty
<1>2. QED
  BY <1>1 DEF BackgroundTypeOK, Places, Restart, Empty, Out, NoJob

-----------------------------------------------------------------------------
(* The steps of submit *)

LEMMA InitShape == Init => ShapeInv
<1> SUFFICES ASSUME Init PROVE ShapeInv
  OBVIOUS
<1>1. Known = {} /\ queue = <<>> /\ \A c \in Callers : calls[c].pc = "out"
  BY DEF Init, Known, Out
<1>2. \A t \in TaskId : jobs[t] = NoJob
  BY DEF Init
<1>3. QED
  BY <1>1, <1>2 DEF ShapeInv, CallersInv, KeysMapped, StoreInv, JobsInv, JobInv, QueueInv,
       OneTaskPerCallerAndKey, RetryCountTellsTheEnd, RetryCountOf, NoJob

LEMMA SubmitShape ==
  ASSUME BackgroundTypeOK, ShapeInv, NEW c \in Callers, NEW k \in Keys \cup {None},
         Submit(c, k)
  PROVE  ShapeInv'
<1> USE DEF ShapeInv
<1>0. CASE Mapped(k)
  <2>1. UNCHANGED <<tasks, calls, idempotency, queue, jobs>>
    BY <1>0 DEF Submit
  <2>2. QED
    BY <2>1 DEF CallersInv, KeysMapped, StoreInv, JobsInv, JobInv, QueueInv, Known,
         OneTaskPerCallerAndKey, RetryCountTellsTheEnd, RetryCountOf
<1> SUFFICES ASSUME ~Mapped(k) PROVE ShapeInv'
  BY <1>0
<1>1. /\ UNCHANGED <<tasks, idempotency, queue, jobs>> /\ Known' = Known
      /\ calls[c].pc = "out"
      /\ calls'[c] = [pc |-> "store", key |-> k, task |-> None]
      /\ \A d \in Callers \ {c} : calls'[d] = calls[d]
  BY DEF Submit, BackgroundTypeOK, Known
<1>2. CallersInv'
  BY <1>1 DEF CallersInv
<1>3. KeysMapped'
  BY <1>1, Typed DEF KeysMapped, Task
<1>4. StoreInv'
  BY <1>1 DEF StoreInv, KeysMapped, Mapped
<1>5. JobsInv' /\ OneTaskPerCallerAndKey' /\ RetryCountTellsTheEnd'
  BY <1>1 DEF JobsInv, JobInv, OneTaskPerCallerAndKey, RetryCountTellsTheEnd, RetryCountOf
<1>6. QueueInv'
  BY <1>1 DEF QueueInv
<1>7. QED
  BY <1>2, <1>3, <1>4, <1>5, <1>6

LEMMA StoreTaskShape ==
  ASSUME BackgroundTypeOK, ShapeInv, NEW c \in Callers, StoreTask(c)
  PROVE  ShapeInv'
<1> USE DEF ShapeInv
<1> PICK t \in TaskId :
       /\ tasks[t] = None
       /\ tasks' = [tasks EXCEPT ![t] = NewTask(c)]
       /\ calls' = [calls EXCEPT ![c] = [@ EXCEPT !.pc = IF calls[c].key = None
                                                         THEN "pool" ELSE "map",
                                                  !.task = t]]
  BY DEF StoreTask
<1>1. /\ UNCHANGED <<idempotency, queue, jobs>> /\ calls[c].pc = "store"
      /\ t \notin Known /\ jobs[t].pc = "none"
  BY DEF StoreTask, Known, JobsInv, JobInv
<1>2. /\ NewTask(c) \in Task
      /\ tasks'[t] = NewTask(c) /\ tasks'[t] # None
      /\ \A u \in TaskId \ {t} : tasks'[u] = tasks[u]
  <2>1. NewTask(c) \in Task
    BY Typed DEF NewTask, Task, TaskStatus
  <2>2. NewTask(c) # None
    BY <2>1, ExecutorAssumption
  <2>3. QED
    BY <2>1, <2>2 DEF BackgroundTypeOK
<1>3. Known' = Known \cup {t}
  BY <1>2 DEF Known
<1>4. /\ calls'[c].key = calls[c].key /\ calls'[c].task = t
      /\ calls'[c].pc = IF calls[c].key = None THEN "pool" ELSE "map"
      /\ \A d \in Callers \ {c} : calls'[d] = calls[d]
  BY Typed DEF BackgroundTypeOK
<1>5. /\ tasks'[t].key = calls[c].key /\ tasks'[t].by = c
      /\ tasks'[t].status = "pending" /\ tasks'[t].retry_count = 0
  BY <1>2 DEF NewTask
<1>6. CallersInv'
  BY <1>1, <1>2, <1>3, <1>4, <1>5 DEF CallersInv, Known
<1>7. KeysMapped'
  <2> SUFFICES ASSUME NEW u \in Known', tasks'[u].key # None, idempotency[tasks'[u].key] = None
               PROVE  calls'[tasks'[u].by].pc = "map" /\ calls'[tasks'[u].by].task = u
    BY <1>1 DEF KeysMapped
  <2>1. CASE u = t
    BY <2>1, <1>4, <1>5
  <2>2. CASE u # t
    <3>1. u \in Known /\ tasks'[u] = tasks[u] /\ tasks[u] \in Task
      BY <2>2, <1>2, <1>3, Typed DEF Known
    <3>2. calls[tasks[u].by].pc = "map" /\ calls[tasks[u].by].task = u
      BY <3>1 DEF KeysMapped
    <3>3. QED
      BY <3>1, <3>2, <1>1, <1>4 DEF Task
  <2>3. QED
    BY <2>1, <2>2
<1>8. StoreInv'
  BY <1>2, <1>3, <1>4, <1>5 DEF StoreInv, Known
<1>9. JobsInv'
  BY <1>1, <1>2, <1>3, <1>5 DEF JobsInv, JobInv, Known
<1>10. QueueInv'
  BY <1>1, <1>2, <1>3, <1>4 DEF QueueInv, Known
<1>11. OneTaskPerCallerAndKey'
  BY <1>1, <1>2, <1>3, <1>5 DEF OneTaskPerCallerAndKey, StoreInv, Known
<1>12. RetryCountTellsTheEnd'
  <2>1. RetryCountOf(t)'
    BY <1>5, ExecutorAssumption DEF RetryCountOf
  <2>2. ASSUME NEW u \in Known PROVE RetryCountOf(u)'
    <3>1. u # t /\ u \in TaskId
      BY <1>1 DEF Known
    <3>2. QED
      BY <1>1, <1>2, <3>1 DEF RetryCountTellsTheEnd, RetryCountOf
  <2>3. QED
    BY <1>3, <2>1, <2>2 DEF RetryCountTellsTheEnd
<1>13. QED
  BY <1>6, <1>7, <1>8, <1>9, <1>10, <1>11, <1>12

LEMMA MapKeyShape ==
  ASSUME BackgroundTypeOK, ShapeInv, NEW c \in Callers, MapKey(c)
  PROVE  ShapeInv'
<1> USE DEF ShapeInv
<1>1. /\ UNCHANGED <<tasks, queue, jobs>> /\ Known' = Known /\ calls[c].pc = "map"
      /\ calls[c].task \in Known /\ calls[c].key \in Keys
      /\ tasks[calls[c].task].by = c /\ tasks[calls[c].task].key = calls[c].key
  BY Typed DEF MapKey, Known, CallersInv
<1>2. /\ calls'[c].pc = "pool" /\ calls'[c].key = calls[c].key
      /\ calls'[c].task = calls[c].task
      /\ \A d \in Callers \ {c} : calls'[d] = calls[d]
  BY Typed DEF MapKey, BackgroundTypeOK
<1>3. /\ idempotency'[calls[c].key] # None
      /\ \A k \in Keys \ {calls[c].key} : idempotency'[k] = idempotency[k]
  BY <1>1, ExecutorAssumption DEF MapKey, BackgroundTypeOK, Known
<1>4. CallersInv'
  BY <1>1, <1>2 DEF CallersInv
<1>5. KeysMapped'
  BY <1>1, <1>2, <1>3, Typed DEF KeysMapped, Task
<1>6. StoreInv' /\ JobsInv' /\ OneTaskPerCallerAndKey' /\ RetryCountTellsTheEnd'
  BY <1>1, <1>2 DEF StoreInv, JobsInv, JobInv, OneTaskPerCallerAndKey,
       RetryCountTellsTheEnd, RetryCountOf
<1>7. QueueInv'
  BY <1>1, <1>2 DEF QueueInv
<1>8. QED
  BY <1>4, <1>5, <1>6, <1>7

LEMMA PoolSubmitShape ==
  ASSUME BackgroundTypeOK, ShapeInv, NEW c \in Callers, PoolSubmit(c)
  PROVE  ShapeInv'
<1> USE DEF ShapeInv
<1> DEFINE t == calls[c].task
<1>1. /\ UNCHANGED <<tasks, idempotency, jobs>> /\ Known' = Known /\ calls[c].pc = "pool"
      /\ t \in Known /\ tasks[t].by = c /\ tasks[t].status = "pending"
      /\ jobs[t].pc = "none"
  BY DEF PoolSubmit, Known, CallersInv
<1>2. /\ calls'[c] = Out
      /\ \A d \in Callers \ {c} : calls'[d] = calls[d]
  BY DEF PoolSubmit, BackgroundTypeOK
<1>3. /\ queue \in Seq(TaskId) /\ Len(queue') = Len(queue) + 1 /\ Len(queue) \in Nat
      /\ queue'[Len(queue) + 1] = t
      /\ \A i \in 1..Len(queue) : queue'[i] = queue[i] /\ queue[i] # t
  BY <1>1 DEF PoolSubmit, BackgroundTypeOK, QueueInv, Known
<1>4. CallersInv' /\ StoreInv'
  BY <1>1, <1>2 DEF CallersInv, StoreInv, Out
<1>5. KeysMapped'
  BY <1>1, <1>2, Typed DEF KeysMapped, Task
<1>6. JobsInv' /\ OneTaskPerCallerAndKey' /\ RetryCountTellsTheEnd'
  BY <1>1 DEF JobsInv, JobInv, OneTaskPerCallerAndKey, RetryCountTellsTheEnd, RetryCountOf
<1>7. QueueInv'
  <2> HIDE DEF t
  <2>1. \A d \in Callers \ {c} : calls[d].pc \in {"map", "pool"} => calls[d].task # t
    BY <1>1 DEF CallersInv
  <2>2. \A i \in 1..Len(queue) + 1 :
          /\ queue'[i] \in Known /\ tasks[queue'[i]].status = "pending"
          /\ jobs[queue'[i]].pc = "none"
    BY <1>1, <1>3 DEF QueueInv
  <2>3. \A i, j \in 1..Len(queue) + 1 : queue'[i] = queue'[j] => i = j
    BY <1>3 DEF QueueInv
  <2>4. \A i \in 1..Len(queue) + 1, d \in Callers :
          calls'[d].pc \in {"map", "pool"} => calls'[d].task # queue'[i]
    BY <1>2, <1>3, <2>1 DEF QueueInv, Out
  <2>5. QED
    BY <1>1, <1>3, <2>2, <2>3, <2>4 DEF QueueInv
<1>8. QED
  BY <1>4, <1>5, <1>6, <1>7

-----------------------------------------------------------------------------
(* The steps of the pool *)

LEMMA TakeTaskShape ==
  ASSUME BackgroundTypeOK, ShapeInv, TakeTask
  PROVE  ShapeInv'
<1> USE DEF ShapeInv
<1>0. Head(queue) \in TaskId
  BY DEF TakeTask, BackgroundTypeOK
<1> PICK t \in TaskId : t = Head(queue)
  BY <1>0
<1>1. /\ UNCHANGED <<idempotency, calls>> /\ queue # <<>> /\ queue \in Seq(TaskId)
      /\ Len(queue) \in Nat /\ 1 \in 1..Len(queue) /\ t = queue[1]
  BY DEF TakeTask, BackgroundTypeOK
<1>2. /\ t \in Known /\ tasks[t] \in Task /\ tasks[t].status = "pending"
      /\ \A c \in Callers : calls[c].pc \in {"map", "pool"} => calls[c].task # t
  BY <1>1, Typed DEF QueueInv
<1>3. /\ Len(queue') = Len(queue) - 1
      /\ \A i \in 1..Len(queue) - 1 : queue'[i] = queue[i + 1] /\ queue'[i] # t
  BY <1>1 DEF TakeTask, QueueInv
<1>4. /\ tasks'[t] = [tasks[t] EXCEPT !.status = "running"]
      /\ \A u \in TaskId \ {t} : tasks'[u] = tasks[u]
      /\ jobs'[t] = [pc |-> "call", attempt |-> 0]
      /\ \A u \in TaskId \ {t} : jobs'[u] = jobs[u]
  BY <1>1 DEF TakeTask, BackgroundTypeOK
<1>5. /\ tasks'[t].key = tasks[t].key /\ tasks'[t].by = tasks[t].by
      /\ tasks'[t].status = "running" /\ tasks'[t].retry_count = tasks[t].retry_count
      /\ tasks'[t] # None
  <2>1. tasks'[t] \in Task
    BY <1>2, <1>4 DEF Task, TaskStatus
  <2>2. QED
    BY <2>1, <1>2, <1>4, ExecutorAssumption DEF Task
<1>6. Known' = Known
  BY <1>2, <1>4, <1>5 DEF Known
<1>7. CallersInv'
  BY <1>1, <1>2, <1>4, <1>6 DEF CallersInv, Known
<1>8. KeysMapped' /\ StoreInv' /\ OneTaskPerCallerAndKey'
  <2>1. \A u \in Known : tasks'[u].key = tasks[u].key /\ tasks'[u].by = tasks[u].by
    BY <1>4, <1>5 DEF Known
  <2>2. KeysMapped'
    BY <2>1, <1>1, <1>6 DEF KeysMapped
  <2>3. StoreInv'
    BY <2>1, <1>1, <1>6 DEF StoreInv
  <2>4. OneTaskPerCallerAndKey'
    BY <2>1, <1>6 DEF OneTaskPerCallerAndKey
  <2>5. QED
    BY <2>2, <2>3, <2>4
<1>9. JobsInv'
  <2>1. JobInv(t)'
    BY <1>2, <1>4, <1>5, <1>6, ExecutorAssumption DEF JobInv
  <2>2. ASSUME NEW u \in TaskId \ {t} PROVE JobInv(u)'
    BY <1>4, <1>6 DEF JobsInv, JobInv
  <2>3. QED
    BY <2>1, <2>2 DEF JobsInv
<1>10. QueueInv'
  <2> SUFFICES ASSUME NEW i \in 1..Len(queue) - 1
               PROVE  /\ queue'[i] \in Known /\ tasks'[queue'[i]].status = "pending"
                      /\ jobs'[queue'[i]].pc = "none"
                      /\ \A j \in 1..Len(queue) - 1 : queue'[i] = queue'[j] => i = j
                      /\ \A c \in Callers :
                           calls[c].pc \in {"map", "pool"} => calls[c].task # queue'[i]
    BY <1>1, <1>3, <1>6 DEF QueueInv
  <2>1. i + 1 \in 1..Len(queue) /\ queue'[i] = queue[i + 1] /\ queue'[i] # t
    BY <1>1, <1>3
  <2>2. queue'[i] \in Known /\ tasks'[queue'[i]] = tasks[queue'[i]]
          /\ jobs'[queue'[i]] = jobs[queue'[i]]
    BY <2>1, <1>4 DEF QueueInv, Known
  <2>3. ASSUME NEW j \in 1..Len(queue) - 1, queue'[i] = queue'[j] PROVE i = j
    <3>1. j + 1 \in 1..Len(queue) /\ queue'[j] = queue[j + 1]
      BY <1>1, <1>3
    <3>2. i + 1 = j + 1
      BY <2>1, <2>3, <3>1 DEF QueueInv
    <3>3. QED
      BY <3>2
  <2>4. QED
    BY <2>1, <2>2, <2>3 DEF QueueInv
<1>11. RetryCountTellsTheEnd'
  <2>1. RetryCountOf(t)'
    BY <1>1, <1>2, <1>5, ExecutorAssumption DEF RetryCountTellsTheEnd, RetryCountOf, QueueInv
  <2>2. ASSUME NEW u \in Known \ {t} PROVE RetryCountOf(u)'
    BY <1>4 DEF RetryCountTellsTheEnd, RetryCountOf, Known
  <2>3. QED
    BY <2>1, <2>2, <1>6 DEF RetryCountTellsTheEnd
<1>12. QED
  BY <1>7, <1>8, <1>9, <1>10, <1>11

\* What a step of the thread that runs t leaves alone is enough for everything
\* but the place of that thread and its counter.
LEMMA JobStepFrame ==
  ASSUME BackgroundTypeOK, ShapeInv, NEW t \in TaskId,
         UNCHANGED <<idempotency, calls, queue>>,
         jobs[t].pc # "none", jobs'[t].pc # "none",
         \A u \in TaskId \ {t} : tasks'[u] = tasks[u] /\ jobs'[u] = jobs[u],
         t \in Known, tasks'[t] # None,
         tasks'[t].key = tasks[t].key, tasks'[t].by = tasks[t].by,
         JobInv(t)', RetryCountOf(t)'
  PROVE  ShapeInv'
<1> USE DEF ShapeInv
<1>1. Known' = Known
  BY DEF Known
<1>2. CallersInv'
  BY <1>1 DEF CallersInv, Known
<1>3. KeysMapped' /\ StoreInv' /\ OneTaskPerCallerAndKey'
  BY <1>1 DEF KeysMapped, StoreInv, OneTaskPerCallerAndKey, Known
<1>4. QueueInv'
  BY <1>1 DEF QueueInv, Known
<1>5. JobsInv'
  <2>1. ASSUME NEW u \in TaskId \ {t} PROVE JobInv(u)'
    BY <1>1 DEF JobsInv, JobInv
  <2>2. QED
    BY <2>1 DEF JobsInv
<1>6. RetryCountTellsTheEnd'
  <2>1. ASSUME NEW u \in Known \ {t} PROVE RetryCountOf(u)'
    BY DEF RetryCountTellsTheEnd, RetryCountOf, Known
  <2>2. QED
    BY <1>1, <2>1 DEF RetryCountTellsTheEnd
<1>7. QED
  BY <1>2, <1>3, <1>4, <1>5, <1>6

LEMMA JobStepShape ==
  ASSUME BackgroundTypeOK, ShapeInv, NEW t \in TaskId, JobStep(t)
  PROVE  ShapeInv'
<1> USE DEF ShapeInv
<1>1. /\ t \in Known /\ tasks[t] \in Task /\ jobs[t].pc # "none"
      /\ jobs[t].attempt \in Nat
      /\ UNCHANGED <<idempotency, calls, queue>>
      /\ \A u \in TaskId \ {t} : tasks'[u] = tasks[u] /\ jobs'[u] = jobs[u]
  <2>1. jobs[t].pc # "none" /\ UNCHANGED <<idempotency, calls, queue>>
    BY DEF JobStep, CallFunction, Complete, StoreResult, NoteError, HandleError
  <2>2. \A u \in TaskId \ {t} : tasks'[u] = tasks[u] /\ jobs'[u] = jobs[u]
    BY DEF JobStep, CallFunction, Complete, StoreResult, NoteError, HandleError, BackgroundTypeOK
  <2>3. QED
    BY <2>1, <2>2, Typed DEF JobsInv, JobInv
<1>2. JobInv(t) /\ RetryCountOf(t) /\ MaxRetries \in Nat
  BY <1>1, ExecutorAssumption DEF JobsInv, RetryCountTellsTheEnd
<1>3. CASE CallFunction(t)
  <2>1. PICK pc \in {"returned", "unprintable", "raised"} :
          jobs' = [jobs EXCEPT ![t] = [pc |-> pc, attempt |-> @.attempt + 1]]
    BY <1>3 DEF CallFunction
  <2>2. /\ jobs[t].pc = "call" /\ tasks' = tasks
        /\ jobs'[t].pc \in {"returned", "unprintable", "raised"}
        /\ jobs'[t].attempt = jobs[t].attempt + 1
    BY <1>3, <2>1 DEF CallFunction, BackgroundTypeOK
  <2>3. JobInv(t)' /\ RetryCountOf(t)'
    BY <1>1, <1>2, <2>2 DEF JobInv, RetryCountOf, Known
  <2>4. QED
    BY <1>1, <2>2, <2>3, JobStepFrame DEF Known
<1>4. CASE Complete(t)
  <2>1. /\ jobs[t].pc \in {"returned", "unprintable"}
        /\ jobs'[t].pc = IF jobs[t].pc = "returned" THEN "result" ELSE "raised"
        /\ jobs'[t].attempt = jobs[t].attempt
        /\ tasks'[t] = [tasks[t] EXCEPT !.status = "completed"]
    BY <1>4, Typed DEF Complete, BackgroundTypeOK
  <2>2. /\ tasks'[t] \in Task /\ tasks'[t].status = "completed"
        /\ tasks'[t].key = tasks[t].key /\ tasks'[t].by = tasks[t].by
        /\ tasks'[t].retry_count = tasks[t].retry_count
    BY <1>1, <2>1 DEF Task, TaskStatus
  <2>3. t \in Known'
    BY <1>1, <2>2, ExecutorAssumption DEF Known
  <2>4. JobInv(t)' /\ RetryCountOf(t)'
    BY <1>2, <2>1, <2>2, <2>3 DEF JobInv, RetryCountOf
  <2>5. QED
    BY <1>1, <2>1, <2>2, <2>3, <2>4, JobStepFrame DEF Known
<1>5. CASE StoreResult(t)
  <2>1. /\ jobs[t].pc = "result" /\ jobs'[t].pc = "done"
        /\ jobs'[t].attempt = jobs[t].attempt
        /\ tasks'[t] = [tasks[t] EXCEPT !.result = TRUE]
    BY <1>5, Typed DEF StoreResult, BackgroundTypeOK
  <2>2. /\ tasks'[t] \in Task /\ tasks'[t].status = tasks[t].status
        /\ tasks'[t].key = tasks[t].key /\ tasks'[t].by = tasks[t].by
        /\ tasks'[t].retry_count = tasks[t].retry_count
    BY <1>1, <2>1 DEF Task
  <2>3. t \in Known'
    BY <1>1, <2>2, ExecutorAssumption DEF Known
  <2>4. JobInv(t)' /\ RetryCountOf(t)'
    BY <1>2, <2>1, <2>2, <2>3 DEF JobInv, RetryCountOf
  <2>5. QED
    BY <1>1, <2>1, <2>2, <2>3, <2>4, JobStepFrame DEF Known
<1>6. CASE NoteError(t)
  <2>1. /\ jobs[t].pc = "raised" /\ jobs'[t].pc = "noted"
        /\ jobs'[t].attempt = jobs[t].attempt
        /\ tasks'[t] = [tasks[t] EXCEPT !.retry_count = jobs[t].attempt]
    BY <1>6, Typed DEF NoteError, BackgroundTypeOK
  <2>2. /\ tasks'[t] \in Task /\ tasks'[t].status = tasks[t].status
        /\ tasks'[t].key = tasks[t].key /\ tasks'[t].by = tasks[t].by
        /\ tasks'[t].retry_count = jobs[t].attempt
    BY <1>1, <2>1 DEF Task
  <2>3. t \in Known'
    BY <1>1, <2>2, ExecutorAssumption DEF Known
  <2>4. JobInv(t)'
    BY <1>2, <2>1, <2>2, <2>3 DEF JobInv
  <2>5. RetryCountOf(t)'
    BY <1>2, <2>1, <2>2 DEF JobInv, RetryCountOf
  <2>6. QED
    BY <1>1, <2>1, <2>2, <2>3, <2>4, <2>5, JobStepFrame DEF Known
<1>7. CASE HandleError(t)
  <2> DEFINE again == MayRetry(jobs[t].attempt)
  <2>1. /\ jobs[t].pc = "noted" /\ jobs'[t].pc = IF again THEN "call" ELSE "done"
        /\ jobs'[t].attempt = jobs[t].attempt
        /\ tasks'[t] = [tasks[t] EXCEPT !.status = IF again THEN "retrying" ELSE "failed"]
    BY <1>7, Typed DEF HandleError, BackgroundTypeOK
  <2>2. /\ tasks'[t] \in Task /\ tasks'[t].status = IF again THEN "retrying" ELSE "failed"
        /\ tasks'[t].key = tasks[t].key /\ tasks'[t].by = tasks[t].by
        /\ tasks'[t].retry_count = tasks[t].retry_count
    BY <1>1, <2>1 DEF Task, TaskStatus
  <2>3. t \in Known'
    BY <1>1, <2>2, ExecutorAssumption DEF Known
  <2>4. jobs[t].attempt \in 1..MaxRetries + 1 /\ tasks[t].retry_count = jobs[t].attempt
    BY <1>2, <2>1 DEF JobInv
  <2>5. JobInv(t)' /\ RetryCountOf(t)'
    BY <1>2, <2>1, <2>2, <2>3, <2>4 DEF JobInv, RetryCountOf, MayRetry
  <2>6. jobs'[t].pc # "none"
    BY <2>1
  <2>7. QED
    BY <1>1, <2>1, <2>2, <2>3, <2>5, <2>6, JobStepFrame DEF Known
<1>8. QED
  BY <1>3, <1>4, <1>5, <1>6, <1>7 DEF JobStep

LEMMA RestartShape ==
  ASSUME Restart
  PROVE  ShapeInv'
<1>1. Known' = {} /\ queue' = <<>> /\ \A c \in Callers : calls'[c].pc = "out"
  BY DEF Restart, Empty, Known, Out
<1>2. \A t \in TaskId : jobs'[t] = NoJob
  BY DEF Restart, Empty
<1>3. QED
  BY <1>1, <1>2 DEF ShapeInv, CallersInv, KeysMapped, StoreInv, JobsInv, JobInv, QueueInv,
       OneTaskPerCallerAndKey, RetryCountTellsTheEnd, RetryCountOf, NoJob

-----------------------------------------------------------------------------
\* BackgroundInv is inductive.
LEMMA BackgroundNext == BackgroundInv /\ [Next]_vars => BackgroundInv'
<1> SUFFICES ASSUME BackgroundTypeOK, ShapeInv, [Next]_vars
             PROVE  BackgroundTypeOK' /\ ShapeInv'
  BY DEF BackgroundInv, ShapeInv
<1>2. CallersInv /\ JobsInv /\ QueueInv
  BY DEF ShapeInv
<1>3. ASSUME NEW c \in Callers, CallerStep(c)
      PROVE  BackgroundTypeOK' /\ ShapeInv'
  BY <1>2, <1>3, StoreTaskTyped, StoreTaskShape, MapKeyTyped, MapKeyShape,
     PoolSubmitTyped, PoolSubmitShape DEF CallerStep
<1>4. ASSUME NEW c \in Callers, NEW k \in Keys \cup {None}, Submit(c, k)
      PROVE  BackgroundTypeOK' /\ ShapeInv'
  BY <1>4, SubmitTyped, SubmitShape
<1>5. CASE TakeTask
  BY <1>2, <1>5, TakeTaskTyped, TakeTaskShape
<1>6. ASSUME NEW t \in TaskId, JobStep(t)
      PROVE  BackgroundTypeOK' /\ ShapeInv'
  BY <1>2, <1>6, JobStepTyped, JobStepShape
<1>7. CASE Restart
  BY <1>7, RestartTyped, RestartShape
<1>8. CASE UNCHANGED vars
  BY <1>8 DEF vars, memory, BackgroundTypeOK, ShapeInv, CallersInv, KeysMapped, StoreInv,
       JobsInv, JobInv, QueueInv, OneTaskPerCallerAndKey, RetryCountTellsTheEnd,
       RetryCountOf, Known
<1> QED BY <1>3, <1>4, <1>5, <1>6, <1>7, <1>8 DEF Next

\* BackgroundInv holds in every reachable state: a caller gets one task for a key
\* however often it submits it, no task is queued twice or run by two threads,
\* and a task that failed shows a counter beyond max_retries, which no task that can
\* still be tried shows.
THEOREM BackgroundSafe == Spec => []BackgroundInv
<1>1. Init => BackgroundInv
  BY InitTyped, InitShape DEF BackgroundInv, ShapeInv
<1> QED BY <1>1, BackgroundNext, PTL DEF Spec

-----------------------------------------------------------------------------
(* The refinement *)

\* The abstract state of a task, before and after a step.
LEMMA LifeCases ==
  ASSUME NEW t \in TaskId
  PROVE  /\ tasks[t] = None => LifeOf(t) = "absent"
         /\ tasks[t] # None /\ jobs[t].pc = "none" => LifeOf(t) = "waiting"
         /\ tasks[t] # None /\ jobs[t].pc \in {"call", "unprintable", "raised", "noted"}
              => LifeOf(t) = "working"
         /\ tasks[t] # None /\ jobs[t].pc = "returned" => LifeOf(t) = "returned"
         /\ tasks[t] # None /\ jobs[t].pc \in {"result", "done"} => LifeOf(t) = tasks[t].status
BY DEF LifeOf

LEMMA LifeCasesNext ==
  ASSUME NEW t \in TaskId
  PROVE  /\ tasks'[t] = None => LifeOf(t)' = "absent"
         /\ tasks'[t] # None /\ jobs'[t].pc = "none" => LifeOf(t)' = "waiting"
         /\ tasks'[t] # None /\ jobs'[t].pc \in {"call", "unprintable", "raised", "noted"}
              => LifeOf(t)' = "working"
         /\ tasks'[t] # None /\ jobs'[t].pc = "returned" => LifeOf(t)' = "returned"
         /\ tasks'[t] # None /\ jobs'[t].pc \in {"result", "done"}
              => LifeOf(t)' = tasks'[t].status
BY DEF LifeOf

\* A step that changes the record or the thread of t only updates the abstract
\* state at t only.
LEMMA OneTaskMoves ==
  ASSUME NEW t \in TaskId,
         \A u \in TaskId \ {t} : tasks'[u] = tasks[u] /\ jobs'[u] = jobs[u]
  PROVE  /\ Lives' = [Lives EXCEPT ![t] = LifeOf(t)']
         /\ Tries' = [Tries EXCEPT ![t] = jobs'[t].attempt]
         /\ Lives[t] = LifeOf(t) /\ Tries[t] = jobs[t].attempt
         /\ (LifeOf(t)' = LifeOf(t) => Lives' = Lives)
         /\ (jobs'[t].attempt = jobs[t].attempt => Tries' = Tries)
<1>1. \A u \in TaskId \ {t} : LifeOf(u)' = LifeOf(u) /\ jobs'[u].attempt = jobs[u].attempt
  BY DEF LifeOf
<1>2. QED
  BY <1>1 DEF Lives, Tries

LEMMA InitMaps == Init => Life!Init
<1> SUFFICES ASSUME Init PROVE Life!Init
  OBVIOUS
<1>1. \A t \in TaskId : LifeOf(t) = "absent" /\ jobs[t].attempt = 0
  BY LifeCases DEF Init, NoJob
<1>2. QED
  BY <1>1 DEF Life!Init, Lives, Tries

LEMMA StoreTaskMaps ==
  ASSUME BackgroundInv, NEW c \in Callers, StoreTask(c)
  PROVE  Life!Next
<1> PICK t \in TaskId : tasks[t] = None /\ tasks' = [tasks EXCEPT ![t] = NewTask(c)]
  BY DEF StoreTask
<1>1. jobs' = jobs /\ jobs[t].pc = "none"
  BY DEF StoreTask, BackgroundInv, JobsInv, JobInv, Known
<1>2. NewTask(c) # None
  <2>1. BackgroundTypeOK
    BY DEF BackgroundInv
  <2>2. NewTask(c) \in Task
    BY <2>1, Typed DEF NewTask, Task, TaskStatus
  <2>3. QED
    BY <2>2, ExecutorAssumption
<1>3. tasks'[t] # None /\ \A u \in TaskId \ {t} : tasks'[u] = tasks[u]
  BY <1>2 DEF BackgroundInv, BackgroundTypeOK
<1>4. LifeOf(t) = "absent" /\ LifeOf(t)' = "waiting"
  BY <1>1, <1>3, LifeCases, LifeCasesNext
<1>5. Life!Accept(t)
  BY <1>1, <1>3, <1>4, OneTaskMoves DEF Life!Accept
<1>6. QED
  BY <1>5 DEF Life!Next

LEMMA TakeTaskMaps ==
  ASSUME BackgroundInv, TakeTask
  PROVE  Life!Next
<1>0. queue # <<>> /\ Head(queue) = queue[1] /\ 1 \in 1..Len(queue) /\ Head(queue) \in TaskId
  BY DEF TakeTask, BackgroundInv, BackgroundTypeOK
<1> PICK t \in TaskId : t = Head(queue)
  BY <1>0
<1>1. tasks[t] # None /\ tasks[t] \in Task /\ jobs[t].pc = "none" /\ jobs[t].attempt = 0
  BY <1>0, Typed DEF BackgroundInv, QueueInv, JobsInv, JobInv, Known
<1>2. /\ tasks'[t] = [tasks[t] EXCEPT !.status = "running"]
      /\ jobs'[t] = [pc |-> "call", attempt |-> 0]
      /\ \A u \in TaskId \ {t} : tasks'[u] = tasks[u] /\ jobs'[u] = jobs[u]
  BY DEF TakeTask, BackgroundInv, BackgroundTypeOK
<1>3. tasks'[t] # None
  <2>1. tasks'[t] \in Task
    BY <1>1, <1>2 DEF Task, TaskStatus
  <2>2. QED
    BY <2>1, ExecutorAssumption
<1>4. LifeOf(t) = "waiting" /\ LifeOf(t)' = "working"
  BY <1>1, <1>2, <1>3, LifeCases, LifeCasesNext
<1>5. Life!Begin(t)
  BY <1>1, <1>2, <1>4, OneTaskMoves DEF Life!Begin
<1>6. QED
  BY <1>5 DEF Life!Next

LEMMA JobStepMaps ==
  ASSUME BackgroundInv, NEW t \in TaskId, JobStep(t)
  PROVE  Life!Next \/ UNCHANGED Life!vars
<1>1. /\ tasks[t] # None /\ tasks[t] \in Task
      /\ jobs[t].pc \in Places \ {"none", "done"}
      /\ jobs[t].attempt \in Nat /\ JobInv(t) /\ MaxRetries \in Nat
  <2>1. jobs[t].pc \in Places \ {"none", "done"} /\ JobInv(t)
    BY DEF JobStep, CallFunction, Complete, StoreResult, NoteError, HandleError, BackgroundInv, JobsInv,
           Places
  <2>2. t \in Known
    BY <2>1 DEF JobInv
  <2>3. QED
    BY <2>1, <2>2, Typed, ExecutorAssumption DEF BackgroundInv, Known
<1>2. \A u \in TaskId \ {t} : tasks'[u] = tasks[u] /\ jobs'[u] = jobs[u]
  BY DEF JobStep, CallFunction, Complete, StoreResult, NoteError, HandleError, BackgroundInv,
         BackgroundTypeOK
<1>3. CASE CallFunction(t)
  <2>1. PICK pc \in {"returned", "unprintable", "raised"} :
          jobs' = [jobs EXCEPT ![t] = [pc |-> pc, attempt |-> @.attempt + 1]]
    BY <1>3 DEF CallFunction
  <2>2. /\ jobs[t].pc = "call" /\ tasks' = tasks /\ jobs[t].attempt <= MaxRetries
        /\ jobs'[t].pc = pc /\ jobs'[t].attempt = jobs[t].attempt + 1
    BY <1>1, <1>3, <2>1 DEF CallFunction, BackgroundInv, BackgroundTypeOK, JobInv
  <2>3. LifeOf(t) = "working" /\ LifeOf(t)' = IF pc = "returned" THEN "returned" ELSE "working"
    BY <1>1, <2>1, <2>2, LifeCases, LifeCasesNext
  <2>4. jobs[t].attempt < MaxRetries + 1
    BY <1>1, <2>2
  <2>5. Life!Try(t)
    BY <1>2, <2>2, <2>3, <2>4, OneTaskMoves DEF Life!Try
  <2>6. QED
    BY <2>5 DEF Life!Next
<1>4. CASE Complete(t)
  <2>1. /\ jobs[t].pc \in {"returned", "unprintable"}
        /\ jobs'[t].pc = IF jobs[t].pc = "returned" THEN "result" ELSE "raised"
        /\ jobs'[t].attempt = jobs[t].attempt
        /\ tasks'[t] = [tasks[t] EXCEPT !.status = "completed"]
    BY <1>4, Typed DEF Complete, BackgroundInv, BackgroundTypeOK
  <2>2. tasks'[t] \in Task /\ tasks'[t].status = "completed"
    BY <1>1, <2>1 DEF Task, TaskStatus
  <2>3. tasks'[t] # None
    BY <2>2, ExecutorAssumption
  <2>4. CASE jobs[t].pc = "returned"
    <3>1. LifeOf(t) = "returned" /\ LifeOf(t)' = "completed"
      BY <1>1, <2>1, <2>2, <2>3, <2>4, LifeCases, LifeCasesNext
    <3>2. Life!Complete(t)
      BY <1>2, <2>1, <3>1, OneTaskMoves DEF Life!Complete
    <3>3. QED
      BY <3>2 DEF Life!Next
  <2>5. CASE jobs[t].pc = "unprintable"
    <3>1. LifeOf(t) = "working" /\ LifeOf(t)' = "working"
      BY <1>1, <2>1, <2>3, <2>5, LifeCases, LifeCasesNext
    <3>2. QED
      BY <1>2, <2>1, <3>1, OneTaskMoves DEF Life!vars
  <2>6. QED
    BY <2>1, <2>4, <2>5
<1>5. CASE StoreResult(t)
  <2>1. /\ jobs[t].pc = "result" /\ jobs'[t].pc = "done"
        /\ jobs'[t].attempt = jobs[t].attempt
        /\ tasks'[t] = [tasks[t] EXCEPT !.result = TRUE]
    BY <1>5, Typed DEF StoreResult, BackgroundInv, BackgroundTypeOK
  <2>2. tasks'[t] \in Task /\ tasks'[t].status = tasks[t].status
    BY <1>1, <2>1 DEF Task
  <2>3. LifeOf(t)' = LifeOf(t)
    <3>1. tasks'[t] # None
      BY <2>2, ExecutorAssumption
    <3>2. LifeOf(t) = tasks[t].status
      BY <1>1, <2>1, LifeCases
    <3>3. LifeOf(t)' = tasks'[t].status
      BY <3>1, <2>1, LifeCasesNext
    <3>4. QED
      BY <2>2, <3>2, <3>3
  <2>4. QED
    BY <1>2, <2>1, <2>3, OneTaskMoves DEF Life!vars
<1>6. CASE NoteError(t)
  <2>1. /\ jobs[t].pc = "raised" /\ jobs'[t].pc = "noted"
        /\ jobs'[t].attempt = jobs[t].attempt
        /\ tasks'[t] = [tasks[t] EXCEPT !.retry_count = jobs[t].attempt]
    BY <1>6, Typed DEF NoteError, BackgroundInv, BackgroundTypeOK
  <2>2. tasks'[t] # None
    <3>1. tasks'[t] \in Task
      BY <1>1, <2>1 DEF Task
    <3>2. QED
      BY <3>1, ExecutorAssumption
  <2>3. LifeOf(t) = "working" /\ LifeOf(t)' = "working"
    BY <1>1, <2>1, <2>2, LifeCases, LifeCasesNext
  <2>4. QED
    BY <1>2, <2>1, <2>3, OneTaskMoves DEF Life!vars
<1>7. CASE HandleError(t)
  <2> DEFINE again == MayRetry(jobs[t].attempt)
  <2>1. /\ jobs[t].pc = "noted" /\ jobs'[t].pc = IF again THEN "call" ELSE "done"
        /\ jobs'[t].attempt = jobs[t].attempt
        /\ tasks'[t] = [tasks[t] EXCEPT !.status = IF again THEN "retrying" ELSE "failed"]
    BY <1>7, Typed DEF HandleError, BackgroundInv, BackgroundTypeOK
  <2>2. /\ tasks'[t] \in Task /\ tasks'[t].status = IF again THEN "retrying" ELSE "failed"
        /\ jobs[t].attempt \in 1..MaxRetries + 1
    BY <1>1, <2>1 DEF Task, TaskStatus, JobInv
  <2>3. LifeOf(t) = "working" /\ LifeOf(t)' = IF again THEN "working" ELSE "failed"
    BY <1>1, <2>1, <2>2, LifeCases, LifeCasesNext, ExecutorAssumption
  <2>4. CASE again
    BY <1>2, <2>1, <2>3, <2>4, OneTaskMoves DEF Life!vars
  <2>5. CASE ~again
    <3>1. jobs[t].attempt = MaxRetries + 1
      BY <1>1, <2>2, <2>5 DEF MayRetry
    <3>2. Life!GiveUp(t)
      BY <1>2, <2>1, <2>3, <2>5, <3>1, OneTaskMoves DEF Life!GiveUp
    <3>3. QED
      BY <3>2 DEF Life!Next
  <2>6. QED
    BY <2>4, <2>5
<1>8. QED
  BY <1>3, <1>4, <1>5, <1>6, <1>7 DEF JobStep

LEMMA RestartMaps == Restart => Life!Next
<1> SUFFICES ASSUME Restart PROVE Life!Next
  OBVIOUS
<1>1. \A t \in TaskId : LifeOf(t)' = "absent" /\ jobs'[t].attempt = 0
  BY LifeCasesNext DEF Restart, Empty, NoJob
<1>2. Life!Forget
  BY <1>1 DEF Life!Forget, Lives, Tries
<1>3. QED
  BY <1>2 DEF Life!Next

\* The executor implements the life of a task: however submissions race and
\* restarts fall, no try begins after one that returned, a task fails only when
\* max_retries + 1 tries raised, and the end of a task is final.
THEOREM ExecutorImplementsTaskLife == Spec => ImplementsTaskLife
<1>1. Init => Life!Init
  BY InitMaps
<1>2. BackgroundInv /\ [Next]_vars => [Life!Next]_(Life!vars)
  <2> SUFFICES ASSUME BackgroundInv, [Next]_vars PROVE Life!Next \/ UNCHANGED Life!vars
    OBVIOUS
  <2>1. UNCHANGED <<tasks, jobs>> => UNCHANGED Life!vars
    <3> SUFFICES ASSUME UNCHANGED <<tasks, jobs>> PROVE UNCHANGED Life!vars
      OBVIOUS
    <3>1. \A u \in TaskId : LifeOf(u)' = LifeOf(u)
      BY DEF LifeOf
    <3>2. QED
      BY <3>1 DEF Life!vars, Lives, Tries
  <2>2. ASSUME NEW c \in Callers, CallerStep(c)
        PROVE  Life!Next \/ UNCHANGED Life!vars
    BY <2>1, <2>2, StoreTaskMaps DEF CallerStep, MapKey, PoolSubmit
  <2>3. ASSUME NEW c \in Callers, NEW k \in Keys \cup {None}, Submit(c, k)
        PROVE  UNCHANGED Life!vars
    BY <2>1, <2>3 DEF Submit
  <2>4. ASSUME NEW t \in TaskId, JobStep(t)
        PROVE  Life!Next \/ UNCHANGED Life!vars
    BY <2>4, JobStepMaps
  <2>5. CASE UNCHANGED vars
    BY <2>1, <2>5 DEF vars, memory
  <2>6. QED
    BY <2>2, <2>3, <2>4, <2>5, TakeTaskMaps, RestartMaps DEF Next
<1>3. QED
  BY <1>1, <1>2, BackgroundSafe, PTL DEF Spec, ImplementsTaskLife, Life!Spec

-----------------------------------------------------------------------------
(* The work of a key *)

\* The attempts of the process' present life for key k: the i-th one of the task
\* that caller c submitted.
Used(k) ==
  {a \in Callers \X (1 .. MaxRetries + 1) :
     \E t \in TasksOf(k) : tasks[t].by = a[1] /\ a[2] <= jobs[t].attempt}

\* What each life of the process can add.
PerLife == Cardinality(Callers) * (MaxRetries + 1)

\* Every effect is an attempt of this life or of an earlier one.
EffectsInv ==
  \A k \in Keys : effects[k] <= restarts * PerLife + Cardinality(Used(k))

\* The attempts of one life are bounded.
LEMMA UsedBounded ==
  ASSUME NEW k \in Keys
  PROVE  /\ IsFiniteSet(Used(k)) /\ Cardinality(Used(k)) \in Nat /\ PerLife \in Nat
         /\ Cardinality(Used(k)) <= PerLife
<1> DEFINE I == 1 .. MaxRetries + 1
<1>1. MaxRetries \in Nat /\ Cardinality(Callers) \in Nat
  BY ExecutorAssumption, CallersAssumption, FS_CardinalityType
<1>2. IsFiniteSet(I) /\ Cardinality(I) = MaxRetries + 1
  BY <1>1, FS_Interval
<1>3. IsFiniteSet(Callers \X I) /\ Cardinality(Callers \X I) = PerLife
  BY <1>2, CallersAssumption, FS_Product DEF PerLife
<1>4. Used(k) \subseteq Callers \X I
  BY DEF Used
<1>5. PerLife \in Nat
  BY <1>1 DEF PerLife
<1> HIDE DEF I
<1> QED BY <1>3, <1>4, <1>5, FS_Subset, FS_CardinalityType

LEMMA UsedBoundedNext ==
  ASSUME NEW k \in Keys
  PROVE  /\ IsFiniteSet(Used(k)') /\ Cardinality(Used(k)') \in Nat
         /\ Cardinality(Used(k)') <= PerLife
<1> DEFINE I == 1 .. MaxRetries + 1
<1>1. MaxRetries \in Nat /\ Cardinality(Callers) \in Nat
  BY ExecutorAssumption, CallersAssumption, FS_CardinalityType
<1>2. IsFiniteSet(I) /\ Cardinality(I) = MaxRetries + 1
  BY <1>1, FS_Interval
<1>3. IsFiniteSet(Callers \X I) /\ Cardinality(Callers \X I) = PerLife
  BY <1>2, CallersAssumption, FS_Product DEF PerLife
<1>4. Used(k)' \subseteq Callers \X I
  BY DEF Used
<1> HIDE DEF I
<1> QED BY <1>3, <1>4, FS_Subset, FS_CardinalityType

\* A step takes no attempt back, unless the process restarts.
LEMMA AttemptsStay ==
  ASSUME BackgroundInv, [Next]_vars, ~Restart
  PROVE  \A t \in Known : /\ t \in Known'
                          /\ tasks'[t].key = tasks[t].key /\ tasks'[t].by = tasks[t].by
                          /\ jobs'[t].attempt >= jobs[t].attempt
<1>0. BackgroundTypeOK /\ JobsInv /\ QueueInv
  BY DEF BackgroundInv
<1>1. CASE UNCHANGED <<tasks, jobs>>
  <2>1. \A t \in TaskId : jobs[t].attempt \in Nat
    BY <1>0, Typed
  <2> QED BY <1>1, <2>1 DEF Known
<1>2. ASSUME NEW c \in Callers, StoreTask(c)
      PROVE  \A t \in Known : tasks'[t] = tasks[t] /\ jobs'[t] = jobs[t]
  BY <1>0, <1>2 DEF StoreTask, BackgroundTypeOK, Known
<1>3. CASE TakeTask
  <2> DEFINE u == Head(queue)
  <2>1. u = queue[1] /\ 1 \in 1 .. Len(queue)
    BY <1>0, <1>3 DEF TakeTask, BackgroundTypeOK
  <2>2. u \in Known /\ jobs[u].pc = "none" /\ jobs[u].attempt = 0
    BY <1>0, <2>1 DEF QueueInv, JobsInv, JobInv, Known
  <2>3. \A t \in Known : /\ tasks'[t] = IF t = u THEN [tasks[t] EXCEPT !.status = "running"]
                                        ELSE tasks[t]
                         /\ jobs'[t].attempt = IF t = u THEN 0 ELSE jobs[t].attempt
    BY <1>0, <1>3 DEF TakeTask, BackgroundTypeOK, Known
  <2>4. \A t \in Known : tasks[t] \in Task /\ jobs[t].attempt \in Nat
    BY <1>0, Typed DEF Known
  <2> HIDE DEF u
  <2>5. \A t \in Known : /\ tasks'[t] \in Task
                         /\ tasks'[t].key = tasks[t].key /\ tasks'[t].by = tasks[t].by
    <3> SUFFICES ASSUME NEW t \in Known
                 PROVE  /\ tasks'[t] \in Task
                        /\ tasks'[t].key = tasks[t].key /\ tasks'[t].by = tasks[t].by
      OBVIOUS
    <3>1. tasks[t] \in Task
      BY <2>4
    <3>2. CASE t = u
      <4>1. tasks'[t] = [tasks[t] EXCEPT !.status = "running"]
        BY <2>3, <3>2
      <4> QED BY <3>1, <4>1 DEF Task, TaskStatus
    <3>3. CASE t # u
      BY <2>3, <3>1, <3>3
    <3> QED BY <3>2, <3>3
  <2>6. \A t \in Known : jobs'[t].attempt = IF t = u THEN 0 ELSE jobs[t].attempt
    BY <2>3
  <2>7. \A t \in Known : jobs[t].attempt \in Nat
    BY <2>4
  <2>8. \A t \in Known : jobs'[t].attempt >= jobs[t].attempt
    BY ONLY <2>2, <2>6, <2>7
  <2> QED BY <2>5, <2>8, ExecutorAssumption DEF Known
<1>4. ASSUME NEW t \in TaskId, JobStep(t)
      PROVE  /\ \A u \in TaskId \ {t} : tasks'[u] = tasks[u] /\ jobs'[u] = jobs[u]
             /\ t \in Known /\ tasks'[t] \in Task
             /\ tasks'[t].key = tasks[t].key /\ tasks'[t].by = tasks[t].by
             /\ jobs'[t].attempt >= jobs[t].attempt
  <2>1. \A u \in TaskId \ {t} : tasks'[u] = tasks[u] /\ jobs'[u] = jobs[u]
    BY <1>0, <1>4 DEF JobStep, CallFunction, Complete, StoreResult, NoteError, HandleError, BackgroundTypeOK
  <2>2. t \in Known /\ tasks[t] \in Task /\ jobs[t].attempt \in Nat
    <3>1. jobs[t].pc # "none"
      BY <1>4 DEF JobStep, CallFunction, Complete, StoreResult, NoteError, HandleError
    <3> QED BY <1>0, <3>1, Typed DEF JobsInv, JobInv
  <2>3. tasks'[t] \in Task /\ tasks'[t].key = tasks[t].key /\ tasks'[t].by = tasks[t].by
    <3>1. CASE CallFunction(t)
      BY <2>2, <3>1 DEF CallFunction
    <3>2. CASE Complete(t)
      BY <1>0, <2>2, <3>2 DEF Complete, BackgroundTypeOK, Task, TaskStatus
    <3>3. CASE StoreResult(t)
      BY <1>0, <2>2, <3>3 DEF StoreResult, BackgroundTypeOK, Task, TaskStatus
    <3>4. CASE NoteError(t)
      <4>1. tasks'[t] = [tasks[t] EXCEPT !.retry_count = jobs[t].attempt]
        BY <1>0, <3>4 DEF NoteError, BackgroundTypeOK
      <4> QED BY <2>2, <4>1 DEF Task
    <3>5. CASE HandleError(t)
      <4>1. tasks'[t] = [tasks[t] EXCEPT !.status = IF MayRetry(jobs[t].attempt)
                                                    THEN "retrying" ELSE "failed"]
        BY <1>0, <3>5 DEF HandleError, BackgroundTypeOK
      <4> QED BY <2>2, <4>1 DEF Task, TaskStatus
    <3> QED BY <1>4, <3>1, <3>2, <3>3, <3>4, <3>5 DEF JobStep
  <2>4. jobs'[t].attempt \in {jobs[t].attempt, jobs[t].attempt + 1}
    BY <1>0, <1>4
       DEF JobStep, CallFunction, Complete, StoreResult, NoteError, HandleError, BackgroundTypeOK
  <2> QED BY <2>1, <2>2, <2>3, <2>4
<1>5. \A t \in TaskId : jobs[t].attempt \in Nat
  BY <1>0, Typed
<1>6. CASE \E c \in Callers : StoreTask(c)
  BY <1>2, <1>5, <1>6 DEF Known
<1>7. CASE \E t \in TaskId : JobStep(t)
  BY <1>4, <1>5, <1>7, ExecutorAssumption DEF Known
<1>8. CASE \E c \in Callers : MapKey(c) \/ PoolSubmit(c) \/ \E k \in Keys \cup {None} : Submit(c, k)
  BY <1>1, <1>8 DEF MapKey, PoolSubmit, Submit
<1>9. CASE UNCHANGED vars
  BY <1>1, <1>9 DEF vars, memory
<1> QED BY <1>3, <1>6, <1>7, <1>8, <1>9 DEF Next, CallerStep

\* So what was used stays used.
LEMMA UsedStays ==
  ASSUME BackgroundInv, [Next]_vars, ~Restart, NEW k \in Keys
  PROVE  Used(k) \subseteq Used(k)'
<1> SUFFICES ASSUME NEW a \in Used(k) PROVE a \in Used(k)'
  OBVIOUS
<1>1. PICK t \in TasksOf(k) : tasks[t].by = a[1] /\ a[2] <= jobs[t].attempt
  BY DEF Used
<1>2. /\ t \in Known' /\ tasks'[t].key = k /\ tasks'[t].by = a[1]
      /\ jobs'[t].attempt >= jobs[t].attempt
  BY <1>1, AttemptsStay DEF TasksOf
<1>3. jobs[t].attempt \in Nat /\ jobs'[t].attempt \in Nat
  <2>1. BackgroundTypeOK /\ BackgroundTypeOK'
    BY BackgroundNext DEF BackgroundInv
  <2> QED BY <1>1, <2>1 DEF TasksOf, Known, BackgroundTypeOK
<1>4. a \in Callers \X (1 .. MaxRetries + 1) /\ a[2] \in Nat
  BY DEF Used
<1>5. a[2] <= jobs'[t].attempt
  BY <1>1, <1>2, <1>3, <1>4
<1> QED BY <1>2, <1>4, <1>5 DEF Used, TasksOf

\* One more in a set.
LEMMA OneMoreUsed ==
  ASSUME NEW S, NEW T, IsFiniteSet(T), S \subseteq T, NEW e \in T \ S
  PROVE  Cardinality(S) + 1 <= Cardinality(T)
<1>1. IsFiniteSet(S) /\ IsFiniteSet(S \cup {e})
  BY FS_Subset, FS_AddElement
<1>2. Cardinality(S \cup {e}) = Cardinality(S) + 1 /\ Cardinality(S) \in Nat
  BY <1>1, FS_AddElement, FS_CardinalityType
<1>3. Cardinality(S \cup {e}) <= Cardinality(T)
  BY FS_Subset
<1> QED BY <1>2, <1>3

\* A function that is called uses an attempt that was not used before: the caller
\* has no other task for the key.
LEMMA CallUses ==
  ASSUME BackgroundInv, NEW t \in TaskId, CallFunction(t), NEW k \in Keys,
         effects'[k] # effects[k]
  PROVE  effects'[k] = effects[k] + 1 /\ \E a : a \in Used(k)' \ Used(k)
<1>0. BackgroundTypeOK /\ JobsInv /\ OneTaskPerCallerAndKey
  BY DEF BackgroundInv
<1>1. /\ jobs[t].pc = "call" /\ tasks' = tasks /\ jobs'[t].attempt = jobs[t].attempt + 1
      /\ tasks[t].key = k /\ effects'[k] = effects[k] + 1
  BY <1>0 DEF CallFunction, BackgroundTypeOK
<1>2. /\ t \in TasksOf(k) /\ jobs[t].attempt \in Nat /\ jobs[t].attempt <= MaxRetries
      /\ tasks[t].by \in Callers
  <2>1. t \in Known /\ jobs[t].attempt <= MaxRetries
    BY <1>0, <1>1 DEF JobsInv, JobInv
  <2> QED BY <1>0, <1>1, <2>1, Typed DEF TasksOf, Task
<1> DEFINE i == jobs[t].attempt + 1
           a == <<tasks[t].by, i>>
<1>3. a \in Callers \X (1 .. MaxRetries + 1)
  BY <1>2, ExecutorAssumption
<1>4. a \in Used(k)'
  <2>1. t \in TasksOf(k)' /\ tasks'[t].by = a[1] /\ a[2] <= jobs'[t].attempt
    BY <1>1, <1>2 DEF TasksOf, Known
  <2> HIDE DEF a
  <2> QED BY <1>3, <2>1 DEF Used
<1>5. a \notin Used(k)
  <2> SUFFICES ASSUME NEW u \in TasksOf(k), tasks[u].by = tasks[t].by, i <= jobs[u].attempt
               PROVE  FALSE
    BY DEF Used
  <2>1. u = t
    BY <1>0, <1>2, ExecutorAssumption DEF OneTaskPerCallerAndKey, TasksOf
  <2> QED BY <1>2, <2>1
<1> QED BY <1>1, <1>4, <1>5

\* The effects of a key are bounded by the attempts of its tasks, of which each
\* caller has one in each life of the process, although its function may raise
\* after it took effect and be tried again.
THEOREM EffectsAlwaysBounded == Spec => []EffectsBounded
<1>1. Init => EffectsInv
  <2> SUFFICES ASSUME Init, NEW k \in Keys
               PROVE  effects[k] <= restarts * PerLife + Cardinality(Used(k))
    BY DEF EffectsInv
  <2>1. effects[k] = 0 /\ restarts = 0
    BY DEF Init
  <2> QED BY <2>1, UsedBounded
<1>2. ASSUME BackgroundInv, EffectsInv, [Next]_vars PROVE EffectsInv'
  <2> SUFFICES ASSUME NEW k \in Keys
               PROVE  effects'[k] <= restarts' * PerLife + Cardinality(Used(k)')
    BY DEF EffectsInv, PerLife
  <2>0. /\ effects[k] \in Nat /\ restarts \in Nat /\ PerLife \in Nat
        /\ effects[k] <= restarts * PerLife + Cardinality(Used(k))
    BY <1>2, UsedBounded DEF BackgroundInv, BackgroundTypeOK, EffectsInv
  <2>1. PICK m \in Nat, n \in Nat : /\ m = Cardinality(Used(k)) /\ n = Cardinality(Used(k)')
                                    /\ m <= PerLife
    BY UsedBounded, UsedBoundedNext
  <2>2. CASE Restart
    <3>1. effects'[k] = effects[k] /\ restarts' = restarts + 1
      BY <2>2 DEF Restart
    <3>2. (restarts + 1) * PerLife = restarts * PerLife + PerLife /\ restarts * PerLife \in Nat
      BY <2>0
    <3> QED BY <2>0, <2>1, <3>1, <3>2
  <2>3. CASE ~Restart /\ effects'[k] = effects[k]
    <3>1. restarts' = restarts
      BY <1>2, <2>3 DEF Next, CallerStep, StoreTask, MapKey, PoolSubmit, Submit, TakeTask,
                        JobStep, CallFunction, Complete, StoreResult, NoteError, HandleError, vars
    <3>2. m <= n
      <4>1. Used(k) \subseteq Used(k)'
        BY <1>2, <2>3, UsedStays
      <4> QED BY <2>1, <4>1, UsedBoundedNext, FS_Subset
    <3>3. restarts * PerLife \in Nat
      BY <2>0
    <3> QED BY <2>0, <2>1, <2>3, <3>1, <3>2, <3>3
  <2>4. CASE ~Restart /\ effects'[k] # effects[k]
    <3>1. PICK t \in TaskId : CallFunction(t)
      BY <1>2, <2>4 DEF Next, CallerStep, StoreTask, MapKey, PoolSubmit, Submit, TakeTask,
                        JobStep, Complete, StoreResult, NoteError, HandleError, vars
    <3>2. restarts' = restarts
      BY <3>1 DEF CallFunction
    <3>3. PICK a : a \in Used(k)' \ Used(k) /\ effects'[k] = effects[k] + 1
      BY <1>2, <2>4, <3>1, CallUses
    <3>4. m + 1 <= n
      <4>1. Used(k) \subseteq Used(k)'
        BY <1>2, <2>4, UsedStays
      <4> QED BY <2>1, <3>3, <4>1, UsedBoundedNext, OneMoreUsed
    <3>5. restarts * PerLife \in Nat
      BY <2>0
    <3> QED BY <2>0, <2>1, <3>2, <3>3, <3>4, <3>5
  <2> QED BY <2>2, <2>3, <2>4
<1>3. ASSUME BackgroundInv, EffectsInv PROVE EffectsBounded
  <2> SUFFICES ASSUME NEW k \in Keys
               PROVE  effects[k] <= PerLife * (restarts + 1)
    BY DEF EffectsBounded, PerLife
  <2>1. /\ effects[k] \in Nat /\ restarts \in Nat /\ PerLife \in Nat
        /\ effects[k] <= restarts * PerLife + Cardinality(Used(k))
        /\ Cardinality(Used(k)) \in Nat /\ Cardinality(Used(k)) <= PerLife
    BY <1>3, UsedBounded DEF BackgroundInv, BackgroundTypeOK, EffectsInv
  <2>2. PerLife * (restarts + 1) = restarts * PerLife + PerLife /\ restarts * PerLife \in Nat
    BY <2>1
  <2> QED BY <2>1, <2>2
<1> QED BY <1>1, <1>2, <1>3, BackgroundSafe, PTL DEF Spec
=============================================================================
