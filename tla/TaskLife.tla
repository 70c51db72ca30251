------------------------------ MODULE TaskLife ------------------------------
(***************************************************************************)
(* What a background task promises to whoever submitted it: it is tried a  *)
(* bounded number of times, it is never tried again once a try has         *)
(* returned, it fails only when all tries were used, and an ended task     *)
(* stays as it ended unless the process forgets everything.                *)
(***************************************************************************)
EXTENDS Naturals

CONSTANTS
  TaskId,
  MaxTries      \* tries of one task

VARIABLES
  life,         \* "absent", "waiting", "working", "returned", "completed" or "failed"
  tries         \* tries begun

vars == <<life, tries>>

Init ==
  /\ life = [t \in TaskId |-> "absent"]
  /\ tries = [t \in TaskId |-> 0]

Accept(t) ==
  /\ life[t] = "absent"
  /\ life' = [life EXCEPT ![t] = "waiting"]
  /\ UNCHANGED tries

Begin(t) ==
  /\ life[t] = "waiting"
  /\ life' = [life EXCEPT ![t] = "working"]
  /\ UNCHANGED tries

\* A try that raises leaves the task working; one that returns is the last.
Try(t) ==
  /\ life[t] = "working" /\ tries[t] < MaxTries
  /\ tries' = [tries EXCEPT ![t] = @ + 1]
  /\ life' \in {life, [life EXCEPT ![t] = "returned"]}

Complete(t) ==
  /\ life[t] = "returned"
  /\ life' = [life EXCEPT ![t] = "completed"]
  /\ UNCHANGED tries

GiveUp(t) ==
  /\ life[t] = "working" /\ tries[t] = MaxTries
  /\ life' = [life EXCEPT ![t] = "failed"]
  /\ UNCHANGED tries

\* The process restarts: there is nothing left of any task.
Forget ==
  /\ life' = [t \in TaskId |-> "absent"]
  /\ tries' = [t \in TaskId |-> 0]

Next ==
  \/ \E t \in TaskId : Accept(t) \/ Begin(t) \/ Try(t) \/ Complete(t) \/ GiveUp(t)
  \/ Forget

Spec == Init /\ [][Next]_vars
=============================================================================
