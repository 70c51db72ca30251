-------------------------- MODULE CaseStateMachine --------------------------
(***************************************************************************)
(* The status of a recovery case and the transitions the code calls legal: *)
(* backend/app/core/state_machine.py, with the enumerations of             *)
(* backend/app/models/domain.py and the edges of the LangGraph agent       *)
(* (backend/app/agent/graph.py, nodes.py) that walk them.                  *)
(***************************************************************************)

RecoveryStatus == {"detected", "analyzing", "eligibility_check", "decision",
                   "action_pending", "action_executed", "monitoring",
                   "recovered", "escalated", "stopped"}

TerminalStatus == {"recovered", "escalated", "stopped"}

TransactionStatus == {"success", "failed", "pending", "abandoned", "refunded"}

\* The outreach actions a RECOVER decision can select. SEND_WHATSAPP is always
\* ineligible in the scorer; STOP and ESCALATE never reach the executor.
OutreachAction == {"retry_payment", "create_payment_link", "send_email"}

\* The table _ALLOWED.
Allowed ==
  [s \in RecoveryStatus |->
     CASE s = "detected"          -> {"analyzing"}
       [] s = "analyzing"         -> {"eligibility_check"}
       [] s = "eligibility_check" -> {"decision", "stopped"}
       [] s = "decision"          -> {"action_pending", "escalated", "stopped"}
       [] s = "action_pending"    -> {"action_executed"}
       [] s = "action_executed"   -> {"monitoring"}
       [] s = "monitoring"        -> {"recovered", "escalated", "stopped",
                                      "action_pending"}
       [] s \in TerminalStatus    -> {}]

\* Mutant: the arguments are swapped.
CanTransition_Swapped(current, next) == current \in Allowed[next]

CanTransition(current, next) == next \in Allowed[current]

-----------------------------------------------------------------------------
(***************************************************************************)
(* The agent's graph on one in-memory snapshot:                            *)
(*   analyze -> check_eligibility -> decide -> execute_action -> monitor   *)
(*                                        \-> stop | escalate              *)
(* Every node asserts its transition; the first that fails raises          *)
(* InvalidTransitionError out of the whole run.                            *)
(***************************************************************************)

\* analyze, check_eligibility and decide all pass their assertion.
GraphAccepts(status) ==
  /\ CanTransition(status, "analyzing")
  /\ CanTransition("analyzing", "eligibility_check")
  /\ CanTransition("eligibility_check", "decision")

\* Mutant: the conditional edge lost its "escalate" branch.
GraphEnd_NoEscalate(decision) == IF decision = "stop" THEN "stopped" ELSE "monitoring"

\* route_decision followed by the edges to END: where a decided snapshot ends.
GraphEnd(decision) ==
  CASE decision = "recover"  -> "monitoring"
    [] decision = "escalate" -> "escalated"
    [] decision = "stop"     -> "stopped"

(***************************************************************************)
(* What the decision engine may answer for a transaction whose stored      *)
(* status was read as txStatus, whatever the customer, the policy, the     *)
(* amount and the model's probability are: a SUCCESS transaction is        *)
(* always a hard stop, one neither failed, abandoned nor pending is never  *)
(* acted upon. Module DecisionProofs proves that the engine's answer is    *)
(* always one of these.                                                    *)
(***************************************************************************)
PossibleDecisions(txStatus) ==
  CASE txStatus = "success"  -> {"stop"}
    [] txStatus = "refunded" -> {"stop", "escalate"}
    [] OTHER                 -> {"stop", "escalate", "recover"}
=============================================================================
