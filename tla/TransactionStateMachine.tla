----------------------- MODULE TransactionStateMachine -----------------------
(***************************************************************************)
(* The life cycle of a transaction event                                   *)
(* (backend/app/domain/transaction_state_machine.py).                      *)
(***************************************************************************)
EXTENDS Naturals, Sequences

Status == {"RECEIVED", "VALIDATED", "PROCESSING", "COMPLETED",
           "SETTLED", "FAILED", "CANCELLED"}

ALLOWED_TRANSITIONS ==
  [s \in Status |->
     CASE s = "RECEIVED"   -> {"VALIDATED", "FAILED"}
       [] s = "VALIDATED"  -> {"PROCESSING", "FAILED"}
       [] s = "PROCESSING" -> {"COMPLETED", "FAILED"}
       [] s = "COMPLETED"  -> {"SETTLED", "CANCELLED"}
       [] OTHER            -> {}]

CanTransition(current, next) == next \in ALLOWED_TRANSITIONS[current]

(***************************************************************************)
(* TransactionStateService.change_status: the new status and one history   *)
(* row.  The rejection of a forbidden transition is not modelled: a call    *)
(* takes its own event from RECEIVED over VALIDATED and PROCESSING to       *)
(* COMPLETED or FAILED, and CommittedIsFinal of EventProcessing says that   *)
(* the one change of another call's event is an allowed one.               *)
(***************************************************************************)
ChangeStatus(event, next) ==
  [event EXCEPT !.status = next, !.history = Append(@, next)]

=============================================================================
