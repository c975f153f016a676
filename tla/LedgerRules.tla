----------------------------- MODULE LedgerRules -----------------------------
(***************************************************************************)
(* The pure rules of a transaction: what it does to a balance, when a       *)
(* CANCEL is acceptable, when a repeated external event is the same event,  *)
(* and which HTTP status an error is answered with.                         *)
(***************************************************************************)
EXTENDS Integers, TransactionStateMachine

EventType == {"DEPOSIT", "WITHDRAW", "CANCEL"}

(* domain failures: answered, and committed as a FAILED idempotency record *)
DomainFailure ==
  {"AccountNotFound", "InsufficientBalance", "InvalidTransactionEvent",
   "OriginalTransactionNotFound", "TargetQuarantined",
   "TransactionAlreadyCancelled", "TransactionAlreadySettled"}

(* everything else: the transaction is rolled back and the error re-raised *)
OtherError ==
  {"IdempotencyConflict", "IntegrityError", "PendingRollbackError",
   "OperationalError"}

StatusCodeFor(error) ==
  CASE error \in {"AccountNotFound", "OriginalTransactionNotFound"} -> 404
    [] error \in {"IdempotencyConflict", "TransactionAlreadyCancelled",
                  "TransactionAlreadySettled", "TargetQuarantined"} -> 409
    [] error \in {"InsufficientBalance", "InvalidTransactionEvent"} -> 422
    [] error = "OperationalError"                                   -> 503
    [] OTHER                                                        -> 500

(* originalType is read for a CANCEL only *)
CalculateLedgerAmount(type, amount, originalType) ==
  CASE type = "DEPOSIT"  -> amount
    [] type = "WITHDRAW" -> -amount
    [] type = "CANCEL"   -> IF originalType = "DEPOSIT" THEN -amount ELSE amount

(* the checks in their order: the first that fails names the error *)
ValidateCancelOriginal(cancel, original) ==
  IF original.type \notin {"DEPOSIT", "WITHDRAW"} THEN "InvalidTransactionEvent"
  ELSE IF original.status = "SETTLED" THEN "TransactionAlreadySettled"
  ELSE IF original.status = "CANCELLED" THEN "TransactionAlreadyCancelled"
  ELSE IF \/ original.status # "COMPLETED"
          \/ original.acct # cancel.acct
          \/ original.amount # cancel.amount
          \/ original.currency # cancel.currency
  THEN "InvalidTransactionEvent"
  ELSE "none"

(* _ensure_duplicate_matches_request: original_external_event_id is not compared *)
DuplicateMatches(existing, request) ==
  /\ existing.acct = request.acct
  /\ existing.type = request.type
  /\ existing.amount = request.amount
  /\ existing.currency = request.currency
  /\ existing.occurred = request.occurred

=============================================================================
