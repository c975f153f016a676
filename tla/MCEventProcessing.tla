-------------------------- MODULE MCEventProcessing --------------------------
(* Instances of EventProcessing for TLC. *)
EXTENDS EventProcessingInv, Reconciliation, TLC

CONSTANTS
  A, B, Unknown,   \* account numbers; Unknown has no row
  K1, K2, K3,      \* idempotency keys
  X1, X2, X3,      \* external event ids
  KRW, T1          \* a currency and a time

Req(key, ext, acct, type, amount, orig) ==
  [key |-> key, ext |-> ext, acct |-> acct, type |-> type, amount |-> amount,
   currency |-> KRW, occurred |-> T1, orig |-> orig]

Deposit(key, ext, acct, amount) == Req(key, ext, acct, "DEPOSIT", amount, None)
Withdraw(key, ext, acct, amount) == Req(key, ext, acct, "WITHDRAW", amount, None)
Cancel(key, ext, acct, amount, orig) == Req(key, ext, acct, "CANCEL", amount, orig)

(* one request retried, and the same key reused for another amount *)
RetryRequests == {Withdraw(K1, X1, A, 2), Withdraw(K1, X1, A, 1)}

(* one withdrawal sent under two keys and for two accounts, another one that *)
(* the balance cannot bear as well, an account that does not exist, and      *)
(* deposits whose sum or amount is more than a BIGINT                        *)
ContentionRequests ==
  {Withdraw(K1, X1, A, 2), Withdraw(K2, X1, A, 2), Withdraw(K3, X1, B, 2),
   Withdraw(K3, X2, A, 2), Deposit(K2, X2, A, 2), Deposit(K2, X3, Unknown, 1),
   Deposit(K3, X3, A, 5)}

(* a withdrawal, also under another key, two CANCELs of it, one of them also *)
(* with the wrong account, the wrong amount and a CANCEL for its original, a *)
(* withdrawal that fails, with its CANCEL, and a deposit to an empty account *)
CancelRequests ==
  {Withdraw(K1, X1, A, 2), Withdraw(K2, X1, A, 2), Deposit(K2, X2, B, 1),
   Cancel(K2, X2, A, 2, X1), Cancel(K3, X3, A, 2, X1), Cancel(K3, X3, B, 2, X1),
   Cancel(K3, X3, A, 1, X1), Cancel(K3, X3, A, 2, X2),
   Withdraw(K1, X1, A, 4), Cancel(K3, X3, A, 4, X1)}

(* one account whose ledger explains its balance, and one it does not *)
CancelOpening == (A :> 3) @@ (B :> 0)

(* every kind of wait: for a key, for an account, for an external id used    *)
(* on two accounts, for an original cancelled from two accounts              *)
WaitingRequests ==
  {Withdraw(K1, X1, A, 2), Cancel(K2, X2, A, 2, X1), Cancel(K1, X2, B, 2, X1)}

(* one event under two keys *)
CacheRequests == {Withdraw(K1, X1, A, 2), Withdraw(K2, X1, A, 2)}

MCOpening == (A :> 3) @@ (B :> 2)

CallSymmetry == Permutations(Calls)
=============================================================================
