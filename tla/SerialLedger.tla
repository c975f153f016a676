----------------------------- MODULE SerialLedger -----------------------------
(***************************************************************************)
(* What the transaction API promises, without calls, locks, transactions or *)
(* faults: requests are decided one at a time; every idempotency key gets   *)
(* one decision, for ever; every external event moves money at most once,   *)
(* against the balance of that moment; an event is reversed at most once.   *)
(* EventProcessing implements it.                                           *)
(***************************************************************************)
EXTENDS Integers

CONSTANTS Requests, Accounts, OpeningBalance, MaxBigint, None

VARIABLES
  balance,    \* of every account
  applied,    \* for every external event that moved money: where, how much, the balance after
  reversed,   \* the external events that have been cancelled
  decided     \* for every idempotency key: the request and its outcome

vars == <<balance, applied, reversed, decided>>

Keys == {q.key : q \in Requests}
ExtIds == {q.ext : q \in Requests}

Init ==
  /\ balance = OpeningBalance
  /\ applied = [x \in ExtIds |-> None]
  /\ reversed = {}
  /\ decided = [k \in Keys |-> None]

Decide(q, ok, after) ==
  /\ decided[q.key] = None
  /\ decided' = [decided EXCEPT ![q.key] = [request |-> q, ok |-> ok, after |-> after]]

(* a CANCEL may reverse a movement of its own account and amount, once *)
Reversible(q) ==
  /\ q.orig \in ExtIds \ reversed
  /\ applied[q.orig] # None
  /\ ~applied[q.orig].cancel
  /\ applied[q.orig].acct = q.acct
  /\ applied[q.orig].amount \in {q.amount, -q.amount}

Effect(q) ==
  CASE q.type = "DEPOSIT"  -> q.amount
    [] q.type = "WITHDRAW" -> -q.amount
    [] q.type = "CANCEL"   -> -applied[q.orig].amount

(* the request moves money *)
Settle(q) ==
  /\ q.acct \in Accounts
  /\ applied[q.ext] = None
  /\ q.type = "CANCEL" => Reversible(q)
  /\ LET after == balance[q.acct] + Effect(q) IN
       /\ after \in 0 .. MaxBigint
       /\ balance' = [balance EXCEPT ![q.acct] = after]
       /\ applied' = [applied EXCEPT ![q.ext] =
                        [acct |-> q.acct, amount |-> Effect(q), after |-> after,
                         cancel |-> q.type = "CANCEL"]]
       /\ Decide(q, TRUE, after)
  /\ reversed' = IF q.type = "CANCEL" THEN reversed \cup {q.orig} ELSE reversed

(* the event has moved money before: the answer repeats the balance of then *)
Repeat(q) ==
  /\ applied[q.ext] # None
  /\ applied[q.ext].acct = q.acct
  /\ Decide(q, TRUE, applied[q.ext].after)
  /\ UNCHANGED <<balance, applied, reversed>>

(* the request is refused and moves nothing *)
Refuse(q) ==
  /\ Decide(q, FALSE, 0)
  /\ UNCHANGED <<balance, applied, reversed>>

Next == \E q \in Requests : Settle(q) \/ Repeat(q) \/ Refuse(q)

Spec == Init /\ [][Next]_vars

=============================================================================
