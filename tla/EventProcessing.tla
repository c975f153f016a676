--------------------------- MODULE EventProcessing ---------------------------
(***************************************************************************)
(* POST /transaction-events from the service down: concurrent calls of      *)
(* TransactionEventService.process over PostgreSQL (READ COMMITTED, row     *)
(* locks, unique constraints), the Redis lock and the Redis response cache, *)
(* with crashes, lost connections, in-doubt commits and Redis failures.     *)
(*                                                                         *)
(* A call is one HTTP request; a client's retry is another call that sends  *)
(* the same request.  A row's primary key is the call that inserted it.     *)
(***************************************************************************)
EXTENDS LedgerRules

CONSTANTS
  Calls,           \* the HTTP calls
  Requests,        \* what clients send: idempotency key and body
  Accounts,        \* the rows of accounts
  OpeningBalance,  \* accounts.balance at the start
  MaxBigint,       \* the largest value of the BIGINT columns amount and balance
  LockEnabled,     \* settings.redis_lock_enabled
  CacheEnabled,    \* settings.idempotency_cache_enabled
  Faults,          \* the faults that may happen: any of FaultKinds
  Quarantinable,   \* the accounts an operator may quarantine
  Nobody,          \* no call
  None             \* no row

FaultKinds == {"redis", "db", "crash"}

Keys == {q.key : q \in Requests}
ExtIds == {q.ext : q \in Requests}

Request ==
  [key: Keys, ext: ExtIds, acct: {q.acct : q \in Requests}, type: EventType,
   amount: Nat \ {0}, currency: {q.currency : q \in Requests},
   occurred: {q.occurred : q \in Requests}, orig: {q.orig : q \in Requests}]

(* validate_cancel_reference: exactly a CANCEL names an original *)
ValidRequest(q) == q \in Request /\ (q.type = "CANCEL" <=> q.orig # None)

Result ==
  [code: Nat, error: DomainFailure \cup OtherError \cup {"none"},
   event: Calls \cup {Nobody}, after: Int, duplicated: BOOLEAN]

IdempotencyRecord ==
  [key: Keys, hash: Requests, status: {"PROCESSING", "COMPLETED", "FAILED"},
   result: Result \cup {None}]

EventRow ==
  [ext: ExtIds, acct: Accounts, type: EventType, amount: Nat \ {0},
   currency: {q.currency : q \in Requests}, occurred: {q.occurred : q \in Requests},
   status: Status, history: Seq(Status)]

LedgerEntry == [event: Calls, amount: Int, after: Int]

(* What a session carries until commit: the idempotency row, the event row  *)
(* and the ledger entry it has written, the original event it has locked,   *)
(* and the balance it read with the account.                                *)
Transaction ==
  [row: IdempotencyRecord \cup {None}, event: EventRow \cup {None},
   entry: LedgerEntry \cup {None}, original: Calls \cup {Nobody}, balance: Int]

EmptyTx ==
  [row |-> None, event |-> None, entry |-> None, original |-> Nobody, balance |-> 0]

CachedResponse == [hash: Requests, result: Result]

(* an external event that moved money, as SerialLedger has it *)
Movement == [acct: Accounts, amount: Int, after: Int, cancel: BOOLEAN]

(* What a transaction can hold until it ends: a unique-index entry it has   *)
(* inserted (a second inserter waits), or a row selected FOR UPDATE.        *)
Resource ==
  ({"key"} \X Keys) \cup ({"account"} \X Accounts)
    \cup ({"event"} \X Calls) \cup ({"ext"} \X ExtIds)

Label == {"idle", "lock", "check", "insertKey", "lockAccount", "quarantine",
          "duplicate", "lockOriginal", "create", "apply", "commit", "release",
          "done", "crashed"}

(* inside "with self.session.begin()": before and after check_or_start *)
CheckingLabel == {"check", "insertKey"}
StartedLabel == {"lockAccount", "quarantine", "duplicate", "lockOriginal",
                 "create", "apply"}

ASSUME ConstantsAssumption ==
  /\ \A q \in Requests : ValidRequest(q)
  /\ MaxBigint \in Nat
  /\ OpeningBalance \in [Accounts -> 0 .. MaxBigint]
  /\ LockEnabled \in BOOLEAN /\ CacheEnabled \in BOOLEAN
  /\ Faults \subseteq FaultKinds
  /\ Quarantinable \subseteq Accounts
  /\ Nobody \notin Calls

(* None is none of the rows *)
ASSUME NoneAssumption ==
  /\ None \notin Requests
  /\ None \notin Result
  /\ None \notin IdempotencyRecord
  /\ None \notin EventRow
  /\ None \notin LedgerEntry
  /\ None \notin CachedResponse
  /\ None \notin Movement

VARIABLES
  \* the calls
  pc,          \* where the call is
  req,         \* the request it carries
  attempt,     \* the index of _process_with_db_fallback's loop
  acquired,    \* lock_result.acquired
  out,         \* the answer
  tx,          \* uncommitted writes
  held,        \* row locks and unique-index entries held until the transaction ends
  \* PostgreSQL, committed
  idem, events, ledger, balance, quarantined,
  \* Redis
  lock, cache,
  \* history: who held the account when its quarantine began
  grace

callVars == <<pc, req, attempt, acquired, out, tx, held>>
dbVars == <<idem, events, ledger, balance>>
redisVars == <<lock, cache>>
quarantineVars == <<quarantined, grace>>
vars == <<callVars, dbVars, redisVars, quarantineVars>>

TypeOK ==
  /\ pc \in [Calls -> Label]
  /\ req \in [Calls -> Requests \cup {None}]
  /\ attempt \in [Calls -> {0, 1}]
  /\ acquired \in [Calls -> BOOLEAN]
  /\ out \in [Calls -> Result \cup {None}]
  /\ tx \in [Calls -> Transaction]
  /\ held \in [Calls -> SUBSET Resource]
  /\ idem \in [Calls -> IdempotencyRecord \cup {None}]
  /\ events \in [Calls -> EventRow \cup {None}]
  /\ ledger \in [Accounts -> Seq(LedgerEntry)]
  /\ balance \in [Accounts -> Int]
  /\ quarantined \in SUBSET Accounts
  /\ lock \in [Keys -> Calls \cup {Nobody}]
  /\ cache \in [Keys -> CachedResponse \cup {None}]
  /\ grace \in [Accounts -> SUBSET Calls]

Init ==
  /\ pc = [c \in Calls |-> "idle"]
  /\ req = [c \in Calls |-> None]
  /\ attempt = [c \in Calls |-> 0]
  /\ acquired = [c \in Calls |-> FALSE]
  /\ out = [c \in Calls |-> None]
  /\ tx = [c \in Calls |-> EmptyTx]
  /\ held = [c \in Calls |-> {}]
  /\ idem = [c \in Calls |-> None]
  /\ events = [c \in Calls |-> None]
  /\ ledger = [a \in Accounts |-> <<>>]
  /\ balance = OpeningBalance
  /\ quarantined = {}
  /\ lock = [k \in Keys |-> Nobody]
  /\ cache = [k \in Keys |-> None]
  /\ grace = [a \in Accounts |-> {}]

-----------------------------------------------------------------------------
(* Results, rows and locks *)

Success(event, after, duplicated) ==
  [code |-> 200, error |-> "none", event |-> event, after |-> after,
   duplicated |-> duplicated]

Failure(error) ==
  [code |-> StatusCodeFor(error), error |-> error, event |-> Nobody,
   after |-> 0, duplicated |-> FALSE]

AlreadyProcessing ==
  [code |-> 202, error |-> "none", event |-> Nobody, after |-> 0,
   duplicated |-> TRUE]

RecordsWithKey(k) == {d \in Calls : idem[d] # None /\ idem[d].key = k}

EventsWithExtId(x) == {d \in Calls : events[d] # None /\ events[d].ext = x}

EntriesOf(d) ==
  {i \in DOMAIN ledger[events[d].acct] : ledger[events[d].acct][i].event = d}

Free(resource) == \A d \in Calls : resource \notin held[d]

Hold(c, resource) == held' = [held EXCEPT ![c] = @ \cup {resource}]

Goto(c, label) == pc' = [pc EXCEPT ![c] = label]

(* mutant: the session is not closed, its locks stay *)
FinishKeepingLocks(c, result) ==
  /\ out' = [out EXCEPT ![c] = result]
  /\ tx' = [tx EXCEPT ![c] = EmptyTx]
  /\ Goto(c, "release")
  /\ UNCHANGED held

(* the transaction ends and its locks go; result is what process returns *)
Finish(c, result) ==
  /\ out' = [out EXCEPT ![c] = result]
  /\ tx' = [tx EXCEPT ![c] = EmptyTx]
  /\ held' = [held EXCEPT ![c] = {}]
  /\ Goto(c, "release")

-----------------------------------------------------------------------------
(* A client sends a request (the first time, or again) *)
Send(c, q) ==
  /\ pc[c] = "idle"
  /\ req' = [req EXCEPT ![c] = q]
  /\ Goto(c, "lock")
  /\ UNCHANGED <<attempt, acquired, out, tx, held, dbVars, redisVars, quarantineVars>>

(* RedisLock.acquire: SET NX.  A SET whose reply is lost may have run. *)
LockGranted(c) ==
  /\ LockEnabled
  /\ lock[req[c].key] = Nobody
  /\ lock' = [lock EXCEPT ![req[c].key] = c]
  /\ acquired' = [acquired EXCEPT ![c] = TRUE]
  /\ Goto(c, "check")
  /\ UNCHANGED out

LockRejected(c) ==
  /\ LockEnabled
  /\ lock[req[c].key] # Nobody
  /\ out' = [out EXCEPT ![c] = AlreadyProcessing]
  /\ Goto(c, "done")
  /\ UNCHANGED <<lock, acquired>>

LockUnavailable(c) ==
  /\ ~LockEnabled \/ "redis" \in Faults
  /\ \/ UNCHANGED lock
     \/ /\ LockEnabled
        /\ lock[req[c].key] = Nobody
        /\ lock' = [lock EXCEPT ![req[c].key] = c]
  /\ Goto(c, "check")
  /\ UNCHANGED <<acquired, out>>

AcquireLock(c) ==
  /\ pc[c] = "lock"
  /\ LockGranted(c) \/ LockRejected(c) \/ LockUnavailable(c)
  /\ UNCHANGED <<req, attempt, tx, held, dbVars, cache, quarantineVars>>

-----------------------------------------------------------------------------
(* IdempotencyResponseCache *)

CacheHit(c) ==
  /\ CacheEnabled
  /\ cache[req[c].key] # None
  /\ cache[req[c].key].hash = req[c]

(* best effort: a failed SETEX is logged and ignored *)
SetCompleted(c, result) ==
  \/ /\ CacheEnabled
     /\ cache' = [cache EXCEPT ![req[c].key] = [hash |-> req[c], result |-> result]]
  \/ /\ ~CacheEnabled \/ "redis" \in Faults
     /\ UNCHANGED cache

ReplayFromCache(c) ==
  /\ pc[c] = "check"
  /\ CacheHit(c)
  /\ Finish(c, cache[req[c].key].result)
  /\ UNCHANGED <<req, attempt, acquired, dbVars, redisVars, quarantineVars>>

(* IdempotencyService.check_or_start up to the insert: get_by_key and the  *)
(* decision on the row found.  A failed cache read counts as a miss.       *)
StoredDecision(record) ==
  IF record.status = "PROCESSING" THEN AlreadyProcessing ELSE record.result

CheckOrStart(c) ==
  /\ pc[c] = "check"
  /\ ~CacheHit(c) \/ "redis" \in Faults
  /\ \/ /\ RecordsWithKey(req[c].key) = {}
        /\ Goto(c, "insertKey")
        /\ UNCHANGED <<out, tx, held, cache>>
     \/ \E d \in RecordsWithKey(req[c].key) :
          \/ /\ idem[d].hash # req[c]
             /\ Finish(c, Failure("IdempotencyConflict"))
             /\ UNCHANGED cache
          \/ /\ idem[d].hash = req[c]
             /\ Finish(c, StoredDecision(idem[d]))
             /\ IF idem[d].status = "COMPLETED"
                THEN SetCompleted(c, idem[d].result)
                ELSE UNCHANGED cache
  /\ UNCHANGED <<req, attempt, acquired, dbVars, lock, quarantineVars>>

(* mutant: no unique constraint on idempotency_key *)
CreateProcessingNotUnique(c) ==
  /\ pc[c] = "insertKey"
  /\ tx' = [tx EXCEPT ![c].row = [key |-> req[c].key, hash |-> req[c],
                                  status |-> "PROCESSING", result |-> None]]
  /\ Goto(c, "lockAccount")
  /\ UNCHANGED <<req, attempt, acquired, out, held, dbVars, redisVars, quarantineVars>>

(* mutant: no retry, the first conflict is raised *)
CreateProcessingNoRetry(c) ==
  /\ pc[c] = "insertKey"
  /\ Free(<<"key", req[c].key>>)
  /\ IF RecordsWithKey(req[c].key) = {}
     THEN /\ tx' = [tx EXCEPT ![c].row =
                      [key |-> req[c].key, hash |-> req[c],
                       status |-> "PROCESSING", result |-> None]]
          /\ Hold(c, <<"key", req[c].key>>)
          /\ Goto(c, "lockAccount")
          /\ UNCHANGED <<attempt, out>>
     ELSE /\ Finish(c, Failure("IntegrityError"))
          /\ UNCHANGED attempt
  /\ UNCHANGED <<req, acquired, dbVars, redisVars, quarantineVars>>

(* create_processing: the insert waits for an uncommitted row with its key. *)
(* A committed one is an IntegrityError: one rollback and retry, then 500.  *)
CreateProcessing(c) ==
  /\ pc[c] = "insertKey"
  /\ Free(<<"key", req[c].key>>)
  /\ \/ /\ RecordsWithKey(req[c].key) = {}
        /\ tx' = [tx EXCEPT ![c].row =
                    [key |-> req[c].key, hash |-> req[c],
                     status |-> "PROCESSING", result |-> None]]
        /\ Hold(c, <<"key", req[c].key>>)
        /\ Goto(c, "lockAccount")
        /\ UNCHANGED <<attempt, out>>
     \/ /\ RecordsWithKey(req[c].key) # {}
        /\ IF attempt[c] = 0
           THEN /\ attempt' = [attempt EXCEPT ![c] = 1]
                /\ Goto(c, "check")
                /\ UNCHANGED <<out, tx, held>>
           ELSE /\ Finish(c, Failure("IntegrityError"))
                /\ UNCHANGED attempt
  /\ UNCHANGED <<req, acquired, dbVars, redisVars, quarantineVars>>

-----------------------------------------------------------------------------
(* _process_started: how it ends *)

(* a domain failure: the active event and the record become FAILED, and the *)
(* transaction goes on to commit                                            *)
Fail(c, event, error) ==
  /\ tx' = [tx EXCEPT ![c] =
              [tx[c] EXCEPT
                 !.event = event,
                 !.row = [tx[c].row EXCEPT !.status = "FAILED", !.result = Failure(error)]]]
  /\ Goto(c, "commit")
  /\ UNCHANGED <<out, held, cache>>

(* success: the record becomes COMPLETED and the answer is cached, before   *)
(* the commit                                                               *)
Complete(c, event, entry, result) ==
  /\ tx' = [tx EXCEPT ![c] =
              [tx[c] EXCEPT
                 !.event = event,
                 !.entry = entry,
                 !.row = [tx[c].row EXCEPT !.status = "COMPLETED", !.result = result]]]
  /\ SetCompleted(c, result)
  /\ Goto(c, "commit")
  /\ UNCHANGED <<out, held>>

(* any other exception: fail() meets the broken session and raises again *)
Raise(c) ==
  /\ Finish(c, Failure("PendingRollbackError"))
  /\ UNCHANGED cache

-----------------------------------------------------------------------------
(* _apply_started_request *)

(* mutant: a plain SELECT of the account *)
LockAccountNoWait(c) ==
  /\ pc[c] = "lockAccount"
  /\ \/ /\ req[c].acct \notin Accounts
        /\ Fail(c, None, "AccountNotFound")
     \/ /\ req[c].acct \in Accounts
        /\ tx' = [tx EXCEPT ![c].balance = balance[req[c].acct]]
        /\ Goto(c, "quarantine")
        /\ UNCHANGED <<out, held, cache>>
  /\ UNCHANGED <<req, attempt, acquired, dbVars, lock, quarantineVars>>

(* get_by_account_no_for_update *)
LockAccount(c) ==
  /\ pc[c] = "lockAccount"
  /\ \/ /\ req[c].acct \notin Accounts
        /\ Fail(c, None, "AccountNotFound")
     \/ /\ req[c].acct \in Accounts
        /\ Free(<<"account", req[c].acct>>)
        /\ Hold(c, <<"account", req[c].acct>>)
        /\ tx' = [tx EXCEPT ![c].balance = balance[req[c].acct]]
        /\ Goto(c, "quarantine")
        /\ UNCHANGED <<out, cache>>
  /\ UNCHANGED <<req, attempt, acquired, dbVars, lock, quarantineVars>>

(* mutant: the quarantine is not looked at *)
AssertNothing(c) ==
  /\ pc[c] = "quarantine"
  /\ Goto(c, "duplicate")
  /\ UNCHANGED <<req, attempt, acquired, out, tx, held, dbVars, redisVars, quarantineVars>>

(* assert_not_quarantined *)
AssertNotQuarantined(c) ==
  /\ pc[c] = "quarantine"
  /\ \/ /\ req[c].acct \in quarantined
        /\ Fail(c, None, "TargetQuarantined")
     \/ /\ req[c].acct \notin quarantined
        /\ Goto(c, "duplicate")
        /\ UNCHANGED <<out, tx, held, cache>>
  /\ UNCHANGED <<req, attempt, acquired, dbVars, lock, quarantineVars>>

(* get_by_external_event_id and, for an existing event, _duplicate_result *)
FindDuplicate(c) ==
  /\ pc[c] = "duplicate"
  /\ \/ /\ EventsWithExtId(req[c].ext) = {}
        /\ Goto(c, IF req[c].type = "CANCEL" THEN "lockOriginal" ELSE "create")
        /\ UNCHANGED <<out, tx, held, cache>>
     \/ \E d \in EventsWithExtId(req[c].ext) :
          \/ /\ ~DuplicateMatches(events[d], req[c]) \/ EntriesOf(d) = {}
             /\ Fail(c, None, "InvalidTransactionEvent")
          \/ /\ DuplicateMatches(events[d], req[c])
             /\ \E i \in EntriesOf(d) :
                  Complete(c, None, None,
                           Success(d, ledger[events[d].acct][i].after, TRUE))
  /\ UNCHANGED <<req, attempt, acquired, dbVars, lock, quarantineVars>>

(* get_original_for_cancel_for_update *)
LockOriginal(c) ==
  /\ pc[c] = "lockOriginal"
  /\ \/ /\ EventsWithExtId(req[c].orig) = {}
        /\ Fail(c, None, "OriginalTransactionNotFound")
     \/ \E d \in EventsWithExtId(req[c].orig) :
          /\ Free(<<"event", d>>)
          /\ Hold(c, <<"event", d>>)
          /\ tx' = [tx EXCEPT ![c].original = d]
          /\ Goto(c, "create")
          /\ UNCHANGED <<out, cache>>
  /\ UNCHANGED <<req, attempt, acquired, dbVars, lock, quarantineVars>>

(* create_received: the insert waits for an uncommitted row with its        *)
(* external id; a committed one, or an amount no BIGINT holds, raises       *)
Received(q) ==
  [ext |-> q.ext, acct |-> q.acct, type |-> q.type, amount |-> q.amount,
   currency |-> q.currency, occurred |-> q.occurred,
   status |-> "RECEIVED", history |-> <<"RECEIVED">>]

(* mutant: no unique constraint on external_event_id *)
CreateReceivedNotUnique(c) ==
  /\ pc[c] = "create"
  /\ tx' = [tx EXCEPT ![c].event = Received(req[c])]
  /\ Goto(c, "apply")
  /\ UNCHANGED <<req, attempt, acquired, out, held, dbVars, redisVars, quarantineVars>>

CreateReceived(c) ==
  /\ pc[c] = "create"
  /\ \/ /\ Free(<<"ext", req[c].ext>>)
        /\ EventsWithExtId(req[c].ext) = {}
        /\ req[c].amount <= MaxBigint
        /\ tx' = [tx EXCEPT ![c].event = Received(req[c])]
        /\ Hold(c, <<"ext", req[c].ext>>)
        /\ Goto(c, "apply")
        /\ UNCHANGED <<out, cache>>
     \/ /\ \/ Free(<<"ext", req[c].ext>>) /\ EventsWithExtId(req[c].ext) # {}
           \/ req[c].amount > MaxBigint
        /\ Raise(c)
  /\ UNCHANGED <<req, attempt, acquired, dbVars, lock, quarantineVars>>

(* change_status twice, LedgerService.apply_event, change_status of the     *)
(* original and of the event, and the end of _process_started               *)
ApplyEvent(c) ==
  LET started  == ChangeStatus(ChangeStatus(tx[c].event, "VALIDATED"), "PROCESSING")
      original == tx[c].original
      invalid  == IF started.type = "CANCEL"
                  THEN ValidateCancelOriginal(started, events[original])
                  ELSE "none"
      amount   == CalculateLedgerAmount(started.type, started.amount,
                    IF started.type = "CANCEL" THEN events[original].type ELSE None)
      after    == tx[c].balance + amount
      failed   == ChangeStatus(started, "FAILED")
  IN
  /\ pc[c] = "apply"
  /\ \/ /\ invalid # "none"
        /\ Fail(c, failed, invalid)
     \/ /\ invalid = "none"
        /\ after < 0
        /\ Fail(c, failed, "InsufficientBalance")
     \/ /\ invalid = "none"
        /\ after > MaxBigint
        /\ Raise(c)
     \/ /\ invalid = "none"
        /\ after \in 0 .. MaxBigint
        /\ Complete(c, ChangeStatus(started, "COMPLETED"),
                    [event |-> c, amount |-> amount, after |-> after],
                    Success(c, after, FALSE))
  /\ UNCHANGED <<req, attempt, acquired, dbVars, lock, quarantineVars>>

-----------------------------------------------------------------------------
(* The end of "with self.session.begin()" and of process *)

WrittenLedger(c) ==
  IF tx[c].entry = None
  THEN UNCHANGED <<ledger, balance>>
  ELSE /\ ledger' = [ledger EXCEPT ![req[c].acct] = Append(@, tx[c].entry)]
       /\ balance' = [balance EXCEPT ![req[c].acct] = tx[c].entry.after]

(* mutant: the record is left to another transaction *)
WrittenWithoutRecord(c) ==
  /\ events' = [events EXCEPT ![c] = tx[c].event]
  /\ WrittenLedger(c)
  /\ UNCHANGED idem

(* mutant: the original is not marked CANCELLED *)
WrittenKeepingOriginal(c) ==
  /\ idem' = [idem EXCEPT ![c] = tx[c].row]
  /\ events' = [events EXCEPT ![c] = tx[c].event]
  /\ WrittenLedger(c)

(* mutant: the original's status is set without change_status *)
WrittenWithoutHistory(c) ==
  /\ idem' = [idem EXCEPT ![c] = tx[c].row]
  /\ events' =
       [d \in Calls |->
          IF d = c THEN tx[c].event
          ELSE IF tx[c].entry # None /\ d = tx[c].original
          THEN [events[d] EXCEPT !.status = "CANCELLED"]
          ELSE events[d]]
  /\ WrittenLedger(c)

Written(c) ==
  /\ idem' = [idem EXCEPT ![c] = tx[c].row]
  /\ events' =
       [d \in Calls |->
          IF d = c THEN tx[c].event
          ELSE IF tx[c].entry # None /\ d = tx[c].original
          THEN ChangeStatus(events[d], "CANCELLED")
          ELSE events[d]]
  /\ WrittenLedger(c)

Commit(c) ==
  /\ pc[c] = "commit"
  /\ Written(c)
  /\ Finish(c, tx[c].row.result)
  /\ UNCHANGED <<req, attempt, acquired, redisVars, quarantineVars>>

(* mutant: the answer is returned though the commit failed *)
LoseCommitSilently(c) ==
  /\ "db" \in Faults
  /\ pc[c] = "commit"
  /\ Written(c) \/ UNCHANGED dbVars
  /\ Finish(c, tx[c].row.result)
  /\ UNCHANGED <<req, attempt, acquired, redisVars, quarantineVars>>

(* the connection is lost during COMMIT: written or not, the caller gets 503 *)
LoseCommit(c) ==
  /\ "db" \in Faults
  /\ pc[c] = "commit"
  /\ Written(c) \/ UNCHANGED dbVars
  /\ Finish(c, Failure("OperationalError"))
  /\ UNCHANGED <<req, attempt, acquired, redisVars, quarantineVars>>

(* a statement fails: the driver's error inside check_or_start reaches the  *)
(* handler as it is, later fail() runs into the dead transaction            *)
FailStatement(c) ==
  /\ "db" \in Faults
  /\ \/ /\ pc[c] \in CheckingLabel
        /\ Finish(c, Failure("OperationalError"))
     \/ /\ pc[c] \in StartedLabel
        /\ Finish(c, Failure("PendingRollbackError"))
  /\ UNCHANGED <<req, attempt, acquired, dbVars, redisVars, quarantineVars>>

(* the finally of process: RedisLock.release deletes the key only while it  *)
(* still carries this call's token                                          *)
Release(c) ==
  /\ pc[c] = "release"
  /\ \/ /\ acquired[c]
        /\ lock' = [lock EXCEPT ![req[c].key] = IF @ = c THEN Nobody ELSE @]
     \/ /\ ~acquired[c] \/ "redis" \in Faults
        /\ UNCHANGED lock
  /\ Goto(c, "done")
  /\ UNCHANGED <<req, attempt, acquired, out, tx, held, dbVars, cache, quarantineVars>>

-----------------------------------------------------------------------------
(* The environment *)

(* the process dies: PostgreSQL rolls back, the Redis lock stays *)
Crash(c) ==
  /\ "crash" \in Faults
  /\ pc[c] \notin {"idle", "done", "crashed"}
  /\ tx' = [tx EXCEPT ![c] = EmptyTx]
  /\ held' = [held EXCEPT ![c] = {}]
  /\ Goto(c, "crashed")
  /\ UNCHANGED <<req, attempt, acquired, out, dbVars, redisVars, quarantineVars>>

(* redis_lock_ttl_ms, however far its holder has come *)
ExpireLock(k) ==
  /\ lock[k] # Nobody
  /\ lock' = [lock EXCEPT ![k] = Nobody]
  /\ UNCHANGED <<callVars, dbVars, cache, quarantineVars>>

ExpireCache(k) ==
  /\ cache[k] # None
  /\ cache' = [cache EXCEPT ![k] = None]
  /\ UNCHANGED <<callVars, dbVars, lock, quarantineVars>>

(* QuarantineService.create_quarantine and release on an ACCOUNT target, by *)
(* an operator: neither locks the account                                   *)
Quarantine(a) ==
  /\ a \in Quarantinable \ quarantined
  /\ quarantined' = quarantined \cup {a}
  /\ grace' = [grace EXCEPT ![a] = {c \in Calls : <<"account", a>> \in held[c]}]
  /\ UNCHANGED <<callVars, dbVars, redisVars>>

ReleaseQuarantine(a) ==
  /\ a \in quarantined
  /\ quarantined' = quarantined \ {a}
  /\ grace' = [grace EXCEPT ![a] = {}]
  /\ UNCHANGED <<callVars, dbVars, redisVars>>

(* every call has been answered or has died *)
Quiescent ==
  /\ \A c \in Calls : pc[c] \in {"done", "crashed"}
  /\ UNCHANGED vars

-----------------------------------------------------------------------------
CallStep(c) ==
  \/ AcquireLock(c) \/ ReplayFromCache(c) \/ CheckOrStart(c) \/ CreateProcessing(c)
  \/ LockAccount(c) \/ AssertNotQuarantined(c) \/ FindDuplicate(c) \/ LockOriginal(c)
  \/ CreateReceived(c) \/ ApplyEvent(c) \/ Commit(c) \/ Release(c)

Next ==
  \/ \E c \in Calls, q \in Requests : Send(c, q)
  \/ \E c \in Calls : CallStep(c)
  \/ \E c \in Calls : LoseCommit(c) \/ FailStatement(c) \/ Crash(c)
  \/ \E k \in Keys : ExpireLock(k) \/ ExpireCache(k)
  \/ \E a \in Accounts : Quarantine(a) \/ ReleaseQuarantine(a)
  \/ Quiescent

Spec == Init /\ [][Next]_vars

(* A worker thread keeps running its call until the process dies. *)
Fairness == \A c \in Calls : WF_vars(CallStep(c))

FairSpec == Spec /\ Fairness

-----------------------------------------------------------------------------
(* Properties.  Entries(a) numbers the ledger of an account. *)

Entries(a) == DOMAIN ledger[a]

(* Every account's ledger is one unbroken chain: each entry's balance_after  *)
(* is the one before it plus its amount, from the opening balance to the     *)
(* account's balance, within 0 .. MaxBigint.  LedgerService.apply_event      *)
(* computes it from a balance read under FOR UPDATE.                         *)
LedgerChain ==
  \A a \in Accounts :
    /\ balance[a] = IF ledger[a] = <<>> THEN OpeningBalance[a]
                    ELSE ledger[a][Len(ledger[a])].after
    /\ \A i \in Entries(a) :
         /\ ledger[a][i].after \in 0 .. MaxBigint
         /\ ledger[a][i].after = ledger[a][i].amount
              + (IF i = 1 THEN OpeningBalance[a] ELSE ledger[a][i - 1].after)

(* However often an external event is sent, under one idempotency key or     *)
(* under several, on one account or on several, the ledgers hold at most one *)
(* entry for it: what the lookups, row locks and unique constraints of       *)
(* _apply_started_request are for.                                           *)
AppliedOnce ==
  \A a, b \in Accounts : \A i \in Entries(a), j \in Entries(b) :
    events[ledger[a][i].event].ext = events[ledger[b][j].event].ext
      => a = b /\ i = j

(* Record, event and ledger commit together: a ledger entry is there exactly *)
(* when its event is COMPLETED or CANCELLED and the record of the call that  *)
(* made it is COMPLETED, and a COMPLETED record answers with an entry the    *)
(* ledger has.  No record is left PROCESSING and no event half-way.          *)
AtomicOutcome ==
  \A d \in Calls :
    /\ events[d] # None =>
         /\ events[d].status \in {"COMPLETED", "CANCELLED", "FAILED"}
         /\ idem[d] # None
         /\ EntriesOf(d) # {} <=> events[d].status # "FAILED"
         /\ idem[d].status = "COMPLETED" <=> events[d].status # "FAILED"
    /\ idem[d] # None =>
         /\ idem[d].status \in {"COMPLETED", "FAILED"}
         /\ idem[d].status = "COMPLETED" =>
              \E a \in Accounts : \E i \in Entries(a) :
                /\ ledger[a][i].event = idem[d].result.event
                /\ ledger[a][i].after = idem[d].result.after
                /\ events[ledger[a][i].event].ext = idem[d].hash.ext

Reversals(d) ==
  {c \in Calls : /\ events[c] # None
                 /\ events[c].type = "CANCEL"
                 /\ events[c].status = "COMPLETED"
                 /\ req[c].orig = events[d].ext}

(* An event is CANCELLED exactly when one CANCEL of it has completed; that   *)
(* CANCEL is on the same account, comes after it in the ledger and undoes    *)
(* its amount.  Two CANCELs of one event never both complete.                *)
CancelledOnce ==
  \A d \in Calls : events[d] # None =>
    /\ events[d].status = "CANCELLED" <=> Reversals(d) # {}
    /\ \A c \in Reversals(d) :
         /\ Reversals(d) = {c}
         /\ events[c].acct = events[d].acct
         /\ \E i \in EntriesOf(d), j \in EntriesOf(c) :
              /\ i < j
              /\ ledger[events[d].acct][i].amount + ledger[events[c].acct][j].amount = 0

(* A 200 answer names a ledger entry that is committed, for the external     *)
(* event the caller sent, with the balance the ledger has.  It needs the     *)
(* answer to be decided by committed rows: the response cache is written     *)
(* before the commit.                                                        *)
SuccessIsDurable ==
  \A c \in Calls : out[c] # None /\ out[c].code = 200 =>
    \E a \in Accounts : \E i \in Entries(a) :
      /\ ledger[a][i].event = out[c].event
      /\ ledger[a][i].after = out[c].after
      /\ events[out[c].event].ext = req[c].ext

(* An answer a client may act on: neither "try again" nor an error that says *)
(* nothing of the request's fate.                                            *)
Decided(c) ==
  /\ out[c] # None
  /\ out[c].code \notin {202, 500, 503}
  /\ out[c].error # "IdempotencyConflict"

(* All deciding answers under one idempotency key are the same answer, to    *)
(* the same request, whatever crashed, expired or was retried in between.    *)
OneAnswerPerKey ==
  \A c, d \in Calls :
    Decided(c) /\ Decided(d) /\ req[c].key = req[d].key
      => req[c] = req[d] /\ out[c] = out[d]

(* The one retry of _process_with_db_fallback is enough: a call that has     *)
(* lost the race for its key finds the winner's row, so no caller sees the   *)
(* IntegrityError of the second attempt.                                     *)
RetrySuffices ==
  \A c \in Calls : out[c] # None => out[c].error # "IntegrityError"

WritesInGrace ==
  \A a \in quarantined : ledger'[a] # ledger[a] =>
    ledger'[a][Len(ledger'[a])].event \in grace[a]

(* Once an account is quarantined, the only ledger entry it can still get is *)
(* the one of the call that held the account row when the quarantine began:  *)
(* assert_not_quarantined runs after get_by_account_no_for_update.           *)
QuarantineStopsWrites == [][WritesInGrace]_vars

KeepsCommitted ==
  /\ \A a \in Accounts :
       /\ Len(ledger[a]) <= Len(ledger'[a])
       /\ SubSeq(ledger'[a], 1, Len(ledger[a])) = ledger[a]
  /\ \A d \in Calls :
       /\ idem[d] # None => idem'[d] = idem[d]
       /\ events[d] # None =>
            \/ events'[d] = events[d]
            \/ /\ CanTransition(events[d].status, "CANCELLED")
               /\ events'[d] = ChangeStatus(events[d], "CANCELLED")

(* What is committed stays: ledgers only grow, a record never changes, an    *)
(* event only becomes CANCELLED, from a status its state machine allows it   *)
(* from, however long ago the CANCEL read it.  Retries and crashes included. *)
CommittedIsFinal == [][KeepsCommitted]_vars

(* Every call is answered unless its process dies: the waits for the key,    *)
(* the account row, the original's row and the external id never close into  *)
(* a cycle.                                                                  *)
EveryCallEnds ==
  \A c \in Calls : pc[c] = "lock" ~> pc[c] \in {"done", "crashed"}

-----------------------------------------------------------------------------
(* The promise it implements, read off the committed rows *)

AppliedView ==
  [x \in ExtIds |->
     LET applied == {d \in EventsWithExtId(x) : EntriesOf(d) # {}} IN
     IF applied = {} THEN None
     ELSE LET d == CHOOSE d \in applied : TRUE
              e == ledger[events[d].acct][CHOOSE i \in EntriesOf(d) : TRUE]
          IN [acct |-> events[d].acct, amount |-> e.amount, after |-> e.after,
              cancel |-> events[d].type = "CANCEL"]]

ReversedView ==
  {events[d].ext : d \in {c \in Calls : events[c] # None /\ events[c].status = "CANCELLED"}}

DecidedView ==
  [k \in Keys |->
     IF RecordsWithKey(k) = {} THEN None
     ELSE LET r == idem[CHOOSE d \in RecordsWithKey(k) : TRUE]
          IN [request |-> r.hash, ok |-> r.status = "COMPLETED",
              after |-> r.result.after]]

Serial ==
  INSTANCE SerialLedger
    WITH applied <- AppliedView, reversed <- ReversedView, decided <- DecidedView

(* Whatever the calls, Redis and the connections do, the committed rows move *)
(* as if requests were decided one at a time by SerialLedger: process is     *)
(* linearised at its commit.                                                 *)
ImplementsSerialLedger == Serial!Spec

=============================================================================
