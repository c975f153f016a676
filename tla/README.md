# Financial event consistency: TLA+ models, checks and proofs

The repository is a FastAPI service that accepts financial events (DEPOSIT,
WITHDRAW, CANCEL) over `POST /api/v1/transaction-events`, applies each of them
exactly once to an account's ledger in PostgreSQL, and uses Redis as an optional
lock and response cache. Around it stand operational parts: a switch that suspends
writes, recovery cases and quarantines, reconciliation, partner authentication,
incident and latency analysis, a sanitizer for AI contexts, and blue/green
deployment.

This directory holds TLA+ modules translated from that code, the TLC
configurations that check them and the TLAPS proofs about them. `PROJECT.json`
ties every definition to the source lines it models, every property to the run
that checks it and to a mutation of the model that breaks it.

Paths below are relative to `src/backend/app/` unless they start with `scripts/`
or `docs/`.

## 1. Inventory

### Transaction event processing — `services/transaction_event_service.py`

*State.* Tables `accounts` (balance), `transaction_events` (unique
`external_event_id`, status), `event_state_history`, `ledger_entries` (unique
`transaction_event_id`, `balance_after`), `idempotency_records` (unique key,
request hash, PROCESSING / COMPLETED / FAILED, stored response). Redis: one lock
key and one cached response per idempotency key.

*Operations.* `process`: acquire the Redis lock, then inside one transaction
`check_or_start`, lock the account `FOR UPDATE`, refuse a quarantined account,
answer a known external event as a duplicate, lock a CANCEL's original, insert the
event, move it RECEIVED → VALIDATED → PROCESSING, compute and write the ledger entry
and the balance, cancel the original, complete the event and the record, cache the
response, commit; at last release the lock.

*Hard behaviours.* Two calls with one key, with one external event under two
keys or two accounts, two CANCELs of one event; a lock that expires under its
holder; a Redis reply that is lost; a statement, a commit or the process that
fails at any point; a client that retries what was already done; an operator who
quarantines the account meanwhile; amounts at the end of BIGINT.

### Write suspension — `services/write_suspension_service.py`, `api/dependencies/write_suspension.py`, `scripts/write_suspend_state.py`

A JSON file shared by all API processes and the CLI, and each process's last
state. Threads of a process share its copy; the CLI writes in place while a process
renames over it; an unreadable file counts as suspended; the database fails between
the probe and the work; processes restart.

### Recovery cases and quarantines — `services/recovery_case_service.py`, `services/quarantine_service.py`, `domain/recovery.py`, `scripts/ph4_recovery_case.py`

`recovery_cases` (one per source key; status, approver, execution) and
`quarantine_records` (at most one active row per target). Every command reads a row
without a lock, checks it, and writes it later, in one transaction that may hold
several inserts; two operators or detectors meet on one case or one target.

### Reconciliation — `services/reconciliation_service.py`, `scripts/ph5_reconciliation.py`

Counts over the tables the calls write, taken while calls are under way; a case for
each count that is not zero, and a proposal for each stale PROCESSING record.

### Incidents — `scripts/ph2_incident_artifact.py`, `scripts/ph3_incident_analyzer.py`

PH2 creates a directory and writes its files one by one, PH3 analyses the latest
directory with a list of rules of which the first match decides, PH4 turns the result
into a case. Nothing is locked: an artifact can be read half written.

### Request authentication — `security/partner_hmac.py`, `security/hmac.py`, `api/dependencies/security.py`, `scripts/ph7_hmac_rotation_drill.py`

The partner registry with keys that are current, previous, next, revoked or
disabled. Settings are cached per process, so during a rotation processes differ;
requests are on their way while keys change.

### AI contexts — `security/ai_context_sanitizer.py`, `scripts/ph6_ai_context.py`

An allowlist over JSON trees, a record of what was removed, a validator that judges
the result again, and one directory per run, named after the second.

### Latency — `scripts/ph10_latency_attribution.py`, `scripts/ph11_latency_drill_runner.py`

A cascade of threshold rules over measured timings, any of which may be missing, and
a catalog of drills with the class each must be given.

### Blue/green deployment — `scripts/deploy-blue-green.sh`, `scripts/switch_traffic.sh`, `scripts/rollback.sh`, …

The serving colour is kept in the snippet on disk, in the configuration Nginx has
loaded and in `.active-color`; scripts change them one after the other and may fail,
be killed, or be run by two operators at once.

### Others

Backups, report generators, metrics, logging, health, configuration and migrations:
see section 6 and the components of `PROJECT.json`.

## 2. Plan

| order | module(s) | content | status |
|---|---|---|---|
| 1 | `TransactionStateMachine`, `LedgerRules` | pure rules | done |
| 2 | `EventProcessing`, `SerialLedger` | the core and the promise it implements | done |
| 3 | `EventProcessingInv`, `EventProcessingProofs` | inductive invariants, proofs of TypeOK, LedgerChain, AppliedOnce, of the refinement of `SerialLedger` and of two action properties | done |
| 3a | `CommittedProofs` | what is committed, what calls are answered, what a reconciliation finds | done |
| 4 | `WriteSuspension`, `WriteSuspensionProofs` | state file, processes, guard, error handler, CLI; proof of SuspensionHolds | done |
| 5 | `RecoveryCases`, `RecoveryPlans`, `RecoveryCasesProofs` | cases, quarantines, concurrent commands; proof of uniqueness, approval, containment and of no circular wait | done |
| 6 | `Reconciliation` | counts and proposals over the database of `EventProcessing`, and over damage | done |
| 7 | `IncidentAnalyzer`, `IncidentPipeline`, `IncidentPipelineProofs` | artifacts written and read side by side, rules, ingestion; proofs of both properties | done |
| 8 | `PartnerHmac`, `PartnerRotation`, `PartnerRotationProofs` | registry, decision, key life cycle, drill; proofs of the three action properties and of the drill | done |
| 9 | `AiContextSanitizer`, `AiContext` | sanitizer and validator against a reference, concurrent runs | done |
| 10 | `LatencyAttribution`, `LatencyDrill`, `LatencyDrillProofs` | rules, catalog, lost evidence; proofs of all four properties | done |
| 11 | `BlueGreen`, `BlueGreenProofs` | colours, gates, switch, rollback, failures, kills, two operators; proofs of all four properties | done |

## 3. Modules

**`TransactionStateMachine`** — `ALLOWED_TRANSITIONS`, `CanTransition`, and
`ChangeStatus`, which sets the status and appends to the history.

**`LedgerRules`** — the sign of a ledger amount, the checks of a CANCEL in their
order, what makes a repeated external event "the same", and the HTTP status of each
error.

**`EventProcessing`** — any number of concurrent calls of `process`. A call is one HTTP
request; a retry is another call with the same request; a row's primary key is the
call that inserted it. `pc` says which statement comes next, `tx` is what the
session has written and not committed, `held` the row locks and unique-index
entries it keeps until its transaction ends. `idem`, `events`, `ledger`,
`balance`, `quarantined` are committed rows; `lock` and `cache` are Redis.

| action | code |
|---|---|
| `Send` | the route `create_transaction_event` |
| `AcquireLock` | `RedisLock.acquire` in `process`: granted, rejected (202) or unavailable (the call goes on; the SET may have run) |
| `ReplayFromCache`, `CheckOrStart` | `check_or_start` up to its decision |
| `CreateProcessing` | the insert of the record; waits for an uncommitted row with the key; on a conflict rolls back and retries once |
| `LockAccount`, `AssertNotQuarantined`, `FindDuplicate`, `LockOriginal`, `CreateReceived` | the statements of `_apply_started_request` in order |
| `ApplyEvent` | the status changes, `LedgerService.apply_event` and the end of `_process_started` |
| `Commit`, `LoseCommit`, `FailStatement` | the end of `with session.begin()`: committed, in doubt, or an earlier statement failed |
| `Release` | the `finally` of `process` |
| `Crash`, `ExpireLock`, `ExpireCache` | environment |
| `Quarantine`, `ReleaseQuarantine` | an operator, not locking the account |

PostgreSQL is modelled at READ COMMITTED: a read sees committed rows, an insert
waits for an uncommitted row with the same unique value, `FOR UPDATE` waits for the
holder. `ApplyEvent` is one step because everything it reads is locked by the call
since an earlier step and everything it writes is invisible until the commit (the
cache excepted, which it writes in that same step). Statuses that only exist
inside a transaction are kept in the event's `history`.

Facts of the code worth knowing when reading the model: a PROCESSING record never
commits; a domain failure commits, as a FAILED record (and event) that answers
every later call with the key; `expires_at` is not looked at by requests; SETTLED is
never set by the code; a failing statement before `_process_started` is answered
503, a later one 500, because `fail` runs into the broken session.

Abstracted: the request hash is the request; `occurred_at` is one value (its
timezone is not); the response body keeps the event, the balance and `duplicated`.

**`SerialLedger`** — the promise without calls, locks or faults: requests are
decided one at a time, each key once, each external event moves money at most
once, each event is reversed at most once. `EventProcessing` implements it through
`AppliedView`, `ReversedView` and `DecidedView`, which are read off the committed rows.

**`EventProcessingInv`** — five inductive invariants: `IInv` (locks, uncommitted writes,
constraints), `SerialInv` (what a call is about to commit) and `CommittedInv` (what the committed
rows say of each other), each containing the one before, and on top of that `AnswersInv` (what
calls are answered) and `ReconciledInv` (which records have an event). **`EventProcessingProofs`**
proves the first two and the refinement, **`CommittedProofs`** the other three.
**`MCEventProcessing`** — request sets and opening balances for TLC.

**`WriteSuspension`** — calls in several API processes, each with its copy of the
state (`runtime`), the shared `file`, one operator's command at a time, and a
database that comes and goes (`db`). The guard is a plain function that FastAPI runs
in a thread pool, so `status()` is three steps: `ReadFile`, `AssignCopy` and
`ReturnCopy` may interleave with other threads of the process.

| action | code |
|---|---|
| `Arrive`, `ReadFile`, `AssignCopy`, `ReturnCopy`, `Probe` | `guard_financial_write` and `status()`; an unreadable file reads as active |
| `Work` | the request behind the guard: accepted, or a database error that reaches `database_exception_handler`, or one replaced on the way (500) |
| `EnableCopy`, `ReplaceFile`, `FailToReplace` | `enable()`: first the copy, then temporary file and rename, which may fail |
| `CliEnable`, `CliDisable`, `CliTruncate`, `CliWrite` | `scripts/write_suspend_state.py`: `disable` reads first; the file is emptied and written in place, and the write is lost when a rename came between (`attached`) |
| `CliKilled`, `DbChanges`, `Restart` | environment |

`inForce`, `warned` and `overtaken` are history variables: a suspension was recorded
and not ended; the calls that arrived since; those of them that found in their process
an older `status()` that had read "inactive" and not yet stored it. `disable()` of the
service is called by tests only and is left out. **`MCWriteSuspension`** — symmetry for TLC.


**`RecoveryCases`** — the commands of `RecoveryCaseService` and `QuarantineService`, each in
a session of its own (`scripts/ph4_recovery_case.py` and `ph5_reconciliation.py` run one
command per process). `cases` and `quarantines` are the committed rows, `newCases`,
`newQuarantines` and `seen` what a session has inserted or read, `todo` what a creating
command still has to create. A row's primary key is the session that inserted it.

| action | code |
|---|---|
| `BeginCreate`, `SelectExisting`, `Insert`, `CommitCreate` | `create_from_analyzer_result`, `create_quarantine` and the creations of a reconciliation: look up, then insert, which waits for an uncommitted row with the same key and fails on a committed one; one commit for the whole plan |
| `GetCase`, `GetQuarantine` | `approve`, `reject`, `start_execution`, `mark_executed`, `mark_execution_failed`, `close`, `release_quarantine` up to the check (`Refusal`), on a row read without a lock |
| `Flush`, `CommitCase`, `CommitRelease` | the UPDATE, which waits for a session that has updated the row, and the commit; only the columns the command sets change |
| `Die` | the command ends at any point; its session is rolled back |

**`RecoveryPlans`** — what an analysis, a reconciliation or an operator asks to be created,
in the order the code does it. **`RecoveryCasesProofs`** — the proofs. **`MCRecovery`** — the
plans that meet.

**`Reconciliation`** — `ReconciliationService` as operators over a committed state of
`EventProcessing`: each SQL count is a set of rows, `ReconciliationPlan` of `RecoveryPlans`
turns what is found into cases, `ProposedStaleAction` is the proposal for a stale record.
Since no call of the code can damage the database or commit a PROCESSING record, damage is
hypothetical: `EntryLost`, `EntryDoubled`, `EventLost`, `BalanceAltered` and `RecordStuck` give
the database with one row changed behind the constraints, and the properties compare what
the service says of it with what was done. What a run creates is compared as a request: where a case with the same
source key exists, closed or not, `create_case` returns that one, which is in `RecoveryCases`.

**`IncidentAnalyzer`** — the contents of an artifact's files, `LoadWriteSuspendState`,
`SanitizePayload`, the validator's findings, and the rules of PH3 in their order.
**`IncidentPipeline`** — creators, analyzers and ingesters on the shared directory. A file is
`Absent`, `Torn` (opened, nothing written yet) or written; creating is `BeginCreate`, `MakeDir` and one
open and one write per file; analysing reads three files and the validator's findings one
after the other, then opens and writes the result; `Ingest` is the whole
transaction, whose steps `RecoveryCases` has. `complete` and `settled` are history variables: the
directory's creator has finished, and the analysis began after that. **`IncidentPipelineProofs`** has
`IncidentInv` and the proofs.

**`PartnerHmac`** — `verify_partner_hmac_request` with its checks in their order, the
single-secret path, and the cases of the PH7 drill with its report and validator. The MAC is
external: a signature is the secret it was made with. Times are half seconds, because one path
truncates the skew to seconds and the other does not. **`PartnerRotation`** — the environment,
the settings every process has cached, the partner's deployed key, requests on their way
(`wire`) and the clock. `StageNext`, `Promote`, `Revoke`, `DisableClient`, `EnablePartnerAuth` are the
operator's steps of `docs/28`, `Restart` reloads a process's settings, `Verify` is the decision,
`Smoke` the drill. **`PartnerRotationProofs`** has `RotationInv` and the proofs.

**`AiContextSanitizer`** — JSON trees as records, with one key for each way a key can be
treated (allowed, allowed for hashes, forbidden, of the envelope that PH6 writes around a context,
unknown, and unknown with a text that itself looks like an account number) and one kind of
string for each way the patterns can treat it; a removed field is recorded with its path, whose
text is judged by the validator like any other string; `SanitizeValue`,
`RemovedFields` and `ValidatePayload` are recursive as the code is. **`AiContext`** — the commands of
PH6, several in one second: choosing a directory and making it are two steps.

**`LatencyAttribution`** — the rules of PH10 in integers (milliseconds, hundredths), a missing
signal being outside a function's domain. `TypeError` is the class of an evidence file on
which the script raises. **`LatencyDrill`** — the evidence of every drill of PH11, then steps that
lose a signal, a counter or a part, disturb a signal, or report a violation, each followed by a
new analysis. **`LatencyDrillProofs`** has `LatencyInv` and the proofs.

**`BlueGreen`** — a script is the sequence of its steps (`Program`); `cmd` holds what is left of
an operator's script, its target and its settings. `SetActiveUpstream` is the function of
`deployment-lib.sh` that replaces snippet, loaded configuration and colour file one after the
other and restores them when a step fails. Containers and Nginx are external: `nginx -t` and a
reload fail while the container a snippet names is not running, and may fail by themselves.
`used` counts what is bounded and remembers whether two scripts overlapped. `deploy_green.sh` is
`deployGreen` with `STOP_GREEN_ON_FAILURE=true` and `startGreen` without. **`BlueGreenProofs`** has
`BlueGreenInv` and the proofs.

## 4. Runs

All bounds are in the configurations and the `MC` modules; the modules themselves have only
the ones they name as constants (`MaxSuffix`, `MaxTime`, `MaxSent`, `MaxChanges`, `MaxCommands`, …).

| run | settings | checks |
|---|---|---|
| `retry` | lock on, all faults, one request and a conflicting body under one key | `AtomicOutcome`, `SuccessIsDurable`, `OneAnswerPerKey`, `RetrySuffices` |
| `contention` | lock off, quarantine, one event under several keys and accounts, overflow, unknown account | `AnswersInv`, `LedgerChain`, `AppliedOnce`, `QuarantineStopsWrites`, `ImplementsSerialLedger` |
| `cancel` | lock off, competing and mismatched CANCELs, and a reconciliation of every state | `CancelledOnce`, `CommittedIsFinal`, `ImplementsSerialLedger`, `AlarmsAreExplained`, `DamageIsReported`, `ProposalFitsTheLedger` |
| `waiting` | lock off, cache on, crashes, fairness, no symmetry | `EveryCallEnds` |
| `suspension` | three calls, two processes, a disk that may fail | `SuspensionHolds`, `SuspensionInv` |
| `recovery` | up to three commands recording and releasing, or one recorder and four decisions on its case | `RecoveryInv`, `CaseIsContained`, `ExecutionWasApproved`, `NoCircularWait` |
| `incident` | two creators of one second with an analyzer and an ingester, or two of both over every combination of evidence | `SettledAnalysisIsAtomic`, `OneCasePerSettledIncident` |
| `rotation` | two processes, two keys, a window, time up to 4, one request on its way | `NoValidTrafficLost`, `StagedKeyNeverWrites`, `OutStaysOut`, `DrillPasses` |
| `context` | every tree of a bounded shape, or three runs in one second | `ContextIsSafe`, `ValidIsSafe`, `RemovalsAreRecorded`, `SanitizedIsValid` |
| `drills` | every drill, then up to three changes of its evidence | `DrillMatchesCatalog`, `DominantPhaseIsNamed`, `LossIsNotNormal`, `VerdictSurvivesLoss` |
| `deployment` | four scripts with two faults and a stopped container or a kill, or two operators at once | `ShownIsRouted`, `SnippetIsRouted`, `FailedSwitchLeavesBlue`, `CompletedSwitchSettles` |
| `cache_durable` | cache on; expected to be violated | `SuccessIsDurable` (section 7) |

*Why the bounds are enough.*

* `EventProcessing` has three calls, two accounts and `MaxBigint` 4 (7 in `cancel`, where no
  cancellation may overflow). Three calls are a winner, a loser and a later retry or third
  party; balances are chosen so that a second withdrawal is refused and a second deposit
  overflows. In `cancel` the opening balances are 3 and 0: a reconciliation finds the first
  account unexplained by its ledger and the second one explained, so both answers occur.
* `suspension`: one call records the suspension, one is late with an older read, one arrives
  after; one process records and the other must learn of it from the file.
* `recovery`: a wait needs two commands and a circle of waits two or three; a decision that
  undoes another needs the creation, an approval, and two more commands. `Meeting` lets the two
  situations happen, not their product: three commands that create or release, of any kind;
  or five commands on one case.
* `incident`: `Meeting` separates artifacts being written (where creators and readers race) from
  artifacts collected by hand (where all combinations of files and two analyses are tried).
  The suffix is 0 or 1, since two creators need two names at most.
* `rotation`: `Window` 2 and `MaxTime` 4 give a request before, at and after the end of the
  window; one request at a time is enough because a decision depends on no other request.
* `context`: the trees have two levels and lists of one or two items, every kind of key (an
  envelope key and a key that is itself sensitive text included), every kind of string, numbers
  and Booleans, a sibling, and two files merged into one payload. Files made by hand go through the
  validator too, with and without the envelope.
* `drills`: the disturbances put each phase exactly at its threshold and each gate on
  either side of it; three changes are a slow gate, a phase at its threshold and a loss.
* `deployment`: four scripts are a deploy, a switch, a rollback and a retry. `Meeting` keeps
  kills apart from Nginx faults and overlapping scripts from both.

*Symmetry* of calls, processes, sessions, actors and operators is used in the runs that check
safety only: their identity is a row key or nothing. *Fairness.* `EveryCallEnds` assumes weak
fairness of each call's own steps: a worker thread runs until its process dies. Weak is
enough, for a lock a call waits for is held by a call that is itself fair, or dies and lets it
go. No fairness is assumed of clients, operators, faults or expiries. The run has no symmetry,
which is not sound for liveness. No other run needs fairness; that commands of `RecoveryCases`
cannot wait for each other for ever is the invariant `NoCircularWait`.

*Deadlock* is checked for `EventProcessing` and `WriteSuspension` (`Quiescent` lets a state of
`EventProcessing` stutter only when every call has been answered or has died). The other
modules are commands and scripts that are run a bounded number of times and then simply stop:
`CHECK_DEADLOCK FALSE`.

*Shape of the properties.* Where the code keeps a promise only under a condition, the condition
is part of the property and not of the model: an analysis that began too early
(`settled`), a script that was killed or overlapped, a call that was overtaken are all modelled,
and section 7 says what happens then.

## 5. Proofs

The theorems about `EventProcessing` and `Reconciliation` hold for every set of calls, requests
and accounts, every opening balance, every subset of the faults and both settings of lock and
cache, except that `OneAnswerPerKeyAlways` and `SuccessIsDurableAlways` are about the cache off.

| theorem | module | states |
|---|---|---|
| `InvariantHolds`, `TypeCorrect` | `EventProcessingProofs` | `Spec => []IInv`, `Spec => []TypeOK` |
| `LedgerChainCorrect`, `AppliedOnceCorrect` | `EventProcessingProofs` | `Spec => []LedgerChain`, `Spec => []AppliedOnce` |
| `SerialInvariant` | `EventProcessingProofs` | `Spec => []SerialInv` |
| `SerialLedgerImplemented` | `EventProcessingProofs` | `Spec => ImplementsSerialLedger` |
| `CommittedIsFinalAlways`, `QuarantineStopsWritesAlways` | `EventProcessingProofs` | the two action properties |
| `CommittedInvariant` | `CommittedProofs` | `Spec => []CommittedInv` |
| `AtomicOutcomeAlways`, `CancelledOnceAlways` | `CommittedProofs` | `Spec => []AtomicOutcome`, `Spec => []CancelledOnce` |
| `AnswersInvariant`, `RetrySufficesAlways` | `CommittedProofs` | `Spec => []AnswersInv`, `Spec => []RetrySuffices` |
| `OneAnswerPerKeyAlways`, `SuccessIsDurableAlways` | `CommittedProofs` | the same with the response cache off |
| `ReconciledInvariant` | `CommittedProofs` | `Spec => []ReconciledInv` |
| `AlarmsAreExplainedAlways`, `DamageIsReportedAlways`, `ProposalFitsTheLedgerAlways` | `CommittedProofs` | `Spec => []AlarmsAreExplained`, `Spec => []DamageIsReported`, `Spec => []ProposalFitsTheLedger` |

*Assumptions.* `ConstantsAssumption` (requests are well formed, opening balances lie in
`0 .. MaxBigint`, the settings are Booleans) and `NoneAssumption` (`None` is no row).
TLC evaluates both in every run. `OneAnswerPerKeyAlways` and `SuccessIsDurableAlways` assume
`~CacheEnabled`: the cache answers with what was never committed, which is how the run
`cache_durable` violates the second.

*Argument.* The four invariants grow from what a step needs to know.

* `IInv`. `LedgerChain` is not inductive: a commit appends an entry computed from a
  balance read several steps earlier. `IInv` adds that between `FOR UPDATE` and the commit
  the balance read is still the balance (`AccountHeld`), because the account is
  `held` by this call and `held` sets are disjoint (`Exclusive`). `AppliedOnce` needs the
  same for external ids (`ExtIdHeld`, `UniqueExtIds`) and keys (`KeyHeld`,
  `UniqueKeys`), and that every entry belongs to one committed event of its account
  (`LedgerOfEvents`). The proof has one lemma per action. Steps that commit nothing go
  through `LocalStep`; the commit goes through `WrittenInv`, shared by `Commit` and
  `LoseCommit`.
* `SerialInv`. The refinement needs that a commit is a step of `SerialLedger` in the state
  of the commit, not in the one the call read. `OutcomeInv` keeps, from statement to
  statement, the three shapes a commit can have: `Refused` (a domain failure), `Repeated` (an
  event that is in the ledger already, and stays there) and `Settled` (an entry whose
  amount follows from a request and an original that is locked and therefore still as it
  was read). Every other step leaves the committed rows alone, which is a stutter.
* `CommittedInv`. A commit writes the record, the event, the entry and the status of
  the original at once. `RecordOf` and `OriginalExists` name the request behind each row;
  `AtomicOutcome` and `CancelledOnce` follow because an original that is cancelled a second
  time would have to be COMPLETED in the state of that commit, and the first one made it
  CANCELLED.
* `AnswersInv`. An answer is given out after the commit or read from a committed record
  (`Answered`), and a call retries only when the winner of its key has committed
  (`Retried`), so the second attempt finds the record.
* `ReconciledInv`. The reconciliation looks for an event by the key of a record, and
  `CommittedInv` does not say which records have one: `MarkedDuplicate` does. Everything else
  that a reconciliation compares is in `CommittedInv` and `IInv`. That a balance is the opening
  balance plus the sum of the account's ledger (`BalanceExplained`) is an induction over the
  ledger, by its shortest counterexample; a damaged row then changes one count from zero, whatever
  the rest of the database.

`WriteSuspensionProofs` proves, for any number of calls and processes,
`SuspensionInvariant`: `Spec => []SuspensionInv` and `SuspensionHoldsAlways`:
`Spec => []SuspensionHolds` (assumption: `DiskFails` is a Boolean). `SuspensionHolds`
speaks of the end of `status()`; `SuspensionInv` adds what leads there: while a
suspension is in force the file is active or unreadable, so every read gives
"active", and no stale read is pending in the process of a covered call, so nobody
sets that process's copy back before the call returns it.

`RecoveryCasesProofs` proves, for any number of sessions and any plans over any keys and
targets (assumption: `RecoveryAssumptions`; for the last two and `RecoveryInvariant` also the
two below):

* `PendingInvariant`: `Spec => []PendingInv`, `RecoveryInvariant`: `Spec => []RecoveryInv`
* `OneCase`: `Spec => []OneCasePerSource`
* `OneQuarantine`: `Spec => []OneActiveQuarantine`
* `NoUnapprovedExecution`: `Spec => []ExecutionWasApproved`
* `CaseIsContainedAlways`: `Spec => []CaseIsContained`
* `NoCircularWaitAlways`: `Spec => []NoCircularWait`

None of the first three is inductive: a command writes on the strength of a row that it read
without a lock and that others have changed since. `PendingInserts` says what an uncommitted
insert can still rely on: no committed row and no other session's row has its key,
because the insert waited for the others and the constraint refused the rest. `PendingDecisions` says that the row a decision was made on still exists under the
same key, and that what the decision needs of it cannot be taken away: a start of an execution
has seen an approver, and no command ever clears that column.

`PlansWorkedOff` adds that a creating command has worked off the first items of one of
the plans: each is there for it to read, and it has inserted nothing else. Then a commit
shows all of a plan at once, which gives `CaseIsContained` from `ContainmentIsPlanned`: a
command that creates a case plans the quarantines that contain it. And the keys a
session holds come in its plan before the key it waits for, which gives `NoCircularWait` from
`OneInsertOrder`: the plans agree on an order of the keys, and of several waiting sessions
the one that wants the last key in that order waits for none of them. Both assumptions
are facts of `RecoveryPlans`, the plans translated from the code; TLC evaluates them
in the run `recovery` for the plans of that run.

`PartnerRotationProofs` proves, for any number of processes and keys, any window and any
clock (assumption: `RotationAssumptions`):

* `RotationInvariant`: `Spec => []RotationInv`
* `OutStaysOutAlways`: `Spec => OutStaysOut`
* `StagedKeyNeverWritesAlways`: `Spec => StagedKeyNeverWrites`
* `NoValidTrafficLostAlways`: `Spec => NoValidTrafficLost`
* `DrillPassesAlways`: `Spec => []DrillPasses`

The action properties speak of a decision that a process takes with settings it loaded earlier.
`RotationInv` relates the two: what a process has loaded is an earlier state of the
environment (`Older`), and a key's status only moves forward, from staged to current to
previous to revoked (`Forward`). So a key that a process accepts was promoted in the
environment, and one that everybody holds to be out cannot come back with a restart.
For `NoValidTrafficLost` it adds a fact about requests on their way: if all processes
admitted one when it was sent, no later restart makes a process know its key as staged or
not at all (`RequestOK`). What is left is the window of a previous key, whose
end does not change once it is set.

`IncidentPipelineProofs` proves, for any number of creators, analyzers and ingesters, any inputs
and any artifacts found at the start (assumption: `IncidentAssumptions`):

* `IncidentInvariant`: `Spec => []IncidentInv`
* `SettledAnalysisIsAtomicAlways`: `Spec => []SettledAnalysisIsAtomic`
* `OneCasePerSettledIncidentAlways`: `Spec => []OneCasePerSettledIncident`

An analysis reads in several steps while others write. `ArtifactsOK` says that a directory belongs
to the creator whose `mkdir` made it and that no creator writes to a complete one; so what a
settled analysis has read so far (`ReadOK`) is still what the artifact says, a result was concluded by
some analysis of the same directory, and all settled analyses of a directory conclude the same.

`LatencyDrillProofs` proves, for evidence that any number of losses and disturbances of any value
lead to (assumption: `LatencyAssumptions`):

* `LatencyInvariant`: `Spec => []LatencyInv`
* `DrillMatchesCatalogAlways`: `Spec => []DrillMatchesCatalog`
* `DominantPhaseIsNamedAlways`: `Spec => []DominantPhaseIsNamed`
* `LossIsNotNormalAlways`: `Spec => LossIsNotNormal`
* `VerdictSurvivesLossAlways`: `Spec => VerdictSurvivesLoss`

`LatencyInv` says that the report is that of the evidence and that signals are integers. The
rest is about the cascade: a lost signal can only switch the guards of rules off, except for
the Redis rule, whose guard asks that PostgreSQL is not dominant, and there the PostgreSQL rule comes
first.

`BlueGreenProofs` proves, for any number of operators, scripts, settings, faults, stops and kills
(assumption: `ScriptsAssumption`):

* `BlueGreenInvariant`: `Spec => []BlueGreenInv`
* `ShownIsRoutedAlways`: `Spec => []ShownIsRouted`
* `SnippetIsRoutedAlways`: `Spec => []SnippetIsRouted`
* `FailedSwitchLeavesBlueAlways`: `Spec => []FailedSwitchLeavesBlue`
* `CompletedSwitchSettlesAlways`: `Spec => []CompletedSwitchSettles`

All four speak of scripts that have ended. What is left of a running script is a path in a fixed graph
(`Path`), so the invariant needs its first step only: `PlacedAt`, `SwitchAt`, `TrafficAt` and
`GuardedAt` say where snippet, traffic, colour file and containers are before each step, under the
condition of the property they belong to.

*Only model-checked.* `EveryCallEnds`, since liveness under fairness is beyond the prover, and the
four properties of AI contexts, since `AiContextSanitizer` and `AiContext` have RECURSIVE operators.

## 6. Not modelled

* *PostgreSQL backup and restore* (`scripts/postgres_*.sh`): a dump, a restore into a scratch
  database and a comparison of counts around external tools; the scripts keep no state.
* *Decision matrix and hardening drill* (`scripts/ph8_*`, `scripts/ph9_*`): generators of fixed
  tables without input or state. There is nothing that could differ from the table itself.
* *Metrics, logging, health*: counters, log lines and read-only probes on which no decision
  depends.
* *Configuration and migrations*: settings are constants of the models; the constraints that
  the migrations create are part of the actions that rely on them.
* *Load tests, k6 scripts, dashboards and Compose files* drive or describe the system from
  outside.
* Inside modelled parts: the GET routes; `list_expired` and `delete_expired` of the idempotency
  repository, `IdempotencyResponseCache.delete` and `WriteSuspensionService.disable`, which nothing but tests calls;
  Markdown reports, prompt templates and lists of next actions; the regular expressions behind
  "sensitive" strings; the Makefile targets that reset the Nginx snippet by hand.
* Inputs that end a command or a request before anything of interest: a signed request with a query
  string, refused at `api/dependencies/security.py:94`; a key status that is none, on which
  `security/partner_hmac.py:116` raises `ValueError` for every request; a PH10 evidence file whose
  baseline is missing or no object (`scripts/ph10_latency_attribution.py:242`, `:257` and `:284`:
  insufficient evidence). The models have the route's own requests, registries with known statuses and
  the baseline of the drills; signals, counters and the other parts of the evidence do get lost.
* PostgreSQL's and Redis's own durability, the MAC algorithm, HTTP and JSON layout.

## 7. Where documents and code differ

One difference is kept as a run, because its property is checked by another run as well and
the two together say when it holds:

* **A cached 200 without a commit** (`cache_durable`; `services/cached_idempotency_service.py:74`).
  `complete` writes the response to Redis before the transaction commits. If the commit fails, or
  another call reads the cache first, a call with the same key is answered 200 though no row is
  committed. `README.md:88` of the repository demands "DB commit 근거 없는 성공 응답 금지" (no
  success response without a DB commit). Without the cache, which is the default, `retry` shows that
  `SuccessIsDurable` holds; with it the ledger is still right (`LedgerChainCorrect`).

The others are behaviours of the models above, each of which can be reproduced by checking the
quoted sentence as an invariant. No property of section 4 demands such a behaviour. Where a property
comes near one it excepts the case, and the item says which property that is.

*Transaction events*

* `services/transaction_event_service.py:210` — on a unique conflict of `external_event_id` the handler in
  `_process_started` calls `fail` on a session the failed flush has deactivated; the
  `PendingRollbackError` is not an `IntegrityError`, and the caller gets 500.
  `docs/phase-10-failure-recovery.md:86`: "동일 idempotency key 또는 external event 경합에서 unique
  conflict가 발생하면 rollback 후 한 번 재시도한다." (rolled back and retried once).
* `services/idempotency_service.py:63` — a PROCESSING record is inserted and closed in one transaction, so no
  other session sees one: without Redis a second request with the key waits at the unique
  index. `docs/11-api-response-policy.md:99`: "Redis 장애 + 동일 Key 처리 중 | 202 Accepted".
* `services/transaction_event_service.py:353` — a duplicate is recognised without comparing
  `original_external_event_id`: a CANCEL that reuses an external id for another original is answered 200
  and cancels nothing. `docs/04-development-roadmap.md:409`: "동일 `external_event_id`가 다른 거래
  내용으로 재요청되면 duplicate가 아니라 도메인 실패로 처리한다." (a domain failure, not a duplicate).

*Write suspension*

* `services/write_suspension_service.py:52` — `status()` returns an attribute that all threads of the process
  share: an older thread that assigns "inactive" in between lets a call through that had read
  "active". `docs/43-ph1-write-suspend-db-down-drill.md:90`: "write suspend state가 active이면 즉시
  `503`을 반환한다." (503 at once). `SuspensionHolds` excepts exactly these calls (`overtaken`).
* `core/exceptions.py:203` — only an `OperationalError` suspends writes; a failure inside `_process_started` is
  replaced by a `PendingRollbackError`, answered 500, and nothing is suspended. Line 92 of the same
  document: "probe 또는 SQLAlchemy DB 예외가 실패하면 `postgres_unavailable`로 suspend를 활성화한다."

*Recovery cases*

* `services/recovery_case_service.py:156` — two executors that both read APPROVED both start; the second
  overwrites the first's attempt. `docs/38-recovery-case-quarantine-and-reconciliation-design.md:101`:
  "같은 case에 대한 두 번째 executor를 차단한다." (a second executor is blocked). The execution
  operations have no CLI command yet.
* `services/recovery_case_service.py:170` — a start that has read APPROVED overwrites a REJECTED committed
  meanwhile. `docs/46-ph4-recovery-case-quarantine-manual-approval.md:56`: "`EXECUTED`, `REJECTED`,
  and `CLOSED` cannot be executed again".
* `services/reconciliation_service.py:386` — an event repeated under a new key completes a record whose key no
  event carries; it is counted as an orphan although nothing is wrong. `docs/38-…:115` asks for
  "orphan idempotency" to be 0 before and after a recovery. `AlarmsAreExplained` excepts these records
  and says that no other completed record is without its event.
* `services/reconciliation_service.py:442` — a balance is compared with the sum of the ledger alone, so an account
  with an opening balance, like the two of `infra/postgres/init.sql:88`, is reported from the start. `docs/38-…:119`
  asks for "ledger/account balance mismatch" to be 0. `AlarmsAreExplained` excepts these accounts.
* `services/recovery_case_service.py:60` — a count that is not zero again after its case was closed finds that case by
  its source key and opens none; no document says otherwise. `DamageIsReported` speaks of what the run asks for, not of new rows.

*Incidents, AI contexts and latency*

* `scripts/ph3_incident_analyzer.py:336` — a missing manifest reads as `{}` and earlier rules may match.
  `docs/45-ph3-incident-analyzer-mvp.md:286`: "If `manifest.json` is missing, PH3 writes
  `INSUFFICIENT_EVIDENCE` instead of guessing recovery actions." `SettledAnalysisIsAtomic` says that an
  analysis agrees with its evidence, not which rule comes first.
* `scripts/ph2_incident_artifact.py:101` — `sanitize_payload` drops the count keys that PH3 reads, so counts given
  to `create_artifact` never classify. `docs/45-…:269`: "non-zero duplicate/reconciliation counts
  classify as `CONSISTENCY_ISSUE_CANDIDATE`".
* `security/ai_context_sanitizer.py:292` — the validator judges the items of a list without the list's key and
  reports a long hash under a hash key that the sanitizer keeps.
  `docs/48-ph6-ai-safe-context-sanitizer.md:164`: "`account_token`, `event_token`,
  `idempotency_key_hash`, and `request_hash` are allowed". `SanitizedIsValid` excepts long strings
  in lists.
* `security/ai_context_sanitizer.py:193` — a key that is not allowlisted is removed, but its text goes into
  `removed_fields[].path`. Where the key itself looks like an account number, the validator
  refuses what the sanitizer has written (line 286). `docs/48-…:163`: "raw values do not appear in
  redaction summary". `SanitizedIsValid` excepts these keys, and
  `ValidIsSafe` says that no such file passes.
* `scripts/ph10_latency_attribution.py:297` — with normal k6 percentiles and no `error_rate` the comparison raises
  `TypeError`; line 822 has the class for it: "evidence is missing or contradictory". The same
  rule looks at no server timing, while line 809 says "k6 and server timings are near baseline".
* `scripts/ph10_latency_attribution.py:379` — the pool and lock rules do not ask for PostgreSQL phase timing.
  `docs/52-ph10-latency-attribution-diagnosis.md:113`: "a PostgreSQL classification requires FastAPI
  handler timing plus PostgreSQL phase timing." `VerdictSurvivesLoss` counts the phase timing among
  what such a verdict rests on, and says nothing of its loss.
* `scripts/ph10_latency_attribution.py:401` — the PostgreSQL rule looks at no other phase and reports "Redis and
  outbound phases are not dominant" also when Redis has the 40 % of
  `docs/41-latency-attribution-and-external-dependency-diagnosis.md:118`.

*Deployment*

* `scripts/rollback.sh:18` — the script decides by `.active-color`. After a switch that was killed between the
  reload and line 196 of `deployment-lib.sh` it reports "Rollback completed" with the traffic on
  Green. `docs/phase-12-blue-green-rollback.md:86`: "Nginx upstream을 Blue로 되돌리고 smoke 확인".
  `CompletedSwitchSettles` says that `switch_traffic.sh` repairs this state.
* `scripts/deployment-lib.sh:174` — the configuration that is to be replaced is tested first: with Green active
  and its container stopped, `nginx -t` fails and the rollback ends. Line 218 of the same document:
  "문제가 생기면 Blue로 즉시 되돌릴 수 있는 구조를 선택했다".
* `scripts/deploy-blue-green.sh:13` — a deploy rebuilds `api-blue` from the tree of the candidate, so a failing
  candidate can leave a broken Blue serving. Line 127: "사용자 영향: 없음."
* `scripts/deployment-lib.sh:196` — of two operators who switch at once, the slower one's colour stays in
  `.active-color` whatever is routed; no document says otherwise, and only `SnippetIsRouted` is claimed.
