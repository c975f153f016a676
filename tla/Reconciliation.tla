--------------------------- MODULE Reconciliation ---------------------------
(***************************************************************************)
(* ReconciliationService: what it counts in a committed state of the        *)
(* database of EventProcessing, and the cases it has created for it.  Every *)
(* count is one SQL statement and so sees one committed state, whatever     *)
(* calls are under way.                                                     *)
(*                                                                         *)
(* db is a committed state: the database as it is, or as it would be with   *)
(* one row lost, doubled or altered behind the constraints (a bad restore,  *)
(* manual SQL), which is what the service is there to find.  Rows in        *)
(* progress count as older than the threshold.                              *)
(***************************************************************************)
EXTENDS EventProcessing, Functions

INSTANCE RecoveryPlans

Database == [idem |-> idem, events |-> events, ledger |-> ledger, balance |-> balance]

Rows(db) == UNION {{<<a, i>> : i \in DOMAIN db.ledger[a]} : a \in Accounts}
EventOf(db, r) == db.ledger[r[1]][r[2]].event
RowsOf(db, d) == {r \in Rows(db) : EventOf(db, r) = d}

DuplicateLedger(db) == {d \in Calls : \E q, r \in RowsOf(db, d) : q # r}

EventsWithExternalId(db, x) == {d \in Calls : db.events[d] # None /\ db.events[d].ext = x}
DuplicateExternalEvent(db) ==
  {x \in ExtIds : \E c, d \in EventsWithExternalId(db, x) : c # d}

(* transaction_events.idempotency_key is the key of the call that inserted it *)
EventsWithKey(db, k) == {d \in Calls : db.events[d] # None /\ req[d].key = k}

CompletedWithoutEvent(db) ==
  {d \in Calls : /\ db.idem[d] # None /\ db.idem[d].status = "COMPLETED"
                 /\ EventsWithKey(db, db.idem[d].key) = {}}

(* mutant: a failed event is expected to have moved money *)
AnyEventWithoutLedger(db) ==
  {d \in Calls : db.events[d] # None /\ RowsOf(db, d) = {}}

(* mutant: a cancelled event is not *)
CompletedEventWithoutLedger(db) ==
  {d \in Calls : /\ db.events[d] # None /\ RowsOf(db, d) = {}
                 /\ db.events[d].status = "COMPLETED"}

EventWithoutLedger(db) ==
  {d \in Calls : /\ db.events[d] # None /\ RowsOf(db, d) = {}
                 /\ db.events[d].status \in {"COMPLETED", "CANCELLED", "SETTLED",
                                             "RECEIVED", "VALIDATED", "PROCESSING"}}

LedgerWithoutEvent(db) == {r \in Rows(db) : db.events[EventOf(db, r)] = None}

(* the sums of the amounts up to each entry *)
RunningSum(entries) ==
  LET sum[i \in 0 .. Len(entries)] == IF i = 0 THEN 0 ELSE sum[i - 1] + entries[i].amount
  IN sum

LedgerSum(db, a) == RunningSum(db.ledger[a])[Len(db.ledger[a])]
BalanceMismatch(db) == {a \in Accounts : db.balance[a] # LedgerSum(db, a)}

StaleProcessing(db) ==
  {d \in Calls : db.idem[d] # None /\ db.idem[d].status = "PROCESSING"}

(* mutant: a committed event is proof enough *)
ProposeByEvent(db, d) ==
  IF EventsWithKey(db, db.idem[d].key) # {}
  THEN "MARK_COMPLETED" ELSE "MARK_FAILED_RETRYABLE"

(* what to do with a stale record: its event and the event's entry are looked up *)
ProposedStaleAction(db, d) ==
  IF \E e \in EventsWithKey(db, db.idem[d].key) : RowsOf(db, e) # {}
  THEN "MARK_COMPLETED" ELSE "MARK_FAILED_RETRYABLE"

Found(db) ==
  {issue \in {"duplicate_ledger", "account_balance_mismatch",
              "completed_idempotency_without_transaction_event",
              "transaction_event_without_ledger", "ledger_without_transaction_event"} :
     CASE issue = "duplicate_ledger" -> DuplicateLedger(db) # {}
       [] issue = "account_balance_mismatch" -> BalanceMismatch(db) # {}
       [] issue = "completed_idempotency_without_transaction_event" ->
            CompletedWithoutEvent(db) # {}
       [] issue = "transaction_event_without_ledger" -> EventWithoutLedger(db) # {}
       [] issue = "ledger_without_transaction_event" -> LedgerWithoutEvent(db) # {}}

(* what "run" creates: cases of the stale records, then of the counts *)
StaleCases(db) == UNION {Range(StalePlan(<<d>>)) : d \in StaleProcessing(db)}
RunPlan(db) == StaleCases(db) \cup Range(ReconciliationPlan(Found(db)))

-----------------------------------------------------------------------------
(* The database with one row damaged *)

WithoutItem(s, i) == SubSeq(s, 1, i - 1) \o SubSeq(s, i + 1, Len(s))

EntryLost(r) == [Database EXCEPT !.ledger[r[1]] = WithoutItem(@, r[2])]
EntryDoubled(r) == [Database EXCEPT !.ledger[r[1]] = Append(@, @[r[2]])]
EventLost(r) == [Database EXCEPT !.events[EventOf(Database, r)] = None]
BalanceAltered(a) == [Database EXCEPT !.balance[a] = @ + 1]
RecordStuck(d) == [Database EXCEPT !.idem[d].status = "PROCESSING"]

-----------------------------------------------------------------------------
(* Properties *)

(* As long as only the service writes, at any moment and with any calls under *)
(* way or dead, reconcile and detect_stale_processing report no duplicate, no *)
(* half of an event and no stale record.  An account is reported only when it *)
(* had a balance before its first event, and a completed record without an    *)
(* event only when its call was answered as a duplicate: the event of a first *)
(* answer is never missing.  These two alarms are bounded here, not excluded: *)
(* they do occur (README, section 7).                                         *)
AlarmsAreExplained ==
  /\ DuplicateLedger(Database) = {} /\ DuplicateExternalEvent(Database) = {}
  /\ EventWithoutLedger(Database) = {} /\ LedgerWithoutEvent(Database) = {}
  /\ StaleProcessing(Database) = {}
  /\ BalanceMismatch(Database) \subseteq {a \in Accounts : OpeningBalance[a] # 0}
  /\ \A d \in CompletedWithoutEvent(Database) : idem[d].result.duplicated

OpensAndContains(db, issue) ==
  LET key == <<"ph5:reconcile", issue>> IN
  {CaseItem(key), QuarantineItem(<<"GLOBAL_WRITE", issue>>, key)} \subseteq RunPlan(db)

(* Whatever single row of the ledger, the events or the balances were to be   *)
(* damaged, at any moment, the next run opens a case of the right kind and a  *)
(* quarantine with it; a stuck record gets a case of its own                  *)
(* (_create_reconciliation_cases, _create_stale_recovery_case).  A balance is *)
(* only known to be wrong where the ledger explains all of it.  The run asks  *)
(* for these cases; where one of the same source key exists, a closed one     *)
(* included, create_case returns that one (recovery_case_service.py:60-62).   *)
DamageIsReported ==
  /\ \A r \in Rows(Database) :
       /\ OpensAndContains(EntryLost(r), "transaction_event_without_ledger")
       /\ OpensAndContains(EntryDoubled(r), "duplicate_ledger")
       /\ OpensAndContains(EventLost(r), "ledger_without_transaction_event")
  /\ \A a \in Accounts : OpeningBalance[a] = 0 =>
       OpensAndContains(BalanceAltered(a), "account_balance_mismatch")
  /\ \A d \in Calls : idem[d] # None =>
       CaseItem(<<"ph5:stale", d>>) \in RunPlan(RecordStuck(d))

(* For a record that is stuck, completion is proposed exactly when its money  *)
(* has moved, and a retry when it has not (_proposed_stale_action): neither   *)
(* proposal would lose or repeat a movement.                                  *)
ProposalFitsTheLedger ==
  \A d \in Calls : idem[d] # None =>
    (ProposedStaleAction(RecordStuck(d), d) = "MARK_COMPLETED"
       <=> RowsOf(Database, d) # {})

=============================================================================
