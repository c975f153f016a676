----------------------- MODULE EventProcessingProofs -----------------------
(***************************************************************************)
(* Proofs about EventProcessing for every set of calls, requests and       *)
(* accounts, every fault and every setting.                                *)
(*                                                                         *)
(* IInv is inductive, and with it TypeOK, LedgerChain and AppliedOnce      *)
(* hold.  A step that commits nothing changes one call's state only:       *)
(* LocalStep reduces it to that call's facts, FinishInv is for a           *)
(* transaction that ends without a commit, OutsideStep for a call outside  *)
(* its transaction, SessionStep for one that stays inside, and             *)
(* EnvironmentStep for steps of no call.  WrittenEvents and WrittenOthers  *)
(* say what a commit does to the events table and to the facts of the      *)
(* other calls; the commit goes through WrittenInv, for Commit and         *)
(* LoseCommit alike.                                                       *)
(*                                                                         *)
(* SerialInv is inductive relative to IInv, and with it EventProcessing    *)
(* implements SerialLedger, what is committed is final and a quarantine    *)
(* stops writes.  A step that commits nothing goes through OutcomeLocal    *)
(* and maps to a stutter of SerialLedger; a commit goes through            *)
(* WrittenEntries and maps to Refuse, Repeat or Settle.                    *)
(***************************************************************************)
EXTENDS EventProcessingInv, TLAPS

USE DEF callVars, dbVars, redisVars, quarantineVars

-----------------------------------------------------------------------------
(* What the steps have in common, and those up to the insert of the record *)

(* The facts of one call *)
LEMMA CallFacts ==
  ASSUME IInv, NEW c \in Calls
  PROVE  /\ OnlyInTransaction(c) /\ KeyHeld(c) /\ AccountHeld(c)
         /\ ExtIdHeld(c) /\ OriginalHeld(c) /\ EntryReady(c)
BY Zenon DEF IInv, CallInv

(* The fields of a request *)
LEMMA RequestFields ==
  ASSUME NEW q \in Requests
  PROVE  /\ q.key \in Keys
         /\ q.ext \in ExtIds
         /\ q.type \in EventType
         /\ q.amount \in Nat \ {0}
         /\ q.currency \in {r.currency : r \in Requests}
         /\ q.occurred \in {r.occurred : r \in Requests}
         /\ q.type = "CANCEL" <=> q.orig # None
BY Zenon, ConstantsAssumption DEF ValidRequest, Request, Keys, ExtIds

(* An element of a sequence has the type of the sequence *)
LEMMA ElementType ==
  ASSUME NEW S, NEW s \in Seq(S), NEW i \in DOMAIN s
  PROVE  s[i] \in S
OBVIOUS

(* Appending a row keeps the rows before it *)
LEMMA AppendFacts ==
  ASSUME NEW S, NEW s \in Seq(S), NEW e \in S
  PROVE  /\ Append(s, e) \in Seq(S)
         /\ Len(s) \in Nat /\ DOMAIN s = 1 .. Len(s)
         /\ DOMAIN Append(s, e) = 1 .. Len(s) + 1
         /\ Len(Append(s, e)) = Len(s) + 1
         /\ \A i \in 1 .. Len(s) : Append(s, e)[i] = s[i]
         /\ Append(s, e)[Len(s) + 1] = e
         /\ s = <<>> <=> Len(s) = 0
         /\ Append(s, e) # <<>>
OBVIOUS

(* A key, an account, an event row and an external id can be locked *)
LEMMA ResourceTypes ==
  /\ \A k \in Keys : <<"key", k>> \in Resource
  /\ \A a \in Accounts : <<"account", a>> \in Resource
  /\ \A d \in Calls : <<"event", d>> \in Resource
  /\ \A x \in ExtIds : <<"ext", x>> \in Resource
BY Zenon DEF Resource

(* the variables a step of a call changes besides pc, tx, held and out *)
RestTypeOK ==
  /\ attempt \in [Calls -> {0, 1}]
  /\ acquired \in [Calls -> BOOLEAN]
  /\ quarantined \in SUBSET Accounts
  /\ lock \in [Keys -> Calls \cup {Nobody}]
  /\ cache \in [Keys -> CachedResponse \cup {None}]
  /\ grace \in [Accounts -> SUBSET Calls]

(* The request of a call that has been sent *)
LEMMA SentRequest ==
  ASSUME IInv, NEW c \in Calls, pc[c] # "idle"
  PROVE  req[c] \in Requests /\ req[c] # None
<1>1. req[c] # None
  BY Zenon, CallFacts DEF OnlyInTransaction
<1> QED
  BY Zenon, <1>1 DEF IInv, TypeOK

(* change_status changes the status and the history, nothing else *)
LEMMA ChangeStatusType ==
  ASSUME NEW e \in EventRow, NEW s \in Status
  PROVE  /\ ChangeStatus(e, s) \in EventRow /\ ChangeStatus(e, s) # None
         /\ ChangeStatus(e, s).ext = e.ext /\ ChangeStatus(e, s).acct = e.acct
         /\ ChangeStatus(e, s).type = e.type /\ ChangeStatus(e, s).amount = e.amount
<1>1. Append(e.history, s) \in Seq(Status)
  BY DEF EventRow
<1>2. ChangeStatus(e, s) = [e EXCEPT !.status = s, !.history = Append(e.history, s)]
  BY Zenon DEF ChangeStatus
<1>3. ChangeStatus(e, s) \in EventRow
  BY Zenon, <1>1, <1>2 DEF EventRow
<1> QED
  BY Zenon, <1>2, <1>3, NoneAssumption DEF EventRow

(* The event that a call takes from RECEIVED to PROCESSING keeps its data *)
LEMMA StatusChanged ==
  ASSUME NEW e \in EventRow, NEW s \in Status
  PROVE  /\ ChangeStatus(e, s) \in EventRow /\ ChangeStatus(e, s).status = s
         /\ ChangeStatus(e, s).type = e.type /\ ChangeStatus(e, s).amount = e.amount
         /\ ChangeStatus(e, s).acct = e.acct /\ ChangeStatus(e, s).currency = e.currency
<1>1. ChangeStatus(e, s).status = s /\ ChangeStatus(e, s).currency = e.currency
  BY Zenon DEF ChangeStatus, EventRow
<1> QED
  BY Zenon, <1>1, ChangeStatusType

(* A ledger amount is an integer *)
LEMMA LedgerAmountType ==
  ASSUME NEW type \in EventType, NEW amount \in Nat, NEW original
  PROVE  CalculateLedgerAmount(type, amount, original) \in Int
BY DEF CalculateLedgerAmount, EventType

-----------------------------------------------------------------------------
(* The steps outside _process_started *)

(* An empty database and calls not yet sent satisfy the invariant *)
LEMMA InitInv == Init => IInv
<1> SUFFICES ASSUME Init PROVE IInv
  OBVIOUS
<1>1. TypeOK
  BY ConstantsAssumption, NoneAssumption DEF Init, TypeOK, Label, EmptyTx, Transaction
<1>2. \A c \in Calls : CallInv(c)
  BY Zenon DEF Init, CallInv, OnlyInTransaction, KeyHeld, AccountHeld, ExtIdHeld,
         OriginalHeld, EntryReady, EmptyTx, InTransaction, StartedLabel
<1>3. Exclusive /\ UniqueKeys /\ StoredResults /\ UniqueExtIds
  BY Zenon DEF Init, Exclusive, UniqueKeys, StoredResults, UniqueExtIds
<1>4. LedgerOfEvents /\ LedgerChain
  BY ConstantsAssumption DEF Init, LedgerOfEvents, LedgerChain, Entries
<1> QED
  BY Zenon, <1>1, <1>2, <1>3, <1>4 DEF IInv

(* What holds of a call about to commit *)
LEMMA CommitFacts ==
  ASSUME IInv, NEW c \in Calls, pc[c] = "commit"
  PROVE  /\ tx[c] \in Transaction
         /\ tx[c].row \in IdempotencyRecord /\ tx[c].row # None
         /\ tx[c].row.key = req[c].key /\ tx[c].row.result # None
         /\ tx[c].event \in EventRow \cup {None}
         /\ tx[c].entry \in LedgerEntry \cup {None}
         /\ req[c] \in Requests /\ req[c] # None
         /\ events[c] = None /\ idem[c] = None
         /\ <<"key", req[c].key>> \in held[c]
         /\ RecordsWithKey(req[c].key) = {}
         /\ tx[c].event # None =>
              /\ tx[c].event.ext = req[c].ext /\ tx[c].event.acct = req[c].acct
              /\ <<"ext", req[c].ext>> \in held[c]
              /\ EventsWithExtId(req[c].ext) = {}
         /\ tx[c].entry # None =>
              /\ tx[c].event # None
              /\ tx[c].entry \in LedgerEntry
              /\ req[c].acct \in Accounts
              /\ <<"account", req[c].acct>> \in held[c]
              /\ tx[c].entry.event = c
              /\ tx[c].entry.after \in 0 .. MaxBigint
              /\ tx[c].entry.after = balance[req[c].acct] + tx[c].entry.amount
<1>1. tx[c] \in Transaction /\ req[c] \in Requests /\ req[c] # None
  BY Zenon, SentRequest DEF IInv, TypeOK
<1>2. /\ tx[c].row # None /\ tx[c].row.key = req[c].key /\ tx[c].row.result # None
      /\ <<"key", req[c].key>> \in held[c] /\ RecordsWithKey(req[c].key) = {}
      /\ events[c] = None /\ idem[c] = None
  BY Zenon DEF IInv, CallInv, KeyHeld, OnlyInTransaction, InTransaction
<1>3. tx[c].event # None =>
        /\ tx[c].event.ext = req[c].ext /\ tx[c].event.acct = req[c].acct
        /\ <<"ext", req[c].ext>> \in held[c]
        /\ EventsWithExtId(req[c].ext) = {}
        /\ req[c].acct \in Accounts
        /\ <<"account", req[c].acct>> \in held[c]
        /\ tx[c].balance = balance[req[c].acct]
  BY Zenon DEF IInv, CallInv, ExtIdHeld, AccountHeld
<1>4. tx[c].entry # None =>
        /\ tx[c].event # None
        /\ tx[c].entry.event = c
        /\ tx[c].entry.after \in 0 .. MaxBigint
        /\ tx[c].entry.after = tx[c].balance + tx[c].entry.amount
  BY Zenon DEF IInv, CallInv, EntryReady
<1> QED
  BY Zenon, <1>1, <1>2, <1>3, <1>4 DEF Transaction

(* The commit changes no committed event but the original's status *)
LEMMA WrittenEvents ==
  ASSUME IInv, NEW c \in Calls, pc[c] = "commit", Written(c)
  PROVE  /\ events' \in [Calls -> EventRow \cup {None}]
         /\ events'[c] = tx[c].event
         /\ \A d \in Calls : d # c =>
              /\ events'[d] # None <=> events[d] # None
              /\ events[d] # None => /\ events'[d].ext = events[d].ext
                                     /\ events'[d].acct = events[d].acct
<1>1. ASSUME NEW d \in Calls, d # c, d = tx[c].original
      PROVE  /\ events[d] \in EventRow /\ events[d] # None
             /\ ChangeStatus(events[d], "CANCELLED") \in EventRow
             /\ ChangeStatus(events[d], "CANCELLED") # None
             /\ ChangeStatus(events[d], "CANCELLED").ext = events[d].ext
             /\ ChangeStatus(events[d], "CANCELLED").acct = events[d].acct
  <2>1. events[d] # None
    BY Zenon, <1>1, ConstantsAssumption, CallFacts DEF OriginalHeld
  <2>2. events[d] \in EventRow
    BY Zenon, <2>1 DEF IInv, TypeOK
  <2> QED
    BY Zenon, <2>1, <2>2, ChangeStatusType DEF Status
<1>2. \A d \in Calls : d # c =>
        \/ events'[d] = events[d]
        \/ d = tx[c].original /\ events'[d] = ChangeStatus(events[d], "CANCELLED")
  <2>1. events' =
          [d \in Calls |->
             IF d = c THEN tx[c].event
             ELSE IF tx[c].entry # None /\ d = tx[c].original
             THEN ChangeStatus(events[d], "CANCELLED")
             ELSE events[d]]
    BY Zenon DEF Written
  <2>2. ASSUME NEW d \in Calls, d # c
        PROVE  \/ events'[d] = events[d]
               \/ d = tx[c].original /\ events'[d] = ChangeStatus(events[d], "CANCELLED")
    <3> HIDE DEF ChangeStatus
    <3>1. events'[d] = IF tx[c].entry # None /\ d = tx[c].original
                       THEN ChangeStatus(events[d], "CANCELLED")
                       ELSE events[d]
      BY Zenon, <2>1, <2>2
    <3> QED
      BY Zenon, <3>1
  <2> QED
    BY Zenon, <2>2
<1>3. events'[c] = tx[c].event /\ tx[c].event \in EventRow \cup {None}
  BY Zenon, CommitFacts DEF Written
<1>4. \A d \in Calls : events'[d] \in EventRow \cup {None}
  BY ZenonT(120), <1>1, <1>2, <1>3 DEF IInv, TypeOK
<1>5. events' \in [Calls -> EventRow \cup {None}]
  BY Zenon, <1>4 DEF Written
<1> QED
  BY Zenon, <1>1, <1>2, <1>3, <1>5

-----------------------------------------------------------------------------
(* The steps of process, one by one, and the commit *)

(* Every step keeps the invariant *)
LEMMA NextInv == IInv /\ [Next]_vars => IInv'
(* What holds of the committed rows stays true while nothing is committed *)
<1>SameRows.
  ASSUME IInv, UNCHANGED dbVars
  PROVE  /\ UniqueKeys' /\ StoredResults' /\ UniqueExtIds'
         /\ LedgerOfEvents' /\ LedgerChain'
  <2> USE <1>SameRows
  <2>1. UniqueKeys /\ StoredResults /\ UniqueExtIds /\ LedgerOfEvents /\ LedgerChain
    BY Zenon DEF IInv
  <2>2. UniqueKeys' /\ StoredResults' /\ UniqueExtIds'
    BY Zenon, <2>1 DEF UniqueKeys, StoredResults, UniqueExtIds
  <2>3. LedgerOfEvents'
    BY Zenon, <2>1 DEF LedgerOfEvents, Entries
  <2>4. LedgerChain'
    BY Zenon, <2>1 DEF LedgerChain, Entries
  <2> QED
    BY Zenon, <2>2, <2>3, <2>4
(* A step of call c that commits nothing leaves the other calls' facts and  *)
(* the committed rows alone.                                                *)
<1>LocalStep.
  ASSUME IInv, NEW c \in Calls,
         UNCHANGED dbVars,
         \A d \in Calls : d # c =>
           /\ pc'[d] = pc[d] /\ req'[d] = req[d]
           /\ tx'[d] = tx[d] /\ held'[d] = held[d],
         TypeOK', CallInv(c)', Exclusive'
  PROVE  IInv'
  <2> USE <1>LocalStep
  <2>1. \A d \in Calls : CallInv(d)'
    <3>1. SUFFICES ASSUME NEW d \in Calls, d # c PROVE CallInv(d)'
      BY Zenon
    <3>2. OnlyInTransaction(d)' /\ KeyHeld(d)'
      BY CallFacts, <3>1 DEF OnlyInTransaction, KeyHeld, RecordsWithKey
    <3>3. AccountHeld(d)' /\ ExtIdHeld(d)'
      BY CallFacts, <3>1 DEF AccountHeld, ExtIdHeld, EventsWithExtId
    <3>4. OriginalHeld(d)' /\ EntryReady(d)'
      BY CallFacts, <3>1 DEF OriginalHeld, EntryReady
    <3> QED
      BY Zenon, <3>2, <3>3, <3>4 DEF CallInv
  <2> QED
    BY Zenon, <2>1, <1>SameRows DEF IInv
(* A session that has written nothing *)
<1>EmptyTxType. EmptyTx \in Transaction
  BY DEF EmptyTx, Transaction
(* Every answer is a Result *)
<1>StatusCodeType. ASSUME NEW e PROVE StatusCodeFor(e) \in Nat
  BY <1>StatusCodeType DEF StatusCodeFor
(* the error body of a failed request *)
<1>FailureType.
  ASSUME NEW e \in DomainFailure \cup OtherError
  PROVE  Failure(e) \in Result
  BY <1>FailureType, <1>StatusCodeType DEF Failure, Result
(* the body of a 200 answer *)
<1>SuccessType.
  ASSUME NEW d \in Calls, NEW after \in Int, NEW dup \in BOOLEAN
  PROVE  Success(d, after, dup) \in Result
  BY <1>SuccessType DEF Success, Result
(* the 202 answer *)
<1>AlreadyProcessingType. AlreadyProcessing \in Result
  BY DEF AlreadyProcessing, Result
(* Locks are only let go *)
<1>ExclusiveLess.
  ASSUME IInv, \A d \in Calls : held'[d] \subseteq held[d]
  PROVE  Exclusive'
  BY Zenon, <1>ExclusiveLess DEF IInv, Exclusive
(* A free lock is taken *)
<1>ExclusiveHold.
  ASSUME IInv, NEW c \in Calls, NEW r \in Resource, Free(r), Hold(c, r)
  PROVE  /\ Exclusive'
         /\ held' \in [Calls -> SUBSET Resource]
         /\ held'[c] = held[c] \cup {r}
         /\ \A d \in Calls : d # c => held'[d] = held[d]
  <2> USE <1>ExclusiveHold
  <2>1. /\ held' \in [Calls -> SUBSET Resource]
        /\ held'[c] = held[c] \cup {r}
        /\ \A d \in Calls : d # c => held'[d] = held[d]
    BY Zenon DEF IInv, TypeOK, Hold
  <2>2. Exclusive'
    BY <2>1 DEF IInv, Exclusive, Free
  <2> QED
    BY Zenon, <2>1, <2>2
(* A call outside its transaction claims nothing *)
<1>OutsideInv.
  ASSUME NEW c \in Calls,
         pc'[c] \notin InTransaction, tx'[c] = EmptyTx, held'[c] = {},
         pc'[c] # "idle" => req'[c] # None,
         events'[c] # None \/ idem'[c] # None => pc'[c] \in {"release", "done", "crashed"}
  PROVE  CallInv(c)'
  BY <1>OutsideInv DEF CallInv, OnlyInTransaction, KeyHeld, AccountHeld, ExtIdHeld, OriginalHeld,
         EntryReady, InTransaction, StartedLabel, EmptyTx
(* A transaction that ends without a commit *)
<1>FinishInv.
  ASSUME IInv, NEW c \in Calls, NEW result \in Result \cup {None},
         Finish(c, result), req[c] # None, UNCHANGED <<req, dbVars>>, RestTypeOK'
  PROVE  IInv'
  <2> USE <1>FinishInv
  <2> USE DEF Finish, Goto
  <2>1. TypeOK'
    BY Zenon, <1>EmptyTxType DEF IInv, TypeOK, RestTypeOK, Label
  <2>2. CallInv(c)'
    BY Zenon, <1>OutsideInv DEF IInv, TypeOK, InTransaction, StartedLabel
  <2>3. Exclusive'
    BY Zenon, <1>ExclusiveLess DEF IInv, TypeOK
  <2> QED
    BY Zenon, <2>1, <2>2, <2>3, <1>LocalStep DEF IInv, TypeOK
(* A step before or after the transaction *)
<1>OutsideStep.
  ASSUME IInv, NEW c \in Calls, NEW l \in Label \ (InTransaction \cup {"idle"}),
         pc[c] \notin InTransaction,
         pc' = [pc EXCEPT ![c] = l],
         req' \in [Calls -> Requests \cup {None}], req'[c] # None,
         \A d \in Calls : d # c => req'[d] = req[d],
         out' \in [Calls -> Result \cup {None}],
         UNCHANGED <<tx, held, dbVars>>, RestTypeOK',
         events[c] # None \/ idem[c] # None => l \in {"release", "done", "crashed"}
  PROVE  IInv'
  <2> USE <1>OutsideStep
  <2>1. TypeOK'
    BY Zenon DEF IInv, TypeOK, RestTypeOK
  <2>2. pc'[c] = l /\ \A d \in Calls : d # c => pc'[d] = pc[d]
    BY Zenon DEF IInv, TypeOK
  <2>3. CallInv(c)'
    BY Zenon, <2>2, <1>OutsideInv, CallFacts DEF OnlyInTransaction
  <2>4. Exclusive'
    BY Zenon, <1>ExclusiveLess
  <2> QED
    BY Zenon, <2>1, <2>2, <2>3, <2>4, <1>LocalStep
(* A step of the environment *)
<1>EnvironmentStep.
  ASSUME IInv, UNCHANGED <<callVars, dbVars>>, RestTypeOK'
  PROVE  IInv'
  <2> USE <1>EnvironmentStep
  <2>1. TypeOK'
    BY Zenon DEF IInv, TypeOK, RestTypeOK
  <2>2. \A d \in Calls : CallInv(d)'
    <3>1. SUFFICES ASSUME NEW d \in Calls PROVE CallInv(d)'
      OBVIOUS
    <3>2. OnlyInTransaction(d)' /\ KeyHeld(d)'
      BY Zenon, CallFacts DEF OnlyInTransaction, KeyHeld, RecordsWithKey
    <3>3. AccountHeld(d)' /\ ExtIdHeld(d)'
      BY Zenon, CallFacts DEF AccountHeld, ExtIdHeld, EventsWithExtId
    <3>4. OriginalHeld(d)' /\ EntryReady(d)'
      BY Zenon, CallFacts DEF OriginalHeld, EntryReady
    <3> QED
      BY Zenon, <3>2, <3>3, <3>4 DEF CallInv
  <2>3. Exclusive'
    BY Zenon, <1>ExclusiveLess
  <2> QED
    BY Zenon, <2>1, <2>2, <2>3, <1>SameRows DEF IInv
(* A step inside the transaction *)
<1>SessionStep.
  ASSUME IInv, NEW c \in Calls, NEW l \in Label, NEW t \in Transaction,
         pc' = [pc EXCEPT ![c] = l], tx' = [tx EXCEPT ![c] = t],
         held' \in [Calls -> SUBSET Resource], Exclusive',
         \A d \in Calls : d # c => held'[d] = held[d],
         UNCHANGED <<req, out, dbVars>>, RestTypeOK',
         pc'[c] = l /\ tx'[c] = t => CallInv(c)'
  PROVE  IInv'
  <2> USE <1>SessionStep
  <2>1. TypeOK'
    BY Zenon DEF IInv, TypeOK, RestTypeOK
  <2>2. /\ pc'[c] = l /\ tx'[c] = t
        /\ \A d \in Calls : d # c => pc'[d] = pc[d] /\ tx'[d] = tx[d]
    BY Zenon DEF IInv, TypeOK
  <2> QED
    BY Zenon, <2>1, <2>2, <1>LocalStep
(* Writing a field of the session *)
<1>RowType.
  ASSUME NEW t \in Transaction, NEW r \in IdempotencyRecord \cup {None}
  PROVE  [t EXCEPT !.row = r] \in Transaction
  BY Zenon, <1>RowType DEF Transaction
(* The cache keeps its type *)
<1>SetCompletedType.
  ASSUME IInv, NEW c \in Calls, pc[c] # "idle", NEW r \in Result, SetCompleted(c, r)
  PROVE  cache' \in [Keys -> CachedResponse \cup {None}]
  <2> USE <1>SetCompletedType
  <2>1. req[c] \in Requests /\ req[c].key \in Keys
    BY Zenon, SentRequest, RequestFields
  <2>2. [hash |-> req[c], result |-> r] \in CachedResponse
    BY Zenon, <2>1 DEF CachedResponse
  <2> QED
    BY ZenonT(120), <2>1, <2>2 DEF SetCompleted, IInv, TypeOK
(* The insert of the record takes the key, waits or rolls back *)
<1>CreateProcessingInv.
  ASSUME IInv, NEW c \in Calls, CreateProcessing(c)
  PROVE  IInv'
  <2> USE <1>CreateProcessingInv
  <2> USE DEF CreateProcessing
  <2>q. req[c] \in Requests
    BY Zenon DEF IInv, TypeOK, CallInv, OnlyInTransaction
  <2>r. RestTypeOK
    BY Zenon DEF IInv, TypeOK, RestTypeOK
  <2>1. CASE RecordsWithKey(req[c].key) = {}
    <3> DEFINE row == [key |-> req[c].key, hash |-> req[c],
                       status |-> "PROCESSING", result |-> None]
    <3>1. row \in IdempotencyRecord /\ row.key = req[c].key
      BY Zenon, <2>q, RequestFields DEF IdempotencyRecord
    <3>a. /\ pc[c] = "insertKey"
          /\ pc' = [pc EXCEPT ![c] = "lockAccount"]
          /\ tx' = [tx EXCEPT ![c] = [tx[c] EXCEPT !.row = row]]
          /\ Free(<<"key", req[c].key>>) /\ Hold(c, <<"key", req[c].key>>)
          /\ UNCHANGED <<req, attempt, acquired, out, dbVars, redisVars, quarantineVars>>
      BY Zenon, <2>1 DEF Goto
    <3> HIDE DEF row, CreateProcessing
    <3>2. [tx[c] EXCEPT !.row = row] \in Transaction
      BY Zenon, <3>1, <1>RowType DEF IInv, TypeOK
    <3>3. tx' \in [Calls -> Transaction] /\ tx'[c] = [tx[c] EXCEPT !.row = row]
      BY Zenon, <3>2, <3>a DEF IInv, TypeOK
    <3>4. /\ Exclusive'
          /\ held' \in [Calls -> SUBSET Resource]
          /\ held'[c] = held[c] \cup {<<"key", req[c].key>>}
          /\ \A d \in Calls : d # c => held'[d] = held[d]
      BY Zenon, <3>a, <2>q, RequestFields, ResourceTypes, <1>ExclusiveHold
    <3>5. TypeOK'
      BY Zenon, <3>a, <3>3, <3>4 DEF IInv, TypeOK, Label
    <3>6. tx[c] = EmptyTx /\ idem[c] = None /\ events[c] = None
      BY Zenon, <3>a, CallFacts DEF OnlyInTransaction, InTransaction, StartedLabel
    <3>b. /\ tx'[c].row = row /\ tx'[c].event = None /\ tx'[c].entry = None
          /\ tx'[c].original = Nobody
      BY <3>3, <3>6 DEF EmptyTx
    <3>c. pc'[c] = "lockAccount"
      BY Zenon, <3>a DEF IInv, TypeOK
    <3>7. KeyHeld(c)'
      BY Zenon, <2>1, <3>1, <3>4, <3>a, <3>b, <3>c, NoneAssumption DEF KeyHeld, RecordsWithKey
    <3>8. CallInv(c)'
      BY Zenon, <2>q, <3>6, <3>7, <3>a, <3>b, <3>c, NoneAssumption
         DEF CallInv, OnlyInTransaction, AccountHeld, ExtIdHeld,
             OriginalHeld, EntryReady, InTransaction, StartedLabel
    <3> QED
      BY Zenon, <3>4, <3>5, <3>8, <3>a, <1>LocalStep DEF IInv, TypeOK
  <2>2. CASE RecordsWithKey(req[c].key) # {} /\ attempt[c] = 0
    <3>1. TypeOK'
      BY ZenonT(120), <2>2 DEF IInv, TypeOK, Label, Goto
    <3>2. CallInv(c)'
      BY ZenonT(120), <2>2, <2>q, <1>OutsideInv, NoneAssumption
         DEF IInv, TypeOK, CallInv, OnlyInTransaction, InTransaction, StartedLabel, Goto
    <3>3. Exclusive'
      BY Zenon, <2>2, <1>ExclusiveLess
    <3> QED
      BY Zenon, <2>2, <3>1, <3>2, <3>3, <1>LocalStep DEF IInv, TypeOK, Goto
  <2>3. CASE RecordsWithKey(req[c].key) # {} /\ attempt[c] # 0
    BY Zenon, <2>3, <2>q, <2>r, <1>FailureType, <1>FinishInv, NoneAssumption DEF OtherError, RestTypeOK
  <2> QED
    BY Zenon, <2>1, <2>2, <2>3
(* The route receives a request *)
<1>SendInv.
  ASSUME IInv, NEW c \in Calls, NEW q \in Requests, Send(c, q)
  PROVE  IInv'
  <2> USE <1>SendInv
  <2>1. /\ "lock" \in Label \ (InTransaction \cup {"idle"})
        /\ pc[c] \notin InTransaction
    BY Zenon DEF Send, Label, InTransaction, StartedLabel
  <2>2. /\ req' \in [Calls -> Requests \cup {None}] /\ req'[c] # None
        /\ \A d \in Calls : d # c => req'[d] = req[d]
    BY Zenon, NoneAssumption DEF Send, IInv, TypeOK
  <2>3. events[c] = None /\ idem[c] = None
    BY Zenon DEF Send, IInv, CallInv, OnlyInTransaction
  <2>4. RestTypeOK' /\ out' \in [Calls -> Result \cup {None}]
    BY Zenon DEF Send, IInv, TypeOK, RestTypeOK
  <2> QED
    BY ZenonT(120), <2>1, <2>2, <2>3, <2>4, <1>OutsideStep DEF Send, Goto
(* RedisLock.acquire touches no row *)
<1>AcquireLockInv.
  ASSUME IInv, NEW c \in Calls, AcquireLock(c)
  PROVE  IInv'
  <2> USE <1>AcquireLockInv
  <2>q. req[c] \in Requests /\ req[c] # None /\ req[c].key \in Keys
    BY Zenon, SentRequest, RequestFields DEF AcquireLock
  <2>Labels. /\ {"check", "done"} \subseteq Label \ (InTransaction \cup {"idle"})
        /\ pc[c] \notin InTransaction
    BY Zenon DEF AcquireLock, Label, InTransaction, StartedLabel
  <2>NoRows. events[c] = None /\ idem[c] = None
    BY Zenon, CallFacts DEF AcquireLock, OnlyInTransaction
  <2>Types. RestTypeOK' /\ out' \in [Calls -> Result \cup {None}]
    <3> USE DEF AcquireLock, LockGranted, LockRejected, LockUnavailable
    <3>1. lock' \in [Keys -> Calls \cup {Nobody}]
      <4>1. lock' = lock \/ lock' = [lock EXCEPT ![req[c].key] = c]
        BY Zenon
      <4> QED
        BY Zenon, <4>1, <2>q DEF IInv, TypeOK
    <3>2. acquired' \in [Calls -> BOOLEAN]
      <4>1. acquired' = acquired \/ acquired' = [acquired EXCEPT ![c] = TRUE]
        BY Zenon
      <4> QED
        BY ZenonT(120), <4>1 DEF IInv, TypeOK
    <3>3. out' \in [Calls -> Result \cup {None}]
      <4>1. out' = out \/ out' = [out EXCEPT ![c] = AlreadyProcessing]
        OBVIOUS
      <4> QED
        BY ZenonT(120), <4>1, <1>AlreadyProcessingType DEF IInv, TypeOK
    <3> QED
      BY Zenon, <3>1, <3>2, <3>3 DEF IInv, TypeOK, RestTypeOK
  <2>Target. \E l \in {"check", "done"} : pc' = [pc EXCEPT ![c] = l]
    BY Zenon DEF AcquireLock, LockGranted, LockRejected, LockUnavailable, Goto
  <2>Rest. req' \in [Calls -> Requests \cup {None}] /\ UNCHANGED <<req, tx, held, dbVars>>
    BY Zenon DEF AcquireLock, IInv, TypeOK
  <2> QED
    BY Zenon, <2>q, <2>Labels, <2>NoRows, <2>Types, <2>Target, <2>Rest, <1>OutsideStep
(* The finally of process touches no row *)
<1>ReleaseInv.
  ASSUME IInv, NEW c \in Calls, Release(c)
  PROVE  IInv'
  <2> USE <1>ReleaseInv
  <2>q. req[c] \in Requests /\ req[c] # None /\ req[c].key \in Keys
    BY Zenon, SentRequest, RequestFields DEF Release
  <2>1. /\ "done" \in Label \ (InTransaction \cup {"idle"})
        /\ pc[c] \notin InTransaction
    BY Zenon DEF Release, Label, InTransaction, StartedLabel
  <2>2. RestTypeOK' /\ out' \in [Calls -> Result \cup {None}]
    BY ZenonT(120), <2>q DEF Release, IInv, TypeOK, RestTypeOK
  <2>3. /\ pc' = [pc EXCEPT ![c] = "done"]
        /\ req' \in [Calls -> Requests \cup {None}] /\ UNCHANGED <<req, tx, held, dbVars>>
    BY Zenon DEF Release, Goto, IInv, TypeOK
  <2> QED
    BY ZenonT(120), <2>q, <2>1, <2>2, <2>3, <1>OutsideStep
(* A dead process loses its session and its locks *)
<1>CrashInv.
  ASSUME IInv, NEW c \in Calls, Crash(c)
  PROVE  IInv'
  <2> USE <1>CrashInv
  <2> USE DEF Crash, Goto
  <2>q. req[c] # None
    BY ZenonT(120), SentRequest
  <2>1. TypeOK'
    BY Zenon, <1>EmptyTxType DEF IInv, TypeOK, Label
  <2>2. CallInv(c)'
    BY Zenon, <2>q, <1>OutsideInv DEF IInv, TypeOK, InTransaction, StartedLabel
  <2>3. Exclusive'
    BY Zenon, <1>ExclusiveLess DEF IInv, TypeOK
  <2> QED
    BY Zenon, <2>1, <2>2, <2>3, <1>LocalStep DEF IInv, TypeOK
(* Expiry in Redis and quarantines leave every session alone *)
<1>EnvironmentInv.
  ASSUME IInv,
         \/ \E k \in Keys : ExpireLock(k) \/ ExpireCache(k)
         \/ \E a \in Accounts : Quarantine(a) \/ ReleaseQuarantine(a)
         \/ Quiescent
  PROVE  IInv'
  <2> USE <1>EnvironmentInv
  <2> USE DEF IInv, TypeOK, RestTypeOK
  <2>1. ASSUME NEW k \in Keys, ExpireLock(k) \/ ExpireCache(k)
        PROVE  RestTypeOK' /\ UNCHANGED <<callVars, dbVars>>
    BY ZenonT(120), <2>1 DEF ExpireLock, ExpireCache
  <2>2. ASSUME NEW a \in Accounts, Quarantine(a)
        PROVE  RestTypeOK' /\ UNCHANGED <<callVars, dbVars>>
    <3>1. {c \in Calls : <<"account", a>> \in held[c]} \in SUBSET Calls
      OBVIOUS
    <3> QED
      BY Zenon, <2>2, <3>1 DEF Quarantine
  <2>3. ASSUME NEW a \in Accounts, ReleaseQuarantine(a)
        PROVE  RestTypeOK' /\ UNCHANGED <<callVars, dbVars>>
    BY Zenon, <2>3 DEF ReleaseQuarantine
  <2>4. ASSUME Quiescent
        PROVE  RestTypeOK' /\ UNCHANGED <<callVars, dbVars>>
    BY Zenon, <2>4 DEF Quiescent, vars
  <2> HIDE DEF IInv, TypeOK, RestTypeOK
  <2> QED
    BY Zenon, <2>1, <2>2, <2>3, <2>4, <1>EnvironmentStep
(* A failed statement ends the transaction without a commit *)
<1>FailStatementInv.
  ASSUME IInv, NEW c \in Calls, FailStatement(c)
  PROVE  IInv'
  <2> USE <1>FailStatementInv
  <2>1. req[c] # None
    BY Zenon, SentRequest DEF FailStatement, CheckingLabel, StartedLabel
  <2>2. \E e \in OtherError : Finish(c, Failure(e))
    BY Zenon DEF FailStatement, OtherError
  <2>3. RestTypeOK' /\ UNCHANGED <<req, dbVars>>
    BY Zenon DEF FailStatement, IInv, TypeOK, RestTypeOK
  <2> QED
    BY Zenon, <2>1, <2>2, <2>3, <1>FailureType, <1>FinishInv
(* A cached response is an answer and nothing else *)
<1>ReplayFromCacheInv.
  ASSUME IInv, NEW c \in Calls, ReplayFromCache(c)
  PROVE  IInv'
  <2> USE <1>ReplayFromCacheInv
  <2>1. req[c] # None /\ req[c].key \in Keys
    BY Zenon, SentRequest, RequestFields DEF ReplayFromCache
  <2>2. cache[req[c].key].result \in Result
    <3>1. cache[req[c].key] \in CachedResponse
      BY Zenon, <2>1 DEF ReplayFromCache, CacheHit, IInv, TypeOK
    <3> QED
      BY Zenon, <3>1 DEF CachedResponse
  <2>3. RestTypeOK' /\ UNCHANGED <<req, dbVars>>
    BY Zenon DEF ReplayFromCache, IInv, TypeOK, RestTypeOK
  <2> QED
    BY Zenon, <2>1, <2>2, <2>3, <1>FinishInv DEF ReplayFromCache
(* check_or_start answers from a committed record or goes on to the insert *)
<1>CheckOrStartInv.
  ASSUME IInv, NEW c \in Calls, CheckOrStart(c)
  PROVE  IInv'
  <2> USE <1>CheckOrStartInv
  <2>q. pc[c] = "check" /\ req[c] \in Requests /\ req[c] # None /\ req[c].key \in Keys
    BY Zenon, SentRequest, RequestFields DEF CheckOrStart
  <2>r. UNCHANGED <<req, dbVars>> /\ (UNCHANGED cache => RestTypeOK')
    BY Zenon DEF CheckOrStart, IInv, TypeOK, RestTypeOK
  <2>1. CASE /\ RecordsWithKey(req[c].key) = {}
             /\ Goto(c, "insertKey")
             /\ UNCHANGED <<out, tx, held, cache>>
    <3>1. /\ "insertKey" \in Label \ (InTransaction \cup {"idle"})
          /\ pc[c] \notin InTransaction
      BY Zenon, <2>q DEF Label, InTransaction, StartedLabel
    <3>2. events[c] = None /\ idem[c] = None
      BY Zenon, <2>q, CallFacts DEF OnlyInTransaction
    <3>3. req' \in [Calls -> Requests \cup {None}] /\ out' \in [Calls -> Result \cup {None}]
      BY Zenon, <2>1, <2>r DEF IInv, TypeOK
    <3> QED
      BY ZenonT(120), <2>1, <2>q, <2>r, <3>1, <3>2, <3>3, <1>OutsideStep DEF Goto
  <2>2. CASE Finish(c, Failure("IdempotencyConflict")) /\ UNCHANGED cache
    BY ZenonT(120), <2>2, <2>q, <2>r, <1>FailureType, <1>FinishInv DEF OtherError
  <2>3. ASSUME NEW d \in RecordsWithKey(req[c].key),
               Finish(c, StoredDecision(idem[d])),
               IF idem[d].status = "COMPLETED"
               THEN SetCompleted(c, idem[d].result)
               ELSE UNCHANGED cache
        PROVE  IInv'
    <3>d. d \in Calls /\ idem[d] # None
      BY Zenon DEF RecordsWithKey
    <3>r. idem[d] \in IdempotencyRecord /\ idem[d].result # None
      BY Zenon, <3>d DEF IInv, TypeOK, StoredResults
    <3>1. idem[d] \in IdempotencyRecord /\ idem[d].result \in Result
      BY Zenon, <3>r DEF IdempotencyRecord
    <3>2. StoredDecision(idem[d]) \in Result
      BY Zenon, <3>1, <1>AlreadyProcessingType DEF StoredDecision
    <3>3. cache' \in [Keys -> CachedResponse \cup {None}]
      BY ZenonT(120), <2>3, <2>q, <3>1, <1>SetCompletedType DEF IInv, TypeOK
    <3>4. RestTypeOK'
      BY Zenon, <3>3 DEF CheckOrStart, IInv, TypeOK, RestTypeOK
    <3>5. pc[c] = "check" /\ UNCHANGED <<req, dbVars>>
      BY Zenon, <2>q, <2>r
    <3> QED
      BY ZenonT(120), <2>3, <2>q, <3>5, <3>2, <3>4, <1>FinishInv
  <2> QED
    BY Zenon, <2>1, <2>2, <2>3 DEF CheckOrStart
(* Another call's facts survive the commit, because what they speak of is    *)
(* under a lock that call holds                                              *)
<1>WrittenOthers.
  ASSUME IInv, NEW c \in Calls, pc[c] = "commit", Written(c),
         NEW d \in Calls, d # c,
         pc'[d] = pc[d], req' = req, tx'[d] = tx[d], held'[d] = held[d]
  PROVE  CallInv(d)'
  <2> USE <1>WrittenOthers
  <2>e. \A e \in Calls : e # c =>
          /\ events'[e] # None <=> events[e] # None
          /\ events[e] # None => events'[e].ext = events[e].ext
    BY Zenon, WrittenEvents
  <2>i. idem'[c] = tx[c].row /\ \A e \in Calls : e # c => idem'[e] = idem[e]
    BY Zenon DEF Written, IInv, TypeOK
  <2>t. CallInv(d) /\ (pc[d] # "idle" => req[d] \in Requests)
    BY Zenon, SentRequest DEF IInv
  <2>Idle. OnlyInTransaction(d)'
    BY Zenon, <2>e, <2>i, <2>t DEF CallInv, OnlyInTransaction
  <2>Key. KeyHeld(d)'
    <3>1. SUFFICES ASSUME pc[d] \in InTransaction PROVE KeyHeld(d)'
      BY Zenon DEF KeyHeld
    <3>2. req[d] \in Requests
      BY Zenon, <2>t, <3>1 DEF InTransaction, StartedLabel
    <3>3. req[d].key # req[c].key
      <4>1. <<"key", req[d].key>> \in held[d] /\ <<"key", req[c].key>> \in held[c]
        BY Zenon, <2>t, <3>1, CommitFacts DEF CallInv, KeyHeld
      <4>2. <<"key", req[d].key>> \in Resource
        BY Zenon, <3>2, RequestFields, ResourceTypes
      <4> QED
        BY Zenon, <4>1, <4>2 DEF IInv, Exclusive
    <3>4. RecordsWithKey(req[d].key)' = {}
      <4>1. idem'[c].key # req[d].key
        BY Zenon, <2>i, <3>3, CommitFacts
      <4>2. \A e \in Calls : idem[e] # None => idem[e].key # req[d].key
        BY Zenon, <2>t, <3>1 DEF CallInv, KeyHeld, RecordsWithKey
      <4>3. \A e \in Calls : idem'[e] # None => idem'[e].key # req[d].key
        BY Zenon, <2>i, <4>1, <4>2
      <4> QED
        BY Zenon, <4>3 DEF RecordsWithKey
    <3> QED
      BY Zenon, <2>t, <3>1, <3>4 DEF CallInv, KeyHeld
  <2>Account. AccountHeld(d)'
    <3>1. SUFFICES ASSUME pc[d] \in StartedLabel \ {"lockAccount"} \/ tx[d].event # None
                   PROVE  AccountHeld(d)'
      BY Zenon DEF AccountHeld
    <3>2. /\ req[d].acct \in Accounts /\ <<"account", req[d].acct>> \in held[d]
          /\ tx[d].balance = balance[req[d].acct]
      BY Zenon, <2>t, <3>1 DEF CallInv, AccountHeld
    <3>3. tx[c].entry # None => req[d].acct # req[c].acct
      <4>1. ASSUME tx[c].entry # None, req[d].acct = req[c].acct PROVE FALSE
        <5>1. <<"account", req[d].acct>> \in held[c]
          BY Zenon, <4>1, CommitFacts
        <5>2. <<"account", req[d].acct>> \in Resource
          BY Zenon, <3>2, ResourceTypes
        <5> QED
          BY Zenon, <3>2, <5>1, <5>2 DEF IInv, Exclusive
      <4> QED
        BY Zenon, <4>1
    <3>4. balance'[req[d].acct] = balance[req[d].acct]
      BY Zenon, <3>2, <3>3 DEF Written, WrittenLedger, IInv, TypeOK
    <3> QED
      BY Zenon, <3>2, <3>4 DEF AccountHeld
  <2>ExtId. ExtIdHeld(d)'
    <3>1. SUFFICES ASSUME tx[d].event # None PROVE ExtIdHeld(d)'
      BY Zenon, <2>t DEF ExtIdHeld, CallInv
    <3>2. pc[d] # "idle"
      BY SMTT(90), <2>t, <3>1 DEF CallInv, OnlyInTransaction, InTransaction, StartedLabel, EmptyTx
    <3>3. /\ tx[d].event.ext = req[d].ext /\ tx[d].event.acct = req[d].acct
          /\ <<"ext", req[d].ext>> \in held[d] /\ EventsWithExtId(req[d].ext) = {}
      BY Zenon, <2>t, <3>1 DEF CallInv, ExtIdHeld
    <3>4. tx[c].event # None => tx[c].event.ext # req[d].ext
      <4>1. <<"ext", req[d].ext>> \in Resource
        BY Zenon, <2>t, <3>2, RequestFields, ResourceTypes
      <4>2. ASSUME tx[c].event # None, tx[c].event.ext = req[d].ext PROVE FALSE
        <5>1. <<"ext", req[d].ext>> \in held[c]
          BY ZenonT(120), <4>2, CommitFacts
        <5> QED
          BY Zenon, <3>3, <4>1, <5>1 DEF IInv, Exclusive
      <4> QED
        BY Zenon, <4>2
    <3>5. EventsWithExtId(req[d].ext)' = {}
      BY SMTT(90), <2>e, <3>3, <3>4, WrittenEvents DEF EventsWithExtId
    <3> QED
      BY Zenon, <3>3, <3>5, <3>1 DEF ExtIdHeld
  <2>Original. OriginalHeld(d)'
    <3>1. tx[d].original # Nobody => tx[d].original \in Calls /\ events[tx[d].original] # None
      <4>1. tx[d] \in Transaction
        BY Zenon DEF IInv, TypeOK
      <4>2. tx[d].original \in Calls \cup {Nobody}
        BY Zenon, <4>1 DEF Transaction
      <4> QED
        BY Zenon, <4>2, CallFacts DEF OriginalHeld
    <3>2. tx[d].original # Nobody => events'[tx[d].original] # None
      BY ZenonT(120), <3>1, <2>e, CommitFacts
    <3> QED
      BY Zenon, <3>2, CallFacts DEF OriginalHeld
  <2>Entry. EntryReady(d)'
    BY Zenon, CallFacts DEF EntryReady
  <2> QED
    BY Zenon, <2>Idle, <2>Key, <2>Account, <2>ExtId, <2>Original, <2>Entry DEF CallInv
(* What holds of a call between create_processing and the end of            *)
(* _process_started                                                         *)
<1>StartedFacts.
  ASSUME IInv, NEW c \in Calls, pc[c] \in StartedLabel
  PROVE  /\ tx[c] \in Transaction
         /\ tx[c].row \in IdempotencyRecord
         /\ tx[c].event \in EventRow \cup {None}
         /\ tx[c].entry = None
         /\ tx[c].original \in Calls \cup {Nobody}
         /\ tx[c].balance \in Int
         /\ req[c] \in Requests /\ req[c] # None
         /\ events[c] = None /\ idem[c] = None
  <2> USE <1>StartedFacts
  <2>1. tx[c] \in Transaction
    BY Zenon DEF IInv, TypeOK
  <2>2. pc[c] # "idle" /\ pc[c] # "commit" /\ pc[c] \notin {"release", "done", "crashed"}
    BY Zenon DEF StartedLabel
  <2>3. tx[c].row # None /\ tx[c].entry = None /\ events[c] = None /\ idem[c] = None
    BY Zenon, <2>2, CallFacts DEF KeyHeld, EntryReady, OnlyInTransaction, InTransaction
  <2> QED
    BY Zenon, <2>1, <2>2, <2>3, SentRequest DEF Transaction
(* The end of _process_started: the record is closed, the transaction goes   *)
(* to its commit with the event and the entry it has                         *)
<1>CloseInv.
  ASSUME IInv, NEW c \in Calls, pc[c] \in StartedLabel, NEW t \in Transaction,
         pc' = [pc EXCEPT ![c] = "commit"], tx' = [tx EXCEPT ![c] = t],
         UNCHANGED <<req, out, held, dbVars>>, RestTypeOK',
         t.row # None, t.row.key = tx[c].row.key, t.row.result # None,
         t.original = tx[c].original, t.balance = tx[c].balance,
         t.event # None => /\ tx[c].event # None
                           /\ t.event.ext = tx[c].event.ext
                           /\ t.event.acct = tx[c].event.acct,
         t.entry # None => /\ t.event # None
                           /\ t.entry.event = c
                           /\ t.entry.after \in 0 .. MaxBigint
                           /\ t.entry.after = t.balance + t.entry.amount
  PROVE  IInv'
  <2> USE <1>CloseInv
  <2>1. events[c] = None /\ idem[c] = None /\ req[c] # None
    BY Zenon, <1>StartedFacts
  <2>2. pc'[c] = "commit" /\ tx'[c] = t /\ held'[c] = held[c]
    BY Zenon DEF IInv, TypeOK
  <2>3. "commit" \in Label /\ held' \in [Calls -> SUBSET Resource] /\ Exclusive'
    BY Zenon, <1>ExclusiveLess DEF Label, IInv, TypeOK
  <2>4. OnlyInTransaction(c)' /\ KeyHeld(c)'
    BY Zenon, <2>1, <2>2, CallFacts DEF OnlyInTransaction, KeyHeld, InTransaction, RecordsWithKey
  <2>5. AccountHeld(c)' /\ ExtIdHeld(c)'
    BY Zenon, <2>2, CallFacts DEF AccountHeld, ExtIdHeld, EventsWithExtId, StartedLabel
  <2>6. OriginalHeld(c)' /\ EntryReady(c)'
    BY Zenon, <2>2, CallFacts DEF OriginalHeld, EntryReady
  <2> QED
    BY Zenon, <2>3, <2>4, <2>5, <2>6, <1>SessionStep DEF CallInv
(* A domain failure closes the record as FAILED *)
<1>FailInv.
  ASSUME IInv, NEW c \in Calls, pc[c] \in StartedLabel,
         NEW error \in DomainFailure, NEW event \in EventRow \cup {None},
         event # None => /\ tx[c].event # None
                         /\ event.ext = tx[c].event.ext
                         /\ event.acct = tx[c].event.acct,
         Fail(c, event, error),
         UNCHANGED <<req, attempt, acquired, dbVars, lock, quarantineVars>>
  PROVE  IInv'
  <2> USE <1>FailInv
  <2> DEFINE r == Failure(error)
             row == [tx[c].row EXCEPT !.status = "FAILED", !.result = r]
             t == [tx[c] EXCEPT !.event = event, !.row = row]
  <2>Result. r \in Result /\ r # None
    BY Zenon, <1>FailureType, NoneAssumption
  <2>Row. /\ row \in IdempotencyRecord /\ row # None
        /\ row.key = tx[c].row.key /\ row.result = r
    <3> HIDE DEF r
    <3>1. row \in IdempotencyRecord /\ row.key = tx[c].row.key /\ row.result = r
      BY ZenonT(120), <2>Result, <1>StartedFacts DEF IdempotencyRecord
    <3> QED
      BY Zenon, <3>1, NoneAssumption
  <2>Tx. tx' = [tx EXCEPT ![c] = t]
    BY Zenon DEF Fail
  <2> HIDE DEF row, r
  <2>Fields. /\ t \in Transaction /\ t.row = row /\ t.event = event /\ t.entry = None
        /\ t.original = tx[c].original /\ t.balance = tx[c].balance
    BY Zenon, <2>Row, <1>StartedFacts DEF Transaction
  <2> HIDE DEF t
  <2>Frame. RestTypeOK' /\ UNCHANGED <<out, held>> /\ pc' = [pc EXCEPT ![c] = "commit"]
    BY Zenon DEF Fail, Goto, IInv, TypeOK, RestTypeOK
  <2> QED
    BY ZenonT(120), <2>Result, <2>Row, <2>Tx, <2>Fields, <2>Frame, <1>CloseInv
(* complete closes the record with its response *)
<1>CompleteInv.
  ASSUME IInv, NEW c \in Calls, pc[c] \in StartedLabel,
         NEW r \in Result, NEW event \in EventRow \cup {None},
         NEW entry \in LedgerEntry \cup {None},
         event # None => /\ tx[c].event # None
                         /\ event.ext = tx[c].event.ext
                         /\ event.acct = tx[c].event.acct,
         entry # None => /\ event # None
                         /\ entry.event = c
                         /\ entry.after \in 0 .. MaxBigint
                         /\ entry.after = tx[c].balance + entry.amount,
         Complete(c, event, entry, r),
         UNCHANGED <<req, attempt, acquired, dbVars, lock, quarantineVars>>
  PROVE  IInv'
  <2> USE <1>CompleteInv
  <2> DEFINE row == [tx[c].row EXCEPT !.status = "COMPLETED", !.result = r]
             t == [tx[c] EXCEPT !.event = event, !.entry = entry, !.row = row]
  <2>Result. r # None
    BY Zenon, NoneAssumption
  <2>Row. /\ row \in IdempotencyRecord /\ row # None
        /\ row.key = tx[c].row.key /\ row.result = r
    <3>1. row \in IdempotencyRecord /\ row.key = tx[c].row.key /\ row.result = r
      BY ZenonT(120), <1>StartedFacts DEF IdempotencyRecord
    <3> QED
      BY Zenon, <3>1, NoneAssumption
  <2>Tx. tx' = [tx EXCEPT ![c] = t]
    BY Zenon DEF Complete
  <2> HIDE DEF row
  <2>Fields. /\ t \in Transaction /\ t.row = row /\ t.event = event /\ t.entry = entry
        /\ t.original = tx[c].original /\ t.balance = tx[c].balance
    BY ZenonT(120), <2>Row, <1>StartedFacts DEF Transaction
  <2> HIDE DEF t
  <2>Cache. cache' \in [Keys -> CachedResponse \cup {None}]
    BY Zenon, <1>SetCompletedType DEF Complete, StartedLabel
  <2>Frame. RestTypeOK' /\ UNCHANGED <<out, held>> /\ pc' = [pc EXCEPT ![c] = "commit"]
    BY Zenon, <2>Cache DEF Complete, Goto, IInv, TypeOK, RestTypeOK
  <2> QED
    BY ZenonT(120), <2>Result, <2>Row, <2>Tx, <2>Fields, <2>Frame, <1>CloseInv
(* FOR UPDATE reads a balance that stays the balance *)
<1>LockAccountInv.
  ASSUME IInv, NEW c \in Calls, LockAccount(c)
  PROVE  IInv'
  <2> USE <1>LockAccountInv
  <2>q. pc[c] = "lockAccount" /\ pc[c] \in StartedLabel /\ pc[c] \in InTransaction
    BY Zenon DEF LockAccount, StartedLabel, InTransaction
  <2>1. CASE Fail(c, None, "AccountNotFound")
    BY Zenon, <2>1, <2>q, <1>FailInv DEF LockAccount, DomainFailure
  <2>2. CASE /\ req[c].acct \in Accounts
             /\ Free(<<"account", req[c].acct>>)
             /\ Hold(c, <<"account", req[c].acct>>)
             /\ tx' = [tx EXCEPT ![c].balance = balance[req[c].acct]]
             /\ Goto(c, "quarantine")
             /\ UNCHANGED <<out, cache>>
    <3> DEFINE t == [tx[c] EXCEPT !.balance = balance[req[c].acct]]
    <3>1. /\ t \in Transaction /\ t.row = tx[c].row /\ t.event = tx[c].event
          /\ t.entry = tx[c].entry /\ t.original = tx[c].original
          /\ t.balance = balance[req[c].acct]
      BY ZenonT(120), <2>2, <2>q, <1>StartedFacts DEF Transaction, IInv, TypeOK
    <3>2. tx' = [tx EXCEPT ![c] = t] /\ pc' = [pc EXCEPT ![c] = "quarantine"]
      BY Zenon, <2>2 DEF Goto
    <3> HIDE DEF t
    <3>3. /\ Exclusive' /\ held' \in [Calls -> SUBSET Resource]
          /\ held'[c] = held[c] \cup {<<"account", req[c].acct>>}
          /\ \A d \in Calls : d # c => held'[d] = held[d]
      BY Zenon, <2>2, ResourceTypes, <1>ExclusiveHold
    <3>4. RestTypeOK' /\ UNCHANGED <<req, out, dbVars>> /\ "quarantine" \in Label
      BY Zenon, <2>2 DEF LockAccount, IInv, TypeOK, RestTypeOK, Label
    <3>5. ASSUME pc'[c] = "quarantine", tx'[c] = t
          PROVE  CallInv(c)'
      <4>1. OnlyInTransaction(c)' /\ KeyHeld(c)'
        BY ZenonT(60), <2>q, <3>1, <3>3, <3>4, <3>5, CallFacts
           DEF OnlyInTransaction, KeyHeld, InTransaction, StartedLabel, RecordsWithKey
      <4>2. AccountHeld(c)' /\ ExtIdHeld(c)'
        BY SMTT(90), <2>2, <2>q, <3>1, <3>3, <3>4, <3>5, CallFacts
           DEF AccountHeld, ExtIdHeld, EventsWithExtId
      <4>3. OriginalHeld(c)' /\ EntryReady(c)'
        BY Zenon, <2>q, <3>1, <3>4, <3>5, CallFacts DEF OriginalHeld, EntryReady
      <4> QED
        BY Zenon, <4>1, <4>2, <4>3 DEF CallInv
    <3> QED
      BY Zenon, <3>1, <3>2, <3>3, <3>4, <3>5, <1>SessionStep
  <2> QED
    BY Zenon, <2>1, <2>2 DEF LockAccount
(* A look at committed rows that lets the call go on *)
<1>ReadOn.
  ASSUME IInv, NEW c \in Calls, pc[c] \in {"quarantine", "duplicate"},
         NEW l \in {"duplicate", "lockOriginal", "create"},
         l = "create" => req[c].type # "CANCEL",
         pc' = [pc EXCEPT ![c] = l],
         UNCHANGED <<req, attempt, acquired, out, tx, held, dbVars, redisVars, quarantineVars>>
  PROVE  IInv'
  <2> USE <1>ReadOn
  <2>1. l \in Label /\ tx[c] \in Transaction /\ tx' = [tx EXCEPT ![c] = tx[c]]
    BY Zenon DEF Label, IInv, TypeOK
  <2>2. RestTypeOK' /\ Exclusive' /\ held' \in [Calls -> SUBSET Resource]
    BY Zenon, <1>ExclusiveLess DEF IInv, TypeOK, RestTypeOK
  <2>3. ASSUME pc'[c] = l, tx'[c] = tx[c]
        PROVE  CallInv(c)'
    <3>1. OnlyInTransaction(c)' /\ KeyHeld(c)'
      BY Zenon, <2>3, CallFacts DEF OnlyInTransaction, KeyHeld, InTransaction, StartedLabel,
                  RecordsWithKey
    <3>2. AccountHeld(c)' /\ ExtIdHeld(c)'
      BY Zenon, <2>3, CallFacts DEF AccountHeld, ExtIdHeld, EventsWithExtId, StartedLabel
    <3>3. OriginalHeld(c)' /\ EntryReady(c)'
      BY Zenon, <2>3, CallFacts DEF OriginalHeld, EntryReady
    <3> QED
      BY Zenon, <3>1, <3>2, <3>3 DEF CallInv
  <2> QED
    BY Zenon, <2>1, <2>2, <2>3, <1>SessionStep
(* The quarantine check goes on or fails the request *)
<1>AssertNotQuarantinedInv.
  ASSUME IInv, NEW c \in Calls, AssertNotQuarantined(c)
  PROVE  IInv'
  <2> USE <1>AssertNotQuarantinedInv
  <2>1. CASE Fail(c, None, "TargetQuarantined")
    BY Zenon, <2>1, <1>FailInv DEF AssertNotQuarantined, DomainFailure, StartedLabel
  <2>2. CASE Goto(c, "duplicate") /\ UNCHANGED <<out, tx, held, cache>>
    BY Zenon, <2>2, <1>ReadOn DEF AssertNotQuarantined, Goto
  <2> QED
    BY Zenon, <2>1, <2>2 DEF AssertNotQuarantined
(* The duplicate lookup answers or goes on *)
<1>FindDuplicateInv.
  ASSUME IInv, NEW c \in Calls, FindDuplicate(c)
  PROVE  IInv'
  <2> USE <1>FindDuplicateInv
  <2>q. pc[c] = "duplicate" /\ pc[c] \in StartedLabel
    BY Zenon DEF FindDuplicate, StartedLabel
  <2>u. UNCHANGED <<req, attempt, acquired, dbVars, lock, quarantineVars>>
    BY Zenon DEF FindDuplicate
  <2>1. CASE /\ Goto(c, IF req[c].type = "CANCEL" THEN "lockOriginal" ELSE "create")
             /\ UNCHANGED <<out, tx, held, cache>>
    BY ZenonT(120), <2>1, <2>q, <2>u, <1>ReadOn DEF Goto
  <2>2. CASE Fail(c, None, "InvalidTransactionEvent")
    BY Zenon, <2>2, <2>q, <2>u, <1>FailInv DEF DomainFailure
  <2>3. ASSUME NEW d \in EventsWithExtId(req[c].ext), NEW i \in EntriesOf(d),
               Complete(c, None, None, Success(d, ledger[events[d].acct][i].after, TRUE))
        PROVE  IInv'
    <3>1. d \in Calls /\ events[d] \in EventRow
      BY Zenon DEF EventsWithExtId, IInv, TypeOK
    <3>2. ledger[events[d].acct] \in Seq(LedgerEntry) /\ i \in DOMAIN ledger[events[d].acct]
      BY Zenon, <3>1 DEF EntriesOf, IInv, TypeOK, EventRow
    <3>3. ledger[events[d].acct][i].after \in Int
      <4>1. ledger[events[d].acct][i] \in LedgerEntry
        BY Zenon, <3>2, ElementType
      <4> QED
        BY Zenon, <4>1 DEF LedgerEntry
    <3> QED
      BY ZenonT(120), <2>3, <2>q, <2>u, <3>1, <3>3, <1>SuccessType, <1>CompleteInv
  <2> QED
    BY ZenonT(120), <2>1, <2>2, <2>3 DEF FindDuplicate
(* The original of a CANCEL is locked, or the request fails *)
<1>LockOriginalInv.
  ASSUME IInv, NEW c \in Calls, LockOriginal(c)
  PROVE  IInv'
  <2> USE <1>LockOriginalInv
  <2>q. pc[c] = "lockOriginal" /\ pc[c] \in StartedLabel \ {"lockAccount"} /\ pc[c] \in InTransaction
    BY Zenon DEF LockOriginal, StartedLabel, InTransaction
  <2>u. UNCHANGED <<req, attempt, acquired, dbVars, lock, quarantineVars>>
    BY Zenon DEF LockOriginal
  <2>1. CASE Fail(c, None, "OriginalTransactionNotFound")
    BY Zenon, <2>1, <2>q, <2>u, <1>FailInv DEF DomainFailure
  <2>2. ASSUME NEW d \in EventsWithExtId(req[c].orig),
               Free(<<"event", d>>), Hold(c, <<"event", d>>),
               tx' = [tx EXCEPT ![c].original = d],
               Goto(c, "create"), UNCHANGED <<out, cache>>
        PROVE  IInv'
    <3> DEFINE t == [tx[c] EXCEPT !.original = d]
    <3>0. d \in Calls /\ events[d] # None /\ d # Nobody
      BY Zenon, ConstantsAssumption DEF EventsWithExtId
    <3>1. /\ t \in Transaction /\ t.row = tx[c].row /\ t.event = tx[c].event
          /\ t.entry = tx[c].entry /\ t.original = d /\ t.balance = tx[c].balance
      BY Zenon, <2>q, <3>0, <1>StartedFacts DEF Transaction
    <3>2. tx' = [tx EXCEPT ![c] = t] /\ pc' = [pc EXCEPT ![c] = "create"]
      BY Zenon, <2>2 DEF Goto
    <3> HIDE DEF t
    <3>3. /\ Exclusive' /\ held' \in [Calls -> SUBSET Resource]
          /\ held'[c] = held[c] \cup {<<"event", d>>}
          /\ \A e \in Calls : e # c => held'[e] = held[e]
      BY Zenon, <2>2, <3>0, ResourceTypes, <1>ExclusiveHold
    <3>4. RestTypeOK' /\ UNCHANGED <<req, out, dbVars>> /\ "create" \in Label
      BY Zenon, <2>2, <2>u DEF IInv, TypeOK, RestTypeOK, Label
    <3>5. ASSUME pc'[c] = "create", tx'[c] = t
          PROVE  CallInv(c)'
      <4>1. OnlyInTransaction(c)' /\ KeyHeld(c)'
        BY Zenon, <2>q, <3>1, <3>3, <3>4, <3>5, CallFacts
           DEF OnlyInTransaction, KeyHeld, InTransaction, StartedLabel, RecordsWithKey
      <4>2. AccountHeld(c)'
        BY Zenon, <2>q, <3>1, <3>3, <3>4, <3>5, CallFacts DEF AccountHeld
      <4>3. ExtIdHeld(c)'
        BY <2>q, <3>1, <3>3, <3>4, <3>5, CallFacts DEF ExtIdHeld, EventsWithExtId
      <4>4. OriginalHeld(c)'
        BY Zenon, <3>0, <3>1, <3>4, <3>5 DEF OriginalHeld
      <4>5. EntryReady(c)'
        BY Zenon, <2>q, <3>1, <3>5, CallFacts DEF EntryReady
      <4> QED
        BY Zenon, <4>1, <4>2, <4>3, <4>4, <4>5 DEF CallInv
    <3> QED
      BY ZenonT(120), <3>1, <3>2, <3>3, <3>4, <3>5, <1>SessionStep
  <2> QED
    BY Zenon, <2>1, <2>2 DEF LockOriginal
(* fail() meets the broken session: nothing is committed *)
<1>RaiseInv.
  ASSUME IInv, NEW c \in Calls, pc[c] \in StartedLabel, Raise(c),
         UNCHANGED <<req, attempt, acquired, dbVars, lock, quarantineVars>>
  PROVE  IInv'
  <2> USE <1>RaiseInv
  <2>1. Failure("PendingRollbackError") \in Result
    BY Zenon, <1>FailureType DEF OtherError
  <2>2. RestTypeOK' /\ req[c] # None
    BY Zenon, <1>StartedFacts DEF Raise, IInv, TypeOK, RestTypeOK
  <2> QED
    BY Zenon, <2>1, <2>2, <1>FinishInv DEF Raise
(* The inserted event row *)
<1>ReceivedType.
  ASSUME NEW q \in Requests, q.acct \in Accounts
  PROVE  /\ Received(q) \in EventRow /\ Received(q) # None
         /\ Received(q).ext = q.ext /\ Received(q).acct = q.acct
         /\ Received(q).type = q.type
  <2> USE <1>ReceivedType
  <2>1. <<"RECEIVED">> \in Seq(Status) /\ "RECEIVED" \in Status
    BY DEF Status
  <2>2. Received(q) \in EventRow
    BY Zenon, <2>1, RequestFields DEF Received, EventRow
  <2> QED
    BY Zenon, <2>2, NoneAssumption DEF Received
(* The insert of the event takes its external id, waits or fails *)
<1>CreateReceivedInv.
  ASSUME IInv, NEW c \in Calls, CreateReceived(c)
  PROVE  IInv'
  <2> USE <1>CreateReceivedInv
  <2>q. pc[c] = "create" /\ pc[c] \in StartedLabel \ {"lockAccount"} /\ pc[c] \in InTransaction
    BY Zenon DEF CreateReceived, StartedLabel, InTransaction
  <2>u. UNCHANGED <<req, attempt, acquired, dbVars, lock, quarantineVars>>
    BY Zenon DEF CreateReceived
  <2>1. CASE Raise(c)
    BY Zenon, <2>1, <2>q, <2>u, <1>RaiseInv
  <2>2. CASE /\ Free(<<"ext", req[c].ext>>)
             /\ EventsWithExtId(req[c].ext) = {}
             /\ tx' = [tx EXCEPT ![c].event = Received(req[c])]
             /\ Hold(c, <<"ext", req[c].ext>>)
             /\ Goto(c, "apply")
             /\ UNCHANGED <<out, cache>>
    <3> DEFINE e == Received(req[c])
               t == [tx[c] EXCEPT !.event = e]
    <3>0. req[c] \in Requests /\ req[c].acct \in Accounts /\ req[c].ext \in ExtIds
      BY ZenonT(120), <2>q, <1>StartedFacts, RequestFields, CallFacts DEF AccountHeld
    <3>e. /\ e \in EventRow /\ e # None /\ e.ext = req[c].ext
          /\ e.acct = req[c].acct /\ e.type = req[c].type
      BY Zenon, <3>0, <1>ReceivedType
    <3>2. tx' = [tx EXCEPT ![c] = t] /\ pc' = [pc EXCEPT ![c] = "apply"]
      BY Zenon, <2>2 DEF Goto
    <3> HIDE DEF e
    <3>1. /\ t \in Transaction /\ t.row = tx[c].row /\ t.event = e
          /\ t.entry = tx[c].entry /\ t.original = tx[c].original /\ t.balance = tx[c].balance
      BY Zenon, <2>q, <3>e, <1>StartedFacts DEF Transaction
    <3> HIDE DEF t
    <3>3. /\ Exclusive' /\ held' \in [Calls -> SUBSET Resource]
          /\ held'[c] = held[c] \cup {<<"ext", req[c].ext>>}
          /\ \A d \in Calls : d # c => held'[d] = held[d]
      BY Zenon, <2>2, <3>0, ResourceTypes, <1>ExclusiveHold
    <3>4. RestTypeOK' /\ UNCHANGED <<req, out, dbVars>> /\ "apply" \in Label
      BY Zenon, <2>2, <2>u DEF IInv, TypeOK, RestTypeOK, Label
    <3>5. ASSUME pc'[c] = "apply", tx'[c] = t
          PROVE  CallInv(c)'
      <4>1. OnlyInTransaction(c)' /\ KeyHeld(c)'
        BY Zenon, <2>q, <3>1, <3>3, <3>4, <3>5, CallFacts
           DEF OnlyInTransaction, KeyHeld, InTransaction, StartedLabel, RecordsWithKey
      <4>2. AccountHeld(c)' /\ ExtIdHeld(c)'
        BY ZenonT(120), <2>2, <2>q, <3>1, <3>3, <3>4, <3>5, <3>e, CallFacts
           DEF AccountHeld, ExtIdHeld, EventsWithExtId
      <4>3. OriginalHeld(c)' /\ EntryReady(c)'
        BY ZenonT(60), <2>q, <3>1, <3>4, <3>5, <3>e, <1>StartedFacts, CallFacts
           DEF OriginalHeld, EntryReady
      <4> QED
        BY Zenon, <4>1, <4>2, <4>3 DEF CallInv
    <3> QED
      BY ZenonT(120), <3>1, <3>2, <3>3, <3>4, <3>5, <1>SessionStep
  <2> QED
    BY Zenon, <2>1, <2>2 DEF CreateReceived
(* The CANCEL checks name an error or none *)
<1>CancelErrorType.
  ASSUME NEW cancel, NEW original
  PROVE  ValidateCancelOriginal(cancel, original) \in DomainFailure \cup {"none"}
  BY Zenon, <1>CancelErrorType DEF ValidateCancelOriginal, DomainFailure
(* The new balance is the one the entry records, or the event fails *)
<1>ApplyEventInv.
  ASSUME IInv, NEW c \in Calls, ApplyEvent(c)
  PROVE  IInv'
  <2> USE <1>ApplyEventInv
  <2> DEFINE started == ChangeStatus(ChangeStatus(tx[c].event, "VALIDATED"), "PROCESSING")
             original == tx[c].original
             invalid == IF started.type = "CANCEL"
                        THEN ValidateCancelOriginal(started, events[original])
                        ELSE "none"
             amount == CalculateLedgerAmount(started.type, started.amount,
                         IF started.type = "CANCEL" THEN events[original].type ELSE None)
             after == tx[c].balance + amount
             failed == ChangeStatus(started, "FAILED")
             completed == ChangeStatus(started, "COMPLETED")
             entry == [event |-> c, amount |-> amount, after |-> after]
  <2>q. pc[c] = "apply" /\ pc[c] \in StartedLabel
    BY Zenon DEF ApplyEvent, StartedLabel
  <2>u. UNCHANGED <<req, attempt, acquired, dbVars, lock, quarantineVars>>
    BY Zenon DEF ApplyEvent
  <2>d. \/ invalid # "none" /\ Fail(c, failed, invalid)
        \/ invalid = "none" /\ after < 0 /\ Fail(c, failed, "InsufficientBalance")
        \/ Raise(c)
        \/ /\ after \in 0 .. MaxBigint
           /\ Complete(c, completed, entry, Success(c, after, FALSE))
    BY Zenon DEF ApplyEvent
  <2>e. tx[c].event \in EventRow /\ tx[c].event # None
    BY ZenonT(120), <2>q, <1>StartedFacts, CallFacts DEF ExtIdHeld
  <2>s. /\ started \in EventRow
        /\ started.ext = tx[c].event.ext /\ started.acct = tx[c].event.acct
    BY <2>e, ChangeStatusType DEF Status
  <2>i. invalid \in DomainFailure \cup {"none"}
    BY Zenon, <1>CancelErrorType
  <2>a. amount \in Int /\ after \in Int
    <3>1. started.type \in EventType /\ started.amount \in Nat
      BY Zenon, <2>s DEF EventRow
    <3>2. amount \in Int
      BY Zenon, <3>1, LedgerAmountType
    <3> QED
      BY SMTT(90), <3>2, <2>q, <1>StartedFacts
  <2> HIDE DEF started, invalid, amount
  <2>f. /\ failed \in EventRow /\ failed.ext = tx[c].event.ext /\ failed.acct = tx[c].event.acct
        /\ completed \in EventRow /\ completed # None
        /\ completed.ext = tx[c].event.ext /\ completed.acct = tx[c].event.acct
    BY Zenon, <2>s, ChangeStatusType DEF Status
  <2> HIDE DEF failed, completed
  <2>1. CASE invalid # "none" /\ Fail(c, failed, invalid)
    BY Zenon, <2>1, <2>q, <2>u, <2>e, <2>f, <2>i, <1>FailInv
  <2>2. CASE Fail(c, failed, "InsufficientBalance")
    BY Zenon, <2>2, <2>q, <2>u, <2>e, <2>f, <1>FailInv DEF DomainFailure
  <2>3. CASE Raise(c)
    BY Zenon, <2>3, <2>q, <2>u, <1>RaiseInv
  <2>4. CASE /\ after \in 0 .. MaxBigint
             /\ Complete(c, completed, entry, Success(c, after, FALSE))
    <3>1. /\ entry \in LedgerEntry /\ entry.event = c /\ entry.after = after
          /\ entry.amount = amount
      BY Zenon, <2>a DEF LedgerEntry
    <3>2. Success(c, after, FALSE) \in Result
      BY ZenonT(120), <2>a, <1>SuccessType
    <3>3. entry.after \in 0 .. MaxBigint /\ entry.after = tx[c].balance + entry.amount
      BY Zenon, <2>4, <3>1
    <3> HIDE DEF entry, after
    <3> QED
      BY ZenonT(120), <2>4, <2>q, <2>u, <2>e, <2>f, <3>1, <3>2, <3>3, <1>CompleteInv
  <2> QED
    BY Zenon, <2>d, <2>1, <2>2, <2>3, <2>4
(* Making a session's rows visible keeps the invariant *)
<1>WrittenInv.
  ASSUME IInv, NEW c \in Calls, pc[c] = "commit", NEW result \in Result \cup {None},
         Written(c), Finish(c, result),
         UNCHANGED <<req, attempt, acquired, redisVars, quarantineVars>>
  PROVE  IInv'
  <2> USE <1>WrittenInv
  <2>e. /\ events' \in [Calls -> EventRow \cup {None}]
        /\ events'[c] = tx[c].event
        /\ \A d \in Calls : d # c =>
             /\ events'[d] # None <=> events[d] # None
             /\ events[d] # None => /\ events'[d].ext = events[d].ext
                                    /\ events'[d].acct = events[d].acct
    BY Zenon, WrittenEvents
  <2>i. idem'[c] = tx[c].row /\ \A d \in Calls : d # c => idem'[d] = idem[d]
    BY Zenon DEF Written, IInv, TypeOK
  <2>f. /\ pc'[c] = "release" /\ tx'[c] = EmptyTx /\ held'[c] = {}
        /\ \A d \in Calls : d # c => pc'[d] = pc[d] /\ tx'[d] = tx[d] /\ held'[d] = held[d]
    BY Zenon DEF Finish, Goto, IInv, TypeOK
  <2>l. \/ /\ tx[c].entry = None /\ UNCHANGED <<ledger, balance>>
        \/ /\ tx[c].entry # None
           /\ ledger' = [ledger EXCEPT ![req[c].acct] = Append(ledger[req[c].acct], tx[c].entry)]
           /\ balance' = [balance EXCEPT ![req[c].acct] = tx[c].entry.after]
    BY Zenon DEF Written, WrittenLedger
  <2>k. /\ tx[c].row \in IdempotencyRecord /\ tx[c].row # None
        /\ tx[c].row.key = req[c].key /\ tx[c].row.result # None
        /\ events[c] = None /\ idem[c] = None
        /\ RecordsWithKey(req[c].key) = {}
        /\ tx[c].event # None => /\ tx[c].event.ext = req[c].ext
                                 /\ EventsWithExtId(req[c].ext) = {}
    BY ZenonT(120), CommitFacts
  <2>Types. TypeOK'
    <3>1. idem' \in [Calls -> IdempotencyRecord \cup {None}]
      BY Zenon, <2>k DEF Written, IInv, TypeOK
    <3>2. ledger' \in [Accounts -> Seq(LedgerEntry)] /\ balance' \in [Accounts -> Int]
      <4>1. CASE tx[c].entry # None
        <5>1. /\ req[c].acct \in Accounts /\ tx[c].entry \in LedgerEntry
              /\ tx[c].entry.after \in Int
          BY Zenon, <4>1, CommitFacts DEF LedgerEntry
        <5>2. Append(ledger[req[c].acct], tx[c].entry) \in Seq(LedgerEntry)
          BY Zenon, <5>1, AppendFacts DEF IInv, TypeOK
        <5> QED
          BY ZenonT(120), <4>1, <2>l, <5>1, <5>2 DEF IInv, TypeOK
      <4> QED
        BY Zenon, <2>l, <4>1 DEF IInv, TypeOK
    <3>3. /\ pc' \in [Calls -> Label] /\ out' \in [Calls -> Result \cup {None}]
          /\ tx' \in [Calls -> Transaction] /\ held' \in [Calls -> SUBSET Resource]
      BY Zenon, <1>EmptyTxType DEF Finish, Goto, IInv, TypeOK, Label
    <3> QED
      BY Zenon, <2>e, <3>1, <3>2, <3>3 DEF IInv, TypeOK
  <2>Callers. \A d \in Calls : CallInv(d)'
    <3>1. CallInv(c)'
      BY Zenon, <2>f, CommitFacts, <1>OutsideInv DEF InTransaction, StartedLabel
    <3>2. ASSUME NEW d \in Calls, d # c PROVE CallInv(d)'
      BY ZenonT(120), <2>f, <3>2, <1>WrittenOthers
    <3> QED
      BY Zenon, <3>1, <3>2
  <2>Locks. Exclusive'
    BY Zenon, <2>f, <1>ExclusiveLess
  <2>Records. UniqueKeys' /\ StoredResults'
    <3>1. \A d \in Calls : idem[d] # None => idem[d].key # tx[c].row.key
      BY Zenon, <2>k DEF RecordsWithKey
    <3>2. UniqueKeys'
      BY SMTT(90), <2>i, <2>k, <3>1 DEF IInv, UniqueKeys
    <3>3. StoredResults'
      BY Zenon, <2>i, <2>k DEF IInv, StoredResults
    <3> QED
      BY Zenon, <3>2, <3>3
  <2>ExtIds. UniqueExtIds'
    <3>1. tx[c].event # None =>
            \A d \in Calls : events[d] # None => events[d].ext # tx[c].event.ext
      BY Zenon, <2>k DEF EventsWithExtId
    <3> QED
      BY SMTT(90), <2>e, <3>1 DEF IInv, UniqueExtIds
  <2>Owners. LedgerOfEvents'
    <3>1. ASSUME NEW a \in Accounts, NEW i \in Entries(a)
          PROVE  /\ ledger[a][i].event \in Calls
                 /\ ledger[a][i].event # c
                 /\ events[ledger[a][i].event] # None
                 /\ events[ledger[a][i].event].acct = a
                 /\ \A j \in Entries(a) : ledger[a][j].event = ledger[a][i].event => j = i
      <4>1. ledger[a][i] \in LedgerEntry
        BY Zenon, ElementType DEF Entries, IInv, TypeOK
      <4>2. ledger[a][i].event \in Calls
        BY Zenon, <4>1 DEF LedgerEntry
      <4> QED
        <5>1. LedgerOfEvents /\ events[c] = None
          BY Zenon, <2>k DEF IInv
        <5> QED
          BY Zenon, <4>2, <5>1 DEF LedgerOfEvents
    <3>2. CASE UNCHANGED ledger
      BY SMTT(90), <2>e, <3>1, <3>2 DEF LedgerOfEvents, Entries
    <3>3. CASE /\ tx[c].entry # None
               /\ ledger' = [ledger EXCEPT ![req[c].acct] =
                               Append(ledger[req[c].acct], tx[c].entry)]
      <4>b. PICK b \in Accounts : b = req[c].acct
        BY Zenon, <3>3, CommitFacts
      <4>0. /\ tx[c].event # None /\ tx[c].event.acct = b
            /\ tx[c].entry.event = c /\ tx[c].entry \in LedgerEntry
        BY ZenonT(120), <3>3, <4>b, CommitFacts
      <4>n. PICK n \in Nat : n = Len(ledger[b])
        BY SMTT(90) DEF IInv, TypeOK
      <4>1. /\ ledger[b] \in Seq(LedgerEntry)
            /\ ledger'[b] = Append(ledger[b], tx[c].entry)
            /\ \A a \in Accounts : a # b => ledger'[a] = ledger[a]
        BY Zenon, <3>3, <4>b DEF IInv, TypeOK
      <4>2. /\ Entries(b)' = Entries(b) \cup {n + 1} /\ n + 1 \notin Entries(b)
            /\ \A i \in Entries(b) : ledger'[b][i] = ledger[b][i]
            /\ ledger'[b][n + 1] = tx[c].entry
        <5>1. /\ DOMAIN ledger[b] = 1 .. n /\ DOMAIN ledger'[b] = 1 .. n + 1
              /\ \A i \in 1 .. n : ledger'[b][i] = ledger[b][i]
              /\ ledger'[b][n + 1] = tx[c].entry
          BY SMTT(90), <4>0, <4>1, <4>n, AppendFacts
        <5> QED
          BY SMTT(90), <5>1 DEF Entries
      <4>3. ASSUME NEW a \in Accounts, a # b, NEW i \in Entries(a)'
            PROVE  /\ events'[ledger'[a][i].event] # None
                   /\ events'[ledger'[a][i].event].acct = a
                   /\ \A j \in Entries(a)' : ledger'[a][j].event = ledger'[a][i].event => j = i
        BY SMTT(90), <2>e, <3>1, <4>1, <4>3 DEF Entries
      <4>4. ASSUME NEW i \in Entries(b)'
            PROVE  /\ events'[ledger'[b][i].event] # None
                   /\ events'[ledger'[b][i].event].acct = b
                   /\ \A j \in Entries(b)' : ledger'[b][j].event = ledger'[b][i].event => j = i
        BY SMTT(90), <2>e, <3>1, <4>0, <4>2
      <4> QED
        BY Zenon, <4>3, <4>4 DEF LedgerOfEvents, Entries
    <3> QED
      BY Zenon, <2>l, <3>2, <3>3
  <2>Chain. LedgerChain'
    <3>1. CASE UNCHANGED <<ledger, balance>>
      BY Zenon, <3>1 DEF IInv, LedgerChain, Entries
    <3>2. CASE /\ tx[c].entry # None
               /\ ledger' = [ledger EXCEPT ![req[c].acct] =
                               Append(ledger[req[c].acct], tx[c].entry)]
               /\ balance' = [balance EXCEPT ![req[c].acct] = tx[c].entry.after]
      <4> DEFINE Chained(a) ==
                   /\ balance[a] = IF ledger[a] = <<>> THEN OpeningBalance[a]
                                   ELSE ledger[a][Len(ledger[a])].after
                   /\ \A i \in DOMAIN ledger[a] :
                        /\ ledger[a][i].after \in 0 .. MaxBigint
                        /\ ledger[a][i].after = ledger[a][i].amount
                             + (IF i = 1 THEN OpeningBalance[a] ELSE ledger[a][i - 1].after)
      <4>b. PICK b \in Accounts : b = req[c].acct
        BY Zenon, <3>2, CommitFacts
      <4>n. PICK n \in Nat : n = Len(ledger[b])
        BY DEF IInv, TypeOK
      <4>0. /\ tx[c].entry \in LedgerEntry
            /\ tx[c].entry.after \in 0 .. MaxBigint
            /\ tx[c].entry.after = balance[b] + tx[c].entry.amount
            /\ tx[c].entry.amount \in Int
        BY ZenonT(120), <3>2, <4>b, CommitFacts DEF LedgerEntry
      <4>c. \A a \in Accounts : Chained(a)
        BY ZenonT(120) DEF IInv, LedgerChain, Entries
      <4>t. /\ ledger \in [Accounts -> Seq(LedgerEntry)]
            /\ balance \in [Accounts -> Int]
        BY ZenonT(120) DEF IInv, TypeOK
      <4>1. /\ ledger[b] \in Seq(LedgerEntry)
            /\ ledger'[b] = Append(ledger[b], tx[c].entry)
            /\ balance'[b] = tx[c].entry.after
            /\ \A a \in Accounts : a # b => ledger'[a] = ledger[a] /\ balance'[a] = balance[a]
            /\ balance[b] \in Int
        <5> HIDE DEF Chained
        <5>1. /\ ledger' = [ledger EXCEPT ![b] = Append(ledger[b], tx[c].entry)]
              /\ balance' = [balance EXCEPT ![b] = tx[c].entry.after]
          BY ZenonT(120), <3>2, <4>b
        <5> QED
          BY Zenon, <4>t, <5>1
      <4>2. /\ DOMAIN ledger'[b] = 1 .. n + 1 /\ DOMAIN ledger[b] = 1 .. n
            /\ Len(ledger'[b]) = n + 1 /\ ledger'[b] # <<>>
            /\ \A i \in 1 .. n : ledger'[b][i] = ledger[b][i]
            /\ ledger'[b][n + 1] = tx[c].entry
            /\ ledger[b] = <<>> <=> n = 0
        BY SMTT(90), <4>0, <4>1, <4>n, AppendFacts
      <4>3. balance[b] = IF n = 0 THEN OpeningBalance[b] ELSE ledger[b][n].after
        BY Zenon, <4>c, <4>2, <4>n
      <4>4. Chained(b)'
        <5>1. balance'[b] = ledger'[b][Len(ledger'[b])].after
          BY Zenon, <4>1, <4>2
        <5>2. ASSUME NEW i \in 1 .. n
              PROVE  /\ ledger'[b][i].after \in 0 .. MaxBigint
                     /\ ledger'[b][i].after = ledger'[b][i].amount
                          + (IF i = 1 THEN OpeningBalance[b] ELSE ledger'[b][i - 1].after)
          <6>1. /\ ledger[b][i].after \in 0 .. MaxBigint
                /\ ledger[b][i].after = ledger[b][i].amount
                     + (IF i = 1 THEN OpeningBalance[b] ELSE ledger[b][i - 1].after)
            BY ZenonT(120), <4>c, <4>2
          <6>2. ledger'[b][i] = ledger[b][i]
            BY Zenon, <4>2
          <6>3. i # 1 => ledger'[b][i - 1] = ledger[b][i - 1]
            BY SMTT(90), <4>2
          <6> HIDE DEF Chained
          <6> QED
            BY Zenon, <6>1, <6>2, <6>3
        <5>3. /\ ledger'[b][n + 1].after \in 0 .. MaxBigint
              /\ ledger'[b][n + 1].after = ledger'[b][n + 1].amount
                   + (IF n + 1 = 1 THEN OpeningBalance[b] ELSE ledger'[b][n + 1 - 1].after)
          <6>1. CASE n = 0
            BY SMTT(90), <6>1, <4>0, <4>1, <4>2, <4>3
          <6>2. CASE n # 0
            <7>1. n \in 1 .. n /\ n + 1 - 1 = n /\ n + 1 # 1
              BY SMTT(90), <6>2, <4>1
            <7>2. ledger'[b][n + 1 - 1].after = balance[b]
              BY Zenon, <7>1, <6>2, <4>2, <4>3
            <7> QED
              BY SMTT(90), <7>1, <7>2, <4>0, <4>1, <4>2
          <6> QED
            BY Zenon, <6>1, <6>2
        <5>4. ASSUME NEW i \in DOMAIN ledger'[b]
              PROVE  /\ ledger'[b][i].after \in 0 .. MaxBigint
                     /\ ledger'[b][i].after = ledger'[b][i].amount
                          + (IF i = 1 THEN OpeningBalance[b] ELSE ledger'[b][i - 1].after)
          <6>1. i \in 1 .. n \/ i = n + 1
            BY SMTT(90), <4>2, <5>4
          <6>2. CASE i \in 1 .. n
            BY Zenon, <6>2, <5>2
          <6>3. CASE i = n + 1
            BY SMTT(90), <6>3, <5>3
          <6> QED
            BY Zenon, <6>1, <6>2, <6>3
        <5> QED
          BY ZenonT(120), <5>1, <5>4, <4>2
      <4>5. ASSUME NEW a \in Accounts, a # b PROVE Chained(a)'
        BY SMTT(90), <4>c, <4>1, <4>5
      <4>6. \A a \in Accounts : Chained(a)'
        BY Zenon, <4>4, <4>5
      <4> QED
        BY Zenon, <4>6 DEF LedgerChain, Entries
    <3> QED
      BY Zenon, <2>l, <3>1, <3>2
  <2> QED
    BY Zenon, <2>Types, <2>Callers, <2>Locks, <2>Records, <2>ExtIds, <2>Owners, <2>Chain DEF IInv
(* The commit that succeeds *)
<1>CommitInv.
  ASSUME IInv, NEW c \in Calls, Commit(c)
  PROVE  IInv'
  <2> USE <1>CommitInv
  <2>1. tx[c].row.result \in Result \cup {None}
    BY Zenon, CommitFacts DEF Commit, IdempotencyRecord
  <2> QED
    BY Zenon, <2>1, <1>WrittenInv DEF Commit
(* The commit whose answer is lost, whether it happened or not *)
<1>LoseCommitInv.
  ASSUME IInv, NEW c \in Calls, LoseCommit(c)
  PROVE  IInv'
  <2> USE <1>LoseCommitInv
  <2>1. Failure("OperationalError") \in Result /\ req[c] # None
    BY ZenonT(120), <1>FailureType, CommitFacts DEF OtherError, LoseCommit
  <2>2. CASE Written(c)
    BY Zenon, <2>1, <2>2, <1>WrittenInv DEF LoseCommit
  <2>3. CASE UNCHANGED dbVars
    <3>1. RestTypeOK'
      BY Zenon DEF LoseCommit, IInv, TypeOK, RestTypeOK
    <3> QED
      BY Zenon, <2>1, <2>3, <3>1, <1>FinishInv DEF LoseCommit
  <2> QED
    BY Zenon, <2>2, <2>3 DEF LoseCommit
(* A step that changes nothing *)
<1>StutterInv.
  ASSUME IInv, UNCHANGED vars
  PROVE  IInv'
  <2> USE <1>StutterInv
  <2>1. UNCHANGED <<callVars, dbVars>> /\ RestTypeOK'
    BY Zenon DEF vars, IInv, TypeOK, RestTypeOK
  <2> QED
    BY Zenon, <2>1, <1>EnvironmentStep
<1> SUFFICES ASSUME IInv, [Next]_vars PROVE IInv'
  OBVIOUS
<1>1. ASSUME NEW c \in Calls, NEW q \in Requests, Send(c, q) PROVE IInv'
  BY Zenon, <1>1, <1>SendInv
<1>2. ASSUME NEW c \in Calls, CallStep(c) PROVE IInv'
  BY Zenon, <1>2, <1>AcquireLockInv, <1>ReplayFromCacheInv, <1>CheckOrStartInv, <1>CreateProcessingInv,
     <1>LockAccountInv, <1>AssertNotQuarantinedInv, <1>FindDuplicateInv, <1>LockOriginalInv,
     <1>CreateReceivedInv, <1>ApplyEventInv, <1>CommitInv, <1>ReleaseInv DEF CallStep
<1>3. ASSUME NEW c \in Calls, LoseCommit(c) \/ FailStatement(c) \/ Crash(c) PROVE IInv'
  BY Zenon, <1>3, <1>LoseCommitInv, <1>FailStatementInv, <1>CrashInv
<1>4. ASSUME \/ \E k \in Keys : ExpireLock(k) \/ ExpireCache(k)
             \/ \E a \in Accounts : Quarantine(a) \/ ReleaseQuarantine(a)
             \/ Quiescent
      PROVE  IInv'
  BY Zenon, <1>4, <1>EnvironmentInv
<1>5. ASSUME UNCHANGED vars PROVE IInv'
  BY Zenon, <1>5, <1>StutterInv
<1> QED
  BY Zenon, <1>1, <1>2, <1>3, <1>4, <1>5 DEF Next

(* The inductive invariant holds in every reachable state, for any number    *)
(* of calls, requests and accounts, with or without Redis, and under every   *)
(* fault.                                                                    *)
THEOREM InvariantHolds == Spec => []IInv
BY InitInv, NextInv, PTL DEF Spec

(* The rows and the calls' state keep their types: a call that reads a       *)
(* request, a record or an original finds one.                               *)
THEOREM TypeCorrect == Spec => []TypeOK
<1>1. IInv => TypeOK
  BY Zenon DEF IInv
<1> QED
  BY <1>1, InvariantHolds, PTL

(* Every account's ledger is an unbroken chain from the opening balance to   *)
(* the account's balance, which never leaves 0 .. MaxBigint: no update of    *)
(* LedgerService.apply_event is lost, however calls interleave, fail or are  *)
(* retried.                                                                  *)
THEOREM LedgerChainCorrect == Spec => []LedgerChain
<1>1. IInv => LedgerChain
  BY Zenon DEF IInv
<1> QED
  BY <1>1, InvariantHolds, PTL

(* No external event is in the ledgers twice, whatever keys and accounts it  *)
(* was sent with.                                                            *)
THEOREM AppliedOnceCorrect == Spec => []AppliedOnce
<1>1. IInv => AppliedOnce
  <2> SUFFICES ASSUME IInv,
                      NEW a \in Accounts, NEW b \in Accounts,
                      NEW i \in Entries(a), NEW j \in Entries(b),
                      events[ledger[a][i].event].ext = events[ledger[b][j].event].ext
               PROVE  a = b /\ i = j
    BY Zenon DEF AppliedOnce
  <2>1. ledger[a][i] \in LedgerEntry /\ ledger[b][j] \in LedgerEntry
    BY Zenon, ElementType DEF Entries, IInv, TypeOK
  <2>2. ledger[a][i].event \in Calls /\ ledger[b][j].event \in Calls
    BY Zenon, <2>1 DEF LedgerEntry
  <2>3. /\ events[ledger[a][i].event] # None /\ events[ledger[a][i].event].acct = a
        /\ events[ledger[b][j].event] # None /\ events[ledger[b][j].event].acct = b
    BY Zenon DEF IInv, LedgerOfEvents
  <2>4. ledger[a][i].event = ledger[b][j].event
    BY Zenon, <2>2, <2>3 DEF IInv, UniqueExtIds
  <2>5. a = b
    BY Zenon, <2>3, <2>4
  <2> QED
    BY Zenon, <2>4, <2>5 DEF IInv, LedgerOfEvents
<1> QED
  BY <1>1, InvariantHolds, PTL

-----------------------------------------------------------------------------
(* SerialLedger, final commits and quarantines *)

(* A commit changes the status of the original it reverses and no other row  *)
LEMMA WrittenStatus ==
  ASSUME IInv, NEW c \in Calls, pc[c] = "commit", Written(c), NEW d \in Calls, events[d] # None
  PROVE  /\ d # c /\ events[d] \in EventRow /\ events'[d] # None
         /\ events'[d].ext = events[d].ext /\ events'[d].acct = events[d].acct
         /\ events'[d].type = events[d].type /\ events'[d].amount = events[d].amount
         /\ \/ events'[d] = events[d] /\ (tx[c].entry = None \/ d # tx[c].original)
            \/ /\ tx[c].entry # None /\ d = tx[c].original
               /\ events'[d] = ChangeStatus(events[d], "CANCELLED")
               /\ events'[d].status = "CANCELLED"
<1>1. d # c /\ events[d] \in EventRow
  <2>1. events[c] = None
    BY Zenon, CommitFacts
  <2>2. events[d] \in EventRow
    BY Zenon DEF IInv, TypeOK
  <2> QED
    BY Zenon, <2>1, <2>2
<1>2. events'[d] = IF tx[c].entry # None /\ d = tx[c].original
                   THEN ChangeStatus(events[d], "CANCELLED") ELSE events[d]
  BY Zenon, <1>1 DEF Written
<1>3. /\ ChangeStatus(events[d], "CANCELLED") # None
      /\ ChangeStatus(events[d], "CANCELLED").ext = events[d].ext
      /\ ChangeStatus(events[d], "CANCELLED").acct = events[d].acct
      /\ ChangeStatus(events[d], "CANCELLED").type = events[d].type
      /\ ChangeStatus(events[d], "CANCELLED").amount = events[d].amount
      /\ ChangeStatus(events[d], "CANCELLED").status = "CANCELLED"
  BY Zenon, <1>1, ChangeStatusType, StatusChanged DEF Status
<1>4. CASE tx[c].entry # None /\ d = tx[c].original
  BY Zenon, <1>1, <1>2, <1>3, <1>4
<1>5. CASE ~(tx[c].entry # None /\ d = tx[c].original)
  BY Zenon, <1>1, <1>2, <1>5
<1> QED
  BY Zenon, <1>4, <1>5

(* A commit appends at most one entry, its own *)
LEMMA WrittenAccount ==
  ASSUME IInv, NEW c \in Calls, pc[c] = "commit", Written(c), NEW a \in Accounts
  PROVE  /\ ledger[a] \in Seq(LedgerEntry) /\ Len(ledger[a]) \in Nat
         /\ DOMAIN ledger[a] = 1 .. Len(ledger[a])
         /\ \/ ledger'[a] = ledger[a] /\ (tx[c].entry = None \/ a # req[c].acct)
            \/ /\ tx[c].entry # None /\ a = req[c].acct
               /\ ledger'[a] = Append(ledger[a], tx[c].entry)
               /\ tx[c].entry \in LedgerEntry /\ tx[c].entry.event = c
               /\ Len(ledger'[a]) = Len(ledger[a]) + 1
               /\ DOMAIN ledger'[a] = 1 .. Len(ledger[a]) + 1
               /\ ledger'[a][Len(ledger[a]) + 1] = tx[c].entry
               /\ \A i \in 1 .. Len(ledger[a]) : ledger'[a][i] = ledger[a][i]
<1>1. ledger \in [Accounts -> Seq(LedgerEntry)] /\ ledger[a] \in Seq(LedgerEntry)
  BY Zenon DEF IInv, TypeOK
<1>2. Len(ledger[a]) \in Nat /\ DOMAIN ledger[a] = 1 .. Len(ledger[a])
  BY <1>1
<1>3. CASE tx[c].entry = None
  BY Zenon, <1>1, <1>2, <1>3 DEF Written, WrittenLedger
<1>4. CASE tx[c].entry # None /\ a # req[c].acct
  <2>1. ledger' = [ledger EXCEPT ![req[c].acct] = Append(ledger[req[c].acct], tx[c].entry)]
    BY Zenon, <1>4 DEF Written, WrittenLedger
  <2>2. ledger'[a] = ledger[a]
    BY Zenon, <1>1, <1>4, <2>1
  <2> QED
    BY Zenon, <1>1, <1>2, <1>4, <2>2
<1>5. CASE tx[c].entry # None /\ a = req[c].acct
  <2>1. ledger' = [ledger EXCEPT ![a] = Append(ledger[a], tx[c].entry)]
    BY Zenon, <1>5 DEF Written, WrittenLedger
  <2>2. ledger'[a] = Append(ledger[a], tx[c].entry)
    BY Zenon, <1>1, <2>1
  <2>3. tx[c].entry \in LedgerEntry /\ tx[c].entry.event = c
    BY Zenon, <1>5, CommitFacts
  <2> DEFINE s == ledger[a]
             e == tx[c].entry
             t == ledger'[a]
  <2>4. s \in Seq(LedgerEntry) /\ e \in LedgerEntry /\ t = Append(s, e)
    BY Zenon, <1>1, <2>2, <2>3
  <2> HIDE DEF s, e, t
  <2>5. /\ Len(t) = Len(s) + 1 /\ DOMAIN t = 1 .. Len(s) + 1 /\ t[Len(s) + 1] = e
        /\ \A i \in 1 .. Len(s) : t[i] = s[i]
    BY <2>4, AppendFacts
  <2> QED
    BY Zenon, <1>1, <1>2, <1>5, <2>2, <2>3, <2>5 DEF s, e, t
<1> QED
  BY Zenon, <1>3, <1>4, <1>5

(* A commit adds no entry to another call's event *)
LEMMA WrittenEntries ==
  ASSUME IInv, NEW c \in Calls, pc[c] = "commit", Written(c), NEW d \in Calls, events[d] # None
  PROVE  /\ EntriesOf(d)' = EntriesOf(d)
         /\ \A i \in EntriesOf(d) :
              ledger'[events'[d].acct][i] = ledger[events[d].acct][i]
<1> DEFINE a == events[d].acct
<1>1. d # c /\ events'[d].acct = a /\ events[d] \in EventRow
  BY Zenon, WrittenStatus
<1>2. a \in Accounts
  BY Zenon, <1>1 DEF EventRow
<1> HIDE DEF a
<1>3. /\ EntriesOf(d) = {i \in DOMAIN ledger[a] : ledger[a][i].event = d}
      /\ EntriesOf(d)' = {i \in DOMAIN ledger'[a] : ledger'[a][i].event = d}
  BY Zenon, <1>1 DEF EntriesOf, a
<1>4. PICK n \in Nat :
        /\ DOMAIN ledger[a] = 1 .. n
        /\ \/ ledger'[a] = ledger[a]
           \/ /\ DOMAIN ledger'[a] = 1 .. n + 1
              /\ ledger'[a][n + 1].event = c
              /\ \A i \in 1 .. n : ledger'[a][i] = ledger[a][i]
  <2>1. /\ Len(ledger[a]) \in Nat /\ DOMAIN ledger[a] = 1 .. Len(ledger[a])
        /\ \/ ledger'[a] = ledger[a]
           \/ /\ DOMAIN ledger'[a] = 1 .. Len(ledger[a]) + 1
              /\ ledger'[a][Len(ledger[a]) + 1].event = c
              /\ \A i \in 1 .. Len(ledger[a]) : ledger'[a][i] = ledger[a][i]
    BY Zenon, <1>2, WrittenAccount
  <2> QED
    BY Zenon, <2>1
<1>5. \A i : i \in EntriesOf(d)' <=> i \in EntriesOf(d)
  BY <1>1, <1>3, <1>4
<1>6. \A i \in EntriesOf(d) : ledger'[a][i] = ledger[a][i]
  BY Zenon, <1>3, <1>4
<1> QED
  BY Zenon, <1>1, <1>5, <1>6 DEF a

(* The entries of the event a commit inserts *)
LEMMA WrittenOwnEntries ==
  ASSUME IInv, NEW c \in Calls, pc[c] = "commit", Written(c), tx[c].event # None
  PROVE  /\ events'[c] = tx[c].event /\ events'[c].acct = req[c].acct
         /\ tx[c].entry = None => EntriesOf(c)' = {}
         /\ tx[c].entry # None =>
              \E i : EntriesOf(c)' = {i} /\ ledger'[req[c].acct][i] = tx[c].entry
<1> DEFINE a == req[c].acct
<1>1. /\ events'[c] = tx[c].event /\ tx[c].event.acct = a /\ tx[c].event \in EventRow
      /\ events[c] = None
  BY Zenon, CommitFacts DEF Written
<1>2. a \in Accounts
  BY Zenon, <1>1 DEF EventRow
<1> HIDE DEF a
<1>3. \A i \in DOMAIN ledger[a] : ledger[a][i].event # c
  BY Zenon, <1>1, <1>2 DEF IInv, LedgerOfEvents, Entries
<1>4. EntriesOf(c)' = {i \in DOMAIN ledger'[a] : ledger'[a][i].event = c}
  BY Zenon, <1>1 DEF EntriesOf
<1>5. CASE tx[c].entry = None
  <2>1. ledger'[a] = ledger[a]
    BY Zenon, <1>2, <1>5, WrittenAccount
  <2> QED
    BY Zenon, <1>1, <1>3, <1>4, <1>5, <2>1 DEF a
<1>6. CASE tx[c].entry # None
  <2>1. PICK n \in Nat :
          /\ DOMAIN ledger[a] = 1 .. n /\ DOMAIN ledger'[a] = 1 .. n + 1
          /\ ledger'[a][n + 1] = tx[c].entry /\ tx[c].entry.event = c
          /\ \A i \in 1 .. n : ledger'[a][i] = ledger[a][i]
    <3>1. /\ Len(ledger[a]) \in Nat /\ DOMAIN ledger[a] = 1 .. Len(ledger[a])
          /\ DOMAIN ledger'[a] = 1 .. Len(ledger[a]) + 1
          /\ ledger'[a][Len(ledger[a]) + 1] = tx[c].entry /\ tx[c].entry.event = c
          /\ \A i \in 1 .. Len(ledger[a]) : ledger'[a][i] = ledger[a][i]
      BY Zenon, <1>2, <1>6, WrittenAccount DEF a
    <3> QED
      BY Zenon, <3>1
  <2>2. EntriesOf(c)' = {n + 1}
    BY <1>3, <1>4, <2>1
  <2> QED
    BY Zenon, <1>1, <1>6, <2>1, <2>2 DEF a
<1> QED
  BY Zenon, <1>5, <1>6

(* In the beginning nothing is decided *)
LEMMA InitOutcome == Init => SerialInv
<1> SUFFICES ASSUME Init PROVE SerialInv
  OBVIOUS
<1>1. IInv
  BY Zenon, InitInv
<1>2. ASSUME NEW c \in Calls PROVE OutcomeInv(c)
  BY Zenon DEF Init, OutcomeInv, Admitted, InTransaction, StartedLabel, EmptyTx
<1>3. CommittedEvents
  BY Zenon DEF Init, CommittedEvents
<1> QED
  BY Zenon, <1>1, <1>2, <1>3 DEF SerialInv

(* Every step keeps SerialInv *)
LEMMA NextOutcome == SerialInv /\ [Next]_vars => SerialInv'
(* A call outside its transaction has no outcome yet *)
<1>OutsideOutcome.
  ASSUME NEW c \in Calls, pc'[c] \notin InTransaction, tx'[c] = EmptyTx
  PROVE  OutcomeInv(c)'
  BY <1>OutsideOutcome DEF OutcomeInv, Admitted, InTransaction, StartedLabel, EmptyTx
(* A step of call c that commits nothing leaves the other calls' outcomes    *)
(* and the committed events alone                                            *)
<1>OutcomeLocal.
  ASSUME SerialInv, IInv', NEW c \in Calls,
         UNCHANGED <<dbVars, quarantineVars>>,
         \A d \in Calls : d # c =>
           /\ pc'[d] = pc[d] /\ req'[d] = req[d]
           /\ tx'[d] = tx[d] /\ held'[d] = held[d],
         OutcomeInv(c)'
  PROVE  SerialInv'
  <2> USE <1>OutcomeLocal
  <2>1. ASSUME NEW d \in Calls, d # c
        PROVE  OutcomeInv(d)'
    <3>1. OutcomeInv(d)
      BY Zenon DEF SerialInv
    <3>2. Refused(d) => Refused(d)'
      BY Zenon, <2>1 DEF Refused
    <3>3. Repeated(d) => Repeated(d)'
      <4>1. EventsWithExtId(req[d].ext)' = EventsWithExtId(req[d].ext)
        BY Zenon, <2>1 DEF EventsWithExtId
      <4>2. \A e : EntriesOf(e)' = EntriesOf(e)
        BY Zenon DEF EntriesOf
      <4>3. ASSUME NEW e \in EventsWithExtId(req[d].ext), NEW i \in EntriesOf(e),
                   events[e].acct = req[d].acct,
                   tx[d].row.result = Success(e, ledger[events[e].acct][i].after, TRUE)
            PROVE  /\ e \in EventsWithExtId(req[d].ext)' /\ i \in EntriesOf(e)'
                   /\ events'[e].acct = req'[d].acct
                   /\ tx'[d].row.result = Success(e, ledger'[events'[e].acct][i].after, TRUE)
        BY Zenon, <2>1, <4>1, <4>2, <4>3
      <4> QED
        BY Zenon, <2>1, <4>3 DEF Repeated
    <3>4. Settled(d) => Settled(d)'
      BY Zenon, <2>1 DEF Settled
    <3>5. Admitted(d)' => Admitted(d)
      BY Zenon, <2>1 DEF Admitted
    <3> QED
      BY Zenon, <2>1, <3>1, <3>2, <3>3, <3>4, <3>5 DEF OutcomeInv
  <2>2. CommittedEvents'
    BY Zenon DEF SerialInv, CommittedEvents, EntriesOf
  <2> QED
    BY Zenon, <2>1, <2>2 DEF SerialInv
(* A step that ends outside the transaction without a commit *)
<1>OutcomeOutside.
  ASSUME SerialInv, IInv', NEW c \in Calls,
         UNCHANGED <<dbVars, quarantineVars>>,
         \A d \in Calls : d # c =>
           /\ pc'[d] = pc[d] /\ req'[d] = req[d]
           /\ tx'[d] = tx[d] /\ held'[d] = held[d],
         pc'[c] \notin InTransaction
  PROVE  SerialInv'
  <2> USE <1>OutcomeOutside
  <2>1. tx'[c] = EmptyTx
    BY Zenon DEF IInv, CallInv, OnlyInTransaction
  <2> QED
    BY Zenon, <2>1, <1>OutsideOutcome, <1>OutcomeLocal
(* A call in _process_started has written no entry *)
<1>NoEntryYet.
  ASSUME IInv, NEW c \in Calls, pc[c] \in StartedLabel
  PROVE  /\ tx[c] \in Transaction /\ tx[c].entry = None
         /\ tx[c].row \in IdempotencyRecord /\ pc[c] \in InTransaction
  <2> USE <1>NoEntryYet
  <2>1. tx[c].entry = None /\ tx[c].row # None /\ pc[c] \in InTransaction
    BY Zenon, CallFacts DEF EntryReady, KeyHeld, InTransaction, StartedLabel
  <2>2. tx[c] \in Transaction
    BY Zenon DEF IInv, TypeOK
  <2> QED
    BY Zenon, <2>1, <2>2 DEF Transaction
(* A statement of call c that changes its session only *)
<1>OthersUntouched.
  ASSUME IInv, NEW c \in Calls, NEW l, NEW t, NEW h,
         pc' = [pc EXCEPT ![c] = l], tx' = [tx EXCEPT ![c] = t],
         held' = [held EXCEPT ![c] = h], UNCHANGED req
  PROVE  /\ pc'[c] = l /\ tx'[c] = t /\ held'[c] = h
         /\ \A d \in Calls : d # c =>
              /\ pc'[d] = pc[d] /\ req'[d] = req[d]
              /\ tx'[d] = tx[d] /\ held'[d] = held[d]
  BY Zenon, <1>OthersUntouched DEF IInv, TypeOK
(* Fail writes a refusal *)
<1>FailOutcome.
  ASSUME SerialInv, IInv', NEW c \in Calls, pc[c] \in StartedLabel,
         NEW event, event # None => event.status = "FAILED", NEW error \in DomainFailure,
         Fail(c, event, error), UNCHANGED <<req, dbVars, quarantineVars>>
  PROVE  SerialInv'
  <2> USE <1>FailOutcome
  <2> DEFINE row == [tx[c].row EXCEPT !.status = "FAILED", !.result = Failure(error)]
             t == [tx[c] EXCEPT !.event = event, !.row = row]
  <2>1. /\ IInv /\ tx[c] \in Transaction /\ tx[c].entry = None
        /\ tx[c].row \in IdempotencyRecord /\ pc[c] \in InTransaction
    BY Zenon, <1>NoEntryYet DEF SerialInv
  <2>2. /\ row.status = "FAILED" /\ row.result = Failure(error) /\ row.hash = tx[c].row.hash
        /\ t.row = row /\ t.event = event /\ t.entry = None /\ t.original = tx[c].original
    BY Zenon, <2>1 DEF Transaction, IdempotencyRecord
  <2>3. /\ pc' = [pc EXCEPT ![c] = "commit"] /\ tx' = [tx EXCEPT ![c] = t]
        /\ held' = [held EXCEPT ![c] = held[c]]
    BY Zenon, <2>1 DEF Fail, Goto, IInv, TypeOK
  <2> HIDE DEF row, t
  <2>4. /\ pc'[c] = "commit" /\ tx'[c] = t /\ held'[c] = held[c]
        /\ \A d \in Calls : d # c =>
             /\ pc'[d] = pc[d] /\ req'[d] = req[d]
             /\ tx'[d] = tx[d] /\ held'[d] = held[d]
    BY Zenon, <2>1, <2>3, <1>OthersUntouched
  <2>5. Refused(c)' /\ ~Admitted(c)'
    BY Zenon, <2>2, <2>4 DEF Refused, Admitted, Failure
  <2>6. OutcomeInv(c)
    BY Zenon DEF SerialInv
  <2>7. OutcomeInv(c)'
    BY Zenon, <2>1, <2>2, <2>4, <2>5, <2>6 DEF OutcomeInv, StartedLabel
  <2> QED
    BY Zenon, <2>4, <2>7, <1>OutcomeLocal
(* Complete writes a repetition or an entry *)
<1>CompleteOutcome.
  ASSUME SerialInv, IInv', NEW c \in Calls, pc[c] \in StartedLabel,
         NEW event, NEW entry, NEW result,
         Complete(c, event, entry, result), UNCHANGED <<req, dbVars, quarantineVars>>,
         entry # None => pc[c] = "apply",
         tx'[c].event = event /\ tx'[c].entry = entry /\ tx'[c].original = tx[c].original
           /\ tx'[c].row.status = "COMPLETED" /\ tx'[c].row.result = result
         => Repeated(c)' \/ Settled(c)'
  PROVE  SerialInv'
  <2> USE <1>CompleteOutcome
  <2> DEFINE row == [tx[c].row EXCEPT !.status = "COMPLETED", !.result = result]
             t == [tx[c] EXCEPT !.event = event, !.entry = entry, !.row = row]
  <2>1. /\ IInv /\ tx[c] \in Transaction /\ tx[c].entry = None
        /\ tx[c].row \in IdempotencyRecord /\ pc[c] \in InTransaction
    BY Zenon, <1>NoEntryYet DEF SerialInv
  <2>2. /\ row.status = "COMPLETED" /\ row.result = result /\ row.hash = tx[c].row.hash
        /\ t.row = row /\ t.event = event /\ t.entry = entry /\ t.original = tx[c].original
    BY Zenon, <2>1 DEF Transaction, IdempotencyRecord
  <2>3. /\ pc' = [pc EXCEPT ![c] = "commit"] /\ tx' = [tx EXCEPT ![c] = t]
        /\ held' = [held EXCEPT ![c] = held[c]]
    BY Zenon, <2>1 DEF Complete, Goto, IInv, TypeOK
  <2> HIDE DEF row, t
  <2>4. /\ pc'[c] = "commit" /\ tx'[c] = t /\ held'[c] = held[c]
        /\ \A d \in Calls : d # c =>
             /\ pc'[d] = pc[d] /\ req'[d] = req[d]
             /\ tx'[d] = tx[d] /\ held'[d] = held[d]
    BY Zenon, <2>1, <2>3, <1>OthersUntouched
  <2>5. /\ Repeated(c)' \/ Settled(c)'
        /\ Admitted(c)' => Admitted(c)
    BY Zenon, <2>2, <2>4 DEF Admitted
  <2>6. OutcomeInv(c)
    BY Zenon DEF SerialInv
  <2>7. OutcomeInv(c)'
    BY Zenon, <2>1, <2>2, <2>4, <2>5, <2>6 DEF OutcomeInv, StartedLabel
  <2> QED
    BY Zenon, <2>4, <2>7, <1>OutcomeLocal
(* The insert of the record carries the request *)
<1>CreateProcessingOutcome.
  ASSUME SerialInv, IInv', NEW c \in Calls, CreateProcessing(c)
  PROVE  SerialInv'
  <2> USE <1>CreateProcessingOutcome
  <2> DEFINE row == [key |-> req[c].key, hash |-> req[c], status |-> "PROCESSING", result |-> None]
             t == [tx[c] EXCEPT !.row = row]
  <2>1. IInv /\ tx[c] = EmptyTx /\ pc[c] = "insertKey"
    BY Zenon, CallFacts DEF SerialInv, CreateProcessing, OnlyInTransaction, InTransaction, StartedLabel
  <2>2. CASE /\ tx' = [tx EXCEPT ![c] = t]
             /\ Hold(c, <<"key", req[c].key>>)
             /\ Goto(c, "lockAccount")
    <3>1. /\ t.row.hash = req[c] /\ t.event = None /\ t.entry = None /\ t.original = Nobody
      BY <2>1 DEF EmptyTx
    <3> HIDE DEF t
    <3>2. /\ pc'[c] = "lockAccount" /\ tx'[c] = t
          /\ \A d \in Calls : d # c =>
               /\ pc'[d] = pc[d] /\ req'[d] = req[d]
               /\ tx'[d] = tx[d] /\ held'[d] = held[d]
      BY Zenon, <2>1, <2>2, <1>OthersUntouched DEF Hold, Goto, CreateProcessing
    <3>3. req'[c] = req[c] /\ UNCHANGED <<dbVars, quarantineVars>>
      BY Zenon DEF CreateProcessing
    <3>4. OutcomeInv(c)'
      BY Zenon, <3>1, <3>2, <3>3 DEF OutcomeInv, Admitted
    <3> QED
      BY Zenon, <3>2, <3>3, <3>4, <1>OutcomeLocal
  <2>3. CASE RecordsWithKey(req[c].key) # {}
    <3>1. /\ pc'[c] \in {"check", "release"} /\ UNCHANGED <<dbVars, quarantineVars>>
          /\ \A d \in Calls : d # c =>
               /\ pc'[d] = pc[d] /\ req'[d] = req[d]
               /\ tx'[d] = tx[d] /\ held'[d] = held[d]
      BY ZenonT(60), <2>1, <2>3 DEF CreateProcessing, Finish, Goto, IInv, TypeOK
    <3> QED
      BY Zenon, <3>1, <1>OutcomeOutside DEF InTransaction, StartedLabel
  <2> QED
    BY Zenon, <2>2, <2>3 DEF CreateProcessing
(* A statement that goes on with what was written before *)
<1>GoOnOutcome.
  ASSUME SerialInv, IInv', NEW c \in Calls, pc[c] \in StartedLabel \ {"apply"},
         NEW l \in StartedLabel \ {"apply"}, NEW t, NEW h,
         pc' = [pc EXCEPT ![c] = l], tx' = [tx EXCEPT ![c] = t],
         held' = [held EXCEPT ![c] = h], held[c] \subseteq h,
         UNCHANGED <<req, dbVars, quarantineVars>>,
         t.row = tx[c].row /\ t.event = tx[c].event /\ t.entry = tx[c].entry,
         l = "lockOriginal" => req[c].type = "CANCEL",
         \/ t.original = tx[c].original
         \/ /\ req[c].type = "CANCEL" /\ <<"event", t.original>> \in h
            /\ events[t.original].ext = req[c].orig,
         Admitted(c) \/ l = "quarantine" \/ req[c].acct \notin quarantined
  PROVE  SerialInv'
  <2> USE <1>GoOnOutcome
  <2>1. /\ IInv /\ OutcomeInv(c) /\ tx[c].entry = None /\ pc[c] \in InTransaction
    BY Zenon, <1>NoEntryYet DEF SerialInv
  <2>2. /\ pc'[c] = l /\ tx'[c] = t /\ held'[c] = h
        /\ \A d \in Calls : d # c =>
             /\ pc'[d] = pc[d] /\ req'[d] = req[d]
             /\ tx'[d] = tx[d] /\ held'[d] = held[d]
    BY Zenon, <2>1, <1>OthersUntouched
  <2>3. Admitted(c)' /\ req'[c].acct \in quarantined' => c \in grace'[req'[c].acct]
    BY Zenon, <2>1, <2>2 DEF Admitted, OutcomeInv
  <2>4. OutcomeInv(c)'
    BY Zenon, <2>1, <2>2, <2>3 DEF OutcomeInv, StartedLabel
  <2> QED
    BY Zenon, <2>2, <2>4, <1>OutcomeLocal
(* get_by_account_no_for_update *)
<1>LockAccountOutcome.
  ASSUME SerialInv, IInv', NEW c \in Calls, LockAccount(c)
  PROVE  SerialInv'
  <2> USE <1>LockAccountOutcome
  <2>1. /\ IInv /\ pc[c] = "lockAccount" /\ pc[c] \in StartedLabel \ {"apply"}
        /\ tx[c] \in Transaction
        /\ UNCHANGED <<req, dbVars, quarantineVars>>
    BY Zenon, <1>NoEntryYet DEF SerialInv, LockAccount, StartedLabel
  <2>2. CASE Fail(c, None, "AccountNotFound")
    BY Zenon, <2>1, <2>2, <1>FailOutcome DEF DomainFailure
  <2>3. CASE /\ Hold(c, <<"account", req[c].acct>>)
             /\ tx' = [tx EXCEPT ![c].balance = balance[req[c].acct]]
             /\ Goto(c, "quarantine")
    <3> DEFINE t == [tx[c] EXCEPT !.balance = balance[req[c].acct]]
               h == held[c] \cup {<<"account", req[c].acct>>}
    <3>1. /\ t.row = tx[c].row /\ t.event = tx[c].event /\ t.entry = tx[c].entry
          /\ t.original = tx[c].original /\ held[c] \subseteq h
      BY Zenon, <2>1 DEF Transaction
    <3>2. /\ pc' = [pc EXCEPT ![c] = "quarantine"] /\ tx' = [tx EXCEPT ![c] = t]
          /\ held' = [held EXCEPT ![c] = h] /\ "quarantine" \in StartedLabel \ {"apply"}
      BY Zenon, <2>3 DEF Hold, Goto, StartedLabel
    <3> HIDE DEF t, h
    <3> QED
      BY Zenon, <2>1, <3>1, <3>2, <1>GoOnOutcome
  <2> QED
    BY Zenon, <2>2, <2>3 DEF LockAccount
(* assert_not_quarantined *)
<1>AssertNotQuarantinedOutcome.
  ASSUME SerialInv, IInv', NEW c \in Calls, AssertNotQuarantined(c)
  PROVE  SerialInv'
  <2> USE <1>AssertNotQuarantinedOutcome
  <2>1. /\ IInv /\ pc[c] = "quarantine" /\ pc[c] \in StartedLabel \ {"apply"}
        /\ UNCHANGED <<req, dbVars, quarantineVars>>
    BY Zenon DEF SerialInv, AssertNotQuarantined, StartedLabel
  <2>2. CASE Fail(c, None, "TargetQuarantined")
    BY Zenon, <2>1, <2>2, <1>FailOutcome DEF DomainFailure
  <2>3. CASE /\ req[c].acct \notin quarantined
             /\ Goto(c, "duplicate") /\ UNCHANGED <<tx, held>>
    <3>1. /\ pc' = [pc EXCEPT ![c] = "duplicate"] /\ tx' = [tx EXCEPT ![c] = tx[c]]
          /\ held' = [held EXCEPT ![c] = held[c]] /\ "duplicate" \in StartedLabel \ {"apply"}
      BY Zenon, <2>1, <2>3 DEF Goto, StartedLabel, IInv, TypeOK
    <3> QED
      BY Zenon, <2>1, <2>3, <3>1, <1>GoOnOutcome
  <2> QED
    BY Zenon, <2>2, <2>3 DEF AssertNotQuarantined
(* _duplicate_result repeats the balance of the entry it finds *)
<1>FindDuplicateOutcome.
  ASSUME SerialInv, IInv', NEW c \in Calls, FindDuplicate(c)
  PROVE  SerialInv'
  <2> USE <1>FindDuplicateOutcome
  <2>1. /\ IInv /\ pc[c] = "duplicate" /\ pc[c] \in StartedLabel \ {"apply"}
        /\ UNCHANGED <<req, dbVars, quarantineVars>>
    BY Zenon DEF SerialInv, FindDuplicate, StartedLabel
  <2>2. CASE Fail(c, None, "InvalidTransactionEvent")
    BY Zenon, <2>1, <2>2, <1>FailOutcome DEF DomainFailure
  <2>3. CASE /\ Goto(c, IF req[c].type = "CANCEL" THEN "lockOriginal" ELSE "create")
             /\ UNCHANGED <<tx, held>>
    <3> DEFINE l == IF req[c].type = "CANCEL" THEN "lockOriginal" ELSE "create"
    <3>1. /\ pc' = [pc EXCEPT ![c] = l] /\ tx' = [tx EXCEPT ![c] = tx[c]]
          /\ held' = [held EXCEPT ![c] = held[c]]
      BY Zenon, <2>1, <2>3 DEF Goto, IInv, TypeOK
    <3>2. /\ l \in StartedLabel \ {"apply"} /\ (l = "lockOriginal" => req[c].type = "CANCEL")
          /\ Admitted(c)
      BY Zenon, <2>1 DEF StartedLabel, Admitted
    <3> HIDE DEF l
    <3> QED
      BY Zenon, <2>1, <3>1, <3>2, <1>GoOnOutcome
  <2>4. ASSUME NEW d \in EventsWithExtId(req[c].ext), DuplicateMatches(events[d], req[c]),
               NEW i \in EntriesOf(d),
               Complete(c, None, None, Success(d, ledger[events[d].acct][i].after, TRUE))
        PROVE  SerialInv'
    <3> DEFINE result == Success(d, ledger[events[d].acct][i].after, TRUE)
    <3>1. events[d].acct = req[c].acct
      BY Zenon, <2>4 DEF DuplicateMatches
    <3>2. d \in EventsWithExtId(req[c].ext)' /\ i \in EntriesOf(d)'
      BY Zenon, <2>1 DEF EventsWithExtId, EntriesOf
    <3>3. ASSUME /\ tx'[c].event = None /\ tx'[c].entry = None
                 /\ tx'[c].row.status = "COMPLETED" /\ tx'[c].row.result = result
          PROVE  Repeated(c)'
      BY Zenon, <2>1, <3>1, <3>2, <3>3 DEF Repeated
    <3> HIDE DEF result
    <3> QED
      BY Zenon, <2>1, <2>4, <3>3, <1>CompleteOutcome DEF result
  <2> QED
    BY Zenon, <2>2, <2>3, <2>4 DEF FindDuplicate
(* get_original_for_cancel_for_update *)
<1>LockOriginalOutcome.
  ASSUME SerialInv, IInv', NEW c \in Calls, LockOriginal(c)
  PROVE  SerialInv'
  <2> USE <1>LockOriginalOutcome
  <2>1. /\ IInv /\ pc[c] = "lockOriginal" /\ pc[c] \in StartedLabel \ {"apply"}
        /\ tx[c] \in Transaction /\ req[c].type = "CANCEL"
        /\ UNCHANGED <<req, dbVars, quarantineVars>>
    BY Zenon, <1>NoEntryYet DEF SerialInv, LockOriginal, StartedLabel, OutcomeInv
  <2>2. CASE Fail(c, None, "OriginalTransactionNotFound")
    BY Zenon, <2>1, <2>2, <1>FailOutcome DEF DomainFailure
  <2>3. ASSUME NEW d \in EventsWithExtId(req[c].orig), Hold(c, <<"event", d>>),
               tx' = [tx EXCEPT ![c].original = d], Goto(c, "create")
        PROVE  SerialInv'
    <3> DEFINE t == [tx[c] EXCEPT !.original = d]
               h == held[c] \cup {<<"event", d>>}
    <3>1. /\ t.row = tx[c].row /\ t.event = tx[c].event /\ t.entry = tx[c].entry
          /\ t.original = d /\ held[c] \subseteq h /\ <<"event", d>> \in h
      BY Zenon, <2>1 DEF Transaction
    <3>2. /\ pc' = [pc EXCEPT ![c] = "create"] /\ tx' = [tx EXCEPT ![c] = t]
          /\ held' = [held EXCEPT ![c] = h] /\ "create" \in StartedLabel \ {"apply"}
      BY Zenon, <2>3 DEF Hold, Goto, StartedLabel
    <3>3. events[d].ext = req[c].orig /\ Admitted(c)
      BY Zenon, <2>1 DEF EventsWithExtId, Admitted
    <3> HIDE DEF t, h
    <3> QED
      BY Zenon, <2>1, <3>1, <3>2, <3>3, <1>GoOnOutcome
  <2> QED
    BY Zenon, <2>2, <2>3 DEF LockOriginal
(* An exception ends the transaction *)
<1>RaiseOutcome.
  ASSUME SerialInv, IInv', NEW c \in Calls, NEW result, Finish(c, result),
         UNCHANGED <<req, dbVars, quarantineVars>>
  PROVE  SerialInv'
  <2> USE <1>RaiseOutcome
  <2>1. /\ pc'[c] = "release"
        /\ \A d \in Calls : d # c =>
             /\ pc'[d] = pc[d] /\ req'[d] = req[d]
             /\ tx'[d] = tx[d] /\ held'[d] = held[d]
    BY Zenon, <1>OthersUntouched DEF SerialInv, Finish, Goto
  <2> QED
    BY Zenon, <2>1, <1>OutcomeOutside DEF InTransaction, StartedLabel
(* create_received *)
<1>CreateReceivedOutcome.
  ASSUME SerialInv, IInv', NEW c \in Calls, CreateReceived(c)
  PROVE  SerialInv'
  <2> USE <1>CreateReceivedOutcome
  <2>1. /\ IInv /\ OutcomeInv(c) /\ pc[c] = "create" /\ pc[c] \in StartedLabel
        /\ UNCHANGED <<req, dbVars, quarantineVars>>
    BY Zenon DEF SerialInv, CreateReceived, StartedLabel
  <2>2. tx[c] \in Transaction /\ tx[c].entry = None /\ pc[c] \in InTransaction
    BY Zenon, <2>1, <1>NoEntryYet
  <2>3. CASE Raise(c)
    BY Zenon, <2>1, <2>3, <1>RaiseOutcome DEF Raise
  <2>4. CASE /\ tx' = [tx EXCEPT ![c].event = Received(req[c])]
             /\ Hold(c, <<"ext", req[c].ext>>)
             /\ Goto(c, "apply")
    <3> DEFINE t == [tx[c] EXCEPT !.event = Received(req[c])]
               h == held[c] \cup {<<"ext", req[c].ext>>}
    <3>1. /\ t.row = tx[c].row /\ t.event = Received(req[c]) /\ t.entry = None
          /\ t.original = tx[c].original /\ held[c] \subseteq h
      BY Zenon, <2>2 DEF Transaction
    <3>2. /\ pc' = [pc EXCEPT ![c] = "apply"] /\ tx' = [tx EXCEPT ![c] = t]
          /\ held' = [held EXCEPT ![c] = h]
      BY Zenon, <2>4 DEF Hold, Goto
    <3> HIDE DEF t, h
    <3>3. /\ pc'[c] = "apply" /\ tx'[c] = t /\ held'[c] = h
          /\ \A d \in Calls : d # c =>
               /\ pc'[d] = pc[d] /\ req'[d] = req[d]
               /\ tx'[d] = tx[d] /\ held'[d] = held[d]
      BY Zenon, <2>1, <3>2, <1>OthersUntouched
    <3>4. req'[c] = req[c] /\ (Received(req[c]))' = Received(req[c]) /\ Admitted(c)
      BY Zenon, <2>1 DEF Received, Admitted
    <3>5. OutcomeInv(c)'
      BY Zenon, <2>1, <2>2, <3>1, <3>3, <3>4 DEF OutcomeInv, StartedLabel
    <3> QED
      BY Zenon, <2>1, <3>3, <3>5, <1>OutcomeLocal
  <2> QED
    BY Zenon, <2>3, <2>4 DEF CreateReceived
(* LedgerService.apply_event writes an entry that SerialLedger allows *)
<1>ApplyEventOutcome.
  ASSUME SerialInv, IInv', NEW c \in Calls, ApplyEvent(c)
  PROVE  SerialInv'
  <2> USE <1>ApplyEventOutcome
  <2> DEFINE validated == ChangeStatus(tx[c].event, "VALIDATED")
             started == ChangeStatus(validated, "PROCESSING")
             failed == ChangeStatus(started, "FAILED")
             completed == ChangeStatus(started, "COMPLETED")
             original == tx[c].original
             invalid == IF started.type = "CANCEL"
                        THEN ValidateCancelOriginal(started, events[original]) ELSE "none"
             amount == CalculateLedgerAmount(started.type, started.amount,
                         IF started.type = "CANCEL" THEN events[original].type ELSE None)
             after == tx[c].balance + amount
             entry == [event |-> c, amount |-> amount, after |-> after]
             result == Success(c, after, FALSE)
  <2>1. /\ IInv /\ OutcomeInv(c) /\ pc[c] = "apply" /\ pc[c] \in StartedLabel
        /\ UNCHANGED <<req, dbVars, quarantineVars>>
    BY Zenon DEF SerialInv, ApplyEvent, StartedLabel
  <2>2. \/ \E error \in DomainFailure : Fail(c, failed, error)
        \/ Raise(c)
        \/ invalid = "none" /\ Complete(c, completed, entry, result)
    <3>1. invalid # "none" => invalid \in DomainFailure
      BY Zenon DEF ValidateCancelOriginal, DomainFailure
    <3>2. "InsufficientBalance" \in DomainFailure
      BY Zenon DEF DomainFailure
    <3> QED
      BY Zenon, <3>1, <3>2 DEF ApplyEvent
  <2>3. /\ tx[c].event \in EventRow /\ tx[c].event.type = req[c].type
        /\ tx[c].event.amount = req[c].amount /\ tx[c].event.acct = req[c].acct
        /\ tx[c].event.currency = req[c].currency
        /\ req[c].type = "CANCEL" => tx[c].original # Nobody
    <3>1. tx[c].event = Received(req[c]) /\ tx[c].event # None /\ tx[c] \in Transaction
      BY Zenon, <2>1, CallFacts, <1>NoEntryYet DEF OutcomeInv, ExtIdHeld
    <3>2. tx[c].event \in EventRow
      BY Zenon, <3>1 DEF Transaction
    <3>3. req[c].type = "CANCEL" => tx[c].original # Nobody
      BY Zenon, <2>1, CallFacts DEF OriginalHeld
    <3> QED
      BY <3>1, <3>2, <3>3 DEF Received
  <2>4. /\ started \in EventRow /\ started.type = req[c].type
        /\ started.amount = req[c].amount /\ started.acct = req[c].acct
        /\ started.currency = req[c].currency
    <3>1. /\ validated \in EventRow /\ validated.type = req[c].type
          /\ validated.amount = req[c].amount /\ validated.acct = req[c].acct
          /\ validated.currency = req[c].currency
      BY Zenon, <2>3, StatusChanged DEF Status
    <3> HIDE DEF validated
    <3> QED
      BY Zenon, <3>1, StatusChanged DEF Status
  <2> HIDE DEF started
  <2>5. /\ failed \in EventRow /\ failed.status = "FAILED"
        /\ completed \in EventRow /\ completed.status = "COMPLETED"
        /\ completed.type = req[c].type /\ completed.amount = req[c].amount
    BY Zenon, <2>4, StatusChanged DEF Status
  <2> HIDE DEF failed, completed
  <2>6. CASE \E error \in DomainFailure : Fail(c, failed, error)
    BY Zenon, <2>1, <2>5, <2>6, <1>FailOutcome
  <2>7. CASE Raise(c)
    BY Zenon, <2>1, <2>7, <1>RaiseOutcome DEF Raise
  <2>8. CASE invalid = "none" /\ Complete(c, completed, entry, result)
    <3>1. /\ entry # None /\ entry.amount = amount /\ entry.after = after
          /\ result = Success(c, entry.after, FALSE)
      <4>1. started.type \in EventType /\ started.amount \in Nat
        BY Zenon, <2>4 DEF EventRow
      <4>2. amount \in Int
        BY Zenon, <4>1, LedgerAmountType
      <4>3. tx[c].balance \in Int
        BY Zenon, <2>1, <1>NoEntryYet DEF Transaction
      <4> HIDE DEF amount
      <4>4. after \in Int
        BY <4>2, <4>3
      <4> HIDE DEF after
      <4>5. entry \in LedgerEntry
        BY Zenon, <4>2, <4>4 DEF LedgerEntry
      <4> QED
        BY Zenon, <4>5, NoneAssumption
    <3>2. /\ req[c].type = "CANCEL" =>
               ValidateCancelOriginal(Received(req[c]), events[tx[c].original]) = "none"
      BY Zenon, <2>4, <2>8 DEF ValidateCancelOriginal, Received
    <3>3. /\ req[c].type # "CANCEL" =>
               amount = CalculateLedgerAmount(req[c].type, req[c].amount, None)
          /\ req[c].type = "CANCEL" =>
               amount = CalculateLedgerAmount("CANCEL", req[c].amount, events[tx[c].original].type)
      BY Zenon, <2>4
    <3> HIDE DEF entry, result, amount, after
    <3>4. (Received(req[c]))' = Received(req[c])
      BY Zenon, <2>1 DEF Received
    <3>5. ASSUME /\ tx'[c].event = completed /\ tx'[c].entry = entry
                 /\ tx'[c].original = tx[c].original
                 /\ tx'[c].row.status = "COMPLETED" /\ tx'[c].row.result = result
          PROVE  Settled(c)'
      BY Zenon, <2>1, <2>3, <2>5, <3>1, <3>2, <3>3, <3>4, <3>5 DEF Settled, Success
    <3> QED
      BY Zenon, <2>1, <2>8, <3>5, <1>CompleteOutcome
  <2> QED
    BY Zenon, <2>2, <2>6, <2>7, <2>8
(* A call that stays outside its transaction *)
<1>GotoOutcome.
  ASSUME SerialInv, IInv', NEW c \in Calls, NEW l, l \notin InTransaction, Goto(c, l),
         UNCHANGED <<tx, held, dbVars, quarantineVars>>,
         \A d \in Calls : d # c => req'[d] = req[d]
  PROVE  SerialInv'
  <2> USE <1>GotoOutcome
  <2>1. pc'[c] = l /\ \A d \in Calls : d # c => pc'[d] = pc[d]
    BY Zenon DEF SerialInv, IInv, TypeOK, Goto
  <2> QED
    BY Zenon, <2>1, <1>OutcomeOutside
(* The steps outside the transaction, and those that leave it without a     *)
(* commit                                                                    *)
<1>SessionOutcome.
  ASSUME SerialInv, IInv', NEW c \in Calls,
         \/ \E q \in Requests : Send(c, q)
         \/ AcquireLock(c) \/ ReplayFromCache(c) \/ CheckOrStart(c) \/ Release(c)
         \/ FailStatement(c) \/ Crash(c)
  PROVE  SerialInv'
  <2> USE <1>SessionOutcome
  <2>Outside. {"lock", "check", "insertKey", "done", "crashed"} \cap InTransaction = {}
    BY Zenon DEF InTransaction, StartedLabel
  <2>Send. ASSUME NEW q \in Requests, Send(c, q) PROVE SerialInv'
    <3>1. \A d \in Calls : d # c => req'[d] = req[d]
      BY Zenon, <2>Send DEF Send, SerialInv, IInv, TypeOK
    <3> QED
      BY Zenon, <2>Outside, <2>Send, <3>1, <1>GotoOutcome DEF Send
  <2>Acquire. ASSUME AcquireLock(c) PROVE SerialInv'
    <3>1. Goto(c, "check") \/ Goto(c, "done")
      BY Zenon, <2>Acquire DEF AcquireLock, LockGranted, LockRejected, LockUnavailable
    <3> QED
      BY Zenon, <2>Outside, <2>Acquire, <3>1, <1>GotoOutcome DEF AcquireLock
  <2>Replay. ASSUME ReplayFromCache(c) PROVE SerialInv'
    BY Zenon, <2>Replay, <1>RaiseOutcome DEF ReplayFromCache
  <2>Check. ASSUME CheckOrStart(c) PROVE SerialInv'
    <3>1. /\ UNCHANGED <<req, dbVars, quarantineVars>>
          /\ \/ Goto(c, "insertKey") /\ UNCHANGED <<tx, held>>
             \/ \E r : Finish(c, r)
      BY Zenon, <2>Check DEF CheckOrStart
    <3> QED
      BY Zenon, <2>Outside, <3>1, <1>GotoOutcome, <1>RaiseOutcome
  <2>Release. ASSUME Release(c) PROVE SerialInv'
    BY Zenon, <2>Outside, <2>Release, <1>GotoOutcome DEF Release
  <2>Fail. ASSUME FailStatement(c) PROVE SerialInv'
    BY Zenon, <2>Fail, <1>RaiseOutcome DEF FailStatement
  <2>Crash. ASSUME Crash(c) PROVE SerialInv'
    <3>1. /\ pc'[c] = "crashed"
          /\ \A d \in Calls : d # c =>
               /\ pc'[d] = pc[d] /\ req'[d] = req[d]
               /\ tx'[d] = tx[d] /\ held'[d] = held[d]
      BY Zenon, <2>Crash, <1>OthersUntouched DEF SerialInv, Crash, Goto
    <3> QED
      BY Zenon, <2>Outside, <2>Crash, <3>1, <1>OutcomeOutside DEF Crash
  <2> QED
    BY Zenon, <2>Send, <2>Acquire, <2>Replay, <2>Check, <2>Release, <2>Fail, <2>Crash
(* A step that changes neither the calls nor the committed rows leaves the   *)
(* outcomes alone, as far as its quarantines let the admitted calls finish   *)
<1>EnvironmentOutcome.
  ASSUME SerialInv, IInv', UNCHANGED <<callVars, dbVars>>,
         \A c \in Calls :
           Admitted(c) /\ req[c].acct \in quarantined' => c \in grace'[req[c].acct]
  PROVE  SerialInv'
  <2> USE <1>EnvironmentOutcome
  <2>1. ASSUME NEW d \in Calls PROVE OutcomeInv(d)'
    <3>1. OutcomeInv(d)
      BY Zenon DEF SerialInv
    <3>2. Refused(d) => Refused(d)'
      BY Zenon DEF Refused
    <3>3. Repeated(d) => Repeated(d)'
      <4>1. EventsWithExtId(req[d].ext)' = EventsWithExtId(req[d].ext)
        BY Zenon DEF EventsWithExtId
      <4>2. \A e : EntriesOf(e)' = EntriesOf(e)
        BY Zenon DEF EntriesOf
      <4>3. ASSUME NEW e \in EventsWithExtId(req[d].ext), NEW i \in EntriesOf(e),
                   events[e].acct = req[d].acct,
                   tx[d].row.result = Success(e, ledger[events[e].acct][i].after, TRUE)
            PROVE  /\ e \in EventsWithExtId(req[d].ext)' /\ i \in EntriesOf(e)'
                   /\ events'[e].acct = req'[d].acct
                   /\ tx'[d].row.result = Success(e, ledger'[events'[e].acct][i].after, TRUE)
        BY Zenon, <4>1, <4>2, <4>3
      <4> QED
        BY Zenon, <4>3 DEF Repeated
    <3>4. Settled(d) => Settled(d)'
      BY Zenon DEF Settled
    <3>5. Admitted(d)' => Admitted(d)
      BY Zenon DEF Admitted
    <3> QED
      BY Zenon, <3>1, <3>2, <3>3, <3>4, <3>5 DEF OutcomeInv
  <2>2. CommittedEvents'
    BY Zenon DEF SerialInv, CommittedEvents, EntriesOf
  <2> QED
    BY Zenon, <2>1, <2>2 DEF SerialInv
(* An admitted call holds its account, so a quarantine gives it its grace *)
<1>QuarantineOutcome.
  ASSUME SerialInv, IInv', NEW a \in Accounts, Quarantine(a)
  PROVE  SerialInv'
  <2> USE <1>QuarantineOutcome
  <2>1. ASSUME NEW c \in Calls, Admitted(c), req[c].acct \in quarantined'
        PROVE  c \in grace'[req[c].acct]
    <3>1. IInv /\ OutcomeInv(c)
      BY Zenon DEF SerialInv
    <3>2. CASE req[c].acct = a
      <4>1. pc[c] \in StartedLabel \ {"lockAccount"} \/ tx[c].event # None
        BY Zenon, <2>1, <3>1, CallFacts DEF Admitted, StartedLabel, EntryReady
      <4>2. <<"account", a>> \in held[c]
        BY Zenon, <3>1, <3>2, <4>1, CallFacts DEF AccountHeld
      <4> QED
        BY Zenon, <3>1, <3>2, <4>2 DEF Quarantine, IInv, TypeOK
    <3>3. CASE req[c].acct # a
      <4>1. req[c].acct \in quarantined /\ req[c].acct \in Accounts
        BY Zenon, <2>1, <3>1, <3>3 DEF Quarantine, IInv, TypeOK
      <4>2. c \in grace[req[c].acct]
        BY Zenon, <2>1, <3>1, <4>1 DEF OutcomeInv
      <4> QED
        BY Zenon, <3>1, <3>3, <4>1, <4>2 DEF Quarantine, IInv, TypeOK
    <3> QED
      BY Zenon, <3>2, <3>3
  <2> QED
    BY Zenon, <2>1, <1>EnvironmentOutcome DEF Quarantine
(* Releasing a quarantine takes the grace of that account only *)
<1>ReleaseQuarantineOutcome.
  ASSUME SerialInv, IInv', NEW a \in Accounts, ReleaseQuarantine(a)
  PROVE  SerialInv'
  <2> USE <1>ReleaseQuarantineOutcome
  <2>1. ASSUME NEW c \in Calls, Admitted(c), req[c].acct \in quarantined'
        PROVE  c \in grace'[req[c].acct]
    <3>1. IInv /\ OutcomeInv(c)
      BY Zenon DEF SerialInv
    <3>2. req[c].acct # a /\ req[c].acct \in quarantined /\ req[c].acct \in Accounts
      BY Zenon, <2>1, <3>1 DEF ReleaseQuarantine, IInv, TypeOK
    <3>3. c \in grace[req[c].acct]
      BY Zenon, <2>1, <3>1, <3>2 DEF OutcomeInv
    <3> QED
      BY Zenon, <3>1, <3>2, <3>3 DEF ReleaseQuarantine, IInv, TypeOK
  <2> QED
    BY Zenon, <2>1, <1>EnvironmentOutcome DEF ReleaseQuarantine
(* The original another call has locked is not the one a commit cancels *)
<1>OriginalKept.
  ASSUME SerialInv, NEW c \in Calls, pc[c] = "commit", Written(c),
         NEW d \in Calls, d # c, tx[d].original # Nobody
  PROVE  events'[tx[d].original] = events[tx[d].original]
  <2> USE <1>OriginalKept
  <2> DEFINE o == tx[d].original
  <2>1. IInv /\ OutcomeInv(c) /\ OutcomeInv(d) /\ tx[d] \in Transaction
    BY Zenon DEF SerialInv, IInv, TypeOK
  <2>2. o \in Calls
    BY Zenon, <2>1 DEF Transaction
  <2>3. events[o] # None /\ <<"event", o>> \in held[d] /\ <<"event", o>> \in Resource
    BY Zenon, <2>1, <2>2, CallFacts, ResourceTypes DEF OriginalHeld, OutcomeInv
  <2> HIDE DEF o
  <2>4. ASSUME o = tx[c].original PROVE FALSE
    <3>1. tx[c].original # Nobody
      BY Zenon, <2>4 DEF o
    <3>2. <<"event", o>> \in held[c]
      BY Zenon, <2>1, <2>4, <3>1 DEF OutcomeInv
    <3> QED
      BY Zenon, <2>1, <2>3, <3>2 DEF IInv, Exclusive
  <2> QED
    BY Zenon, <2>1, <2>2, <2>3, <2>4, WrittenStatus DEF o
(* A commit leaves the outcomes of the other calls what they were: nothing  *)
(* they decided from has changed                                             *)
<1>WrittenOutcomes.
  ASSUME SerialInv, NEW c \in Calls, pc[c] = "commit", Written(c),
         NEW d \in Calls, d # c, UNCHANGED quarantineVars,
         pc'[d] = pc[d] /\ req'[d] = req[d] /\ tx'[d] = tx[d] /\ held'[d] = held[d]
  PROVE  OutcomeInv(d)'
  <2> USE <1>WrittenOutcomes
  <2>Facts. IInv /\ OutcomeInv(d)
    BY Zenon DEF SerialInv
  <2>SameOriginal. tx[d].original # Nobody => events'[tx[d].original] = events[tx[d].original]
    BY Zenon, <1>OriginalKept
  <2>Refused. Refused(d) => Refused(d)'
    BY Zenon DEF Refused
  <2>Repeated. ASSUME Repeated(d) PROVE Repeated(d)'
    <3>1. PICK e \in EventsWithExtId(req[d].ext) : \E i \in EntriesOf(e) :
            /\ events[e].acct = req[d].acct
            /\ tx[d].row.result = Success(e, ledger[events[e].acct][i].after, TRUE)
      BY Zenon, <2>Repeated DEF Repeated
    <3>2. e \in Calls /\ events[e] # None /\ events[e].ext = req[d].ext
      BY Zenon, <3>1 DEF EventsWithExtId
    <3>3. /\ events'[e] # None /\ events'[e].ext = events[e].ext
          /\ events'[e].acct = events[e].acct
      BY Zenon, <2>Facts, <3>2, WrittenStatus
    <3>4. e \in EventsWithExtId(req[d].ext)'
      BY Zenon, <3>2, <3>3 DEF EventsWithExtId
    <3>5. /\ EntriesOf(e)' = EntriesOf(e)
          /\ \A i \in EntriesOf(e) :
               ledger'[events'[e].acct][i] = ledger[events[e].acct][i]
      BY Zenon, <2>Facts, <3>2, WrittenEntries
    <3>6. \E i \in EntriesOf(e)' :
            /\ events'[e].acct = req'[d].acct
            /\ tx'[d].row.result = Success(e, ledger'[events'[e].acct][i].after, TRUE)
      BY Zenon, <3>1, <3>3, <3>5
    <3> QED
      BY Zenon, <2>Repeated, <3>4, <3>6 DEF Repeated
  <2>Settled. Settled(d) => Settled(d)'
    <3>1. req[d].type = "CANCEL" /\ Settled(d) => tx[d].original # Nobody
      BY Zenon DEF Settled
    <3> QED
      BY Zenon, <2>SameOriginal, <3>1 DEF Settled
  <2>Admitted. Admitted(d)' => Admitted(d)
    BY Zenon DEF Admitted
  <2> QED
    BY Zenon, <2>Facts, <2>SameOriginal, <2>Refused, <2>Repeated, <2>Settled, <2>Admitted DEF OutcomeInv
(* What is committed has moved the money its status and type say *)
<1>WrittenCommitted.
  ASSUME SerialInv, NEW c \in Calls, pc[c] = "commit", Written(c)
  PROVE  CommittedEvents'
  <2> USE <1>WrittenCommitted
  <2>1. /\ IInv /\ CommittedEvents /\ OutcomeInv(c)
        /\ Refused(c) \/ Repeated(c) \/ Settled(c)
    BY Zenon DEF SerialInv, OutcomeInv
  <2> DEFINE Good(d) ==
        /\ events'[d].status = "COMPLETED" => EntriesOf(d)' # {}
        /\ events'[d].type # "CANCEL" => \A i \in EntriesOf(d)' :
             ledger'[events'[d].acct][i].amount =
               CalculateLedgerAmount(events'[d].type, events'[d].amount, None)
  <2>2. ASSUME events'[c] # None PROVE Good(c)
    <3>1. tx[c].event # None /\ events'[c] = tx[c].event /\ events'[c].acct = req[c].acct
      BY Zenon, <2>1, <2>2, WrittenOwnEntries DEF Written
    <3>2. CASE tx[c].entry = None
      <4>1. EntriesOf(c)' = {} /\ tx[c].event.status # "COMPLETED"
        BY Zenon, <2>1, <3>1, <3>2, WrittenOwnEntries DEF Refused, Repeated, Settled
      <4> QED
        BY Zenon, <3>1, <4>1
    <3>3. CASE tx[c].entry # None
      <4>1. PICK i : EntriesOf(c)' = {i} /\ ledger'[req[c].acct][i] = tx[c].entry
        BY Zenon, <2>1, <3>1, <3>3, WrittenOwnEntries
      <4>2. Settled(c)
        BY Zenon, <2>1, <3>3 DEF Refused, Repeated
      <4> QED
        BY Zenon, <3>1, <4>1, <4>2 DEF Settled
    <3> QED
      BY Zenon, <3>2, <3>3
  <2>3. ASSUME NEW d \in Calls, d # c, events'[d] # None PROVE Good(d)
    <3>1. events[d] # None
      <4>1. tx[c].original # Nobody => events[tx[c].original] # None
        BY Zenon, <2>1, CallFacts DEF OriginalHeld
      <4>2. events[d] = None => events'[d] = events[d]
        BY Zenon, <2>3, <4>1, ConstantsAssumption DEF Written
      <4> QED
        BY Zenon, <2>3, <4>2
    <3>2. /\ events'[d].acct = events[d].acct /\ events'[d].type = events[d].type
          /\ events'[d].amount = events[d].amount
          /\ events'[d] = events[d] \/ events'[d].status = "CANCELLED"
      BY Zenon, <2>1, <3>1, WrittenStatus
    <3>3. /\ EntriesOf(d)' = EntriesOf(d)
          /\ \A i \in EntriesOf(d) :
               ledger'[events'[d].acct][i] = ledger[events[d].acct][i]
      BY Zenon, <2>1, <3>1, WrittenEntries
    <3>4. events'[d].status = "COMPLETED" => events[d].status = "COMPLETED"
      BY Zenon, <3>2
    <3> QED
      BY Zenon, <2>1, <3>1, <3>2, <3>3, <3>4 DEF CommittedEvents
  <2> QED
    BY Zenon, <2>2, <2>3 DEF CommittedEvents
(* Written rows and the end of the call, whatever it answers *)
<1>CommittedOutcome.
  ASSUME SerialInv, IInv', NEW c \in Calls, pc[c] = "commit", Written(c),
         NEW r, Finish(c, r), UNCHANGED <<req, quarantineVars>>
  PROVE  SerialInv'
  <2> USE <1>CommittedOutcome
  <2>1. IInv
    BY Zenon DEF SerialInv
  <2>2. /\ pc'[c] = "release" /\ tx'[c] = EmptyTx
        /\ \A d \in Calls : d # c =>
             /\ pc'[d] = pc[d] /\ req'[d] = req[d]
             /\ tx'[d] = tx[d] /\ held'[d] = held[d]
    BY Zenon, <2>1, <1>OthersUntouched DEF Finish, Goto
  <2>3. OutcomeInv(c)'
    BY Zenon, <2>2, <1>OutsideOutcome DEF InTransaction, StartedLabel
  <2>4. ASSUME NEW d \in Calls, d # c PROVE OutcomeInv(d)'
    BY Zenon, <2>2, <2>4, <1>WrittenOutcomes
  <2>5. CommittedEvents'
    BY Zenon, <1>WrittenCommitted
  <2> QED
    BY Zenon, <2>3, <2>4, <2>5 DEF SerialInv
(* Commit and a lost commit *)
<1>CommitOutcome.
  ASSUME SerialInv, IInv', NEW c \in Calls, Commit(c) \/ LoseCommit(c)
  PROVE  SerialInv'
  <2> USE <1>CommitOutcome
  <2>1. /\ pc[c] = "commit" /\ UNCHANGED <<req, quarantineVars>>
        /\ Written(c) \/ UNCHANGED dbVars
        /\ \E r : Finish(c, r)
    BY Zenon DEF Commit, LoseCommit
  <2> QED
    BY Zenon, <2>1, <1>CommittedOutcome, <1>RaiseOutcome
<1> SUFFICES ASSUME SerialInv, [Next]_vars PROVE SerialInv'
  OBVIOUS
<1>1. IInv /\ IInv'
  BY Zenon, NextInv DEF SerialInv
<1>2. ASSUME NEW c \in Calls, NEW q \in Requests, Send(c, q) PROVE SerialInv'
  BY Zenon, <1>1, <1>2, <1>SessionOutcome
<1>3. ASSUME NEW c \in Calls, CallStep(c) PROVE SerialInv'
  BY Zenon, <1>1, <1>3, <1>SessionOutcome, <1>CreateProcessingOutcome, <1>LockAccountOutcome,
     <1>AssertNotQuarantinedOutcome, <1>FindDuplicateOutcome, <1>LockOriginalOutcome,
     <1>CreateReceivedOutcome, <1>ApplyEventOutcome, <1>CommitOutcome DEF CallStep
<1>4. ASSUME NEW c \in Calls, LoseCommit(c) \/ FailStatement(c) \/ Crash(c)
      PROVE  SerialInv'
  BY Zenon, <1>1, <1>4, <1>SessionOutcome, <1>CommitOutcome
<1>5. ASSUME UNCHANGED <<callVars, dbVars, quarantineVars>> PROVE SerialInv'
  <2>1. ASSUME NEW c \in Calls, Admitted(c), req[c].acct \in quarantined'
        PROVE  c \in grace'[req[c].acct]
    BY Zenon, <1>5, <2>1 DEF SerialInv, OutcomeInv
  <2> QED
    BY Zenon, <1>1, <1>5, <2>1, <1>EnvironmentOutcome
<1>6. ASSUME NEW k \in Keys, ExpireLock(k) \/ ExpireCache(k) PROVE SerialInv'
  BY Zenon, <1>5, <1>6 DEF ExpireLock, ExpireCache
<1>7. ASSUME NEW a \in Accounts, Quarantine(a) \/ ReleaseQuarantine(a) PROVE SerialInv'
  BY Zenon, <1>1, <1>7, <1>QuarantineOutcome, <1>ReleaseQuarantineOutcome
<1>8. ASSUME Quiescent \/ UNCHANGED vars PROVE SerialInv'
  BY Zenon, <1>5, <1>8 DEF Quiescent, vars
<1> QED
  BY Zenon, <1>2, <1>3, <1>4, <1>6, <1>7, <1>8 DEF Next

(* Every call is about to commit an outcome that SerialLedger allows in the  *)
(* committed state of that moment, for any number of calls, requests and     *)
(* accounts and under every fault.                                           *)
THEOREM SerialInvariant == Spec => []SerialInv
BY InitOutcome, NextOutcome, PTL DEF Spec

(* Committed rows change at a commit and nowhere else *)
LEMMA DbStep ==
  ASSUME [Next]_vars
  PROVE  UNCHANGED dbVars \/ \E c \in Calls : pc[c] = "commit" /\ Written(c)
<1>1. ASSUME NEW c \in Calls, CallStep(c)
      PROVE  UNCHANGED dbVars \/ (pc[c] = "commit" /\ Written(c))
  BY Zenon, <1>1 DEF CallStep, AcquireLock, ReplayFromCache, CheckOrStart, CreateProcessing,
     LockAccount, AssertNotQuarantined, FindDuplicate, LockOriginal, CreateReceived,
     ApplyEvent, Commit, Release
<1>2. ASSUME NEW c \in Calls, LoseCommit(c) \/ FailStatement(c) \/ Crash(c)
      PROVE  UNCHANGED dbVars \/ (pc[c] = "commit" /\ Written(c))
  BY Zenon, <1>2 DEF LoseCommit, FailStatement, Crash
<1>3. ASSUME \/ \E c \in Calls, q \in Requests : Send(c, q)
             \/ \E k \in Keys : ExpireLock(k) \/ ExpireCache(k)
             \/ \E a \in Accounts : Quarantine(a) \/ ReleaseQuarantine(a)
             \/ Quiescent \/ UNCHANGED vars
      PROVE  UNCHANGED dbVars
  BY Zenon, <1>3 DEF Send, ExpireLock, ExpireCache, Quarantine, ReleaseQuarantine,
     Quiescent, vars
<1> QED
  BY Zenon, <1>1, <1>2, <1>3 DEF Next

(* A committed entry of a quarantined account is the grace of its call *)
LEMMA WrittenInGrace ==
  ASSUME SerialInv, NEW c \in Calls, pc[c] = "commit", Written(c)
  PROVE  WritesInGrace
<1> SUFFICES ASSUME NEW a \in quarantined, ledger'[a] # ledger[a]
             PROVE  ledger'[a][Len(ledger'[a])].event \in grace[a]
  BY Zenon DEF WritesInGrace
<1>1. IInv /\ OutcomeInv(c) /\ a \in Accounts
  BY Zenon DEF SerialInv, IInv, TypeOK
<1>2. /\ tx[c].entry # None /\ a = req[c].acct
      /\ ledger'[a][Len(ledger'[a])] = tx[c].entry /\ tx[c].entry.event = c
  <2>1. /\ tx[c].entry # None /\ a = req[c].acct /\ tx[c].entry.event = c
        /\ Len(ledger'[a]) = Len(ledger[a]) + 1
        /\ ledger'[a][Len(ledger[a]) + 1] = tx[c].entry
    BY Zenon, <1>1, WrittenAccount
  <2> QED
    BY Zenon, <2>1
<1>3. c \in grace[a]
  BY Zenon, <1>1, <1>2 DEF OutcomeInv, Admitted
<1> QED
  BY Zenon, <1>2, <1>3

(* For any number of calls: once an account is quarantined, only a call that *)
(* held its row when the quarantine began can still write to its ledger.     *)
THEOREM QuarantineStopsWritesAlways == Spec => QuarantineStopsWrites
<1>1. ASSUME SerialInv, [Next]_vars PROVE [WritesInGrace]_vars
  <2>1. UNCHANGED dbVars => WritesInGrace
    BY Zenon DEF WritesInGrace
  <2> QED
    BY Zenon, <1>1, <2>1, DbStep, WrittenInGrace
<1> QED
  BY <1>1, SerialInvariant, PTL DEF Spec, QuarantineStopsWrites

(* A commit appends to one ledger, adds its own rows and cancels at most an *)
(* original that is COMPLETED                                                *)
LEMMA WrittenKeeps ==
  ASSUME SerialInv, NEW c \in Calls, pc[c] = "commit", Written(c)
  PROVE  KeepsCommitted
<1>1. IInv /\ OutcomeInv(c) /\ idem[c] = None
  BY Zenon, CommitFacts DEF SerialInv
<1>2. ASSUME NEW a \in Accounts
      PROVE  /\ Len(ledger[a]) <= Len(ledger'[a])
             /\ SubSeq(ledger'[a], 1, Len(ledger[a])) = ledger[a]
  <2> DEFINE s == ledger[a]
             t == ledger'[a]
  <2>1. s \in Seq(LedgerEntry) /\ (t = s \/ \E e \in LedgerEntry : t = Append(s, e))
    BY Zenon, <1>1, WrittenAccount
  <2> HIDE DEF s, t
  <2>2. Len(s) <= Len(t) /\ SubSeq(t, 1, Len(s)) = s
    BY <2>1
  <2> QED
    BY Zenon, <2>2 DEF s, t
<1>3. ASSUME NEW d \in Calls, idem[d] # None PROVE idem'[d] = idem[d]
  BY Zenon, <1>1, <1>3 DEF Written, IInv, TypeOK
<1>4. ASSUME NEW d \in Calls, events[d] # None, events'[d] # events[d]
      PROVE  /\ CanTransition(events[d].status, "CANCELLED")
             /\ events'[d] = ChangeStatus(events[d], "CANCELLED")
  <2>1. /\ tx[c].entry # None /\ d = tx[c].original
        /\ events'[d] = ChangeStatus(events[d], "CANCELLED")
    BY Zenon, <1>1, <1>4, WrittenStatus
  <2>2. tx[c].original # Nobody
    BY Zenon, <2>1, ConstantsAssumption
  <2>3. Settled(c) /\ req[c].type = "CANCEL"
    BY Zenon, <1>1, <2>1, <2>2 DEF OutcomeInv, Refused, Repeated
  <2>4. events[d].status = "COMPLETED"
    BY Zenon, <2>1, <2>3 DEF Settled, ValidateCancelOriginal
  <2> QED
    BY Zenon, <2>1, <2>4 DEF CanTransition, ALLOWED_TRANSITIONS, Status
<1> QED
  BY Zenon, <1>2, <1>3, <1>4 DEF KeepsCommitted

(* For any number of calls: ledgers only grow, records never change, and an *)
(* event only becomes CANCELLED, from a status its state machine allows.     *)
THEOREM CommittedIsFinalAlways == Spec => CommittedIsFinal
<1>1. ASSUME SerialInv, [Next]_vars PROVE [KeepsCommitted]_vars
  <2>1. ASSUME UNCHANGED dbVars PROVE KeepsCommitted
    <3>1. ASSUME NEW a \in Accounts
          PROVE  Len(ledger[a]) <= Len(ledger[a]) /\ SubSeq(ledger[a], 1, Len(ledger[a])) = ledger[a]
      <4>1. ledger[a] \in Seq(LedgerEntry)
        BY Zenon, <1>1 DEF SerialInv, IInv, TypeOK
      <4> QED
        BY <4>1
    <3> QED
      BY Zenon, <2>1, <3>1 DEF KeepsCommitted
  <2> QED
    BY Zenon, <1>1, <2>1, DbStep, WrittenKeeps
<1> QED
  BY <1>1, SerialInvariant, PTL DEF Spec, CommittedIsFinal

-----------------------------------------------------------------------------
(* The refinement: what the views show, before and after a commit *)

(* the record in AppliedView of entry i of the event of call d *)
MovementOf(d, i) ==
  [acct |-> events[d].acct, amount |-> ledger[events[d].acct][i].amount,
   after |-> ledger[events[d].acct][i].after, cancel |-> events[d].type = "CANCEL"]

NotApplied ==
  \A x \in ExtIds :
    (\A d \in Calls : events[d] # None /\ events[d].ext = x => EntriesOf(d) = {})
      => AppliedView[x] = None

AppliedAs ==
  \A d \in Calls : \A i \in EntriesOf(d) : events[d] # None =>
    /\ events[d].ext \in ExtIds
    /\ AppliedView[events[d].ext] = MovementOf(d, i)
    /\ MovementOf(d, i) \in Movement

NotDecided == \A k \in Keys : RecordsWithKey(k) = {} => DecidedView[k] = None

DecidedAs ==
  \A d \in Calls : idem[d] # None =>
    /\ idem[d].key \in Keys
    /\ DecidedView[idem[d].key] =
         [request |-> idem[d].hash, ok |-> idem[d].status = "COMPLETED",
          after |-> idem[d].result.after]

(* An event in the table after a commit is the call's own or was there *)
LEMMA WrittenNew ==
  ASSUME IInv, NEW c \in Calls, pc[c] = "commit", Written(c),
         NEW d \in Calls, d # c, events'[d] # None
  PROVE  events[d] # None
<1>1. tx[c].original # Nobody => events[tx[c].original] # None
  BY Zenon, CallFacts DEF OriginalHeld
<1>2. events[d] = None => events'[d] = events[d]
  BY Zenon, <1>1, ConstantsAssumption DEF Written
<1> QED
  BY Zenon, <1>2

(* For any number of calls, requests and accounts and under every fault, the *)
(* committed rows change only as SerialLedger decides requests one at a      *)
(* time: the commit of process is where its effect and its answer happen.    *)
THEOREM SerialLedgerImplemented == Spec => ImplementsSerialLedger
(* An external event without an entry is not in AppliedView *)
<1>AppliedNone. NotApplied
  <2> SUFFICES ASSUME NEW x \in ExtIds,
                      \A d \in Calls : events[d] # None /\ events[d].ext = x => EntriesOf(d) = {}
               PROVE  AppliedView[x] = None
    BY Zenon DEF NotApplied
  <2>1. {d \in EventsWithExtId(x) : EntriesOf(d) # {}} = {}
    BY Zenon DEF EventsWithExtId
  <2> QED
    BY Zenon, <2>1 DEF AppliedView
(* An entry of an event is the event's only one *)
<1>OneEntry.
  ASSUME IInv, NEW d \in Calls, events[d] # None, NEW i \in EntriesOf(d)
  PROVE  /\ EntriesOf(d) = {i} /\ events[d].acct \in Accounts
         /\ ledger[events[d].acct][i] \in LedgerEntry
  <2> USE <1>OneEntry
  <2> DEFINE a == events[d].acct
  <2>1. events[d] \in EventRow /\ ledger \in [Accounts -> Seq(LedgerEntry)]
    BY Zenon DEF IInv, TypeOK
  <2>2. a \in Accounts
    BY Zenon, <2>1 DEF EventRow
  <2>3. i \in Entries(a) /\ ledger[a][i].event = d
    BY Zenon DEF EntriesOf, Entries
  <2>4. \A j \in EntriesOf(d) : j \in Entries(a) /\ ledger[a][j].event = d
    BY Zenon DEF EntriesOf, Entries
  <2>5. \A j \in Entries(a) : ledger[a][j].event = ledger[a][i].event => j = i
    BY Zenon, <2>2, <2>3 DEF IInv, LedgerOfEvents
  <2>6. EntriesOf(d) = {i}
    BY Zenon, <2>3, <2>4, <2>5
  <2> QED
    BY Zenon, <2>1, <2>2, <2>3, <2>6, ElementType DEF Entries
(* An external event with an entry is in AppliedView with that entry *)
<1>AppliedSome. IInv => AppliedAs
  <2> SUFFICES ASSUME IInv, NEW d \in Calls, NEW i \in EntriesOf(d), events[d] # None
               PROVE  /\ events[d].ext \in ExtIds
                      /\ AppliedView[events[d].ext] = MovementOf(d, i)
                      /\ MovementOf(d, i) \in Movement
    BY Zenon DEF AppliedAs
  <2> DEFINE x == events[d].ext
             A == {e \in EventsWithExtId(x) : EntriesOf(e) # {}}
  <2>1. x \in ExtIds
    BY Zenon DEF IInv, TypeOK, EventRow
  <2>2. /\ EntriesOf(d) = {i} /\ events[d].acct \in Accounts
        /\ ledger[events[d].acct][i] \in LedgerEntry
    BY Zenon, <1>OneEntry
  <2>3. A = {d}
    <3>1. d \in A
      BY Zenon DEF EventsWithExtId
    <3>2. \A e \in A : e = d
      BY Zenon DEF EventsWithExtId, IInv, UniqueExtIds
    <3> QED
      BY Zenon, <3>1, <3>2
  <2> HIDE DEF A
  <2>4. AppliedView[x] =
          IF A = {} THEN None
          ELSE [acct |-> events[CHOOSE e \in A : TRUE].acct,
                amount |-> ledger[events[CHOOSE e \in A : TRUE].acct]
                             [CHOOSE j \in EntriesOf(CHOOSE e \in A : TRUE) : TRUE].amount,
                after |-> ledger[events[CHOOSE e \in A : TRUE].acct]
                             [CHOOSE j \in EntriesOf(CHOOSE e \in A : TRUE) : TRUE].after,
                cancel |-> events[CHOOSE e \in A : TRUE].type = "CANCEL"]
    BY Zenon, <2>1 DEF AppliedView, A
  <2>5. (CHOOSE e \in A : TRUE) = d
    BY Zenon, <2>3
  <2>6. (CHOOSE j \in EntriesOf(d) : TRUE) = i
    BY Zenon, <2>2
  <2>7. AppliedView[x] = MovementOf(d, i)
    BY Zenon, <2>3, <2>4, <2>5, <2>6 DEF MovementOf
  <2>8. MovementOf(d, i) \in Movement
    BY Zenon, <2>2 DEF MovementOf, Movement, LedgerEntry
  <2> QED
    BY Zenon, <2>1, <2>7, <2>8
(* A key without a record is undecided *)
<1>DecidedNone. NotDecided
  BY Zenon DEF NotDecided, DecidedView
(* A key with a record is decided as the record says *)
<1>DecidedSome. IInv => DecidedAs
  <2> SUFFICES ASSUME IInv, NEW d \in Calls, idem[d] # None
               PROVE  /\ idem[d].key \in Keys
                      /\ DecidedView[idem[d].key] =
                           [request |-> idem[d].hash, ok |-> idem[d].status = "COMPLETED",
                            after |-> idem[d].result.after]
    BY Zenon DEF DecidedAs
  <2> DEFINE k == idem[d].key
  <2>1. k \in Keys
    BY Zenon DEF IInv, TypeOK, IdempotencyRecord
  <2>2. RecordsWithKey(k) = {d}
    <3>1. d \in RecordsWithKey(k)
      BY Zenon DEF RecordsWithKey
    <3>2. \A e \in RecordsWithKey(k) : e = d
      BY Zenon DEF RecordsWithKey, IInv, UniqueKeys
    <3> QED
      BY Zenon, <3>1, <3>2
  <2>3. (CHOOSE e \in RecordsWithKey(k) : TRUE) = d
    BY Zenon, <2>2
  <2> QED
    BY Zenon, <2>1, <2>2, <2>3 DEF DecidedView
(* The views after a step show the rows after it *)
<1>ViewsNext.
  ASSUME IInv'
  PROVE  NotApplied' /\ AppliedAs' /\ NotDecided' /\ DecidedAs'
  <2> USE <1>ViewsNext
  <2>1. NotApplied' /\ NotDecided'
    BY <1>AppliedNone, <1>DecidedNone, PTL
  <2>2. IInv' => AppliedAs' /\ DecidedAs'
    BY <1>AppliedSome, <1>DecidedSome, PTL
  <2> QED
    BY Zenon, <2>1, <2>2
(* A commit leaves AppliedView alone but for the event it settles *)
<1>AppliedSame.
  ASSUME IInv, IInv', NEW c \in Calls, pc[c] = "commit", Written(c), NEW x \in ExtIds,
         tx[c].entry = None \/ x # req[c].ext
  PROVE  AppliedView'[x] = AppliedView[x]
  <2> USE <1>AppliedSame
  <2>1. CASE \E d \in Calls : events[d] # None /\ events[d].ext = x /\ EntriesOf(d) # {}
    <3>1. PICK d \in Calls : events[d] # None /\ events[d].ext = x /\ EntriesOf(d) # {}
      BY Zenon, <2>1
    <3>2. PICK i \in EntriesOf(d) : TRUE
      BY Zenon, <3>1
    <3>3. /\ events'[d] # None /\ events'[d].ext = x /\ events'[d].acct = events[d].acct
          /\ events'[d].type = events[d].type
      BY Zenon, <3>1, WrittenStatus
    <3>4. i \in EntriesOf(d)' /\ ledger'[events'[d].acct][i] = ledger[events[d].acct][i]
      BY Zenon, <3>1, <3>2, WrittenEntries
    <3>5. MovementOf(d, i)' = MovementOf(d, i)
      BY Zenon, <3>3, <3>4 DEF MovementOf
    <3>6. AppliedView[x] = MovementOf(d, i)
      BY Zenon, <3>1, <3>2, <1>AppliedSome DEF AppliedAs
    <3>7. AppliedView'[x] = MovementOf(d, i)'
      BY Zenon, <3>3, <3>4, <1>ViewsNext DEF AppliedAs
    <3> QED
      BY Zenon, <3>5, <3>6, <3>7
  <2>2. CASE \A d \in Calls : events[d] # None /\ events[d].ext = x => EntriesOf(d) = {}
    <3>1. ASSUME NEW d \in Calls, events'[d] # None, events'[d].ext = x
          PROVE  EntriesOf(d)' = {}
      <4>1. CASE d = c
        <5>1. tx[c].event # None /\ events'[c] = tx[c].event
          BY Zenon, <3>1, <4>1 DEF Written
        <5>2. tx[c].event.ext = req[c].ext
          BY Zenon, <5>1, CommitFacts
        <5> QED
          BY Zenon, <3>1, <4>1, <5>1, <5>2, WrittenOwnEntries
      <4>2. CASE d # c
        <5>1. events[d] # None
          BY Zenon, <3>1, <4>2, WrittenNew
        <5> QED
          <6>1. events'[d].ext = events[d].ext
            BY Zenon, <5>1, WrittenStatus
          <6>2. EntriesOf(d)' = EntriesOf(d)
            BY Zenon, <5>1, WrittenEntries
          <6> QED
            BY Zenon, <2>2, <3>1, <5>1, <6>1, <6>2
      <4> QED
        BY Zenon, <4>1, <4>2
    <3>2. AppliedView'[x] = None
      BY Zenon, <3>1, <1>ViewsNext DEF NotApplied
    <3>3. AppliedView[x] = None
      BY Zenon, <2>2, <1>AppliedNone DEF NotApplied
    <3> QED
      BY Zenon, <3>2, <3>3
  <2> QED
    BY Zenon, <2>1, <2>2
(* A settled event enters AppliedView with the entry of its call *)
<1>AppliedOwn.
  ASSUME IInv, IInv', NEW c \in Calls, pc[c] = "commit", Written(c), tx[c].entry # None
  PROVE  /\ req[c].ext \in ExtIds /\ AppliedView[req[c].ext] = None
         /\ AppliedView'[req[c].ext] =
              [acct |-> req[c].acct, amount |-> tx[c].entry.amount,
               after |-> tx[c].entry.after, cancel |-> tx[c].event.type = "CANCEL"]
  <2> USE <1>AppliedOwn
  <2>1. /\ tx[c].event # None /\ tx[c].event.ext = req[c].ext
        /\ EventsWithExtId(req[c].ext) = {}
    BY Zenon, CommitFacts
  <2>2. events'[c] = tx[c].event /\ events'[c].acct = req[c].acct
    BY Zenon, <2>1, WrittenOwnEntries
  <2>3. PICK i : EntriesOf(c)' = {i} /\ ledger'[req[c].acct][i] = tx[c].entry
    BY Zenon, <2>1, WrittenOwnEntries
  <2>4. /\ req[c].ext \in ExtIds
        /\ AppliedView'[req[c].ext] = MovementOf(c, i)'
    BY Zenon, <2>1, <2>2, <2>3, <1>ViewsNext DEF AppliedAs
  <2>5. MovementOf(c, i)' =
          [acct |-> req[c].acct, amount |-> tx[c].entry.amount,
           after |-> tx[c].entry.after, cancel |-> tx[c].event.type = "CANCEL"]
    BY Zenon, <2>2, <2>3 DEF MovementOf
  <2>6. \A d \in Calls : ~(events[d] # None /\ events[d].ext = req[c].ext)
    BY Zenon, <2>1 DEF EventsWithExtId
  <2>7. AppliedView[req[c].ext] = None
    BY Zenon, <2>4, <2>6, <1>AppliedNone DEF NotApplied
  <2> QED
    BY Zenon, <2>4, <2>5, <2>7
(* A commit decides its key and no other *)
<1>DecidedStep.
  ASSUME IInv, IInv', NEW c \in Calls, pc[c] = "commit", Written(c)
  PROVE  /\ req[c].key \in Keys /\ DecidedView[req[c].key] = None
         /\ DecidedView' = [DecidedView EXCEPT ![req[c].key] =
              [request |-> tx[c].row.hash, ok |-> tx[c].row.status = "COMPLETED",
               after |-> tx[c].row.result.after]]
  <2> USE <1>DecidedStep
  <2>1. /\ tx[c].row # None /\ tx[c].row.key = req[c].key /\ idem[c] = None
        /\ RecordsWithKey(req[c].key) = {}
    BY Zenon, CommitFacts
  <2>2. idem'[c] = tx[c].row /\ \A d \in Calls : d # c => idem'[d] = idem[d]
    BY Zenon DEF Written, IInv, TypeOK
  <2>3. /\ req[c].key \in Keys
        /\ DecidedView'[req[c].key] =
             [request |-> tx[c].row.hash, ok |-> tx[c].row.status = "COMPLETED",
              after |-> tx[c].row.result.after]
    BY Zenon, <2>1, <2>2, <1>ViewsNext DEF DecidedAs
  <2>4. DecidedView[req[c].key] = None
    BY Zenon, <2>1, <2>3, <1>DecidedNone DEF NotDecided
  <2>5. ASSUME NEW k \in Keys, k # req[c].key PROVE DecidedView'[k] = DecidedView[k]
    <3>1. CASE RecordsWithKey(k) = {}
      <4>1. RecordsWithKey(k)' = {}
        BY Zenon, <2>1, <2>2, <2>5, <3>1 DEF RecordsWithKey
      <4> QED
        BY Zenon, <3>1, <4>1, <1>DecidedNone, <1>ViewsNext DEF NotDecided
    <3>2. CASE RecordsWithKey(k) # {}
      <4>1. PICK d \in Calls : idem[d] # None /\ idem[d].key = k
        BY Zenon, <3>2 DEF RecordsWithKey
      <4>2. idem'[d] = idem[d]
        BY Zenon, <2>1, <2>2, <4>1
      <4> DEFINE decision == [request |-> idem[d].hash, ok |-> idem[d].status = "COMPLETED",
                              after |-> idem[d].result.after]
      <4>3. DecidedView[k] = decision
        BY Zenon, <4>1, <1>DecidedSome DEF DecidedAs
      <4>4. DecidedView'[k] = decision
        BY Zenon, <4>1, <4>2, <1>ViewsNext DEF DecidedAs
      <4> QED
        BY Zenon, <4>3, <4>4
    <3> QED
      BY Zenon, <3>1, <3>2
  <2>6. DecidedView = [k \in Keys |-> DecidedView[k]] /\ DecidedView' = [k \in Keys |-> DecidedView'[k]]
    BY Zenon DEF DecidedView
  <2> QED
    BY Zenon, <2>3, <2>4, <2>5, <2>6
(* A commit reverses the original of the CANCEL it settles and nothing else *)
<1>ReversedStep.
  ASSUME SerialInv, NEW c \in Calls, pc[c] = "commit", Written(c)
  PROVE  ReversedView' = IF tx[c].entry # None /\ req[c].type = "CANCEL"
                         THEN ReversedView \cup {req[c].orig} ELSE ReversedView
  <2> USE <1>ReversedStep
  <2>1. IInv /\ OutcomeInv(c) /\ tx[c] \in Transaction
    BY Zenon DEF SerialInv, IInv, TypeOK
  <2>2. /\ \A x : x \in ReversedView <=> \E d \in Calls :
             events[d] # None /\ events[d].status = "CANCELLED" /\ x = events[d].ext
        /\ \A x : x \in ReversedView' <=> \E d \in Calls :
             events'[d] # None /\ events'[d].status = "CANCELLED" /\ x = events'[d].ext
    BY Zenon DEF ReversedView
  <2>3. ASSUME NEW x \in ReversedView'
        PROVE  \/ x \in ReversedView
               \/ tx[c].entry # None /\ req[c].type = "CANCEL" /\ x = req[c].orig
    <3>1. PICK d \in Calls :
            events'[d] # None /\ events'[d].status = "CANCELLED" /\ x = events'[d].ext
      BY Zenon, <2>2, <2>3
    <3>2. d # c
      <4>1. events'[c] = tx[c].event
        BY Zenon DEF Written
      <4>2. tx[c].event # None => tx[c].event.status # "CANCELLED"
        BY Zenon, <2>1 DEF OutcomeInv, Refused, Repeated, Settled
      <4> QED
        BY Zenon, <3>1, <4>1, <4>2
    <3>3. events[d] # None
      BY Zenon, <2>1, <3>1, <3>2, WrittenNew
    <3>4. /\ events'[d].ext = events[d].ext
          /\ events'[d] = events[d] \/ (tx[c].entry # None /\ d = tx[c].original)
      BY Zenon, <2>1, <3>3, WrittenStatus
    <3>5. CASE events'[d] = events[d]
      BY Zenon, <2>2, <3>1, <3>3, <3>5
    <3>6. CASE tx[c].entry # None /\ d = tx[c].original
      <4>1. tx[c].original # Nobody
        BY Zenon, <3>6, ConstantsAssumption
      <4> QED
        BY Zenon, <2>1, <3>1, <3>4, <3>6, <4>1 DEF OutcomeInv
    <3> QED
      BY Zenon, <3>4, <3>5, <3>6
  <2>4. ASSUME NEW x \in ReversedView PROVE x \in ReversedView'
    <3>1. PICK d \in Calls :
            events[d] # None /\ events[d].status = "CANCELLED" /\ x = events[d].ext
      BY Zenon, <2>2, <2>4
    <3>2. events'[d] # None /\ events'[d].status = "CANCELLED" /\ events'[d].ext = events[d].ext
      BY Zenon, <2>1, <3>1, WrittenStatus
    <3> QED
      BY Zenon, <2>2, <3>1, <3>2
  <2>5. ASSUME tx[c].entry # None, req[c].type = "CANCEL" PROVE req[c].orig \in ReversedView'
    <3> DEFINE o == tx[c].original
    <3>1. Settled(c)
      BY Zenon, <2>1, <2>5 DEF OutcomeInv, Refused, Repeated
    <3>2. o # Nobody /\ events[o] # None /\ events[o].ext = req[c].orig
      BY Zenon, <2>1, <2>5, <3>1, CallFacts DEF Settled, OriginalHeld, OutcomeInv
    <3>3. o \in Calls
      BY Zenon, <2>1, <3>2 DEF Transaction
    <3> HIDE DEF o
    <3>4. events'[o] # None /\ events'[o].status = "CANCELLED" /\ events'[o].ext = events[o].ext
      BY Zenon, <2>1, <2>5, <3>2, <3>3, WrittenStatus DEF o
    <3> QED
      BY Zenon, <2>2, <3>2, <3>3, <3>4
  <2> QED
    BY Zenon, <2>3, <2>4, <2>5
(* The original of a CANCEL about to be settled can be reversed, by the     *)
(* amount of the entry                                                       *)
<1>OriginalReversible.
  ASSUME SerialInv, NEW c \in Calls, pc[c] = "commit", Settled(c), req[c].type = "CANCEL"
  PROVE  /\ Serial!Reversible(req[c])
         /\ tx[c].entry.amount = -AppliedView[req[c].orig].amount
  <2> USE <1>OriginalReversible
  <2> DEFINE o == tx[c].original
  <2>1. IInv /\ OutcomeInv(c) /\ tx[c] \in Transaction /\ req[c] \in Requests
    BY Zenon, CommitFacts DEF SerialInv, IInv, TypeOK
  <2>2. o # Nobody /\ events[o] # None /\ events[o].ext = req[c].orig
    BY Zenon, <2>1, CallFacts DEF Settled, OriginalHeld, OutcomeInv
  <2>3. o \in Calls
    BY Zenon, <2>1, <2>2 DEF Transaction
  <2>4. /\ events[o].type \in {"DEPOSIT", "WITHDRAW"} /\ events[o].status = "COMPLETED"
        /\ events[o].acct = req[c].acct /\ events[o].amount = req[c].amount
        /\ tx[c].entry.amount = CalculateLedgerAmount("CANCEL", req[c].amount, events[o].type)
    BY Zenon DEF Settled, ValidateCancelOriginal, Received
  <2> HIDE DEF o
  <2>5. PICK i \in EntriesOf(o) :
          ledger[events[o].acct][i].amount =
            CalculateLedgerAmount(events[o].type, events[o].amount, None)
    BY Zenon, <2>2, <2>3, <2>4 DEF SerialInv, CommittedEvents
  <2>6. /\ req[c].orig \in ExtIds
        /\ AppliedView[req[c].orig] = MovementOf(o, i) /\ MovementOf(o, i) \in Movement
    BY Zenon, <2>1, <2>2, <2>3, <1>AppliedSome DEF AppliedAs
  <2>7. /\ MovementOf(o, i).acct = req[c].acct /\ ~MovementOf(o, i).cancel
        /\ MovementOf(o, i).amount = CalculateLedgerAmount(events[o].type, req[c].amount, None)
    BY Zenon, <2>4, <2>5 DEF MovementOf
  <2>8. req[c].orig \notin ReversedView
    <3>1. \A d \in Calls : events[d] # None /\ events[d].ext = req[c].orig => d = o
      BY Zenon, <2>1, <2>2, <2>3 DEF IInv, UniqueExtIds
    <3> QED
      BY Zenon, <2>4, <3>1 DEF ReversedView
  <2>9. req[c].amount \in Nat
    BY Zenon, <2>1, RequestFields
  <2>10. /\ MovementOf(o, i).amount \in {req[c].amount, -req[c].amount}
         /\ tx[c].entry.amount = -MovementOf(o, i).amount
    BY <2>4, <2>7, <2>9 DEF CalculateLedgerAmount
  <2>11. MovementOf(o, i) # None
    BY Zenon, <2>6, NoneAssumption
  <2> QED
    BY Zenon, <2>6, <2>7, <2>8, <2>10, <2>11 DEF Serial!Reversible, Serial!ExtIds, ExtIds
(* The commit of a call without an entry leaves balances, AppliedView and   *)
(* ReversedView alone                                                        *)
<1>NothingMoved.
  ASSUME SerialInv, IInv', NEW c \in Calls, pc[c] = "commit", Written(c), tx[c].entry = None
  PROVE  UNCHANGED <<balance, AppliedView, ReversedView>>
  <2> USE <1>NothingMoved
  <2>1. IInv
    BY Zenon DEF SerialInv
  <2>2. \A x \in ExtIds : AppliedView'[x] = AppliedView[x]
    BY Zenon, <2>1, <1>AppliedSame
  <2>3. /\ AppliedView = [x \in ExtIds |-> AppliedView[x]]
        /\ AppliedView' = [x \in ExtIds |-> AppliedView'[x]]
    BY Zenon DEF AppliedView
  <2>4. AppliedView' = AppliedView
    BY Zenon, <2>2, <2>3
  <2>5. ReversedView' = ReversedView
    BY Zenon, <1>ReversedStep
  <2>6. balance' = balance
    BY Zenon DEF Written, WrittenLedger
  <2> QED
    BY Zenon, <2>4, <2>5, <2>6
(* The record of a commit is the decision of its request *)
<1>WrittenDecision.
  ASSUME SerialInv, IInv', NEW c \in Calls, pc[c] = "commit", Written(c),
         NEW ok \in BOOLEAN, ok <=> tx[c].row.status = "COMPLETED"
  PROVE  Serial!Decide(req[c], ok, tx[c].row.result.after)
  <2> USE <1>WrittenDecision
  <2>1. IInv /\ tx[c].row.hash = req[c]
    BY Zenon DEF SerialInv, OutcomeInv, InTransaction
  <2>2. (tx[c].row.status = "COMPLETED") = ok
    OBVIOUS
  <2> QED
    BY Zenon, <2>1, <2>2, <1>DecidedStep DEF Serial!Decide
(* A commit with an entry settles its request *)
<1>SettledStep.
  ASSUME SerialInv, IInv', NEW c \in Calls, pc[c] = "commit", Written(c), Settled(c)
  PROVE  Serial!Settle(req[c])
  <2> USE <1>SettledStep
  <2> DEFINE q == req[c]
             e == tx[c].entry
  <2>1. /\ IInv /\ q \in Requests /\ tx[c].event # None /\ e # None /\ e \in LedgerEntry
        /\ balance \in [Accounts -> Int]
    BY Zenon, CommitFacts DEF SerialInv, Settled, IInv, TypeOK
  <2>2. q.acct \in Accounts /\ tx[c].balance = balance[q.acct]
    BY Zenon, <2>1, CallFacts DEF AccountHeld
  <2>3. e.after \in 0 .. MaxBigint /\ e.after = balance[q.acct] + e.amount
    BY Zenon, <2>1, <2>2, CallFacts DEF EntryReady
  <2>4. /\ q.ext \in ExtIds /\ AppliedView[q.ext] = None
        /\ AppliedView'[q.ext] = [acct |-> q.acct, amount |-> e.amount, after |-> e.after,
                                  cancel |-> q.type = "CANCEL"]
    BY Zenon, <2>1, <1>AppliedOwn DEF Settled
  <2>5. q.type = "CANCEL" => Serial!Reversible(q) /\ e.amount = -AppliedView[q.orig].amount
    BY Zenon, <1>OriginalReversible
  <2>6. q.type \in {"DEPOSIT", "WITHDRAW", "CANCEL"} /\ q.amount \in Nat
    BY Zenon, <2>1, RequestFields DEF EventType
  <2>7. Serial!Effect(q) = e.amount
    <3>1. q.type # "CANCEL" => e.amount = CalculateLedgerAmount(q.type, q.amount, None)
      BY Zenon DEF Settled
    <3> HIDE DEF q, e
    <3> QED
      BY Zenon, <2>5, <2>6, <3>1 DEF Serial!Effect, CalculateLedgerAmount
  <2>8. balance' = [balance EXCEPT ![q.acct] = e.after]
    BY Zenon, <2>1 DEF Written, WrittenLedger
  <2>9. AppliedView' = [AppliedView EXCEPT ![q.ext] =
                          [acct |-> q.acct, amount |-> e.amount, after |-> e.after,
                           cancel |-> q.type = "CANCEL"]]
    <3>1. \A x \in ExtIds : x # q.ext => AppliedView'[x] = AppliedView[x]
      BY Zenon, <2>1, <1>AppliedSame
    <3>2. /\ AppliedView = [x \in ExtIds |-> AppliedView[x]]
          /\ AppliedView' = [x \in ExtIds |-> AppliedView'[x]]
      BY Zenon DEF AppliedView
    <3> QED
      BY Zenon, <2>4, <3>1, <3>2
  <2>10. ReversedView' = IF q.type = "CANCEL" THEN ReversedView \cup {q.orig} ELSE ReversedView
    BY Zenon, <2>1, <1>ReversedStep
  <2>11. Serial!Decide(q, TRUE, e.after)
    <3>1. tx[c].row.status = "COMPLETED" /\ tx[c].row.result.after = e.after
      BY DEF Settled, Success
    <3>2. Serial!Decide(q, TRUE, tx[c].row.result.after)
      BY Zenon, <3>1, <1>WrittenDecision
    <3> QED
      BY Zenon, <3>1, <3>2
  <2> HIDE DEF q, e
  <2>12. Serial!Settle(q)
    BY Zenon, <2>2, <2>3, <2>4, <2>5, <2>7, <2>8, <2>9, <2>10, <2>11 DEF Serial!Settle
  <2> QED
    BY Zenon, <2>12 DEF q
(* Every commit is a step of SerialLedger *)
<1>CommitIsSerial.
  ASSUME SerialInv, IInv', NEW c \in Calls, pc[c] = "commit", Written(c)
  PROVE  Serial!Next
  <2> USE <1>CommitIsSerial
  <2>1. /\ IInv /\ req[c] \in Requests
        /\ Refused(c) \/ Repeated(c) \/ Settled(c)
    BY Zenon, CommitFacts DEF SerialInv, OutcomeInv
  <2>2. CASE Refused(c)
    <3>1. tx[c].row.status # "COMPLETED" /\ tx[c].row.result.after = 0 /\ tx[c].entry = None
      BY <2>2 DEF Refused, Failure
    <3>2. Serial!Decide(req[c], FALSE, tx[c].row.result.after)
      BY Zenon, <3>1, <1>WrittenDecision
    <3>3. Serial!Refuse(req[c])
      BY Zenon, <3>1, <3>2, <1>NothingMoved DEF Serial!Refuse
    <3> QED
      BY Zenon, <2>1, <3>3 DEF Serial!Next
  <2>3. CASE Repeated(c)
    <3>1. /\ tx[c].row.status = "COMPLETED" /\ tx[c].entry = None
          /\ \E d \in Calls : \E i \in EntriesOf(d) :
               /\ events[d] # None /\ events[d].ext = req[c].ext /\ events[d].acct = req[c].acct
               /\ tx[c].row.result.after = ledger[events[d].acct][i].after
      BY <2>3 DEF Repeated, EventsWithExtId, Success
    <3>2. PICK d \in Calls : \E i \in EntriesOf(d) :
            /\ events[d] # None /\ events[d].ext = req[c].ext /\ events[d].acct = req[c].acct
            /\ tx[c].row.result.after = ledger[events[d].acct][i].after
      BY Zenon, <3>1
    <3>3. PICK i \in EntriesOf(d) :
            /\ events[d] # None /\ events[d].ext = req[c].ext /\ events[d].acct = req[c].acct
            /\ tx[c].row.result.after = ledger[events[d].acct][i].after
      BY Zenon, <3>2
    <3>4. AppliedView[req[c].ext] = MovementOf(d, i) /\ MovementOf(d, i) \in Movement
      BY Zenon, <2>1, <3>3, <1>AppliedSome DEF AppliedAs
    <3>5. /\ AppliedView[req[c].ext] # None /\ AppliedView[req[c].ext].acct = req[c].acct
          /\ AppliedView[req[c].ext].after = tx[c].row.result.after
      <4>1. MovementOf(d, i).acct = events[d].acct
        BY Zenon DEF MovementOf
      <4>2. MovementOf(d, i).after = ledger[events[d].acct][i].after
        BY Zenon DEF MovementOf
      <4> QED
        BY Zenon, <3>3, <3>4, <4>1, <4>2, NoneAssumption
    <3>6. Serial!Decide(req[c], TRUE, tx[c].row.result.after)
      BY Zenon, <3>1, <1>WrittenDecision
    <3>7. Serial!Repeat(req[c])
      BY Zenon, <3>1, <3>5, <3>6, <1>NothingMoved DEF Serial!Repeat
    <3> QED
      BY Zenon, <2>1, <3>7 DEF Serial!Next
  <2>4. CASE Settled(c)
    BY Zenon, <2>1, <2>4, <1>SettledStep DEF Serial!Next
  <2> QED
    BY Zenon, <2>1, <2>2, <2>3, <2>4
<1>1. Init => Serial!Init
  <2> SUFFICES ASSUME Init PROVE Serial!Init
    OBVIOUS
  <2>1. \A d \in Calls : events[d] = None /\ idem[d] = None
    BY Zenon DEF Init
  <2>2. \A x \in ExtIds : AppliedView[x] = None
    BY Zenon, <2>1, <1>AppliedNone DEF NotApplied
  <2>3. \A k \in Keys : DecidedView[k] = None
    <3>1. \A k \in Keys : RecordsWithKey(k) = {}
      BY Zenon, <2>1 DEF RecordsWithKey
    <3> QED
      BY Zenon, <3>1, <1>DecidedNone DEF NotDecided
  <2>4. AppliedView = [x \in ExtIds |-> None]
    <3>1. AppliedView = [x \in ExtIds |-> AppliedView[x]]
      BY Zenon DEF AppliedView
    <3> QED
      BY Zenon, <2>2, <3>1
  <2>5. DecidedView = [k \in Keys |-> None]
    <3>1. DecidedView = [k \in Keys |-> DecidedView[k]]
      BY Zenon DEF DecidedView
    <3> QED
      BY Zenon, <2>3, <3>1
  <2>6. ReversedView = {} /\ balance = OpeningBalance
    BY Zenon, <2>1 DEF ReversedView, Init
  <2> QED
    BY Zenon, <2>4, <2>5, <2>6 DEF Serial!Init, Serial!ExtIds, Serial!Keys, ExtIds, Keys
<1>2. ASSUME SerialInv, [Next]_vars PROVE [Serial!Next]_(Serial!vars)
  <2>1. IInv'
    BY Zenon, <1>2, NextInv DEF SerialInv
  <2>2. ASSUME UNCHANGED dbVars PROVE UNCHANGED Serial!vars
    <3>1. idem' = idem /\ events' = events /\ ledger' = ledger /\ balance' = balance
      BY Zenon, <2>2 DEF dbVars
    <3>2. AppliedView' = AppliedView
      BY <3>1 DEF AppliedView, EventsWithExtId, EntriesOf
    <3>3. ReversedView' = ReversedView
      BY Zenon, <3>1 DEF ReversedView
    <3>4. DecidedView' = DecidedView
      BY Zenon, <3>1 DEF DecidedView, RecordsWithKey
    <3> QED
      BY Zenon, <3>1, <3>2, <3>3, <3>4 DEF Serial!vars
  <2> QED
    BY Zenon, <1>2, <2>1, <2>2, DbStep, <1>CommitIsSerial
<1> QED
  BY <1>1, <1>2, SerialInvariant, PTL DEF Spec, ImplementsSerialLedger, Serial!Spec

=============================================================================
