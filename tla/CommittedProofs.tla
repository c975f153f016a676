-------------------------- MODULE CommittedProofs --------------------------
(***************************************************************************)
(* What is committed, what calls are answered and what the reconciliation  *)
(* finds, for every set of calls, requests and accounts, every fault and   *)
(* every setting.                                                          *)
(*                                                                         *)
(* CommittedInv is inductive relative to SerialInv: only a commit changes  *)
(* rows (DbStep), and what it writes is refused, repeated or settled.      *)
(* With it record, event and ledger commit together, and an event is       *)
(* cancelled once.                                                         *)
(*                                                                         *)
(* AnswersInv is inductive relative to CommittedInv: Source lists where an *)
(* answer can come from, and NextMoves that there is no other source.      *)
(* With it one retry is enough, and without the response cache every       *)
(* answer is backed by the ledger and the only one of its key.             *)
(*                                                                         *)
(* ReconciledInv is inductive relative to CommittedInv.  In a state where  *)
(* it holds every alarm of the reconciliation has its explanation, and     *)
(* every damaged row raises one.                                           *)
(***************************************************************************)
EXTENDS EventProcessingProofs, Reconciliation, WellFoundedInduction

USE DEF callVars, dbVars, redisVars, quarantineVars

-----------------------------------------------------------------------------
(* What is committed *)

(* A call carries one request for ever *)
LEMMA RequestKept ==
  ASSUME [Next]_vars, NEW d \in Calls, pc[d] # "idle", IInv
  PROVE  req'[d] = req[d]
<1>1. ASSUME NEW c \in Calls, NEW q \in Requests, Send(c, q) PROVE req'[d] = req[d]
  BY Zenon, <1>1 DEF Send, IInv, TypeOK
<1>2. ASSUME NEW c \in Calls, CallStep(c) PROVE req' = req
  BY Zenon, <1>2 DEF CallStep, AcquireLock, ReplayFromCache, CheckOrStart, CreateProcessing,
     LockAccount, AssertNotQuarantined, FindDuplicate, LockOriginal, CreateReceived,
     ApplyEvent, Commit, Release
<1>3. ASSUME NEW c \in Calls, LoseCommit(c) \/ FailStatement(c) \/ Crash(c) PROVE req' = req
  BY Zenon, <1>3 DEF LoseCommit, FailStatement, Crash
<1>4. ASSUME \/ \E k \in Keys : ExpireLock(k) \/ ExpireCache(k)
             \/ \E a \in Accounts : Quarantine(a) \/ ReleaseQuarantine(a)
             \/ Quiescent \/ UNCHANGED vars
      PROVE  req' = req
  BY Zenon, <1>4 DEF ExpireLock, ExpireCache, Quarantine, ReleaseQuarantine, Quiescent, vars
<1> QED
  BY Zenon, <1>1, <1>2, <1>3, <1>4 DEF Next

(* A committed row belongs to a call that was sent *)
LEMMA RowWasSent ==
  ASSUME IInv, NEW d \in Calls, events[d] # None \/ idem[d] # None
  PROVE  pc[d] # "idle"
BY Zenon, CallFacts DEF OnlyInTransaction

(* r undoes d in the ledger *)
Undone(d, r) ==
  /\ events[r].acct = events[d].acct
  /\ \E i \in EntriesOf(d), j \in EntriesOf(r) :
       /\ i < j
       /\ ledger[events[d].acct][i].amount + ledger[events[r].acct][j].amount = 0

(* A commit writes the record of its own call *)
LEMMA WrittenRecord ==
  ASSUME CommittedInv, [Next]_vars, NEW c \in Calls, pc[c] = "commit", Written(c),
         NEW d \in Calls
  PROVE  RecordOf(d)' /\ (d # c => idem'[d] = idem[d]) /\ idem'[c] = tx[c].row
<1>1. /\ IInv /\ OutcomeInv(c) /\ idem \in [Calls -> IdempotencyRecord \cup {None}]
      /\ Refused(c) \/ Repeated(c) \/ Settled(c)
  BY Zenon DEF CommittedInv, SerialInv, OutcomeInv, IInv, TypeOK
<1>2. (d # c => idem'[d] = idem[d]) /\ idem'[c] = tx[c].row
  BY Zenon, <1>1 DEF Written
<1>3. CASE d # c
  <2>1. idem[d] # None => req'[d] = req[d]
    BY Zenon, <1>1, RequestKept, RowWasSent
  <2> QED
    BY <1>2, <1>3, <2>1 DEF CommittedInv, RecordOf
<1>4. CASE d = c
  <2>1. req'[c] = req[c] /\ tx[c].row.hash = req[c] /\ tx[c].row.key = req[c].key
    BY Zenon, <1>1, RequestKept, CommitFacts DEF OutcomeInv, InTransaction
  <2>2. Success(c, tx[c].entry.after, FALSE).code = 200
        /\ Success(c, tx[c].entry.after, FALSE).error = "none"
    BY Zenon DEF Success
  <2>4. \/ /\ tx[c].row.status = "COMPLETED"
           /\ tx[c].row.result.code = 200 /\ tx[c].row.result.error = "none"
        \/ /\ tx[c].row.status = "FAILED"
           /\ \E error \in DomainFailure : tx[c].row.result = Failure(error)
    <3>1. CASE Refused(c)
      BY Zenon, <3>1 DEF Refused
    <3>2. CASE Repeated(c)
      <4>1. PICK e, x : tx[c].row.result = Success(e, x, TRUE)
        BY Zenon, <3>2 DEF Repeated
      <4>2. tx[c].row.status = "COMPLETED"
        BY Zenon, <3>2 DEF Repeated
      <4>3. tx[c].row.result.code = 200 /\ tx[c].row.result.error = "none"
        BY <4>1 DEF Success
      <4> QED
        BY Zenon, <4>2, <4>3
    <3>3. CASE Settled(c)
      BY Zenon, <2>2, <3>3 DEF Settled
    <3> QED
      BY Zenon, <1>1, <3>1, <3>2, <3>3
  <2> QED
    BY Zenon, <1>2, <1>4, <2>1, <2>4 DEF RecordOf
<1> QED
  BY Zenon, <1>2, <1>3, <1>4

(* In the beginning nothing is committed *)
LEMMA InitCommitted == Init => CommittedInv
<1> SUFFICES ASSUME Init PROVE CommittedInv
  OBVIOUS
<1>1. SerialInv
  BY Zenon, InitOutcome
<1>2. \A d \in Calls : events[d] = None /\ idem[d] = None
  BY Zenon DEF Init
<1> QED
  BY Zenon, <1>1, <1>2
     DEF CommittedInv, RecordOf, OriginalExists, AtomicOutcome, CancelledOnce

(* Every step keeps CommittedInv *)
LEMMA NextCommitted == CommittedInv /\ [Next]_vars => CommittedInv'
(* A step that commits nothing leaves what is committed as it is *)
<1>UncommittedStep.
  ASSUME CommittedInv, SerialInv', [Next]_vars, UNCHANGED dbVars
  PROVE  CommittedInv'
  <2> USE <1>UncommittedStep
  <2>1. IInv
    BY Zenon DEF CommittedInv, SerialInv
  <2>2. \A d \in Calls : events[d] # None \/ idem[d] # None => req'[d] = req[d]
    BY Zenon, <2>1, RequestKept, RowWasSent
  <2>3. ASSUME NEW d \in Calls PROVE RecordOf(d)' /\ OriginalExists(d)'
    <3>1. RecordOf(d) /\ OriginalExists(d)
      BY Zenon DEF CommittedInv
    <3>2. RecordOf(d)'
      BY Zenon, <2>2, <3>1 DEF RecordOf
    <3>3. OriginalExists(d)'
      BY Zenon, <2>2, <3>1 DEF OriginalExists, EventsWithExtId
    <3> QED
      BY Zenon, <3>2, <3>3
  <2>4. AtomicOutcome'
    BY DEF CommittedInv, AtomicOutcome, EntriesOf, Entries
  <2>5. \A d \in Calls : EntriesOf(d)' = EntriesOf(d)
    BY Zenon DEF EntriesOf
  <2>6. \A d \in Calls : Reversals(d)' = Reversals(d)
    BY Zenon, <2>2 DEF Reversals
  <2>7. CancelledOnce'
    <3>1. events' = events /\ ledger' = ledger
      OBVIOUS
    <3>2. ASSUME NEW d \in Calls, events'[d] # None
          PROVE  /\ events'[d].status = "CANCELLED" <=> Reversals(d)' # {}
                 /\ \A r \in Reversals(d)' : Reversals(d)' = {r} /\ Undone(d, r)'
      <4>1. /\ events[d].status = "CANCELLED" <=> Reversals(d) # {}
            /\ \A r \in Reversals(d) : Reversals(d) = {r}
        BY Zenon, <3>1, <3>2 DEF CommittedInv, CancelledOnce
      <4>2. Reversals(d)' = Reversals(d) /\ Reversals(d) \subseteq Calls
        BY Zenon, <2>6 DEF Reversals
      <4>3. ASSUME NEW r \in Reversals(d) PROVE Undone(d, r)'
        <5>1. Undone(d, r)
          BY Zenon, <3>1, <3>2, <4>3 DEF CommittedInv, CancelledOnce, Undone
        <5>2. EntriesOf(d)' = EntriesOf(d) /\ EntriesOf(r)' = EntriesOf(r)
          BY Zenon, <2>5, <4>2, <4>3
        <5> QED
          BY Zenon, <3>1, <5>1, <5>2 DEF Undone
      <4> QED
        BY Zenon, <3>1, <4>1, <4>2, <4>3
    <3> QED
      BY Zenon, <3>2 DEF CancelledOnce, Undone
  <2> QED
    BY Zenon, <2>3, <2>4, <2>7 DEF CommittedInv
(* An index of a ledger is one of the ledger with one entry more *)
<1>LongerInterval.
  ASSUME NEW n \in Nat, NEW i \in 1 .. n PROVE i \in 1 .. n + 1
  BY <1>LongerInterval
(* A committed entry stays where it is *)
<1>EntryStays.
  ASSUME IInv, NEW c \in Calls, pc[c] = "commit", Written(c),
         NEW a \in Accounts, NEW i \in Entries(a)
  PROVE  /\ i \in Entries(a)' /\ ledger'[a][i] = ledger[a][i]
         /\ events[ledger[a][i].event] # None
         /\ events'[ledger'[a][i].event] # None
         /\ events'[ledger'[a][i].event].ext = events[ledger[a][i].event].ext
  <2> USE <1>EntryStays
  <2>1. i \in DOMAIN ledger'[a] /\ ledger'[a][i] = ledger[a][i]
    <3>1. Len(ledger[a]) \in Nat /\ i \in 1 .. Len(ledger[a])
      BY Zenon, WrittenAccount DEF Entries
    <3>2. i \in 1 .. Len(ledger[a]) + 1
      BY Zenon, <3>1, <1>LongerInterval
    <3> QED
      BY Zenon, <3>1, <3>2, WrittenAccount DEF Entries
  <2>2. events[ledger[a][i].event] # None
    BY Zenon DEF IInv, LedgerOfEvents
  <2>3. ledger[a][i].event \in Calls
    <3>1. ledger[a][i] \in LedgerEntry
      BY DEF IInv, TypeOK, Entries
    <3> QED
      BY Zenon, <3>1 DEF LedgerEntry
  <2>4. /\ events'[ledger[a][i].event] # None
        /\ events'[ledger[a][i].event].ext = events[ledger[a][i].event].ext
    BY Zenon, <2>2, <2>3, WrittenStatus
  <2> QED
    BY Zenon, <2>1, <2>2, <2>4 DEF Entries
(* The original of an entry about to be committed is still COMPLETED *)
<1>SettledOriginal.
  ASSUME SerialInv, NEW c \in Calls, pc[c] = "commit", Settled(c), req[c].type = "CANCEL"
  PROVE  /\ tx[c].original \in Calls /\ events[tx[c].original] # None
         /\ events[tx[c].original].ext = req[c].orig
         /\ events[tx[c].original].status = "COMPLETED"
         /\ events[tx[c].original].type \in {"DEPOSIT", "WITHDRAW"}
         /\ events[tx[c].original].acct = req[c].acct
         /\ events[tx[c].original].amount = req[c].amount
         /\ tx[c].entry.amount =
              CalculateLedgerAmount("CANCEL", req[c].amount, events[tx[c].original].type)
  <2> USE <1>SettledOriginal
  <2>1. IInv /\ OutcomeInv(c) /\ tx[c] \in Transaction
    BY Zenon DEF SerialInv, IInv, TypeOK
  <2>2. /\ tx[c].original # Nobody /\ events[tx[c].original] # None
        /\ events[tx[c].original].ext = req[c].orig
    BY Zenon, <2>1, CallFacts DEF Settled, OriginalHeld, OutcomeInv
  <2>3. tx[c].original \in Calls
    BY Zenon, <2>1, <2>2 DEF Transaction
  <2>4. /\ events[tx[c].original].status = "COMPLETED"
        /\ events[tx[c].original].type \in {"DEPOSIT", "WITHDRAW"}
        /\ events[tx[c].original].acct = req[c].acct
        /\ events[tx[c].original].amount = req[c].amount
        /\ tx[c].entry.amount =
             CalculateLedgerAmount("CANCEL", req[c].amount, events[tx[c].original].type)
    BY Zenon DEF Settled, ValidateCancelOriginal, Received
  <2> QED
    BY Zenon, <2>2, <2>3, <2>4
(* What a commit does to an event that was there *)
<1>WrittenOther.
  ASSUME SerialInv, NEW c \in Calls, pc[c] = "commit", Written(c),
         NEW d \in Calls, events[d] # None
  PROVE  \/ /\ events'[d] = events[d]
            /\ Settled(c) /\ req[c].type = "CANCEL" => events[d].ext # req[c].orig
         \/ /\ Settled(c) /\ req[c].type = "CANCEL" /\ d = tx[c].original
            /\ events[d].status = "COMPLETED" /\ events'[d].status = "CANCELLED"
            /\ events[d].type # "CANCEL" /\ events[d].ext = req[c].orig
  <2> USE <1>WrittenOther
  <2>1. /\ IInv /\ OutcomeInv(c)
        /\ Refused(c) \/ Repeated(c) \/ Settled(c)
    BY Zenon DEF SerialInv, OutcomeInv
  <2>2. CASE tx[c].entry # None /\ d = tx[c].original
    <3>1. events'[d].status = "CANCELLED" /\ tx[c].original # Nobody
      BY Zenon, <2>1, <2>2, WrittenStatus, ConstantsAssumption
    <3>2. Settled(c) /\ req[c].type = "CANCEL"
      BY Zenon, <2>1, <2>2, <3>1 DEF Refused, Repeated, OutcomeInv
    <3>3. /\ events[d].status = "COMPLETED" /\ events[d].ext = req[c].orig
          /\ events[d].type \in {"DEPOSIT", "WITHDRAW"}
      BY Zenon, <2>2, <3>2, <1>SettledOriginal
    <3>4. events[d].type # "CANCEL"
      BY Zenon, <3>3
    <3> QED
      BY Zenon, <2>2, <3>1, <3>2, <3>3, <3>4
  <2>3. CASE ~(tx[c].entry # None /\ d = tx[c].original)
    <3>1. events'[d] = events[d]
      BY Zenon, <2>1, <2>3, WrittenStatus
    <3>2. ASSUME Settled(c), req[c].type = "CANCEL" PROVE events[d].ext # req[c].orig
      <4>1. /\ tx[c].original \in Calls /\ events[tx[c].original] # None
            /\ events[tx[c].original].ext = req[c].orig /\ tx[c].entry # None
        BY Zenon, <3>2, <1>SettledOriginal DEF Settled
      <4> QED
        BY Zenon, <2>1, <2>3, <4>1 DEF IInv, UniqueExtIds
    <3> QED
      BY Zenon, <3>1, <3>2
  <2> QED
    BY Zenon, <2>2, <2>3
(* The event a commit inserts, its record and its entry agree *)
<1>WrittenOwn.
  ASSUME SerialInv, NEW c \in Calls, pc[c] = "commit", Written(c), events'[c] # None
  PROVE  /\ events'[c] = tx[c].event /\ tx[c].event # None
         /\ \/ /\ Refused(c) /\ events'[c].status = "FAILED" /\ EntriesOf(c)' = {}
            \/ /\ Settled(c) /\ events'[c].status = "COMPLETED" /\ EntriesOf(c)' # {}
  <2> USE <1>WrittenOwn
  <2>1. /\ IInv
        /\ Refused(c) \/ Repeated(c) \/ Settled(c)
    BY Zenon DEF SerialInv, OutcomeInv
  <2>2. events'[c] = tx[c].event /\ tx[c].event # None
    BY Zenon DEF Written
  <2>3. /\ tx[c].entry = None => EntriesOf(c)' = {}
        /\ tx[c].entry # None => \E i : EntriesOf(c)' = {i}
    BY Zenon, <2>1, <2>2, WrittenOwnEntries
  <2>4. CASE Refused(c)
    BY Zenon, <2>2, <2>3, <2>4 DEF Refused
  <2>5. CASE Repeated(c)
    BY Zenon, <2>2, <2>5 DEF Repeated
  <2>6. CASE Settled(c)
    <3>1. \E i : EntriesOf(c)' = {i}
      BY Zenon, <2>3, <2>6 DEF Settled
    <3>2. EntriesOf(c)' # {}
      BY Zenon, <3>1
    <3> QED
      BY Zenon, <2>2, <2>6, <3>2 DEF Settled
  <2> QED
    BY Zenon, <2>1, <2>4, <2>5, <2>6
(* Record, event and ledger are committed together *)
<1>WrittenAtomic.
  ASSUME CommittedInv, [Next]_vars, NEW c \in Calls, pc[c] = "commit", Written(c)
  PROVE  AtomicOutcome'
  <2> USE <1>WrittenAtomic
  <2>1. /\ SerialInv /\ IInv /\ AtomicOutcome /\ OutcomeInv(c)
        /\ Refused(c) \/ Repeated(c) \/ Settled(c)
    BY Zenon DEF CommittedInv, SerialInv, OutcomeInv
  <2>2. ASSUME NEW d \in Calls, events'[d] # None
        PROVE  /\ events'[d].status \in {"COMPLETED", "CANCELLED", "FAILED"}
               /\ idem'[d] # None
               /\ EntriesOf(d)' # {} <=> events'[d].status # "FAILED"
               /\ idem'[d].status = "COMPLETED" <=> events'[d].status # "FAILED"
    <3>1. CASE d = c
      <4>1. idem'[c] = tx[c].row /\ tx[c].row # None
        BY Zenon, <2>1, WrittenRecord, CommitFacts
      <4>2. \/ Refused(c) /\ events'[c].status = "FAILED" /\ EntriesOf(c)' = {}
            \/ Settled(c) /\ events'[c].status = "COMPLETED" /\ EntriesOf(c)' # {}
        BY Zenon, <2>1, <2>2, <3>1, <1>WrittenOwn
      <4>3. \/ tx[c].row.status = "FAILED" /\ events'[c].status = "FAILED" /\ EntriesOf(c)' = {}
            \/ tx[c].row.status = "COMPLETED" /\ events'[c].status = "COMPLETED" /\ EntriesOf(c)' # {}
        BY Zenon, <4>2 DEF Refused, Settled
      <4> QED
        BY Zenon, <3>1, <4>1, <4>3
    <3>2. CASE d # c
      <4>1. events[d] # None
        BY Zenon, <2>1, <2>2, <3>2, WrittenNew
      <4>2. /\ events[d].status \in {"COMPLETED", "CANCELLED", "FAILED"}
            /\ idem[d] # None
            /\ EntriesOf(d) # {} <=> events[d].status # "FAILED"
            /\ idem[d].status = "COMPLETED" <=> events[d].status # "FAILED"
        BY Zenon, <2>1, <4>1 DEF AtomicOutcome
      <4>3. idem'[d] = idem[d] /\ EntriesOf(d)' = EntriesOf(d)
        BY Zenon, <2>1, <3>2, <4>1, WrittenRecord, WrittenEntries
      <4>4. \/ events'[d] = events[d]
            \/ events[d].status = "COMPLETED" /\ events'[d].status = "CANCELLED"
        BY Zenon, <2>1, <4>1, <1>WrittenOther
      <4> QED
        BY Zenon, <4>2, <4>3, <4>4
    <3> QED
      BY Zenon, <3>1, <3>2
  <2>3. ASSUME NEW d \in Calls, idem'[d] # None
        PROVE  /\ idem'[d].status \in {"COMPLETED", "FAILED"}
               /\ idem'[d].status = "COMPLETED" =>
                    \E a \in Accounts : \E i \in Entries(a)' :
                      /\ ledger'[a][i].event = idem'[d].result.event
                      /\ ledger'[a][i].after = idem'[d].result.after
                      /\ events'[ledger'[a][i].event].ext = idem'[d].hash.ext
    <3>1. idem'[d].status = "COMPLETED" \/ idem'[d].status = "FAILED"
      BY Zenon, <2>3, WrittenRecord DEF RecordOf
    <3>2. ASSUME idem'[d].status = "COMPLETED"
          PROVE  \E a \in Accounts : \E i \in Entries(a)' :
                   /\ ledger'[a][i].event = idem'[d].result.event
                   /\ ledger'[a][i].after = idem'[d].result.after
                   /\ events'[ledger'[a][i].event].ext = idem'[d].hash.ext
      <4>1. CASE d # c
        <5>1. idem'[d] = idem[d]
          BY Zenon, <4>1, WrittenRecord
        <5>2. PICK a \in Accounts : \E i \in Entries(a) :
                /\ ledger[a][i].event = idem[d].result.event
                /\ ledger[a][i].after = idem[d].result.after
                /\ events[ledger[a][i].event].ext = idem[d].hash.ext
          BY Zenon, <2>1, <2>3, <3>2, <5>1 DEF AtomicOutcome
        <5>3. PICK i \in Entries(a) :
                /\ ledger[a][i].event = idem[d].result.event
                /\ ledger[a][i].after = idem[d].result.after
                /\ events[ledger[a][i].event].ext = idem[d].hash.ext
          BY Zenon, <5>2
        <5>4. /\ i \in Entries(a)' /\ ledger'[a][i] = ledger[a][i]
              /\ events'[ledger'[a][i].event].ext = events[ledger[a][i].event].ext
          BY Zenon, <2>1, <1>EntryStays
        <5> QED
          BY Zenon, <5>1, <5>3, <5>4
      <4>2. CASE d = c
        <5>1. /\ idem'[c] = tx[c].row /\ tx[c].row.status = "COMPLETED"
              /\ tx[c].row.hash = req[c]
          BY Zenon, <2>1, <3>2, <4>2, WrittenRecord DEF OutcomeInv, InTransaction
        <5>2. Repeated(c) \/ Settled(c)
          BY Zenon, <2>1, <5>1 DEF Refused
        <5>3. CASE Repeated(c)
          <6>1. PICK e \in EventsWithExtId(req[c].ext) : \E i \in EntriesOf(e) :
                  tx[c].row.result = Success(e, ledger[events[e].acct][i].after, TRUE)
            BY Zenon, <5>3 DEF Repeated
          <6>2. PICK i \in EntriesOf(e) :
                  tx[c].row.result = Success(e, ledger[events[e].acct][i].after, TRUE)
            BY Zenon, <6>1
          <6>3. /\ e \in Calls /\ events[e] # None /\ events[e].ext = req[c].ext
            BY Zenon DEF EventsWithExtId
          <6>4. PICK a \in Accounts : a = events[e].acct
            <7>1. events[e] \in EventRow
              BY Zenon, <2>1, <6>3 DEF IInv, TypeOK
            <7> QED
              BY Zenon, <7>1 DEF EventRow
          <6>5. tx[c].row.result.event = e /\ tx[c].row.result.after = ledger[a][i].after
            BY <6>2, <6>4 DEF Success
          <6>6. i \in Entries(a) /\ ledger[a][i].event = e
            BY Zenon, <6>4 DEF EntriesOf, Entries
          <6>7. /\ i \in Entries(a)' /\ ledger'[a][i] = ledger[a][i]
                /\ events'[ledger'[a][i].event].ext = events[ledger[a][i].event].ext
            BY Zenon, <2>1, <6>6, <1>EntryStays
          <6> QED
            BY Zenon, <4>2, <5>1, <6>3, <6>5, <6>6, <6>7
        <5>4. CASE Settled(c)
          <6>1. /\ tx[c].entry # None /\ tx[c].event # None /\ req[c].acct \in Accounts
                /\ tx[c].entry.event = c /\ tx[c].event.ext = req[c].ext
            BY Zenon, <2>1, <5>4, CommitFacts DEF Settled
          <6>2. PICK a \in Accounts : a = req[c].acct
            BY Zenon, <6>1
          <6>3. PICK i : EntriesOf(c)' = {i} /\ ledger'[a][i] = tx[c].entry
            BY Zenon, <2>1, <6>1, <6>2, WrittenOwnEntries
          <6>4. events'[c] = tx[c].event /\ events'[c].acct = a
            BY Zenon, <2>1, <6>1, <6>2, WrittenOwnEntries
          <6>5. i \in Entries(a)'
            <7>1. i \in EntriesOf(c)'
              BY Zenon, <6>3
            <7> QED
              BY Zenon, <6>4, <7>1 DEF EntriesOf, Entries
          <6>6. tx[c].row.result.event = c /\ tx[c].row.result.after = tx[c].entry.after
            BY <5>4 DEF Settled, Success
          <6> QED
            BY Zenon, <4>2, <5>1, <6>1, <6>3, <6>4, <6>5, <6>6
        <5> QED
          BY Zenon, <5>2, <5>3, <5>4
      <4> QED
        BY Zenon, <4>1, <4>2
    <3> QED
      BY Zenon, <3>1, <3>2
  <2> QED
    BY Zenon, <2>2, <2>3 DEF AtomicOutcome
(* A commit adds its own call to the reversals of its original, and nothing  *)
(* to those of another event                                                 *)
<1>WrittenReversals.
  ASSUME CommittedInv, [Next]_vars, NEW c \in Calls, pc[c] = "commit", Written(c),
         NEW d \in Calls, events[d] # None
  PROVE  /\ c \in Reversals(d)' <=>
              Settled(c) /\ req[c].type = "CANCEL" /\ events[d].ext = req[c].orig
         /\ \A b \in Calls : b # c => (b \in Reversals(d)' <=> b \in Reversals(d))
         /\ c \notin Reversals(d)
  <2> USE <1>WrittenReversals
  <2>1. /\ SerialInv /\ IInv /\ events[c] = None /\ req'[c] = req[c]
    BY Zenon, CommitFacts, RequestKept DEF CommittedInv, SerialInv
  <2>2. events'[d].ext = events[d].ext
    BY Zenon, <2>1, WrittenStatus
  <2>3. c \notin Reversals(d)
    BY Zenon, <2>1 DEF Reversals
  <2>4. ASSUME NEW b \in Calls, b # c PROVE b \in Reversals(d)' <=> b \in Reversals(d)
    <3>1. CASE events[b] = None
      <4>1. events'[b] = None
        BY Zenon, <2>1, <2>4, <3>1, WrittenNew
      <4> QED
        BY Zenon, <3>1, <4>1 DEF Reversals
    <3>2. CASE events[b] # None
      <4>1. req'[b] = req[b]
        BY Zenon, <2>1, <3>2, RequestKept, RowWasSent
      <4>2. events'[b] # None /\ events'[b].type = events[b].type
        BY Zenon, <2>1, <3>2, WrittenStatus
      <4>3. \/ events'[b] = events[b]
            \/ events[b].type # "CANCEL"
        BY Zenon, <2>1, <3>2, <1>WrittenOther
      <4> QED
        BY Zenon, <2>2, <3>2, <4>1, <4>2, <4>3 DEF Reversals
    <3> QED
      BY Zenon, <3>1, <3>2
  <2>5. c \in Reversals(d)' <=>
          /\ events'[c] # None /\ events'[c].type = "CANCEL"
          /\ events'[c].status = "COMPLETED" /\ req[c].orig = events[d].ext
    BY Zenon, <2>1, <2>2 DEF Reversals
  <2>6. ASSUME c \in Reversals(d)'
        PROVE  Settled(c) /\ req[c].type = "CANCEL" /\ events[d].ext = req[c].orig
    <3>1. Settled(c) /\ events'[c] = tx[c].event
      <4>1. "COMPLETED" # "FAILED"
        OBVIOUS
      <4> QED
        BY Zenon, <2>1, <2>5, <2>6, <4>1, <1>WrittenOwn
    <3> QED
      BY Zenon, <2>5, <2>6, <3>1 DEF Settled
  <2>7. ASSUME Settled(c), req[c].type = "CANCEL", events[d].ext = req[c].orig
        PROVE  c \in Reversals(d)'
    <3>1. tx[c].event # None /\ events'[c] = tx[c].event
      BY Zenon, <2>1, <2>7, CommitFacts DEF Settled, Written
    <3> QED
      BY Zenon, <2>5, <2>7, <3>1 DEF Settled
  <2> QED
    BY Zenon, <2>3, <2>4, <2>6, <2>7
(* A completed CANCEL has its original, and nothing has cancelled an event   *)
(* that is only now committed                                                *)
<1>WrittenOriginals.
  ASSUME CommittedInv, [Next]_vars, NEW c \in Calls, pc[c] = "commit", Written(c)
  PROVE  /\ \A b \in Calls : OriginalExists(b)'
         /\ events'[c] # None => Reversals(c)' = {}
  <2> USE <1>WrittenOriginals
  <2>1. /\ SerialInv /\ IInv /\ req'[c] = req[c]
    BY Zenon, RequestKept DEF CommittedInv, SerialInv
  <2>2. \A x : \A d \in EventsWithExtId(x) : d \in EventsWithExtId(x)'
    <3> SUFFICES ASSUME NEW x, NEW d \in EventsWithExtId(x) PROVE d \in EventsWithExtId(x)'
      BY Zenon
    <3>1. d \in Calls /\ events[d] # None /\ events[d].ext = x
      BY Zenon DEF EventsWithExtId
    <3>2. events'[d] # None /\ events'[d].ext = x
      BY Zenon, <2>1, <3>1, WrittenStatus
    <3> QED
      BY Zenon, <3>1, <3>2 DEF EventsWithExtId
  <2>3. ASSUME NEW b \in Calls, events'[b] # None, events'[b].type = "CANCEL",
               events'[b].status = "COMPLETED"
        PROVE  /\ req'[b] = req[b]
               /\ \E d \in Calls : events[d] # None /\ events[d].ext = req[b].orig
    <3>1. CASE b = c
      <4>1. Settled(c) /\ events'[c] = tx[c].event
        <5>1. "COMPLETED" # "FAILED"
          OBVIOUS
        <5> QED
          BY Zenon, <2>1, <2>3, <3>1, <5>1, <1>WrittenOwn
      <4>2. req[c].type = "CANCEL"
        BY Zenon, <2>3, <3>1, <4>1 DEF Settled
      <4> QED
        BY Zenon, <2>1, <3>1, <4>1, <4>2, <1>SettledOriginal
    <3>2. CASE b # c
      <4>1. events[b] # None
        BY Zenon, <2>1, <2>3, <3>2, WrittenNew
      <4>2. req'[b] = req[b] /\ events'[b].type = events[b].type
        BY Zenon, <2>1, <4>1, RequestKept, RowWasSent, WrittenStatus
      <4>3. events'[b] = events[b]
        BY Zenon, <2>1, <2>3, <4>1, <4>2, <1>WrittenOther
      <4>4. EventsWithExtId(req[b].orig) # {}
        BY Zenon, <2>3, <4>1, <4>3 DEF CommittedInv, OriginalExists
      <4> QED
        BY Zenon, <4>2, <4>4 DEF EventsWithExtId
    <3> QED
      BY Zenon, <3>1, <3>2
  <2>4. ASSUME NEW b \in Calls PROVE OriginalExists(b)'
    <3> SUFFICES ASSUME events'[b] # None, events'[b].type = "CANCEL",
                        events'[b].status = "COMPLETED"
                 PROVE  EventsWithExtId(req[b].orig)' # {}
      BY Zenon DEF OriginalExists
    <3>1. PICK d \in Calls : events[d] # None /\ events[d].ext = req[b].orig
      BY Zenon, <2>3
    <3>2. d \in EventsWithExtId(req[b].orig)
      BY Zenon, <3>1 DEF EventsWithExtId
    <3>3. d \in EventsWithExtId(req[b].orig)'
      <4>1. events'[d] # None /\ events'[d].ext = req[b].orig /\ req'[b] = req[b]
        BY Zenon, <2>1, <2>3, <3>1, WrittenStatus
      <4> QED
        BY Zenon, <4>1 DEF EventsWithExtId
    <3> QED
      BY Zenon, <3>3
  <2>5. ASSUME events'[c] # None, NEW b \in Reversals(c)' PROVE FALSE
    <3>1. /\ b \in Calls /\ events'[b] # None /\ events'[b].type = "CANCEL"
          /\ events'[b].status = "COMPLETED" /\ req'[b].orig = events'[c].ext
      BY Zenon, <2>5 DEF Reversals
    <3>2. PICK d \in Calls : events[d] # None /\ events[d].ext = req[b].orig /\ req'[b] = req[b]
      BY Zenon, <2>3, <3>1
    <3>3. events'[c] = tx[c].event /\ tx[c].event # None
      BY Zenon, <2>5 DEF Written
    <3>4. tx[c].event.ext = req[c].ext /\ EventsWithExtId(req[c].ext) = {}
      BY Zenon, <2>1, <3>3, CommitFacts
    <3>5. d \in EventsWithExtId(req[c].ext)
      BY Zenon, <3>1, <3>2, <3>3, <3>4 DEF EventsWithExtId
    <3> QED
      BY Zenon, <3>4, <3>5
  <2> QED
    BY Zenon, <2>4, <2>5
(* The entry of a CANCEL stands after the one it reverses and undoes it *)
<1>WrittenReversal.
  ASSUME SerialInv, NEW c \in Calls, pc[c] = "commit", Written(c),
         Settled(c), req[c].type = "CANCEL", NEW d, d = tx[c].original
  PROVE  Undone(d, c)'
  <2> USE <1>WrittenReversal
  <2> DEFINE a == req[c].acct
             e == tx[c].entry
  <2>1. /\ IInv /\ d \in Calls /\ events[d] # None /\ events[d].status = "COMPLETED"
        /\ events[d].type \in {"DEPOSIT", "WITHDRAW"} /\ events[d].acct = a
        /\ events[d].amount = req[c].amount
        /\ e.amount = CalculateLedgerAmount("CANCEL", req[c].amount, events[d].type)
    BY Zenon, <1>SettledOriginal DEF SerialInv
  <2>2. /\ e # None /\ tx[c].event # None /\ a \in Accounts /\ events[c] = None
        /\ req[c] \in Requests
    BY Zenon, <2>1, CommitFacts DEF Settled
  <2>3. events'[c].acct = a /\ events'[d].acct = a
    BY Zenon, <2>1, <2>2, WrittenOwnEntries, WrittenStatus
  <2>4. PICK i \in EntriesOf(d) :
          ledger[a][i].amount = CalculateLedgerAmount(events[d].type, req[c].amount, None)
    <3>1. EntriesOf(d) # {}
      BY Zenon, <2>1 DEF SerialInv, CommittedEvents
    <3>2. events[d].type # "CANCEL"
      BY Zenon, <2>1
    <3>3. \A i \in EntriesOf(d) :
            ledger[a][i].amount = CalculateLedgerAmount(events[d].type, req[c].amount, None)
      BY Zenon, <2>1, <3>2 DEF SerialInv, CommittedEvents
    <3> QED
      BY Zenon, <3>1, <3>3
  <2>5. i \in EntriesOf(d)' /\ ledger'[a][i] = ledger[a][i] /\ i \in DOMAIN ledger[a]
    <3>1. EntriesOf(d)' = EntriesOf(d) /\ ledger'[events'[d].acct][i] = ledger[events[d].acct][i]
      BY Zenon, <2>1, WrittenEntries
    <3>2. i \in DOMAIN ledger[a]
      BY Zenon, <2>1 DEF EntriesOf
    <3> QED
      BY Zenon, <2>1, <2>3, <3>1, <3>2
  <2>6. PICK j : EntriesOf(c)' = {j} /\ ledger'[a][j] = e
    BY Zenon, <2>1, <2>2, WrittenOwnEntries
  <2>7. j \in EntriesOf(c)' /\ j \in DOMAIN ledger'[a] /\ ledger'[a][j].event = c
    <3>1. j \in EntriesOf(c)'
      BY Zenon, <2>6
    <3> QED
      BY Zenon, <2>3, <3>1 DEF EntriesOf
  <2> HIDE DEF a, e
  <2>8. \A k \in DOMAIN ledger[a] : ledger[a][k].event # c
    BY Zenon, <2>1, <2>2 DEF IInv, LedgerOfEvents, Entries
  <2>9. /\ Len(ledger[a]) \in Nat /\ DOMAIN ledger[a] = 1 .. Len(ledger[a])
        /\ DOMAIN ledger'[a] = 1 .. Len(ledger[a]) + 1
        /\ \A k \in 1 .. Len(ledger[a]) : ledger'[a][k] = ledger[a][k]
    BY Zenon, <2>1, <2>2, WrittenAccount DEF a, e
  <2>10. i < j
    BY <2>5, <2>7, <2>8, <2>9
  <2>11. req[c].amount \in Nat
    BY Zenon, <2>2, RequestFields
  <2>12. ledger'[a][i].amount + ledger'[a][j].amount = 0
    BY <2>1, <2>4, <2>5, <2>6, <2>11 DEF CalculateLedgerAmount
  <2> QED
    BY Zenon, <2>3, <2>5, <2>7, <2>10, <2>12 DEF Undone
(* An event is cancelled once *)
<1>WrittenCancelled.
  ASSUME CommittedInv, [Next]_vars, NEW c \in Calls, pc[c] = "commit", Written(c)
  PROVE  CancelledOnce'
  <2> USE <1>WrittenCancelled
  <2>1. SerialInv /\ IInv /\ CancelledOnce
    BY Zenon DEF CommittedInv, SerialInv
  <2>2. ASSUME NEW d \in Calls, events'[d] # None
        PROVE  /\ events'[d].status = "CANCELLED" <=> Reversals(d)' # {}
               /\ \A r \in Reversals(d)' : Reversals(d)' = {r} /\ Undone(d, r)'
    <3>1. CASE d = c
      <4>1. Reversals(c)' = {}
        BY Zenon, <2>2, <3>1, <1>WrittenOriginals
      <4>2. events'[c].status # "CANCELLED"
        <5>1. events'[c].status = "FAILED" \/ events'[c].status = "COMPLETED"
          BY Zenon, <2>1, <2>2, <3>1, <1>WrittenOwn
        <5> QED
          BY Zenon, <5>1
      <4> QED
        BY Zenon, <3>1, <4>1, <4>2
    <3>2. CASE d # c
      <4>1. events[d] # None
        BY Zenon, <2>1, <2>2, <3>2, WrittenNew
      <4>2. /\ c \in Reversals(d)' <=>
                 Settled(c) /\ req[c].type = "CANCEL" /\ events[d].ext = req[c].orig
            /\ \A b \in Calls : b # c => (b \in Reversals(d)' <=> b \in Reversals(d))
            /\ c \notin Reversals(d)
        BY Zenon, <4>1, <1>WrittenReversals
      <4>3. Reversals(d)' \subseteq Calls /\ Reversals(d) \subseteq Calls
        BY Zenon DEF Reversals
      <4>4. CASE /\ events'[d] = events[d]
                 /\ Settled(c) /\ req[c].type = "CANCEL" => events[d].ext # req[c].orig
        <5>1. Reversals(d)' = Reversals(d)
          BY <4>2, <4>3, <4>4
        <5>2. ASSUME NEW r \in Reversals(d) PROVE Undone(d, r)'
          <6>1. r \in Calls /\ events[r] # None
            BY Zenon, <5>2 DEF Reversals
          <6>2. /\ events'[r].acct = events[r].acct
                /\ EntriesOf(r)' = EntriesOf(r)
                /\ \A j \in EntriesOf(r) :
                     ledger'[events'[r].acct][j] = ledger[events[r].acct][j]
            BY Zenon, <2>1, <6>1, WrittenStatus, WrittenEntries
          <6>3. /\ EntriesOf(d)' = EntriesOf(d)
                /\ \A i \in EntriesOf(d) :
                     ledger'[events'[d].acct][i] = ledger[events[d].acct][i]
            BY Zenon, <2>1, <4>1, WrittenEntries
          <6>4. /\ events[r].acct = events[d].acct
                /\ \E i \in EntriesOf(d), j \in EntriesOf(r) :
                     /\ i < j
                     /\ ledger[events[d].acct][i].amount + ledger[events[r].acct][j].amount = 0
            BY Zenon, <2>1, <4>1, <5>2 DEF CancelledOnce
          <6>5. PICK i \in EntriesOf(d), j \in EntriesOf(r) :
                  /\ i < j
                  /\ ledger[events[d].acct][i].amount + ledger[events[r].acct][j].amount = 0
            BY Zenon, <6>4
          <6>6. /\ i \in EntriesOf(d)' /\ j \in EntriesOf(r)' /\ i < j
                /\ ledger'[events'[d].acct][i].amount + ledger'[events'[r].acct][j].amount = 0
            BY Zenon, <6>2, <6>3, <6>5
          <6> QED
            BY Zenon, <4>4, <6>2, <6>4, <6>6 DEF Undone
        <5>3. /\ events[d].status = "CANCELLED" <=> Reversals(d) # {}
              /\ \A r \in Reversals(d) : Reversals(d) = {r}
          BY Zenon, <2>1, <4>1 DEF CancelledOnce
        <5> QED
          BY Zenon, <4>4, <5>1, <5>2, <5>3
      <4>5. CASE /\ Settled(c) /\ req[c].type = "CANCEL" /\ d = tx[c].original
                 /\ events[d].status = "COMPLETED" /\ events'[d].status = "CANCELLED"
                 /\ events[d].type # "CANCEL" /\ events[d].ext = req[c].orig
        <5>1. Reversals(d) = {}
          <6>1. events[d].status = "CANCELLED" <=> Reversals(d) # {}
            BY Zenon, <2>1, <4>1 DEF CancelledOnce
          <6> QED
            BY Zenon, <4>5, <6>1
        <5>2. Reversals(d)' = {c}
          BY Zenon, <4>2, <4>3, <4>5, <5>1
        <5>3. Undone(d, c)'
          BY Zenon, <2>1, <4>5, <1>WrittenReversal
        <5> QED
          BY Zenon, <4>5, <5>2, <5>3
      <4> QED
        BY Zenon, <2>1, <4>1, <4>4, <4>5, <1>WrittenOther
    <3> QED
      BY Zenon, <3>1, <3>2
  <2> QED
    BY Zenon, <2>2 DEF CancelledOnce, Undone
<1> SUFFICES ASSUME CommittedInv, [Next]_vars PROVE CommittedInv'
  OBVIOUS
<1>1. SerialInv'
  BY Zenon, NextOutcome DEF CommittedInv
<1>2. CASE UNCHANGED dbVars
  BY Zenon, <1>1, <1>2, <1>UncommittedStep
<1>3. ASSUME NEW c \in Calls, pc[c] = "commit", Written(c) PROVE CommittedInv'
  <2>1. \A d \in Calls : RecordOf(d)' /\ OriginalExists(d)'
    BY Zenon, <1>3, WrittenRecord, <1>WrittenOriginals
  <2>2. AtomicOutcome' /\ CancelledOnce'
    BY Zenon, <1>3, <1>WrittenAtomic, <1>WrittenCancelled
  <2> QED
    BY Zenon, <1>1, <2>1, <2>2 DEF CommittedInv
<1> QED
  BY Zenon, <1>2, <1>3, DbStep

(* What is committed agrees across the tables, for any number of calls,      *)
(* requests and accounts and under every fault                               *)
THEOREM CommittedInvariant == Spec => []CommittedInv
BY InitCommitted, NextCommitted, PTL DEF Spec

(* Record, event and ledger commit together: process writes all three in one *)
(* session.begin() block, and every way out of it leaves them in agreement.  *)
THEOREM AtomicOutcomeAlways == Spec => []AtomicOutcome
<1>1. CommittedInv => AtomicOutcome
  BY Zenon DEF CommittedInv
<1> QED
  BY <1>1, CommittedInvariant, PTL

(* An event is CANCELLED exactly when one CANCEL of it has completed, which  *)
(* undoes its amount later on the same account: validate_cancel_original is  *)
(* decided under the lock of get_original_for_cancel_for_update.             *)
THEOREM CancelledOnceAlways == Spec => []CancelledOnce
<1>1. CommittedInv => CancelledOnce
  BY Zenon DEF CommittedInv
<1> QED
  BY <1>1, CommittedInvariant, PTL

-----------------------------------------------------------------------------
(* Where answers come from *)

Source(c, r) ==
  \/ r = AlreadyProcessing
  \/ \E e \in {"IdempotencyConflict", "PendingRollbackError", "OperationalError"} :
       r = Failure(e)
  \/ CacheEnabled /\ cache[req[c].key] # None /\ r = cache[req[c].key].result
  \/ \E d \in RecordsWithKey(req[c].key) :
       idem[d].hash = req[c] /\ r = idem[d].result
  \/ pc[c] = "commit" /\ Written(c) /\ r = tx[c].row.result

(* a step of call c, as its caller sees it *)
Stays(c) == pc'[c] = pc[c] /\ attempt'[c] = attempt[c] /\ out'[c] = out[c]
Ends(c) ==
  /\ pc[c] # "idle" /\ pc'[c] \in Ended /\ attempt'[c] = attempt[c]
  /\ out'[c] = out[c] \/ Source(c, out'[c])
GoesOn(c) ==
  /\ pc[c] \notin Ended /\ pc'[c] # "idle" /\ attempt'[c] = 0 /\ out'[c] = out[c]
TriesAgain(c) ==
  /\ pc[c] = "insertKey" /\ pc'[c] = "check" /\ attempt'[c] = 1
  /\ RecordsWithKey(req[c].key) # {} /\ out'[c] = out[c]
Moves(c) == Stays(c) \/ Ends(c) \/ GoesOn(c) \/ TriesAgain(c)

(* what a step of call c answers from is no conflict on a unique constraint, *)
(* and, without the cache, a decision is in the committed record             *)
Attributable(c, r) ==
  /\ r.error # "IntegrityError"
  /\ ~CacheEnabled /\ Deciding(r) =>
       \E d \in RecordsWithKey(req[c].key)' :
         idem'[d].hash = req'[c] /\ r = idem'[d].result

(* In the beginning nobody is answered *)
LEMMA InitAnswers == Init => AnswersInv
<1> SUFFICES ASSUME Init PROVE AnswersInv
  OBVIOUS
<1>1. CommittedInv
  BY Zenon, InitCommitted
<1>2. \A c \in Calls : attempt[c] # 1 /\ out[c] = None
  BY DEF Init
<1>3. \A k \in Keys : cache[k] = None
  BY Zenon DEF Init
<1> QED
  BY Zenon, <1>1, <1>2, <1>3 DEF AnswersInv, Retried, Answered, RetrySuffices

(* Every step keeps AnswersInv *)
LEMMA NextAnswers == AnswersInv /\ [Next]_vars => AnswersInv'
(* what a step does to its own call and to the others *)
<1>FinishMoves.
  ASSUME IInv, NEW c \in Calls, NEW r, Finish(c, r), UNCHANGED attempt,
         pc[c] # "idle", Source(c, r)
  PROVE  Ends(c) /\ \A d \in Calls : d # c => Stays(d)
  <2> USE <1>FinishMoves
  <2>1. DOMAIN pc = Calls /\ DOMAIN out = Calls
    BY Zenon DEF IInv, TypeOK
  <2>2. pc'[c] = "release" /\ out'[c] = r /\ attempt'[c] = attempt[c]
    BY Zenon, <2>1 DEF Finish, Goto
  <2>3. "release" \in Ended
    BY Zenon DEF Ended
  <2>4. \A d \in Calls : d # c => Stays(d)
    BY Zenon, <2>1 DEF Finish, Goto, Stays
  <2> QED
    BY Zenon, <2>2, <2>3, <2>4 DEF Ends
(* a step inside the transaction *)
<1>GotoMoves.
  ASSUME IInv, NEW c \in Calls, NEW l, Goto(c, l), UNCHANGED <<attempt, out>>,
         pc[c] \notin Ended, l # "idle", attempt[c] = 0
  PROVE  GoesOn(c) /\ \A d \in Calls : d # c => Stays(d)
  <2> USE <1>GotoMoves
  <2>1. DOMAIN pc = Calls
    BY Zenon DEF IInv, TypeOK
  <2> QED
    BY Zenon, <2>1 DEF Goto, GoesOn, Stays
(* only a call at check or past its end has tried again *)
<1>FirstAttempt.
  ASSUME AnswersInv, NEW c \in Calls
  PROVE  /\ pc[c] \notin {"check"} \cup Ended => attempt[c] = 0
         /\ pc[c] = "check" /\ RecordsWithKey(req[c].key) = {} => attempt[c] = 0
  <2> USE <1>FirstAttempt
  <2>1. attempt[c] = 0 \/ attempt[c] = 1
    <3>1. attempt[c] \in {0, 1}
      BY Zenon DEF AnswersInv, CommittedInv, SerialInv, IInv, TypeOK
    <3> QED
      BY Zenon, <3>1
  <2> QED
    BY Zenon, <2>1 DEF AnswersInv, Retried
(* the answer of check_or_start *)
<1>CheckMoves.
  ASSUME AnswersInv, NEW c \in Calls, CheckOrStart(c) \/ ReplayFromCache(c)
  PROVE  Moves(c) /\ \A d \in Calls : d # c => Stays(d)
  <2> USE <1>CheckMoves
  <2>1. IInv /\ pc[c] = "check" /\ UNCHANGED attempt /\ pc[c] # "idle"
    <3>1. "check" # "idle"
      OBVIOUS
    <3> QED
      BY Zenon, <3>1
         DEF AnswersInv, CommittedInv, SerialInv, CheckOrStart, ReplayFromCache
  <2>2. CASE ReplayFromCache(c)
    <3>1. Finish(c, cache[req[c].key].result) /\ Source(c, cache[req[c].key].result)
      BY Zenon, <2>2 DEF ReplayFromCache, CacheHit, Source
    <3> QED
      BY Zenon, <2>1, <3>1, <1>FinishMoves DEF Moves
  <2>3. CASE RecordsWithKey(req[c].key) = {} /\ Goto(c, "insertKey") /\ UNCHANGED out
    <3>1. "insertKey" # "idle" /\ pc[c] \notin Ended
      BY Zenon, <2>1 DEF Ended
    <3>2. attempt[c] = 0
      BY Zenon, <2>1, <2>3, <1>FirstAttempt
    <3> QED
      BY Zenon, <2>1, <2>3, <3>1, <3>2, <1>GotoMoves DEF Moves
  <2>4. ASSUME NEW d \in RecordsWithKey(req[c].key),
               \/ Finish(c, Failure("IdempotencyConflict"))
               \/ idem[d].hash = req[c] /\ Finish(c, StoredDecision(idem[d]))
        PROVE  Moves(c) /\ \A b \in Calls : b # c => Stays(b)
    <3>1. CASE Finish(c, Failure("IdempotencyConflict"))
      <4>1. Source(c, Failure("IdempotencyConflict"))
        BY Zenon DEF Source
      <4> QED
        BY Zenon, <2>1, <3>1, <4>1, <1>FinishMoves DEF Moves
    <3>2. CASE idem[d].hash = req[c] /\ Finish(c, StoredDecision(idem[d]))
      <4>1. StoredDecision(idem[d]) = AlreadyProcessing \/ StoredDecision(idem[d]) = idem[d].result
        BY Zenon DEF StoredDecision
      <4>2. Source(c, StoredDecision(idem[d]))
        BY Zenon, <2>4, <3>2, <4>1 DEF Source
      <4> QED
        BY Zenon, <2>1, <3>2, <4>2, <1>FinishMoves DEF Moves
    <3> QED
      BY Zenon, <2>4, <3>1, <3>2
  <2> QED
    BY Zenon, <2>2, <2>3, <2>4 DEF CheckOrStart
(* the insert of the record: a second conflict cannot happen *)
<1>InsertMoves.
  ASSUME AnswersInv, NEW c \in Calls, CreateProcessing(c)
  PROVE  Moves(c) /\ \A d \in Calls : d # c => Stays(d)
  <2> USE <1>InsertMoves
  <2>1. IInv /\ pc[c] = "insertKey" /\ DOMAIN pc = Calls /\ DOMAIN attempt = Calls
    BY Zenon DEF AnswersInv, CommittedInv, SerialInv, CreateProcessing, IInv, TypeOK
  <2>2. pc[c] \notin {"check"} \cup Ended /\ pc[c] \notin Ended /\ "lockAccount" # "idle"
    BY Zenon, <2>1 DEF Ended
  <2>3. attempt[c] = 0
    BY Zenon, <2>2, <1>FirstAttempt
  <2>4. CASE Goto(c, "lockAccount") /\ UNCHANGED <<attempt, out>>
    BY Zenon, <2>1, <2>2, <2>3, <2>4, <1>GotoMoves DEF Moves
  <2>5. CASE /\ RecordsWithKey(req[c].key) # {} /\ attempt' = [attempt EXCEPT ![c] = 1]
             /\ Goto(c, "check") /\ UNCHANGED out
    <3>1. TriesAgain(c)
      BY Zenon, <2>1, <2>5 DEF TriesAgain, Goto
    <3>2. \A d \in Calls : d # c => Stays(d)
      BY Zenon, <2>1, <2>5 DEF Stays, Goto
    <3> QED
      BY Zenon, <3>1, <3>2 DEF Moves
  <2> QED
    BY Zenon, <2>3, <2>4, <2>5 DEF CreateProcessing
(* the steps of _process_started *)
<1>StartedMoves.
  ASSUME AnswersInv, NEW c \in Calls,
         \/ LockAccount(c) \/ AssertNotQuarantined(c) \/ FindDuplicate(c)
         \/ LockOriginal(c) \/ CreateReceived(c) \/ ApplyEvent(c)
  PROVE  Moves(c) /\ \A d \in Calls : d # c => Stays(d)
  <2> USE <1>StartedMoves
  <2>1. IInv /\ pc[c] \in StartedLabel /\ UNCHANGED attempt
    <3>1. \A l \in {"lockAccount", "quarantine", "duplicate", "lockOriginal", "create", "apply"} :
            l \in StartedLabel
      BY Zenon DEF StartedLabel
    <3> QED
      BY Zenon, <3>1 DEF AnswersInv, CommittedInv, SerialInv, LockAccount,
         AssertNotQuarantined, FindDuplicate, LockOriginal, CreateReceived, ApplyEvent
  <2>2. pc[c] \notin {"check"} \cup Ended /\ pc[c] \notin Ended /\ pc[c] # "idle"
    BY Zenon, <2>1 DEF Ended, StartedLabel
  <2>3. attempt[c] = 0
    BY Zenon, <2>2, <1>FirstAttempt
  <2> DEFINE Inside == {"quarantine", "duplicate", "lockOriginal", "create", "apply", "commit"}
  <2>4. \/ \E l \in Inside : Goto(c, l) /\ UNCHANGED out
        \/ Finish(c, Failure("PendingRollbackError"))
    BY Zenon DEF LockAccount, AssertNotQuarantined, FindDuplicate, LockOriginal,
       CreateReceived, ApplyEvent, Fail, Complete, Raise
  <2>5. ASSUME NEW l \in Inside, Goto(c, l), UNCHANGED out
        PROVE  Moves(c) /\ \A d \in Calls : d # c => Stays(d)
    <3>1. l # "idle"
      BY Zenon, <2>5
    <3> QED
      BY Zenon, <2>1, <2>2, <2>3, <2>5, <3>1, <1>GotoMoves DEF Moves
  <2>6. CASE Finish(c, Failure("PendingRollbackError"))
    <3>1. Source(c, Failure("PendingRollbackError"))
      BY Zenon DEF Source
    <3> QED
      BY Zenon, <2>1, <2>2, <2>6, <3>1, <1>FinishMoves DEF Moves
  <2> QED
    BY Zenon, <2>4, <2>5, <2>6
(* the Redis lock, the commit, the faults and the way out *)
<1>SessionMoves.
  ASSUME AnswersInv, NEW c \in Calls,
         \/ AcquireLock(c) \/ Commit(c) \/ Release(c)
         \/ LoseCommit(c) \/ FailStatement(c) \/ Crash(c)
  PROVE  Moves(c) /\ \A d \in Calls : d # c => Stays(d)
  <2> USE <1>SessionMoves
  <2>1. /\ IInv /\ DOMAIN pc = Calls /\ DOMAIN out = Calls /\ UNCHANGED attempt
    BY Zenon DEF AnswersInv, CommittedInv, SerialInv, IInv, TypeOK, AcquireLock, Commit,
       Release, LoseCommit, FailStatement, Crash
  <2>0. pc[c] # "idle"
    <3>1. \A l \in CheckingLabel \cup StartedLabel \cup {"lock", "commit", "release"} : l # "idle"
      BY Zenon DEF CheckingLabel, StartedLabel
    <3>2. pc[c] \in CheckingLabel \cup StartedLabel \cup {"lock", "commit", "release"} \/ Crash(c)
      BY Zenon DEF AcquireLock, Commit, Release, LoseCommit, FailStatement
    <3> QED
      BY Zenon, <3>1, <3>2 DEF Crash
  <2>2. CASE \E r : Finish(c, r) /\ Source(c, r)
    BY Zenon, <2>0, <2>1, <2>2, <1>FinishMoves DEF Moves
  <2>3. CASE Commit(c)
    <3>1. Finish(c, tx[c].row.result) /\ Source(c, tx[c].row.result)
      BY Zenon, <2>3 DEF Commit, Source
    <3> QED
      BY Zenon, <2>2, <3>1
  <2>4. CASE LoseCommit(c) \/ FailStatement(c)
    <3>1. Source(c, Failure("OperationalError")) /\ Source(c, Failure("PendingRollbackError"))
      BY Zenon DEF Source
    <3> QED
      BY Zenon, <2>2, <2>4, <3>1 DEF LoseCommit, FailStatement
  <2>5. ASSUME NEW l \in {"done", "crashed"}, Goto(c, l), UNCHANGED out
        PROVE  Moves(c) /\ \A d \in Calls : d # c => Stays(d)
    <3>1. l \in Ended
      BY Zenon, <2>5 DEF Ended
    <3> QED
      BY Zenon, <2>0, <2>1, <2>5, <3>1 DEF Moves, Ends, Stays, Goto
  <2>6. CASE Release(c) \/ Crash(c)
    BY Zenon, <2>5, <2>6 DEF Release, Crash
  <2>7. CASE AcquireLock(c)
    <3>1. pc[c] = "lock"
      BY Zenon, <2>7 DEF AcquireLock
    <3>2. pc[c] \notin {"check"} \cup Ended /\ pc[c] \notin Ended /\ "check" # "idle"
      BY Zenon, <3>1 DEF Ended
    <3>3. attempt[c] = 0
      BY Zenon, <3>2, <1>FirstAttempt
    <3>4. CASE Goto(c, "check") /\ UNCHANGED out
      BY Zenon, <2>1, <3>2, <3>3, <3>4, <1>GotoMoves DEF Moves
    <3>5. CASE LockRejected(c)
      <4>1. "done" \in Ended /\ Source(c, AlreadyProcessing)
        BY Zenon DEF Ended, Source
      <4>2. pc'[c] = "done" /\ out'[c] = AlreadyProcessing
        BY Zenon, <2>1, <3>5 DEF LockRejected, Goto
      <4>3. \A d \in Calls : d # c => Stays(d)
        BY Zenon, <2>1, <3>5 DEF LockRejected, Goto, Stays
      <4> QED
        BY Zenon, <2>0, <2>1, <4>1, <4>2, <4>3 DEF Moves, Ends
    <3> QED
      BY Zenon, <2>7, <3>4, <3>5 DEF AcquireLock, LockGranted, LockUnavailable
  <2> QED
    BY Zenon, <2>3, <2>4, <2>6, <2>7
(* a request arrives *)
<1>SendMoves.
  ASSUME AnswersInv, NEW c \in Calls, NEW q \in Requests, Send(c, q)
  PROVE  Moves(c) /\ \A d \in Calls : d # c => Stays(d)
  <2> USE <1>SendMoves
  <2>1. IInv /\ pc[c] = "idle"
    BY Zenon DEF AnswersInv, CommittedInv, SerialInv, Send
  <2>2. pc[c] \notin {"check"} \cup Ended /\ pc[c] \notin Ended /\ "lock" # "idle"
    BY Zenon, <2>1 DEF Ended
  <2>3. attempt[c] = 0
    BY Zenon, <2>2, <1>FirstAttempt
  <2> QED
    BY Zenon, <2>1, <2>2, <2>3, <1>GotoMoves DEF Moves, Send
(* Every step, as a caller sees it: an answer comes from a source that       *)
(* Source names, and a second attempt finds the record.                      *)
<1>NextMoves.
  ASSUME AnswersInv, [Next]_vars, NEW b \in Calls
  PROVE  Moves(b)
  <2> USE <1>NextMoves
  <2>1. ASSUME NEW c \in Calls, NEW q \in Requests, Send(c, q) PROVE Moves(b)
    BY Zenon, <2>1, <1>SendMoves DEF Moves
  <2>2. ASSUME NEW c \in Calls, CallStep(c) PROVE Moves(b)
    BY Zenon, <2>2, <1>CheckMoves, <1>InsertMoves, <1>StartedMoves, <1>SessionMoves DEF Moves, CallStep
  <2>3. ASSUME NEW c \in Calls, LoseCommit(c) \/ FailStatement(c) \/ Crash(c) PROVE Moves(b)
    BY Zenon, <2>3, <1>SessionMoves DEF Moves
  <2>4. ASSUME \/ \E k \in Keys : ExpireLock(k) \/ ExpireCache(k)
               \/ \E a \in Accounts : Quarantine(a) \/ ReleaseQuarantine(a)
               \/ Quiescent \/ UNCHANGED vars
        PROVE  Moves(b)
    BY Zenon, <2>4 DEF ExpireLock, ExpireCache, Quarantine, ReleaseQuarantine, Quiescent,
       vars, Moves, Stays
  <2> QED
    BY Zenon, <2>1, <2>2, <2>3, <2>4 DEF Next
(* A committed record stays as it is *)
<1>RecordStays.
  ASSUME CommittedInv, [Next]_vars, NEW d \in Calls, idem[d] # None
  PROVE  idem'[d] = idem[d]
  <2> USE <1>RecordStays
  <2>1. IInv
    BY Zenon DEF CommittedInv, SerialInv
  <2>2. ASSUME NEW c \in Calls, pc[c] = "commit", Written(c) PROVE idem'[d] = idem[d]
    <3>1. idem[c] = None
      BY Zenon, <2>1, <2>2, CommitFacts
    <3> QED
      BY Zenon, <2>2, <3>1, WrittenRecord
  <2> QED
    BY Zenon, <2>2, DbStep
(* The cache is given answers of completed requests only *)
<1>CacheStep.
  ASSUME AnswersInv, [Next]_vars, NEW k \in Keys, cache'[k] # None
  PROVE  cache'[k].result.error = "none"
  <2> USE <1>CacheStep
  <2>1. /\ cache \in [Keys -> CachedResponse \cup {None}]
        /\ cache[k] # None => cache[k].result.error = "none"
    BY Zenon DEF AnswersInv, CommittedInv, SerialInv, IInv, TypeOK
  <2>2. ASSUME UNCHANGED cache PROVE cache'[k].result.error = "none"
    BY Zenon, <2>1, <2>2
  <2>3. ASSUME NEW c \in Calls, NEW r, SetCompleted(c, r), r.error = "none"
        PROVE  cache'[k].result.error = "none"
    <3>1. CASE UNCHANGED cache
      BY Zenon, <2>2, <3>1
    <3>2. CASE cache' = [cache EXCEPT ![req[c].key] = [hash |-> req[c], result |-> r]]
      <4>1. cache'[k] = cache[k] \/ cache'[k] = [hash |-> req[c], result |-> r]
        BY Zenon, <2>1, <3>2
      <4> QED
        BY <2>1, <2>3, <4>1
    <3> QED
      BY Zenon, <2>3, <3>1, <3>2 DEF SetCompleted
  <2>4. ASSUME NEW c \in Calls, CheckOrStart(c) PROVE cache'[k].result.error = "none"
    <3>1. ASSUME NEW d \in RecordsWithKey(req[c].key), idem[d].status = "COMPLETED"
          PROVE  idem[d].result.error = "none"
      <4>1. d \in Calls /\ idem[d] # None /\ RecordOf(d)
        BY Zenon DEF RecordsWithKey, AnswersInv, CommittedInv
      <4>2. "COMPLETED" # "FAILED"
        OBVIOUS
      <4> QED
        BY Zenon, <3>1, <4>1, <4>2 DEF RecordOf
    <3> QED
      BY Zenon, <2>2, <2>3, <2>4, <3>1 DEF CheckOrStart
  <2>5. \A e, x, y : Success(e, x, y).error = "none"
    BY Zenon DEF Success
  <2>6. ASSUME NEW c \in Calls, FindDuplicate(c) \/ ApplyEvent(c)
        PROVE  cache'[k].result.error = "none"
    <3>1. UNCHANGED cache \/ \E e, x, y : SetCompleted(c, Success(e, x, y))
      BY Zenon, <2>6 DEF FindDuplicate, ApplyEvent, Fail, Complete, Raise
    <3>2. ASSUME NEW e, NEW x, NEW y, SetCompleted(c, Success(e, x, y))
          PROVE  cache'[k].result.error = "none"
      BY <2>3, <2>5, <3>2
    <3> QED
      BY Zenon, <2>2, <3>1, <3>2
  <2>7. ASSUME NEW c \in Calls,
               \/ AcquireLock(c) \/ ReplayFromCache(c) \/ CreateProcessing(c)
               \/ LockAccount(c) \/ AssertNotQuarantined(c) \/ LockOriginal(c)
               \/ CreateReceived(c) \/ Commit(c) \/ Release(c)
        PROVE  UNCHANGED cache
    BY Zenon, <2>7 DEF AcquireLock, ReplayFromCache, CreateProcessing, LockAccount,
       AssertNotQuarantined, LockOriginal, CreateReceived, Commit, Release, Fail, Raise
  <2>8. ASSUME NEW c \in Calls, LoseCommit(c) \/ FailStatement(c) \/ Crash(c)
        PROVE  UNCHANGED cache
    BY Zenon, <2>8 DEF LoseCommit, FailStatement, Crash
  <2>9. ASSUME NEW j \in Keys, ExpireCache(j) PROVE cache'[k].result.error = "none"
    <3>1. cache'[k] = cache[k]
      BY Zenon, <2>1, <2>9 DEF ExpireCache
    <3> QED
      BY Zenon, <2>1, <3>1
  <2>10. ASSUME \/ \E c \in Calls, q \in Requests : Send(c, q)
                \/ \E j \in Keys : ExpireLock(j)
                \/ \E a \in Accounts : Quarantine(a) \/ ReleaseQuarantine(a)
                \/ Quiescent \/ UNCHANGED vars
         PROVE  UNCHANGED cache
    BY Zenon, <2>10 DEF Send, ExpireLock, Quarantine, ReleaseQuarantine, Quiescent, vars
  <2> QED
    BY Zenon, <2>2, <2>4, <2>6, <2>7, <2>8, <2>9, <2>10 DEF Next, CallStep
(* An answer is not the second attempt's conflict, and one a client may act  *)
(* on is in the committed record                                             *)
<1>SourceFacts.
  ASSUME AnswersInv, CommittedInv', [Next]_vars, NEW c \in Calls, pc[c] # "idle",
         NEW r, Source(c, r)
  PROVE  Attributable(c, r)
  <2> USE <1>SourceFacts
  <2> USE DEF Attributable
  <2>1. /\ CommittedInv /\ IInv /\ req'[c] = req[c] /\ req[c] \in Requests
    <3>1. CommittedInv /\ IInv
      BY Zenon DEF AnswersInv, CommittedInv, SerialInv
    <3> QED
      BY Zenon, <3>1, RequestKept, SentRequest
  <2>2. ASSUME r = AlreadyProcessing
        PROVE  r.error # "IntegrityError" /\ ~Deciding(r)
    BY <2>2 DEF AlreadyProcessing, Deciding
  <2>3. ASSUME NEW e \in {"IdempotencyConflict", "PendingRollbackError", "OperationalError"},
               r = Failure(e)
        PROVE  r.error # "IntegrityError" /\ ~Deciding(r)
    BY <2>3 DEF Failure, StatusCodeFor, Deciding
  <2>4. CASE CacheEnabled /\ cache[req[c].key] # None /\ r = cache[req[c].key].result
    <3>1. req[c].key \in Keys
      BY Zenon, <2>1 DEF Keys
    <3>2. r.error = "none"
      BY Zenon, <2>4, <3>1 DEF AnswersInv
    <3> QED
      BY Zenon, <2>4, <3>2
  <2>5. ASSUME NEW d \in Calls, idem'[d] # None, idem'[d].key = req[c].key,
               idem'[d].hash = req[c], r = idem'[d].result
        PROVE  /\ r.error # "IntegrityError"
               /\ d \in RecordsWithKey(req[c].key)'
    <3>1. RecordOf(d)'
      BY Zenon DEF CommittedInv
    <3>2. r.error = "none" \/ \E error \in DomainFailure : r = Failure(error)
      BY Zenon, <2>5, <3>1 DEF RecordOf
    <3>3. r.error # "IntegrityError"
      BY <3>2 DEF Failure, DomainFailure
    <3>4. d \in RecordsWithKey(req[c].key)'
      BY Zenon, <2>1, <2>5 DEF RecordsWithKey
    <3> QED
      BY Zenon, <3>3, <3>4
  <2>6. ASSUME NEW d \in RecordsWithKey(req[c].key), idem[d].hash = req[c], r = idem[d].result
        PROVE  /\ r.error # "IntegrityError"
               /\ d \in RecordsWithKey(req[c].key)'
               /\ idem'[d].hash = req'[c] /\ r = idem'[d].result
    <3>1. d \in Calls /\ idem[d] # None /\ idem[d].key = req[c].key
      BY Zenon DEF RecordsWithKey
    <3>2. idem'[d] = idem[d]
      BY Zenon, <2>1, <3>1, <1>RecordStays
    <3> QED
      BY Zenon, <2>1, <2>5, <2>6, <3>1, <3>2
  <2>7. CASE pc[c] = "commit" /\ Written(c) /\ r = tx[c].row.result
    <3>1. /\ idem'[c] = tx[c].row /\ tx[c].row # None
          /\ tx[c].row.key = req[c].key /\ tx[c].row.hash = req[c]
      BY Zenon, <2>1, <2>7, WrittenRecord, CommitFacts
         DEF CommittedInv, SerialInv, OutcomeInv, InTransaction
    <3> QED
      BY Zenon, <2>1, <2>5, <2>7, <3>1
  <2> QED
    BY Zenon, <2>2, <2>3, <2>4, <2>6, <2>7 DEF Source
<1> SUFFICES ASSUME AnswersInv, [Next]_vars PROVE AnswersInv'
  OBVIOUS
<1>1. CommittedInv /\ IInv /\ CommittedInv' /\ IInv'
  BY Zenon, NextCommitted DEF AnswersInv, CommittedInv, SerialInv
<1>2. ASSUME NEW c \in Calls PROVE Retried(c)' /\ Answered(c)'
             /\ (out'[c] # None => out'[c].error # "IntegrityError")
  <2>1. Retried(c) /\ Answered(c) /\ (out[c] # None => out[c].error # "IntegrityError")
    BY Zenon DEF AnswersInv, RetrySuffices
  <2>2. \A k : \A d \in RecordsWithKey(k) : d \in RecordsWithKey(k)' /\ idem'[d] = idem[d]
    <3> SUFFICES ASSUME NEW k, NEW d \in RecordsWithKey(k)
                 PROVE  d \in RecordsWithKey(k)' /\ idem'[d] = idem[d]
      BY Zenon
    <3>1. d \in Calls /\ idem[d] # None /\ idem[d].key = k
      BY Zenon DEF RecordsWithKey
    <3>2. idem'[d] = idem[d]
      BY Zenon, <1>1, <3>1, <1>RecordStays
    <3> QED
      BY Zenon, <3>1, <3>2 DEF RecordsWithKey
  <2>3. ASSUME out'[c] = out[c], pc[c] \in Ended => pc'[c] \in Ended
        PROVE  Answered(c)' /\ (out'[c] # None => out'[c].error # "IntegrityError")
    <3>1. pc[c] \in Ended => req'[c] = req[c]
      <4>1. pc[c] \in Ended => pc[c] # "idle"
        BY Zenon DEF Ended
      <4> QED
        BY Zenon, <1>1, <4>1, RequestKept
    <3>2. CASE out[c] = None
      BY Zenon, <2>3, <3>2 DEF Answered
    <3>3. CASE out[c] # None
      <4>1. pc[c] \in Ended /\ pc'[c] \in Ended /\ req'[c] = req[c]
        BY Zenon, <2>1, <2>3, <3>1, <3>3 DEF Answered
      <4>2. ASSUME ~CacheEnabled, Deciding(out[c])
            PROVE  \E d \in RecordsWithKey(req[c].key)' :
                     idem'[d].hash = req'[c] /\ out[c] = idem'[d].result
        <5>1. PICK d \in RecordsWithKey(req[c].key) :
                idem[d].hash = req[c] /\ out[c] = idem[d].result
          BY Zenon, <2>1, <3>3, <4>2 DEF Answered
        <5> QED
          BY Zenon, <2>2, <4>1, <5>1
      <4> QED
        BY Zenon, <2>1, <2>3, <3>3, <4>1, <4>2 DEF Answered
    <3> QED
      BY Zenon, <3>2, <3>3
  <2>4. CASE Stays(c)
    <3>1. Retried(c)'
      <4> SUFFICES ASSUME attempt[c] = 1 PROVE Retried(c)'
        BY Zenon, <2>4 DEF Retried, Stays
      <4>1. pc[c] \in {"check"} \cup Ended /\ (pc[c] = "check" => RecordsWithKey(req[c].key) # {})
        BY Zenon, <2>1 DEF Retried
      <4>2. pc[c] # "idle"
        BY Zenon, <4>1 DEF Ended
      <4>3. req'[c] = req[c]
        BY Zenon, <1>1, <4>2, RequestKept
      <4>4. RecordsWithKey(req[c].key) # {} => RecordsWithKey(req[c].key)' # {}
        BY Zenon, <2>2, <4>3
      <4> QED
        BY Zenon, <2>4, <4>1, <4>4 DEF Retried, Stays
    <3> QED
      BY Zenon, <2>3, <2>4, <3>1 DEF Stays
  <2>5. CASE Ends(c)
    <3>1. Retried(c)'
      <4>1. pc'[c] # "check" /\ pc'[c] \in {"check"} \cup Ended
        BY Zenon, <2>5 DEF Ends, Ended
      <4> QED
        BY Zenon, <4>1 DEF Retried
    <3>2. CASE out'[c] = out[c]
      BY Zenon, <2>3, <2>5, <3>1, <3>2 DEF Ends
    <3>3. CASE Source(c, out'[c]) /\ out'[c] # out[c]
      <4>1. pc[c] # "idle"
        BY Zenon, <2>5 DEF Ends
      <4>2. req'[c] = req[c]
        BY Zenon, <1>1, <4>1, RequestKept
      <4>3. Attributable(c, out'[c])
        BY Zenon, <1>1, <3>3, <4>1, <1>SourceFacts
      <4> QED
        BY Zenon, <2>5, <3>1, <4>2, <4>3 DEF Answered, Attributable, Ends
    <3> QED
      BY Zenon, <2>5, <3>2, <3>3 DEF Ends
  <2>6. CASE GoesOn(c)
    <3>1. attempt'[c] # 1
      BY <2>6 DEF GoesOn
    <3> QED
      BY Zenon, <2>3, <2>6, <3>1 DEF GoesOn, Retried
  <2>7. CASE TriesAgain(c)
    <3>1. pc[c] # "idle" /\ pc[c] \notin Ended /\ pc'[c] \in {"check"} \cup Ended
      BY Zenon, <2>7 DEF TriesAgain, Ended
    <3>2. req'[c] = req[c]
      BY Zenon, <1>1, <3>1, RequestKept
    <3>3. RecordsWithKey(req[c].key)' # {}
      BY Zenon, <2>2, <2>7, <3>2 DEF TriesAgain
    <3> QED
      BY Zenon, <2>3, <2>7, <3>1, <3>3 DEF TriesAgain, Retried
  <2> QED
    BY Zenon, <2>4, <2>5, <2>6, <2>7, <1>NextMoves DEF Moves
<1>3. \A k \in Keys : cache'[k] # None => cache'[k].result.error = "none"
  BY Zenon, <1>CacheStep
<1> QED
  BY Zenon, <1>1, <1>2, <1>3 DEF AnswersInv, RetrySuffices

(* What AnswersInv says of every call holds in every reachable state *)
THEOREM AnswersInvariant == Spec => []AnswersInv
BY InitAnswers, NextAnswers, PTL DEF Spec

(* The one retry of _process_with_db_fallback is enough, with or without the *)
(* Redis lock and the cache and under every fault.                           *)
THEOREM RetrySufficesAlways == Spec => []RetrySuffices
<1>1. AnswersInv => RetrySuffices
  BY Zenon DEF AnswersInv
<1> QED
  BY <1>1, AnswersInvariant, PTL

(* Without the response cache, all deciding answers under one idempotency    *)
(* key are one answer to one request: the committed record's.                *)
THEOREM OneAnswerPerKeyAlways ==
  ASSUME ~CacheEnabled
  PROVE  Spec => []OneAnswerPerKey
<1>1. ASSUME AnswersInv PROVE OneAnswerPerKey
  <2> SUFFICES ASSUME NEW c \in Calls, NEW d \in Calls, Decided(c), Decided(d),
                      req[c].key = req[d].key
               PROVE  req[c] = req[d] /\ out[c] = out[d]
    BY Zenon DEF OneAnswerPerKey
  <2>0. /\ out[c] # None /\ Deciding(out[c]) /\ out[d] # None /\ Deciding(out[d])
        /\ Answered(c) /\ Answered(d)
    BY <1>1 DEF AnswersInv, Decided, Deciding
  <2>1. PICK e \in RecordsWithKey(req[c].key) : idem[e].hash = req[c] /\ out[c] = idem[e].result
    BY Zenon, <2>0 DEF Answered
  <2>2. PICK f \in RecordsWithKey(req[d].key) : idem[f].hash = req[d] /\ out[d] = idem[f].result
    BY Zenon, <2>0 DEF Answered
  <2>3. e = f
    BY Zenon, <1>1 DEF AnswersInv, CommittedInv, SerialInv, IInv, UniqueKeys, RecordsWithKey
  <2> QED
    BY Zenon, <2>1, <2>2, <2>3
<1> QED
  BY <1>1, AnswersInvariant, PTL

(* Without the response cache, a 200 names a ledger entry that is committed, *)
(* for the caller's external event and with the ledger's balance: process    *)
(* answers after the commit, or from a committed record.                     *)
THEOREM SuccessIsDurableAlways ==
  ASSUME ~CacheEnabled
  PROVE  Spec => []SuccessIsDurable
<1>1. ASSUME AnswersInv PROVE SuccessIsDurable
  <2> SUFFICES ASSUME NEW c \in Calls, out[c] # None, out[c].code = 200
               PROVE  \E a \in Accounts : \E i \in Entries(a) :
                        /\ ledger[a][i].event = out[c].event
                        /\ ledger[a][i].after = out[c].after
                        /\ events[out[c].event].ext = req[c].ext
    BY Zenon DEF SuccessIsDurable
  <2>1. PICK d \in RecordsWithKey(req[c].key) : idem[d].hash = req[c] /\ out[c] = idem[d].result
    BY Zenon, <1>1 DEF AnswersInv, Answered, Deciding
  <2>2. d \in Calls /\ idem[d] # None /\ RecordOf(d) /\ AtomicOutcome
    BY Zenon, <1>1 DEF AnswersInv, CommittedInv, RecordsWithKey
  <2>3. \A error \in DomainFailure : Failure(error).code # 200
    BY DEF Failure, DomainFailure, StatusCodeFor
  <2>4. idem[d].status = "COMPLETED"
    BY <2>1, <2>2, <2>3 DEF RecordOf
  <2>5. \E a \in Accounts : \E i \in Entries(a) :
          /\ ledger[a][i].event = idem[d].result.event
          /\ ledger[a][i].after = idem[d].result.after
          /\ events[ledger[a][i].event].ext = idem[d].hash.ext
    BY Zenon, <2>2, <2>4 DEF AtomicOutcome
  <2> QED
    BY <2>1, <2>5
<1> QED
  BY <1>1, AnswersInvariant, PTL

-----------------------------------------------------------------------------
(* The sum of a ledger *)

(* A set of numbers has a least one *)
LEMMA LeastNumber ==
  ASSUME NEW T, T \subseteq Nat, T # {}
  PROVE  \E x \in T : \A y \in T : x <= y
<1>1. \E x \in T : \A y \in T : ~ (<<y, x>> \in OpToRel(<, Nat))
  BY Zenon, WFMin, NatLessThanWellFounded
<1>2. OpToRel(<, Nat) = {ss \in Nat \X Nat : ss[1] < ss[2]}
  BY Zenon DEF OpToRel
<1>3. PICK R : R = {ss \in Nat \X Nat : ss[1] < ss[2]}
  BY Zenon
<1>4. PICK x \in T : \A y \in T : ~ (<<y, x>> \in R)
  BY Zenon, <1>1, <1>2, <1>3
<1>5. \A y \in Nat : y < x => <<y, x>> \in R
  BY Zenon, <1>3
<1>6. x \in Nat /\ \A y \in T : y \in Nat /\ ~(y < x)
  BY Zenon, <1>4, <1>5
<1> QED
  BY <1>6

(* Sums that start at zero and grow by each amount are the running sums: a   *)
(* least entry where they differed would have an entry before it             *)
LEMMA RunningSumIs ==
  ASSUME NEW s, Len(s) \in Nat, \A i \in 1 .. Len(s) : s[i].amount \in Int,
         NEW w \in [0 .. Len(s) -> Int], w[0] = 0,
         \A i \in 1 .. Len(s) : w[i] = w[i - 1] + s[i].amount
  PROVE  RunningSum(s)[Len(s)] = w[Len(s)]
<1> DEFINE sums(g) == [i \in 0 .. Len(s) |-> IF i = 0 THEN 0 ELSE g[i - 1] + s[i].amount]
<1>1. RunningSum(s) = CHOOSE g : g = sums(g)
  BY Zenon DEF RunningSum
<1>2. w = sums(w)
  OBVIOUS
<1>3. PICK g : g = RunningSum(s)
  BY Zenon
<1>4. g = sums(g)
  BY Zenon, <1>1, <1>2, <1>3
<1>5. /\ g[0] = 0
      /\ \A i \in 1 .. Len(s) : g[i] = g[i - 1] + s[i].amount
  <2>1. \A i \in 0 .. Len(s) : g[i] = IF i = 0 THEN 0 ELSE g[i - 1] + s[i].amount
    BY Zenon, <1>4
  <2> HIDE DEF sums
  <2> QED
    BY <2>1
<1> HIDE DEF sums
<1>6. ASSUME g[Len(s)] # w[Len(s)] PROVE FALSE
  <2> DEFINE T == {i \in 0 .. Len(s) : g[i] # w[i]}
  <2>1. T \subseteq Nat /\ Len(s) \in T
    BY <1>6
  <2>2. PICK x \in T : \A y \in T : x <= y
    BY Zenon, <2>1, LeastNumber
  <2>3. x \in 0 .. Len(s) /\ g[x] # w[x] /\ \A y \in 0 .. Len(s) : g[y] # w[y] => x <= y
    BY Zenon, <2>2
  <2> HIDE DEF T
  <2>4. x # 0
    BY Zenon, <1>5, <2>3
  <2>5. x \in 1 .. Len(s) /\ x - 1 \in 0 .. Len(s) /\ ~(x <= x - 1)
    BY <2>3, <2>4
  <2>6. g[x - 1] = w[x - 1]
    BY Zenon, <2>3, <2>5
  <2> QED
    BY Zenon, <1>5, <2>3, <2>5, <2>6
<1> QED
  BY Zenon, <1>3, <1>6

(* The balance of an account is its opening balance and the amounts of its   *)
(* ledger: every entry carries the balance after it                          *)
LEMMA BalanceExplained ==
  ASSUME IInv, NEW a \in Accounts
  PROVE  /\ balance[a] = OpeningBalance[a] + LedgerSum(Database, a)
         /\ LedgerSum(Database, a) \in Int /\ balance[a] \in Int /\ OpeningBalance[a] \in Int
<1>1. PICK s : s = ledger[a]
  BY Zenon
<1>2. PICK opening : opening = OpeningBalance[a]
  BY Zenon
<1>3. /\ opening \in 0 .. MaxBigint /\ MaxBigint \in Nat /\ balance[a] \in Int
      /\ s \in Seq(LedgerEntry)
  BY Zenon, <1>1, <1>2, ConstantsAssumption DEF IInv, TypeOK
<1>4. /\ opening \in Int /\ Len(s) \in Nat /\ DOMAIN s = 1 .. Len(s)
      /\ s = <<>> <=> Len(s) = 0
      /\ \A i \in 1 .. Len(s) : s[i].amount \in Int /\ s[i].after \in Int
  <2>1. opening \in Int
    BY ONLY <1>3
  <2>2. /\ Len(s) \in Nat /\ DOMAIN s = 1 .. Len(s)
        /\ s = <<>> <=> Len(s) = 0
    BY ONLY <1>3
  <2>3. \A i \in 1 .. Len(s) : s[i] \in LedgerEntry
    BY ONLY <1>3
  <2>4. \A e \in LedgerEntry : e.amount \in Int /\ e.after \in Int
    BY Zenon DEF LedgerEntry
  <2> QED
    BY Zenon, <2>1, <2>2, <2>3, <2>4
<1>5. /\ balance[a] = IF s = <<>> THEN opening ELSE s[Len(s)].after
      /\ \A i \in 1 .. Len(s) :
           s[i].after = s[i].amount + (IF i = 1 THEN opening ELSE s[i - 1].after)
  BY Zenon, <1>1, <1>2, <1>4 DEF IInv, LedgerChain, Entries
<1> DEFINE w == [i \in 0 .. Len(s) |-> IF i = 0 THEN 0 ELSE s[i].after - opening]
<1>6. w \in [0 .. Len(s) -> Int] /\ w[0] = 0
  BY <1>4
<1>7. ASSUME NEW i \in 1 .. Len(s) PROVE w[i] = w[i - 1] + s[i].amount
  <2>1. /\ i \in Int /\ i - 1 \in Int /\ i \in 0 .. Len(s) /\ i - 1 \in 0 .. Len(s)
        /\ i # 0
        /\ i - 1 = 0 <=> i = 1
        /\ i # 1 => i - 1 \in 1 .. Len(s)
    BY <1>4
  <2>2. w[i] = s[i].after - opening
    BY Zenon, <2>1
  <2>3. w[i - 1] = IF i = 1 THEN 0 ELSE s[i - 1].after - opening
    BY Zenon, <2>1
  <2>4. s[i].after = s[i].amount + (IF i = 1 THEN opening ELSE s[i - 1].after)
    BY Zenon, <1>5
  <2>5. /\ s[i].amount \in Int /\ s[i].after \in Int /\ opening \in Int
        /\ i # 1 => s[i - 1].after \in Int
    BY Zenon, <1>4, <2>1
  <2> QED
    BY ONLY <2>2, <2>3, <2>4, <2>5
<1>8. w[Len(s)] = balance[a] - opening
  BY <1>3, <1>4, <1>5
<1> HIDE DEF w
<1>9. RunningSum(s)[Len(s)] = w[Len(s)]
  BY Zenon, <1>4, <1>6, <1>7, RunningSumIs
<1>10. LedgerSum(Database, a) = balance[a] - opening
  BY Zenon, <1>1, <1>8, <1>9 DEF LedgerSum, Database
<1> QED
  BY ONLY <1>2, <1>3, <1>4, <1>10

-----------------------------------------------------------------------------
(* The rows of a database *)

(* A row of the ledger is an account and a place in its ledger *)
LEMMA RowParts ==
  ASSUME NEW db, NEW r \in Rows(db)
  PROVE  r = <<r[1], r[2]>> /\ r[1] \in Accounts /\ r[2] \in DOMAIN db.ledger[r[1]]
<1>1. PICK a \in Accounts : r \in {<<a, i>> : i \in DOMAIN db.ledger[a]}
  BY Zenon DEF Rows
<1>2. PICK i \in DOMAIN db.ledger[a] : r = <<a, i>>
  BY Zenon, <1>1
<1>3. r[1] = a /\ r[2] = i
  BY Zenon, <1>2
<1> QED
  BY Zenon, <1>2, <1>3

(* The row at a place, and its event *)
LEMMA RowAt ==
  ASSUME NEW db, NEW a \in Accounts, NEW i \in DOMAIN db.ledger[a]
  PROVE  <<a, i>> \in Rows(db) /\ EventOf(db, <<a, i>>) = db.ledger[a][i].event
<1>1. <<a, i>>[1] = a /\ <<a, i>>[2] = i
  OBVIOUS
<1>2. <<a, i>> \in {<<a, j>> : j \in DOMAIN db.ledger[a]}
  BY Zenon
<1>3. <<a, i>> \in Rows(db)
  BY Zenon, <1>2 DEF Rows
<1> QED
  BY Zenon, <1>1, <1>3 DEF EventOf

(* The database as it is *)
LEMMA DatabaseRows ==
  /\ Database.idem = idem /\ Database.events = events
  /\ Database.ledger = ledger /\ Database.balance = balance
BY Zenon DEF Database

(* A committed entry belongs to a committed event, which has no other *)
LEMMA CommittedRow ==
  ASSUME IInv, NEW r \in Rows(Database)
  PROVE  /\ r[1] \in Accounts /\ r[2] \in Entries(r[1]) /\ r = <<r[1], r[2]>>
         /\ EventOf(Database, r) = ledger[r[1]][r[2]].event
         /\ EventOf(Database, r) \in Calls /\ events[EventOf(Database, r)] # None
         /\ events[EventOf(Database, r)].acct = r[1]
         /\ \A q \in Rows(Database) : EventOf(Database, q) = EventOf(Database, r) => q = r
<1>1. ASSUME NEW q \in Rows(Database)
      PROVE  /\ q[1] \in Accounts /\ q[2] \in Entries(q[1]) /\ q = <<q[1], q[2]>>
             /\ EventOf(Database, q) = ledger[q[1]][q[2]].event
             /\ events[EventOf(Database, q)] # None /\ events[EventOf(Database, q)].acct = q[1]
  <2>1. q = <<q[1], q[2]>> /\ q[1] \in Accounts /\ q[2] \in Entries(q[1])
    BY Zenon, RowParts, DatabaseRows DEF Entries
  <2>2. EventOf(Database, q) = ledger[q[1]][q[2]].event
    BY Zenon, DatabaseRows DEF EventOf
  <2>3. /\ events[ledger[q[1]][q[2]].event] # None
        /\ events[ledger[q[1]][q[2]].event].acct = q[1]
    BY Zenon, <2>1 DEF IInv, LedgerOfEvents
  <2> QED
    BY Zenon, <2>1, <2>2, <2>3
<1>2. ledger[r[1]][r[2]] \in LedgerEntry
  <2>1. ledger[r[1]] \in Seq(LedgerEntry) /\ r[2] \in DOMAIN ledger[r[1]]
    BY Zenon, <1>1 DEF IInv, TypeOK, Entries
  <2> QED
    BY ONLY <2>1
<1>3. EventOf(Database, r) \in Calls
  BY Zenon, <1>1, <1>2 DEF LedgerEntry
<1>4. ASSUME NEW q \in Rows(Database), EventOf(Database, q) = EventOf(Database, r) PROVE q = r
  <2>1. q[1] = r[1]
    BY Zenon, <1>1, <1>4
  <2>2. q[2] = r[2]
    <3>1. /\ r[1] \in Accounts /\ r[2] \in Entries(r[1]) /\ q[2] \in Entries(r[1])
          /\ ledger[r[1]][q[2]].event = ledger[r[1]][r[2]].event
      BY Zenon, <1>1, <1>4, <2>1
    <3> QED
      BY Zenon, <3>1 DEF IInv, LedgerOfEvents
  <2> QED
    BY Zenon, <1>1, <2>1, <2>2
<1> QED
  BY Zenon, <1>1, <1>3, <1>4

(* The entries of a committed event are its rows *)
LEMMA RowsOfEvent ==
  ASSUME IInv, NEW d \in Calls
  PROVE  RowsOf(Database, d) # {} <=> events[d] # None /\ EntriesOf(d) # {}
<1>1. ASSUME NEW r \in RowsOf(Database, d) PROVE events[d] # None /\ r[2] \in EntriesOf(d)
  <2>1. r \in Rows(Database) /\ EventOf(Database, r) = d
    BY Zenon, <1>1 DEF RowsOf
  <2> QED
    BY Zenon, <2>1, CommittedRow DEF EntriesOf, Entries
<1>2. ASSUME events[d] # None, NEW i \in EntriesOf(d)
      PROVE  <<events[d].acct, i>> \in RowsOf(Database, d)
  <2>1. events[d].acct \in Accounts
    BY Zenon, <1>2 DEF IInv, TypeOK, EventRow
  <2>2. i \in DOMAIN ledger[events[d].acct] /\ ledger[events[d].acct][i].event = d
    BY Zenon, <1>2 DEF EntriesOf
  <2> QED
    BY Zenon, <2>1, <2>2, RowAt, DatabaseRows DEF RowsOf
<1> QED
  BY Zenon, <1>1, <1>2

-----------------------------------------------------------------------------
(* Nothing is found as long as only the service writes *)

(* The event with a record's key is the one of its call *)
LEMMA EventOfRecord ==
  ASSUME CommittedInv, NEW d \in Calls, idem[d] # None, NEW db, db.events = events
  PROVE  EventsWithKey(db, idem[d].key) = {c \in {d} : events[c] # None}
<1>1. ASSUME NEW c \in Calls, events[c] # None
      PROVE  idem[c] # None /\ idem[c].key = req[c].key
  BY Zenon, <1>1 DEF CommittedInv, AtomicOutcome, RecordOf
<1>2. idem[d].key = req[d].key
  BY Zenon DEF CommittedInv, RecordOf
<1>3. \A c \in Calls : events[c] # None /\ req[c].key = idem[d].key => c = d
  BY Zenon, <1>1 DEF CommittedInv, SerialInv, IInv, UniqueKeys
<1> QED
  BY Zenon, <1>2, <1>3 DEF EventsWithKey

(* The counts of the tables against each other *)
LEMMA TablesAgree ==
  ASSUME CommittedInv
  PROVE  /\ DuplicateLedger(Database) = {} /\ DuplicateExternalEvent(Database) = {}
         /\ EventWithoutLedger(Database) = {} /\ LedgerWithoutEvent(Database) = {}
         /\ StaleProcessing(Database) = {}
<1>1. IInv
  BY Zenon DEF CommittedInv, SerialInv
<1>2. ASSUME NEW d \in Calls PROVE \A q, r \in RowsOf(Database, d) : q = r
  BY Zenon, <1>1, CommittedRow DEF RowsOf
<1>3. ASSUME NEW x PROVE \A c, d \in EventsWithExternalId(Database, x) : c = d
  BY Zenon, <1>1, DatabaseRows DEF EventsWithExternalId, IInv, UniqueExtIds
<1>4. ASSUME NEW d \in Calls, events[d] # None, RowsOf(Database, d) = {}
      PROVE  events[d].status = "FAILED"
  BY Zenon, <1>1, <1>4, RowsOfEvent DEF CommittedInv, AtomicOutcome
<1>5. \A r \in Rows(Database) : events[EventOf(Database, r)] # None
  BY Zenon, <1>1, CommittedRow
<1>6. \A d \in Calls : idem[d] # None => idem[d].status # "PROCESSING"
  BY Zenon DEF CommittedInv, AtomicOutcome
<1>7. DuplicateLedger(Database) = {} /\ DuplicateExternalEvent(Database) = {}
  BY Zenon, <1>2, <1>3 DEF DuplicateLedger, DuplicateExternalEvent
<1>8. EventWithoutLedger(Database) = {}
  BY Zenon, <1>4, DatabaseRows DEF EventWithoutLedger
<1>9. LedgerWithoutEvent(Database) = {} /\ StaleProcessing(Database) = {}
  BY Zenon, <1>5, <1>6, DatabaseRows DEF LedgerWithoutEvent, StaleProcessing
<1> QED
  BY Zenon, <1>7, <1>8, <1>9

(* Only an opening balance makes a balance differ from its ledger *)
LEMMA BalancesAgree ==
  ASSUME IInv
  PROVE  BalanceMismatch(Database) = {a \in Accounts : OpeningBalance[a] # 0}
<1>1. ASSUME NEW a \in Accounts
      PROVE  balance[a] # LedgerSum(Database, a) <=> OpeningBalance[a] # 0
  <2>1. PICK b, o, l : b = balance[a] /\ o = OpeningBalance[a] /\ l = LedgerSum(Database, a)
    BY Zenon
  <2>2. b = o + l /\ b \in Int /\ o \in Int /\ l \in Int
    BY Zenon, <2>1, BalanceExplained
  <2>3. b # l <=> o # 0
    BY ONLY <2>2
  <2> QED
    BY Zenon, <2>1, <2>3
<1> QED
  BY Zenon, <1>1, DatabaseRows DEF BalanceMismatch

(* Every alarm has its explanation *)
LEMMA ReconciledIsExplained ==
  ASSUME ReconciledInv PROVE AlarmsAreExplained
<1>1. CommittedInv /\ IInv
  BY Zenon DEF ReconciledInv, CommittedInv, SerialInv
<1>2. ASSUME NEW d \in Calls, idem[d] # None, idem[d].status = "COMPLETED"
      PROVE  EventsWithKey(Database, idem[d].key) = {} <=> idem[d].result.duplicated
  <2>1. EventsWithKey(Database, idem[d].key) = {c \in {d} : events[c] # None}
    BY Zenon, <1>1, <1>2, EventOfRecord, DatabaseRows
  <2>2. idem[d].result.duplicated <=> events[d] = None
    BY Zenon, <1>2 DEF ReconciledInv, MarkedDuplicate
  <2> QED
    BY Zenon, <2>1, <2>2
<1>3. CompletedWithoutEvent(Database) =
        {d \in Calls : /\ idem[d] # None /\ idem[d].status = "COMPLETED"
                       /\ idem[d].result.duplicated}
  BY Zenon, <1>2, DatabaseRows DEF CompletedWithoutEvent
<1> QED
  BY Zenon, <1>1, <1>3, TablesAgree, BalancesAgree DEF AlarmsAreExplained

-----------------------------------------------------------------------------
(* What is proposed for a stuck record *)

(* A stuck record is the only change *)
LEMMA StuckRows ==
  ASSUME NEW d
  PROVE  /\ RecordStuck(d).events = events /\ RecordStuck(d).ledger = ledger
         /\ RecordStuck(d).balance = balance
         /\ RecordStuck(d).idem = [idem EXCEPT ![d].status = "PROCESSING"]
BY Zenon, DatabaseRows DEF RecordStuck, Database

(* Rows depend on the ledger only *)
LEMMA SameLedgerRows ==
  ASSUME NEW db, db.ledger = ledger
  PROVE  Rows(db) = Rows(Database) /\ \A d : RowsOf(db, d) = RowsOf(Database, d)
<1>1. Rows(db) = Rows(Database)
  <2>1. ASSUME NEW r \in Rows(db) PROVE r \in Rows(Database)
    <3>1. r = <<r[1], r[2]>> /\ r[1] \in Accounts /\ r[2] \in DOMAIN Database.ledger[r[1]]
      BY Zenon, RowParts, DatabaseRows
    <3>2. <<r[1], r[2]>> \in Rows(Database)
      BY Zenon, <3>1, RowAt
    <3> QED
      BY Zenon, <3>1, <3>2
  <2>2. ASSUME NEW r \in Rows(Database) PROVE r \in Rows(db)
    <3>1. r = <<r[1], r[2]>> /\ r[1] \in Accounts /\ r[2] \in DOMAIN db.ledger[r[1]]
      BY Zenon, RowParts, DatabaseRows
    <3>2. <<r[1], r[2]>> \in Rows(db)
      BY Zenon, <3>1, RowAt
    <3> QED
      BY Zenon, <3>1, <3>2
  <2> QED
    BY Zenon, <2>1, <2>2
<1>2. \A r : EventOf(db, r) = EventOf(Database, r)
  BY Zenon, DatabaseRows DEF EventOf
<1> QED
  BY Zenon, <1>1, <1>2 DEF RowsOf

(* The proposal is right for any committed state *)
LEMMA ProposalsFit ==
  ASSUME CommittedInv PROVE ProposalFitsTheLedger
<1>1. ASSUME NEW d \in Calls, idem[d] # None
      PROVE  ProposedStaleAction(RecordStuck(d), d) = "MARK_COMPLETED"
               <=> RowsOf(Database, d) # {}
  <2>1. PICK db : db = RecordStuck(d)
    BY Zenon
  <2>2. db.events = events /\ db.ledger = ledger /\ db.idem[d].key = idem[d].key
    <3>1. idem \in [Calls -> IdempotencyRecord \cup {None}]
      BY Zenon DEF CommittedInv, SerialInv, IInv, TypeOK
    <3>2. db.idem[d] = [idem[d] EXCEPT !.status = "PROCESSING"]
      BY Zenon, <2>1, <3>1, StuckRows
    <3>3. idem[d] \in IdempotencyRecord
      BY Zenon, <1>1, <3>1
    <3>4. db.idem[d].key = idem[d].key
      BY Zenon, <3>2, <3>3 DEF IdempotencyRecord
    <3> QED
      BY Zenon, <2>1, <3>4, StuckRows
  <2>3. EventsWithKey(db, db.idem[d].key) = {c \in {d} : events[c] # None}
    BY Zenon, <1>1, <2>2, EventOfRecord
  <2>4. RowsOf(db, d) = RowsOf(Database, d)
    BY Zenon, <2>2, SameLedgerRows
  <2>5. RowsOf(Database, d) # {} => events[d] # None
    BY Zenon, RowsOfEvent DEF CommittedInv, SerialInv
  <2>6. (\E e \in EventsWithKey(db, db.idem[d].key) : RowsOf(db, e) # {})
          <=> RowsOf(Database, d) # {}
    BY Zenon, <2>3, <2>4, <2>5
  <2> QED
    BY Zenon, <2>1, <2>6 DEF ProposedStaleAction
<1> QED
  BY Zenon, <1>1 DEF ProposalFitsTheLedger

-----------------------------------------------------------------------------
(* The plan of a run *)

(* a plan has the item *)
Has(plan, x) == \E i \in DOMAIN plan : plan[i] = x

(* What is in a part of a plan is in the plan *)
LEMMA Joined ==
  ASSUME NEW S, NEW s \in Seq(S), NEW t \in Seq(S)
  PROVE  s \o t \in Seq(S) /\ \A x : Has(s, x) \/ Has(t, x) => Has(s \o t, x)
<1>1. ASSUME NEW i \in DOMAIN s PROVE i \in DOMAIN (s \o t) /\ (s \o t)[i] = s[i]
  OBVIOUS
<1>2. ASSUME NEW i \in DOMAIN t
      PROVE  Len(s) + i \in DOMAIN (s \o t) /\ (s \o t)[Len(s) + i] = t[i]
  OBVIOUS
<1>3. s \o t \in Seq(S)
  OBVIOUS
<1> QED
  BY Zenon, <1>1, <1>2, <1>3 DEF Has

Issues ==
  {"duplicate_ledger", "account_balance_mismatch",
   "completed_idempotency_without_transaction_event",
   "transaction_event_without_ledger", "ledger_without_transaction_event"}

IssueKey(issue) == <<"ph5:reconcile", issue>>

PlanItem ==
  {CaseItem(IssueKey(issue)) : issue \in Issues}
    \cup {QuarantineItem(<<"GLOBAL_WRITE", issue>>, IssueKey(issue)) : issue \in Issues}

(* One case of the counts *)
LEMMA CountCaseHas ==
  ASSUME NEW found, NEW issue \in Issues, NEW quarantine_global \in BOOLEAN
  PROVE  /\ CountCase(found, issue, quarantine_global) \in Seq(PlanItem)
         /\ issue \in found =>
              Has(CountCase(found, issue, quarantine_global), CaseItem(IssueKey(issue)))
         /\ issue \in found /\ quarantine_global =>
              Has(CountCase(found, issue, quarantine_global),
                  QuarantineItem(<<"GLOBAL_WRITE", issue>>, IssueKey(issue)))
<1>1. PICK x, y : /\ x = CaseItem(IssueKey(issue))
                  /\ y = QuarantineItem(<<"GLOBAL_WRITE", issue>>, IssueKey(issue))
  BY Zenon
<1>2. x \in PlanItem /\ y \in PlanItem
  BY Zenon, <1>1 DEF PlanItem
<1>3. CountCase(found, issue, quarantine_global) =
        IF issue \notin found THEN <<>> ELSE IF quarantine_global THEN <<x, y>> ELSE <<x>>
  BY Zenon, <1>1 DEF CountCase, IssueKey
<1>4. /\ <<>> \in Seq(PlanItem) /\ <<x>> \in Seq(PlanItem) /\ <<x, y>> \in Seq(PlanItem)
      /\ 1 \in DOMAIN <<x>> /\ <<x>>[1] = x
      /\ 1 \in DOMAIN <<x, y>> /\ <<x, y>>[1] = x
      /\ 2 \in DOMAIN <<x, y>> /\ <<x, y>>[2] = y
  BY ONLY <1>2
<1>5. Has(<<x>>, x) /\ Has(<<x, y>>, x) /\ Has(<<x, y>>, y)
  BY Zenon, <1>4 DEF Has
<1> QED
  BY Zenon, <1>1, <1>3, <1>4, <1>5

(* Every issue that is found gets its case, and all but one of the issues a  *)
(* quarantine                                                                *)
LEMMA PlanHas ==
  ASSUME NEW found
  PROVE  /\ ReconciliationPlan(found) \in Seq(PlanItem)
         /\ \A issue \in Issues \cap found :
              /\ Has(ReconciliationPlan(found), CaseItem(IssueKey(issue)))
              /\ issue # "completed_idempotency_without_transaction_event" =>
                   Has(ReconciliationPlan(found),
                       QuarantineItem(<<"GLOBAL_WRITE", issue>>, IssueKey(issue)))
<1>1. PICK c1, c2, c3, c4, c5 :
        /\ c1 = CountCase(found, "duplicate_ledger", TRUE)
        /\ c2 = CountCase(found, "account_balance_mismatch", TRUE)
        /\ c3 = CountCase(found, "completed_idempotency_without_transaction_event", FALSE)
        /\ c4 = CountCase(found, "transaction_event_without_ledger", TRUE)
        /\ c5 = CountCase(found, "ledger_without_transaction_event", TRUE)
  BY Zenon
<1>2. /\ "duplicate_ledger" \in Issues /\ "account_balance_mismatch" \in Issues
      /\ "completed_idempotency_without_transaction_event" \in Issues
      /\ "transaction_event_without_ledger" \in Issues
      /\ "ledger_without_transaction_event" \in Issues
      /\ TRUE \in BOOLEAN /\ FALSE \in BOOLEAN
  BY Zenon DEF Issues
<1>3. /\ c1 \in Seq(PlanItem) /\ c2 \in Seq(PlanItem) /\ c3 \in Seq(PlanItem)
      /\ c4 \in Seq(PlanItem) /\ c5 \in Seq(PlanItem)
  BY Zenon, <1>1, <1>2, CountCaseHas
<1>4. ReconciliationPlan(found) = (((c1 \o c2) \o c3) \o c4) \o c5
  BY Zenon, <1>1 DEF ReconciliationPlan
<1>5. c1 \o c2 \in Seq(PlanItem) /\ \A x : Has(c1, x) \/ Has(c2, x) => Has(c1 \o c2, x)
  BY Zenon, <1>3, Joined
<1>6. PICK c12 : c12 = c1 \o c2
  BY Zenon
<1>7. c12 \o c3 \in Seq(PlanItem) /\ \A x : Has(c12, x) \/ Has(c3, x) => Has(c12 \o c3, x)
  BY Zenon, <1>3, <1>5, <1>6, Joined
<1>8. PICK c123 : c123 = c12 \o c3
  BY Zenon
<1>9. c123 \o c4 \in Seq(PlanItem) /\ \A x : Has(c123, x) \/ Has(c4, x) => Has(c123 \o c4, x)
  BY Zenon, <1>3, <1>7, <1>8, Joined
<1>10. PICK c1234 : c1234 = c123 \o c4
  BY Zenon
<1>11. /\ c1234 \o c5 \in Seq(PlanItem)
       /\ \A x : Has(c1234, x) \/ Has(c5, x) => Has(c1234 \o c5, x)
  BY Zenon, <1>3, <1>9, <1>10, Joined
<1>12. PICK plan : plan = ReconciliationPlan(found)
  BY Zenon
<1>13. plan = c1234 \o c5
  BY Zenon, <1>4, <1>6, <1>8, <1>10, <1>12
<1>14. plan \in Seq(PlanItem)
  BY Zenon, <1>11, <1>13
<1>15. \A x : Has(c1, x) \/ Has(c2, x) \/ Has(c3, x) \/ Has(c4, x) \/ Has(c5, x)
         => Has(plan, x)
  BY Zenon, <1>5, <1>6, <1>7, <1>8, <1>9, <1>10, <1>11, <1>13
<1>16. ASSUME NEW issue \in Issues \cap found
       PROVE  /\ Has(plan, CaseItem(IssueKey(issue)))
              /\ issue # "completed_idempotency_without_transaction_event" =>
                   Has(plan, QuarantineItem(<<"GLOBAL_WRITE", issue>>, IssueKey(issue)))
  <2>1. CASE issue = "completed_idempotency_without_transaction_event"
    <3>1. Has(c3, CaseItem(IssueKey(issue)))
      BY Zenon, <1>1, <1>2, <2>1, CountCaseHas
    <3> QED
      BY Zenon, <1>15, <2>1, <3>1
  <2>2. CASE issue # "completed_idempotency_without_transaction_event"
    <3>1. /\ issue = "duplicate_ledger" \/ issue = "account_balance_mismatch"
             \/ issue = "transaction_event_without_ledger"
             \/ issue = "ledger_without_transaction_event"
      BY Zenon, <2>2 DEF Issues
    <3>2. PICK c : /\ c = CountCase(found, issue, TRUE)
                   /\ c = c1 \/ c = c2 \/ c = c4 \/ c = c5
      BY Zenon, <1>1, <3>1
    <3>3. /\ Has(c, CaseItem(IssueKey(issue)))
          /\ Has(c, QuarantineItem(<<"GLOBAL_WRITE", issue>>, IssueKey(issue)))
      BY Zenon, <1>2, <3>2, CountCaseHas
    <3> QED
      BY Zenon, <1>15, <3>2, <3>3
  <2> QED
    BY Zenon, <2>1, <2>2
<1> QED
  BY Zenon, <1>12, <1>14, <1>16

(* A stale record has its case *)
LEMMA StalePlanHas ==
  ASSUME NEW d PROVE CaseItem(<<"ph5:stale", d>>) \in Range(StalePlan(<<d>>))
<1>1. 1 \in DOMAIN <<d>> /\ <<d>>[1] = d
  OBVIOUS
<1>2. /\ 1 \in DOMAIN StalePlan(<<d>>)
      /\ StalePlan(<<d>>)[1] = CaseItem(<<"ph5:stale", d>>)
  BY Zenon, <1>1 DEF StalePlan
<1> QED
  BY Zenon, <1>2 DEF Range

-----------------------------------------------------------------------------
(* A damaged row is reported *)

(* An issue is found when it is counted *)
LEMMA FoundIssues ==
  ASSUME NEW db
  PROVE  /\ DuplicateLedger(db) # {} => "duplicate_ledger" \in Found(db)
         /\ BalanceMismatch(db) # {} => "account_balance_mismatch" \in Found(db)
         /\ EventWithoutLedger(db) # {} => "transaction_event_without_ledger" \in Found(db)
         /\ LedgerWithoutEvent(db) # {} => "ledger_without_transaction_event" \in Found(db)
BY Zenon DEF Found

(* What is found opens a case and contains it *)
LEMMA FoundIsReported ==
  ASSUME NEW db, NEW issue \in Issues, issue \in Found(db),
         issue # "completed_idempotency_without_transaction_event"
  PROVE  OpensAndContains(db, issue)
<1>1. /\ Has(ReconciliationPlan(Found(db)), CaseItem(IssueKey(issue)))
      /\ Has(ReconciliationPlan(Found(db)),
             QuarantineItem(<<"GLOBAL_WRITE", issue>>, IssueKey(issue)))
  BY Zenon, PlanHas
<1>2. \A x : Has(ReconciliationPlan(Found(db)), x) => x \in RunPlan(db)
  <2>1. PICK plan : plan = ReconciliationPlan(Found(db))
    BY Zenon
  <2>2. RunPlan(db) = StaleCases(db) \cup Range(plan)
    BY Zenon, <2>1 DEF RunPlan
  <2>3. \A x : Has(plan, x) => x \in Range(plan)
    BY Zenon DEF Has, Range
  <2> QED
    BY Zenon, <2>1, <2>2, <2>3
<1> QED
  BY Zenon, <1>1, <1>2 DEF OpensAndContains, IssueKey

(* The issues *)
LEMMA ContainedIssues ==
  /\ "duplicate_ledger" \in Issues /\ "account_balance_mismatch" \in Issues
  /\ "transaction_event_without_ledger" \in Issues
  /\ "ledger_without_transaction_event" \in Issues
BY Zenon DEF Issues

(* The part of a sequence between two places *)
LEMMA PartOf ==
  ASSUME NEW S, NEW s \in Seq(S), NEW m \in 1 .. Len(s) + 1, NEW n \in 0 .. Len(s), m <= n + 1
  PROVE  /\ SubSeq(s, m, n) \in Seq(S) /\ Len(SubSeq(s, m, n)) = n + 1 - m
         /\ \A k \in 1 .. n + 1 - m : SubSeq(s, m, n)[k] = s[m + k - 1]
OBVIOUS

(* One sequence after another *)
LEMMA Concatenated ==
  ASSUME NEW S, NEW t \in Seq(S), NEW u \in Seq(S)
  PROVE  /\ DOMAIN (t \o u) = 1 .. Len(t) + Len(u)
         /\ \A k \in 1 .. Len(t) : (t \o u)[k] = t[k]
         /\ \A k \in Len(t) + 1 .. Len(t) + Len(u) : (t \o u)[k] = u[k - Len(t)]
OBVIOUS

(* What is left of a sequence without one of its items *)
LEMMA Remaining ==
  ASSUME NEW s \in Seq(LedgerEntry)
  PROVE  \A i \in DOMAIN s : \A j \in DOMAIN WithoutItem(s, i) :
           \E k \in DOMAIN s : k # i /\ WithoutItem(s, i)[j] = s[k]
<1> SUFFICES ASSUME NEW i, NEW j, i \in DOMAIN s, j \in DOMAIN WithoutItem(s, i)
             PROVE  \E k \in DOMAIN s : k # i /\ WithoutItem(s, i)[j] = s[k]
  BY Zenon
<1>1. PICK t, u : t = SubSeq(s, 1, i - 1) /\ u = SubSeq(s, i + 1, Len(s))
  BY Zenon
<1>2. /\ i \in 1 .. Len(s) /\ Len(s) \in Nat /\ DOMAIN s = 1 .. Len(s)
      /\ 1 \in 1 .. Len(s) + 1 /\ i - 1 \in 0 .. Len(s) /\ 1 <= (i - 1) + 1
      /\ i + 1 \in 1 .. Len(s) + 1 /\ Len(s) \in 0 .. Len(s) /\ i + 1 <= Len(s) + 1
  OBVIOUS
<1>3. /\ t \in Seq(LedgerEntry) /\ Len(t) = (i - 1) + 1 - 1
      /\ \A k \in 1 .. (i - 1) + 1 - 1 : t[k] = s[1 + k - 1]
  BY Zenon, <1>1, <1>2, PartOf
<1>4. /\ u \in Seq(LedgerEntry) /\ Len(u) = Len(s) + 1 - (i + 1)
      /\ \A k \in 1 .. Len(s) + 1 - (i + 1) : u[k] = s[(i + 1) + k - 1]
  BY Zenon, <1>1, <1>2, PartOf
<1>5. WithoutItem(s, i) = t \o u
  BY Zenon, <1>1 DEF WithoutItem
<1>6. /\ DOMAIN (t \o u) = 1 .. Len(t) + Len(u)
      /\ \A k \in 1 .. Len(t) : (t \o u)[k] = t[k]
      /\ \A k \in Len(t) + 1 .. Len(t) + Len(u) : (t \o u)[k] = u[k - Len(t)]
  BY Zenon, <1>3, <1>4, Concatenated
<1>7. j \in 1 .. Len(t) + Len(u)
  BY Zenon, <1>5, <1>6
<1>8. CASE j \in 1 .. Len(t)
  <2>1. /\ j \in 1 .. (i - 1) + 1 - 1 /\ j \in DOMAIN s /\ j # i /\ 1 + j - 1 = j
    BY ONLY <1>2, <1>3, <1>8
  <2>2. WithoutItem(s, i)[j] = s[j]
    BY Zenon, <1>3, <1>5, <1>6, <1>8, <2>1
  <2> QED
    BY Zenon, <2>1, <2>2
<1>9. CASE j \notin 1 .. Len(t)
  <2>1. PICK k : k = j - Len(t)
    BY Zenon
  <2>2. /\ j \in Len(t) + 1 .. Len(t) + Len(u) /\ k \in 1 .. Len(s) + 1 - (i + 1)
        /\ (i + 1) + k - 1 \in DOMAIN s /\ (i + 1) + k - 1 # i
    <3>1. PICK n, p, q : n = Len(s) /\ p = Len(t) /\ q = Len(u)
      BY Zenon
    <3>2. n \in Nat /\ i \in 1 .. n /\ p = (i - 1) + 1 - 1 /\ q = n + 1 - (i + 1)
      BY Zenon, <1>2, <1>3, <1>4, <3>1
    <3>3. j \in 1 .. p + q /\ j \notin 1 .. p /\ k = j - p
      BY Zenon, <1>7, <1>9, <2>1, <3>1
    <3>4. n \in Int /\ i \in Int /\ 1 <= i /\ i <= n
      BY ONLY <3>2
    <3>5. p = i - 1 /\ q = n - i /\ p \in Int /\ q \in Int
      BY ONLY <3>2, <3>4
    <3>6. j \in Int /\ p + 1 <= j /\ j <= p + q
      BY ONLY <3>3, <3>4, <3>5
    <3>7. k \in Int /\ 1 <= k /\ k <= n - i /\ j \in p + 1 .. p + q
      <4>1. k = j - p
        BY Zenon, <3>3
      <4> QED
        BY ONLY <3>4, <3>5, <3>6, <4>1
    <3>8. k \in 1 .. n + 1 - (i + 1) /\ (i + 1) + k - 1 \in 1 .. n /\ (i + 1) + k - 1 # i
      BY ONLY <3>4, <3>7
    <3> QED
      BY Zenon, <1>2, <3>1, <3>7, <3>8
  <2>3. WithoutItem(s, i)[j] = s[(i + 1) + k - 1]
    BY Zenon, <1>4, <1>5, <1>6, <2>1, <2>2
  <2> QED
    BY Zenon, <2>2, <2>3
<1> QED
  BY Zenon, <1>8, <1>9

(* A lost entry: its event has none left *)
LEMMA LostEntryIsReported ==
  ASSUME CommittedInv, NEW r \in Rows(Database)
  PROVE  OpensAndContains(EntryLost(r), "transaction_event_without_ledger")
<1>1. IInv /\ ledger \in [Accounts -> Seq(LedgerEntry)]
  BY Zenon DEF CommittedInv, SerialInv, IInv, TypeOK
<1>2. PICK db, a, i, e : /\ db = EntryLost(r) /\ a = r[1] /\ i = r[2]
                         /\ e = EventOf(Database, r)
  BY Zenon
<1>3. /\ db.idem = idem /\ db.events = events
      /\ db.ledger = [ledger EXCEPT ![a] = WithoutItem(ledger[a], i)]
  BY Zenon, <1>2, DatabaseRows DEF EntryLost, Database
<1>4. /\ a \in Accounts /\ i \in DOMAIN ledger[a] /\ ledger[a][i].event = e /\ e \in Calls
      /\ events[e] # None /\ r = <<a, i>>
      /\ \A q \in Rows(Database) : EventOf(Database, q) = e => q = r
  BY Zenon, <1>1, <1>2, CommittedRow DEF Entries
<1>5. \A j \in DOMAIN ledger[a] : ledger[a][j].event = ledger[a][i].event => j = i
  BY Zenon, <1>1, <1>4 DEF IInv, LedgerOfEvents, Entries
<1>6. ASSUME NEW q \in Rows(db) PROVE EventOf(db, q) # e
  <2>1. q = <<q[1], q[2]>> /\ q[1] \in Accounts /\ q[2] \in DOMAIN db.ledger[q[1]]
    BY Zenon, RowParts
  <2>2. CASE q[1] = a
    <3>1. db.ledger[a] = WithoutItem(ledger[a], i)
      BY Zenon, <1>1, <1>3, <1>4
    <3>2. q[2] \in DOMAIN WithoutItem(ledger[a], i) /\ ledger[a] \in Seq(LedgerEntry)
      BY Zenon, <1>1, <1>4, <2>1, <2>2, <3>1
    <3>3. PICK k \in DOMAIN ledger[a] : k # i /\ WithoutItem(ledger[a], i)[q[2]] = ledger[a][k]
      <4>1. PICK l, j : l = ledger[a] /\ j = q[2]
        BY Zenon
      <4>2. l \in Seq(LedgerEntry) /\ i \in DOMAIN l /\ j \in DOMAIN WithoutItem(l, i)
        BY Zenon, <1>4, <3>2, <4>1
      <4>3. \E k \in DOMAIN l : k # i /\ WithoutItem(l, i)[j] = l[k]
        BY Zenon, <4>2, Remaining
      <4> QED
        BY Zenon, <4>1, <4>3
    <3>4. WithoutItem(ledger[a], i)[q[2]].event # e
      BY Zenon, <1>4, <1>5, <3>3
    <3> QED
      BY Zenon, <2>2, <3>1, <3>4 DEF EventOf
  <2>3. CASE q[1] # a
    <3>1. db.ledger[q[1]] = ledger[q[1]]
      BY Zenon, <1>1, <1>3, <2>1, <2>3
    <3>2. q \in Rows(Database) /\ EventOf(Database, q) = EventOf(db, q)
      BY Zenon, <2>1, <3>1, RowAt, DatabaseRows DEF EventOf
    <3>3. q # r
      BY Zenon, <1>2, <2>3
    <3> QED
      BY Zenon, <1>4, <3>2, <3>3
  <2> QED
    BY Zenon, <2>2, <2>3
<1>7. RowsOf(db, e) = {}
  BY Zenon, <1>6 DEF RowsOf
<1>8. events[e].status \in {"COMPLETED", "CANCELLED"}
  <2>1. RowsOf(Database, e) # {}
    BY Zenon, <1>2 DEF RowsOf
  <2>2. EntriesOf(e) # {}
    BY Zenon, <1>1, <1>4, <2>1, RowsOfEvent
  <2> QED
    BY Zenon, <1>4, <2>2 DEF CommittedInv, AtomicOutcome
<1>9. e \in EventWithoutLedger(db)
  BY Zenon, <1>3, <1>4, <1>7, <1>8 DEF EventWithoutLedger
<1>10. "transaction_event_without_ledger" \in Found(db)
  BY Zenon, <1>9, FoundIssues
<1> QED
  BY Zenon, <1>2, <1>3, <1>10, FoundIsReported, ContainedIssues

(* A sequence with an item added at its end *)
LEMMA Appended ==
  ASSUME NEW s \in Seq(LedgerEntry), NEW x \in LedgerEntry
  PROVE  /\ DOMAIN Append(s, x) = DOMAIN s \cup {Len(s) + 1} /\ Len(s) + 1 \notin DOMAIN s
         /\ Append(s, x)[Len(s) + 1] = x
         /\ \A k \in DOMAIN s : Append(s, x)[k] = s[k]
OBVIOUS

(* A doubled entry: its event has two *)
LEMMA DoubledEntryIsReported ==
  ASSUME CommittedInv, NEW r \in Rows(Database)
  PROVE  OpensAndContains(EntryDoubled(r), "duplicate_ledger")
<1>1. IInv /\ ledger \in [Accounts -> Seq(LedgerEntry)]
  BY Zenon DEF CommittedInv, SerialInv, IInv, TypeOK
<1>2. PICK db, a, i, e, l, n : /\ db = EntryDoubled(r) /\ a = r[1] /\ i = r[2]
                               /\ e = EventOf(Database, r)
                               /\ l = Append(ledger[a], ledger[a][i]) /\ n = Len(ledger[a]) + 1
  BY Zenon
<1>3. db.idem = idem /\ db.ledger = [ledger EXCEPT ![a] = l]
  BY Zenon, <1>2, DatabaseRows DEF EntryDoubled, Database
<1>4. /\ a \in Accounts /\ i \in DOMAIN ledger[a] /\ ledger[a][i].event = e /\ e \in Calls
      /\ r = <<a, i>>
      /\ \A q \in Rows(Database) : EventOf(Database, q) = e => q = r
  BY Zenon, <1>1, <1>2, CommittedRow DEF Entries
<1>5. ledger[a] \in Seq(LedgerEntry) /\ ledger[a][i] \in LedgerEntry
  <2>1. ledger[a] \in Seq(LedgerEntry)
    BY Zenon, <1>1, <1>4
  <2>2. \A s \in Seq(LedgerEntry) : \A j \in DOMAIN s : s[j] \in LedgerEntry
    OBVIOUS
  <2> QED
    BY Zenon, <1>4, <2>1, <2>2
<1>6. /\ DOMAIN l = DOMAIN ledger[a] \cup {n} /\ n \notin DOMAIN ledger[a]
      /\ l[n] = ledger[a][i] /\ \A k \in DOMAIN ledger[a] : l[k] = ledger[a][k]
  <2>1. PICK s, x : s = ledger[a] /\ x = ledger[a][i]
    BY Zenon
  <2>2. s \in Seq(LedgerEntry) /\ x \in LedgerEntry /\ l = Append(s, x) /\ n = Len(s) + 1
    BY Zenon, <1>2, <1>5, <2>1
  <2>3. /\ DOMAIN Append(s, x) = DOMAIN s \cup {Len(s) + 1} /\ Len(s) + 1 \notin DOMAIN s
        /\ Append(s, x)[Len(s) + 1] = x
        /\ \A k \in DOMAIN s : Append(s, x)[k] = s[k]
    BY Zenon, <2>2, Appended
  <2> QED
    BY Zenon, <2>1, <2>2, <2>3
<1>7. db.ledger[a] = l
  BY Zenon, <1>1, <1>3, <1>4
<1>8. /\ r \in Rows(db) /\ EventOf(db, r) = e
      /\ <<a, n>> \in Rows(db) /\ EventOf(db, <<a, n>>) = e
  <2>1. i \in DOMAIN db.ledger[a] /\ n \in DOMAIN db.ledger[a]
    BY Zenon, <1>4, <1>6, <1>7
  <2>2. db.ledger[a][i].event = e /\ db.ledger[a][n].event = e
    BY Zenon, <1>4, <1>6, <1>7
  <2> QED
    BY Zenon, <1>4, <2>1, <2>2, RowAt
<1>9. r # <<a, n>>
  <2>1. i # n
    BY Zenon, <1>4, <1>6
  <2>2. \A x, y, z : y # z => <<x, y>> # <<x, z>>
    BY ONLY TRUE
  <2> QED
    BY Zenon, <1>4, <2>1, <2>2
<1>10. e \in DuplicateLedger(db)
  BY Zenon, <1>4, <1>8, <1>9 DEF DuplicateLedger, RowsOf
<1>11. "duplicate_ledger" \in Found(db)
  BY Zenon, <1>10, FoundIssues
<1> QED
  BY Zenon, <1>2, <1>11, FoundIsReported, ContainedIssues

(* A lost event: its entry has none *)
LEMMA LostEventIsReported ==
  ASSUME CommittedInv, NEW r \in Rows(Database)
  PROVE  OpensAndContains(EventLost(r), "ledger_without_transaction_event")
<1>1. IInv /\ events \in [Calls -> EventRow \cup {None}]
  BY Zenon DEF CommittedInv, SerialInv, IInv, TypeOK
<1>2. PICK db, e : db = EventLost(r) /\ e = EventOf(Database, r)
  BY Zenon
<1>3. db.idem = idem /\ db.ledger = ledger /\ db.events = [events EXCEPT ![e] = None]
  BY Zenon, <1>2, DatabaseRows DEF EventLost, Database
<1>4. e \in Calls
  BY Zenon, <1>1, <1>2, CommittedRow
<1>5. r \in Rows(db)
  BY Zenon, <1>3, SameLedgerRows
<1>6. EventOf(db, r) = e
  BY Zenon, <1>2, <1>3, DatabaseRows DEF EventOf
<1>7. db.events[e] = None
  BY Zenon, <1>1, <1>3, <1>4
<1>8. r \in LedgerWithoutEvent(db)
  BY Zenon, <1>5, <1>6, <1>7 DEF LedgerWithoutEvent
<1>9. "ledger_without_transaction_event" \in Found(db)
  BY Zenon, <1>8, FoundIssues
<1> QED
  BY Zenon, <1>2, <1>3, <1>9, FoundIsReported, ContainedIssues

(* An altered balance: its ledger no longer adds up to it *)
LEMMA AlteredBalanceIsReported ==
  ASSUME CommittedInv, NEW a \in Accounts, OpeningBalance[a] = 0
  PROVE  OpensAndContains(BalanceAltered(a), "account_balance_mismatch")
<1>1. IInv /\ balance \in [Accounts -> Int]
  BY Zenon DEF CommittedInv, SerialInv, IInv, TypeOK
<1>2. PICK db : db = BalanceAltered(a)
  BY Zenon
<1>3. /\ db.idem = idem /\ db.ledger = ledger
      /\ db.balance = [balance EXCEPT ![a] = balance[a] + 1]
  BY Zenon, <1>2, DatabaseRows DEF BalanceAltered, Database
<1>4. db.balance[a] = balance[a] + 1
  BY Zenon, <1>1, <1>3
<1>5. LedgerSum(db, a) = LedgerSum(Database, a)
  BY Zenon, <1>3, DatabaseRows DEF LedgerSum
<1>6. balance[a] # balance[a] + 1 /\ balance[a] = LedgerSum(Database, a)
  <2>1. PICK b, o, s : b = balance[a] /\ o = OpeningBalance[a] /\ s = LedgerSum(Database, a)
    BY Zenon
  <2>2. b = o + s /\ s \in Int /\ b \in Int /\ o = 0
    BY Zenon, <1>1, <2>1, BalanceExplained
  <2>3. b # b + 1 /\ b = s
    BY ONLY <2>2
  <2> QED
    BY Zenon, <2>1, <2>3
<1>7. a \in BalanceMismatch(db)
  BY Zenon, <1>4, <1>5, <1>6 DEF BalanceMismatch
<1>8. "account_balance_mismatch" \in Found(db)
  BY Zenon, <1>7, FoundIssues
<1> QED
  BY Zenon, <1>2, <1>3, <1>8, FoundIsReported, ContainedIssues

(* A stuck record: it is the only stale one *)
LEMMA StuckRecordIsReported ==
  ASSUME CommittedInv, NEW d \in Calls, idem[d] # None
  PROVE  CaseItem(<<"ph5:stale", d>>) \in RunPlan(RecordStuck(d))
<1>1. idem \in [Calls -> IdempotencyRecord \cup {None}]
  BY Zenon DEF CommittedInv, SerialInv, IInv, TypeOK
<1>2. PICK db : db = RecordStuck(d)
  BY Zenon
<1>3. db.idem = [idem EXCEPT ![d].status = "PROCESSING"]
  BY Zenon, <1>2, StuckRows
<1>4. idem[d] \in IdempotencyRecord
  BY Zenon, <1>1
<1>5. db.idem[d] \in IdempotencyRecord /\ db.idem[d].status = "PROCESSING"
  <2>1. db.idem[d] = [idem[d] EXCEPT !.status = "PROCESSING"]
    BY Zenon, <1>1, <1>3
  <2>2. "PROCESSING" \in {"PROCESSING", "COMPLETED", "FAILED"}
    BY Zenon
  <2> QED
    BY Zenon, <1>4, <2>1, <2>2 DEF IdempotencyRecord
<1>6. \A c \in Calls : c # d => db.idem[c] = idem[c]
  BY Zenon, <1>1, <1>3
<1>7. \A c \in Calls : ~(idem[c] # None /\ idem[c].status = "PROCESSING")
  BY Zenon, TablesAgree, DatabaseRows DEF StaleProcessing
<1>8. db.idem[d] # None
  BY Zenon, <1>5, NoneAssumption
<1>9. StaleProcessing(db) = {d}
  BY Zenon, <1>5, <1>6, <1>7, <1>8 DEF StaleProcessing
<1>10. CaseItem(<<"ph5:stale", d>>) \in Range(StalePlan(<<d>>))
  BY Zenon, StalePlanHas
<1> QED
  BY Zenon, <1>2, <1>9, <1>10 DEF RunPlan, StaleCases

(* Every damage to one row is reported *)
LEMMA DamagesReported ==
  ASSUME CommittedInv PROVE DamageIsReported
BY Zenon, LostEntryIsReported, DoubledEntryIsReported, LostEventIsReported,
   AlteredBalanceIsReported, StuckRecordIsReported DEF DamageIsReported

-----------------------------------------------------------------------------
(* Only the service writes *)

(* A commit marks its record as a duplicate when it inserts no event *)
LEMMA WrittenMarked ==
  ASSUME ReconciledInv, [Next]_vars, NEW c \in Calls, pc[c] = "commit", Written(c),
         NEW d \in Calls
  PROVE  MarkedDuplicate(d)'
<1>1. /\ CommittedInv /\ IInv /\ MarkedDuplicate(d)
      /\ Refused(c) \/ Repeated(c) \/ Settled(c)
  BY Zenon DEF ReconciledInv, CommittedInv, SerialInv, OutcomeInv
<1>2. (d # c => idem'[d] = idem[d]) /\ idem'[c] = tx[c].row
  BY Zenon, <1>1, WrittenRecord
<1>3. /\ events'[c] = tx[c].event
      /\ d # c => (events'[d] = None <=> events[d] = None)
  BY Zenon, <1>1, WrittenEvents
<1>4. CASE d # c
  BY Zenon, <1>1, <1>2, <1>3, <1>4 DEF MarkedDuplicate
<1>5. CASE d = c
  <2>1. CASE Refused(c)
    <3>1. tx[c].row.status # "COMPLETED"
      BY Zenon, <2>1 DEF Refused
    <3> QED
      BY Zenon, <1>2, <1>5, <3>1 DEF MarkedDuplicate
  <2>2. CASE Repeated(c)
    <3>1. PICK e, x : tx[c].row.result = Success(e, x, TRUE)
      BY Zenon, <2>2 DEF Repeated
    <3>2. tx[c].row.result.duplicated
      <4>1. Success(e, x, TRUE).duplicated
        BY Zenon DEF Success
      <4> QED
        BY Zenon, <3>1, <4>1
    <3>3. tx[c].event = None
      BY Zenon, <2>2 DEF Repeated
    <3> QED
      BY Zenon, <1>2, <1>3, <1>5, <3>2, <3>3 DEF MarkedDuplicate
  <2>3. CASE Settled(c)
    <3>1. tx[c].event # None
      BY Zenon, <1>1, <2>3, CommitFacts DEF Settled
    <3>2. tx[c].row.result = Success(c, tx[c].entry.after, FALSE)
      BY Zenon, <2>3 DEF Settled
    <3>3. ~tx[c].row.result.duplicated
      <4>1. ~Success(c, tx[c].entry.after, FALSE).duplicated
        BY Zenon DEF Success
      <4> QED
        BY Zenon, <3>2, <4>1
    <3> QED
      BY Zenon, <1>2, <1>3, <1>5, <3>1, <3>3 DEF MarkedDuplicate
  <2> QED
    BY Zenon, <1>1, <2>1, <2>2, <2>3
<1> QED
  BY Zenon, <1>4, <1>5

(* The records and the events stay in agreement *)
LEMMA NextReconciled ==
  ASSUME ReconciledInv, [Next]_vars
  PROVE  ReconciledInv'
<1>1. CommittedInv'
  BY Zenon, NextCommitted DEF ReconciledInv
<1>2. CASE UNCHANGED dbVars
  <2>1. idem' = idem /\ events' = events
    BY Zenon, <1>2 DEF dbVars
  <2>2. \A d \in Calls : MarkedDuplicate(d)'
    BY Zenon, <2>1 DEF ReconciledInv, MarkedDuplicate
  <2> QED
    BY Zenon, <1>1, <2>2 DEF ReconciledInv
<1>3. ASSUME NEW c \in Calls, pc[c] = "commit", Written(c) PROVE ReconciledInv'
  <2>1. \A d \in Calls : MarkedDuplicate(d)'
    BY Zenon, <1>3, WrittenMarked
  <2> QED
    BY Zenon, <1>1, <2>1 DEF ReconciledInv
<1> QED
  BY Zenon, <1>2, <1>3, DbStep

(* A completed record without an event of its own is one that was answered   *)
(* as a duplicate, whatever calls are under way (_process_started)           *)
THEOREM ReconciledInvariant == Spec => []ReconciledInv
<1>1. Init => ReconciledInv
  <2> SUFFICES ASSUME Init PROVE ReconciledInv
    OBVIOUS
  <2>1. CommittedInv /\ \A d \in Calls : idem[d] = None
    BY Zenon, InitCommitted DEF Init
  <2> QED
    BY Zenon, <2>1 DEF ReconciledInv, MarkedDuplicate
<1> QED
  BY <1>1, NextReconciled, PTL DEF Spec

(* As long as only the service writes, for any calls, accounts and faults,   *)
(* the counts of reconcile and detect_stale_processing are zero but for      *)
(* accounts with an opening balance and records answered as duplicates.      *)
THEOREM AlarmsAreExplainedAlways == Spec => []AlarmsAreExplained
BY ReconciledInvariant, ReconciledIsExplained, PTL

(* Any one row of the ledger, the events or the balances that is damaged, in *)
(* any reachable state, is found by the next run, which opens a case of the  *)
(* right kind and a quarantine (_create_reconciliation_cases); a stuck       *)
(* record gets its case (_create_stale_recovery_case).                       *)
THEOREM DamageIsReportedAlways == Spec => []DamageIsReported
BY CommittedInvariant, DamagesReported, PTL

(* A stale record is proposed to be completed exactly when its money has     *)
(* moved (_proposed_stale_action), for any calls, accounts and faults.       *)
THEOREM ProposalFitsTheLedgerAlways == Spec => []ProposalFitsTheLedger
BY CommittedInvariant, ProposalsFit, PTL

=============================================================================
