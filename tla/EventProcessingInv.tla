-------------------------- MODULE EventProcessingInv --------------------------
(***************************************************************************)
(* The inductive invariant behind LedgerChain and AppliedOnce: what a call  *)
(* holds and has written at each point of process, and what the constraints *)
(* and row locks keep from the others.                                      *)
(***************************************************************************)
EXTENDS EventProcessing

InTransaction == StartedLabel \cup {"commit"}

(* only a call inside its transaction carries writes or holds locks *)
OnlyInTransaction(c) ==
  /\ pc[c] # "idle" => req[c] # None
  /\ pc[c] \notin InTransaction => tx[c] = EmptyTx /\ held[c] = {}
  /\ events[c] # None \/ idem[c] # None => pc[c] \in {"release", "done", "crashed"}

(* row locks and uncommitted index entries exclude each other *)
Exclusive ==
  \A c, d \in Calls : \A r \in Resource : r \in held[c] /\ r \in held[d] => c = d

(* from the insert to the commit: the key is this call's alone *)
KeyHeld(c) ==
  pc[c] \in InTransaction =>
    /\ tx[c].row # None
    /\ tx[c].row.key = req[c].key
    /\ <<"key", req[c].key>> \in held[c]
    /\ RecordsWithKey(req[c].key) = {}
    /\ pc[c] = "commit" => tx[c].row.result # None

(* from FOR UPDATE to the commit: the balance read is the balance *)
AccountHeld(c) ==
  pc[c] \in StartedLabel \ {"lockAccount"} \/ tx[c].event # None =>
    /\ req[c].acct \in Accounts
    /\ <<"account", req[c].acct>> \in held[c]
    /\ tx[c].balance = balance[req[c].acct]

(* from the insert of the event to the commit: the external id is this call's *)
ExtIdHeld(c) ==
  /\ pc[c] = "apply" => tx[c].event # None
  /\ tx[c].event # None =>
       /\ tx[c].event.ext = req[c].ext
       /\ tx[c].event.acct = req[c].acct
       /\ <<"ext", req[c].ext>> \in held[c]
       /\ EventsWithExtId(req[c].ext) = {}

(* a CANCEL past LockOriginal has an original, which is committed *)
OriginalHeld(c) ==
  /\ pc[c] \in {"create", "apply"} /\ req[c].type = "CANCEL" =>
       tx[c].original # Nobody
  /\ pc[c] = "apply" => tx[c].event.type = req[c].type
  /\ tx[c].original # Nobody => events[tx[c].original] # None

(* the entry about to be committed continues the ledger *)
EntryReady(c) ==
  tx[c].entry # None =>
    /\ pc[c] = "commit"
    /\ tx[c].event # None
    /\ tx[c].entry.event = c
    /\ tx[c].entry.after \in 0 .. MaxBigint
    /\ tx[c].entry.after = tx[c].balance + tx[c].entry.amount

UniqueKeys ==
  \A c, d \in Calls :
    idem[c] # None /\ idem[d] # None /\ idem[c].key = idem[d].key => c = d

(* a committed record has its answer *)
StoredResults ==
  \A c \in Calls : idem[c] # None => idem[c].result # None

UniqueExtIds ==
  \A c, d \in Calls :
    events[c] # None /\ events[d] # None /\ events[c].ext = events[d].ext => c = d

(* an entry belongs to a committed event of its account, which has no other *)
LedgerOfEvents ==
  \A a \in Accounts : \A i \in Entries(a) :
    /\ events[ledger[a][i].event] # None
    /\ events[ledger[a][i].event].acct = a
    /\ \A j \in Entries(a) : ledger[a][j].event = ledger[a][i].event => j = i

CallInv(c) ==
  /\ OnlyInTransaction(c)
  /\ KeyHeld(c)
  /\ AccountHeld(c)
  /\ ExtIdHeld(c)
  /\ OriginalHeld(c)
  /\ EntryReady(c)

(* The calls' local facts, the constraints and the chain hold together: each *)
(* step of process keeps all of them, whatever the other calls do.           *)
IInv ==
  /\ TypeOK
  /\ \A c \in Calls : CallInv(c)
  /\ Exclusive
  /\ UniqueKeys
  /\ StoredResults
  /\ UniqueExtIds
  /\ LedgerOfEvents
  /\ LedgerChain

-----------------------------------------------------------------------------
(* What a call has written, for the refinement of SerialLedger: the outcome *)
(* it is about to commit is one SerialLedger allows in the committed state.  *)

(* a domain failure *)
Refused(c) ==
  /\ tx[c].row.status = "FAILED"
  /\ \E error \in DomainFailure : tx[c].row.result = Failure(error)
  /\ tx[c].entry = None
  /\ tx[c].event # None => tx[c].event.status = "FAILED"

(* an event that is in the ledger already *)
Repeated(c) ==
  /\ tx[c].row.status = "COMPLETED"
  /\ tx[c].event = None /\ tx[c].entry = None
  /\ \E d \in EventsWithExtId(req[c].ext) : \E i \in EntriesOf(d) :
       /\ events[d].acct = req[c].acct
       /\ tx[c].row.result = Success(d, ledger[events[d].acct][i].after, TRUE)

(* an entry, computed from an original that is still as it was read *)
Settled(c) ==
  /\ tx[c].row.status = "COMPLETED"
  /\ tx[c].entry # None
  /\ tx[c].row.result = Success(c, tx[c].entry.after, FALSE)
  /\ tx[c].event.status = "COMPLETED"
  /\ tx[c].event.type = req[c].type /\ tx[c].event.amount = req[c].amount
  /\ req[c].type # "CANCEL" =>
       tx[c].entry.amount = CalculateLedgerAmount(req[c].type, req[c].amount, None)
  /\ req[c].type = "CANCEL" =>
       /\ tx[c].original # Nobody
       /\ ValidateCancelOriginal(Received(req[c]), events[tx[c].original]) = "none"
       /\ tx[c].entry.amount =
            CalculateLedgerAmount("CANCEL", req[c].amount, events[tx[c].original].type)

(* past assert_not_quarantined *)
Admitted(c) ==
  pc[c] \in {"duplicate", "lockOriginal", "create", "apply"} \/ tx[c].entry # None

OutcomeInv(c) ==
  /\ pc[c] \in InTransaction => tx[c].row.hash = req[c]
  /\ pc[c] \in StartedLabel \ {"apply"} => tx[c].event = None
  /\ pc[c] = "lockOriginal" => req[c].type = "CANCEL"
  /\ pc[c] = "apply" => tx[c].event = Received(req[c])
  /\ tx[c].original # Nobody =>
       /\ req[c].type = "CANCEL"
       /\ <<"event", tx[c].original>> \in held[c]
       /\ events[tx[c].original].ext = req[c].orig
  /\ pc[c] = "commit" => Refused(c) \/ Repeated(c) \/ Settled(c)
  /\ Admitted(c) /\ req[c].acct \in quarantined => c \in grace[req[c].acct]

(* a committed event moved the money its status and type say *)
CommittedEvents ==
  \A d \in Calls : events[d] # None =>
    /\ events[d].status = "COMPLETED" => EntriesOf(d) # {}
    /\ events[d].type # "CANCEL" => \A i \in EntriesOf(d) :
         ledger[events[d].acct][i].amount =
           CalculateLedgerAmount(events[d].type, events[d].amount, None)

(* Every call is about to commit an outcome that SerialLedger allows now,    *)
(* whatever has been committed since it read what it decided from.           *)
SerialInv ==
  /\ IInv
  /\ \A c \in Calls : OutcomeInv(c)
  /\ CommittedEvents

-----------------------------------------------------------------------------
(* What is committed, and what calls are answered *)

(* a record is the answer to the request of the call that wrote it *)
RecordOf(d) ==
  idem[d] # None =>
    /\ idem[d].key = req[d].key /\ idem[d].hash = req[d]
    /\ \/ /\ idem[d].status = "COMPLETED"
          /\ idem[d].result.code = 200 /\ idem[d].result.error = "none"
       \/ /\ idem[d].status = "FAILED"
          /\ \E error \in DomainFailure : idem[d].result = Failure(error)

(* a completed CANCEL has reversed an event that is there *)
OriginalExists(c) ==
  events[c] # None /\ events[c].type = "CANCEL" /\ events[c].status = "COMPLETED"
    => EventsWithExtId(req[c].orig) # {}

CommittedInv ==
  /\ SerialInv
  /\ \A d \in Calls : RecordOf(d) /\ OriginalExists(d)
  /\ AtomicOutcome
  /\ CancelledOnce

Ended == {"release", "done", "crashed"}

(* a call tries again only when the winner's record is committed *)
Retried(c) ==
  attempt[c] = 1 =>
    /\ pc[c] \in {"check"} \cup Ended
    /\ pc[c] = "check" => RecordsWithKey(req[c].key) # {}

(* a client may act on it *)
Deciding(result) ==
  \/ result.code = 200
  \/ result.code \notin {202, 500, 503} /\ result.error # "IdempotencyConflict"

(* such an answer is the committed one of its key *)
Answered(c) ==
  /\ out[c] # None => pc[c] \in Ended
  /\ ~CacheEnabled /\ out[c] # None /\ Deciding(out[c]) =>
       \E d \in RecordsWithKey(req[c].key) :
         idem[d].hash = req[c] /\ out[c] = idem[d].result

(* Every answer a client may act on is a committed one, and the record, the  *)
(* event and the ledger it stands for are committed with it.                 *)
AnswersInv ==
  /\ CommittedInv
  /\ \A c \in Calls : Retried(c) /\ Answered(c)
  /\ \A k \in Keys : cache[k] # None => cache[k].result.error = "none"
  /\ RetrySuffices

(* A completed record without an event is one that was answered as a         *)
(* duplicate                                                                 *)
MarkedDuplicate(d) ==
  idem[d] # None /\ idem[d].status = "COMPLETED" =>
    (idem[d].result.duplicated <=> events[d] = None)

(* The records and the events agree: what the reconciliation compares *)
ReconciledInv ==
  /\ CommittedInv
  /\ \A d \in Calls : MarkedDuplicate(d)

=============================================================================
