---------------------------- MODULE RecoveryCases ----------------------------
(***************************************************************************)
(* Recovery cases and quarantine records: the operators' commands and the   *)
(* detectors that create, decide and execute cases, each in a database      *)
(* session of its own that ends in one commit.  A session reads committed   *)
(* rows without a lock, checks them, and writes later: an insert waits for  *)
(* an uncommitted row with the same unique key, an update for the session   *)
(* that holds the row.  An update writes only the columns it changes.       *)
(*                                                                         *)
(* A row is named by the session that inserted it and its key.  Times,      *)
(* reasons, severities and hashes are left out.                             *)
(***************************************************************************)
EXTENDS Naturals, Sequences

CONSTANTS
  Sessions,     \* the commands that are run, each in its session
  Plans,        \* what creating commands may have to create, in order
  CaseKeys,     \* values of recovery_cases.source_key
  Targets,      \* what may be quarantined
  DecideOps,    \* the commands on existing rows that are run: any of Op
  None

RecoveryCaseStatus ==
  {"OPEN", "AUTO_ANALYZED", "WAITING_APPROVAL", "APPROVED", "EXECUTING",
   "EXECUTED", "EXECUTION_FAILED", "REJECTED", "CLOSED"}

ALLOWED_RECOVERY_TRANSITIONS ==
  [s \in RecoveryCaseStatus |->
     CASE s = "OPEN" -> {"AUTO_ANALYZED", "WAITING_APPROVAL", "REJECTED", "CLOSED"}
       [] s = "AUTO_ANALYZED" -> {"WAITING_APPROVAL", "APPROVED", "REJECTED", "CLOSED"}
       [] s = "WAITING_APPROVAL" -> {"APPROVED", "REJECTED", "CLOSED"}
       [] s = "APPROVED" -> {"EXECUTING", "REJECTED", "CLOSED"}
       [] s = "EXECUTING" -> {"EXECUTED", "EXECUTION_FAILED"}
       [] s = "EXECUTION_FAILED" -> {"WAITING_APPROVAL", "REJECTED", "CLOSED"}
       [] s \in {"EXECUTED", "REJECTED"} -> {"CLOSED"}
       [] s = "CLOSED" -> {}]

CaseOp == {"approve", "reject", "start_execution", "mark_executed",
           "mark_execution_failed", "close"}
Op == CaseOp \cup {"release"}

(* the status a command asks for *)
Target(op) ==
  CASE op = "approve" -> "APPROVED"
    [] op = "reject" -> "REJECTED"
    [] op = "start_execution" -> "EXECUTING"
    [] op = "mark_executed" -> "EXECUTED"
    [] op = "mark_execution_failed" -> "EXECUTION_FAILED"
    [] OTHER -> "CLOSED"

(* one thing to create; a quarantine names the case it comes from, if any *)
Item == [table: {"case"}, key: CaseKeys] \cup
        [table: {"quarantine"}, target: Targets, source: CaseKeys \cup {None}]

ASSUME RecoveryAssumptions == None \notin Sessions /\ Plans \subseteq Seq(Item)

(* the value a row has in its table's unique index *)
UniqueKey(item) ==
  IF item.table = "case" THEN <<"case", item.key>> ELSE <<"quarantine", item.target>>

Before(x, y) ==
  \E plan \in Plans : \E i, j \in 1..Len(plan) :
    i < j /\ UniqueKey(plan[i]) = x /\ UniqueKey(plan[j]) = y

(* the commands agree on the order in which rows are inserted: in every set  *)
(* of keys there is one that no command inserts before another of the set    *)
ASSUME OneInsertOrder ==
  \A K \in SUBSET UNION {{UniqueKey(plan[i]) : i \in 1..Len(plan)} : plan \in Plans} :
    K # {} => \E x \in K : \A y \in K : ~Before(x, y)

(* a command that creates a case creates every quarantine that is meant to   *)
(* contain it, and one that quarantines for a case creates that case         *)
ASSUME ContainmentIsPlanned ==
  \A plan, other \in Plans : \A i \in 1..Len(plan), j \in 1..Len(other) :
    /\ plan[i].table = "case" /\ other[j].table = "quarantine"
         /\ other[j].source = plan[i].key
       => \E m \in 1..Len(plan) :
            plan[m].table = "quarantine" /\ plan[m].target = other[j].target
    /\ other[j].table = "quarantine" /\ other[j].source # None
       => \E m \in 1..Len(other) :
            other[m].table = "case" /\ other[m].key = other[j].source

RecoveryCase ==
  [by: Sessions, key: CaseKeys, status: RecoveryCaseStatus,
   approved_by: Sessions \cup {None}, action_attempt_id: Sessions \cup {None}]

QuarantineRecord ==
  [by: Sessions, target: Targets, source: CaseKeys \cup {None}, active: BOOLEAN]

Label == {"idle", "select", "insert", "flush", "commit", "done"}
Outcome == {"none", "ok", "IntegrityError", "RecoveryApprovalRequired",
            "InvalidRecoveryCaseTransition", "died"}

VARIABLES
  cases,        \* committed rows of recovery_cases
  quarantines,  \* committed rows of quarantine_records
  pc, op,       \* where each session is, and its command ("create" or an Op)
  todo,         \* what is left to create
  seen,         \* the row the command read
  newCases, newQuarantines,  \* rows inserted and not yet committed
  out

tables == <<cases, quarantines>>
vars == <<tables, pc, op, todo, seen, newCases, newQuarantines, out>>

TypeOK ==
  /\ cases \subseteq RecoveryCase
  /\ quarantines \subseteq QuarantineRecord
  /\ pc \in [Sessions -> Label]
  /\ op \in [Sessions -> Op \cup {"create"}]
  /\ todo \in [Sessions -> Seq(Item)]
  /\ seen \in [Sessions -> RecoveryCase \cup QuarantineRecord \cup {None}]
  /\ newCases \in [Sessions -> SUBSET RecoveryCase]
  /\ newQuarantines \in [Sessions -> SUBSET QuarantineRecord]
  /\ out \in [Sessions -> Outcome]

Init ==
  /\ cases = {} /\ quarantines = {}
  /\ pc = [s \in Sessions |-> "idle"]
  /\ op = [s \in Sessions |-> "create"]
  /\ todo = [s \in Sessions |-> <<>>]
  /\ seen = [s \in Sessions |-> None]
  /\ newCases = [s \in Sessions |-> {}]
  /\ newQuarantines = [s \in Sessions |-> {}]
  /\ out = [s \in Sessions |-> "none"]

Goto(s, label) == pc' = [pc EXCEPT ![s] = label]

(* the session is closed: what it has not committed is rolled back *)
Finish(s, outcome) ==
  /\ Goto(s, "done")
  /\ out' = [out EXCEPT ![s] = outcome]
  /\ newCases' = [newCases EXCEPT ![s] = {}]
  /\ newQuarantines' = [newQuarantines EXCEPT ![s] = {}]

-----------------------------------------------------------------------------
(* Creating cases and quarantine records *)

(* mutant: the findings are worked off in no fixed order *)
BeginAnyOrder(s, plan) ==
  /\ pc[s] = "idle"
  /\ Goto(s, "select")
  /\ \E p \in {plan, [i \in 1..Len(plan) |-> plan[Len(plan) + 1 - i]]} :
       todo' = [todo EXCEPT ![s] = p]
  /\ UNCHANGED <<tables, op, seen, newCases, newQuarantines, out>>

(* create-from-analysis, reconcile, detect-stale, run or quarantine *)
BeginCreate(s, plan) ==
  /\ pc[s] = "idle"
  /\ Goto(s, "select")
  /\ todo' = [todo EXCEPT ![s] = plan]
  /\ UNCHANGED <<tables, op, seen, newCases, newQuarantines, out>>

(* get_by_source_key or get_active: committed rows and the session's own *)
Exists(s, item) ==
  \/ /\ item.table = "case"
     /\ \E c \in cases \cup newCases[s] : c.key = item.key
  \/ /\ item.table = "quarantine"
     /\ \E q \in quarantines \cup newQuarantines[s] : q.active /\ q.target = item.target

(* an existing row is returned as it is, whatever its status *)
SelectExisting(s) ==
  /\ pc[s] = "select" /\ todo[s] # <<>>
  /\ IF Exists(s, Head(todo[s]))
     THEN todo' = [todo EXCEPT ![s] = Tail(@)] /\ UNCHANGED pc
     ELSE Goto(s, "insert") /\ UNCHANGED todo
  /\ UNCHANGED <<tables, op, seen, newCases, newQuarantines, out>>

(* the row a session has updated and not yet committed *)
Updating(o, ops) == IF pc[o] = "commit" /\ op[o] \in ops THEN {seen[o]} ELSE {}

(* another session is writing a row with the same unique key *)
InsertBlockedBy(o, item) ==
  IF item.table = "case"
  THEN \E c \in newCases[o] \cup Updating(o, CaseOp) : c.key = item.key
  ELSE \E q \in newQuarantines[o] \cup Updating(o, {"release"}) : q.target = item.target

InsertMustWait(s, item) == \E o \in Sessions \ {s} : InsertBlockedBy(o, item)

(* uq_recovery_cases_source_key, uq_quarantine_records_active_target *)
ViolatesUnique(item) ==
  \/ item.table = "case" /\ \E c \in cases : c.key = item.key
  \/ item.table = "quarantine" /\ \E q \in quarantines :
       q.active /\ q.target = item.target

NewCase(s, item) ==
  [by |-> s, key |-> item.key, status |-> "WAITING_APPROVAL",
   approved_by |-> None, action_attempt_id |-> None]

NewQuarantine(s, item) ==
  [by |-> s, target |-> item.target, source |-> item.source, active |-> TRUE]

(* mutant: no unique index is consulted *)
InsertUnchecked(s) ==
  /\ pc[s] = "insert"
  /\ LET item == Head(todo[s]) IN
     /\ IF item.table = "case"
        THEN /\ newCases' = [newCases EXCEPT ![s] = @ \cup {NewCase(s, item)}]
             /\ UNCHANGED newQuarantines
        ELSE /\ newQuarantines' =
                  [newQuarantines EXCEPT ![s] = @ \cup {NewQuarantine(s, item)}]
             /\ UNCHANGED newCases
     /\ todo' = [todo EXCEPT ![s] = Tail(@)]
     /\ Goto(s, "select")
     /\ UNCHANGED <<tables, op, seen, out>>

(* add and flush *)
Insert(s) ==
  /\ pc[s] = "insert"
  /\ LET item == Head(todo[s]) IN
     /\ ~InsertMustWait(s, item)
     /\ \/ /\ ViolatesUnique(item)
           /\ Finish(s, "IntegrityError")
           /\ UNCHANGED <<tables, op, todo, seen>>
        \/ /\ ~ViolatesUnique(item)
           /\ IF item.table = "case"
              THEN /\ newCases' = [newCases EXCEPT ![s] = @ \cup {NewCase(s, item)}]
                   /\ UNCHANGED newQuarantines
              ELSE /\ newQuarantines' =
                        [newQuarantines EXCEPT ![s] = @ \cup {NewQuarantine(s, item)}]
                   /\ UNCHANGED newCases
           /\ todo' = [todo EXCEPT ![s] = Tail(@)]
           /\ Goto(s, "select")
           /\ UNCHANGED <<tables, op, seen, out>>

(* mutant: every repository call commits *)
CommitEach(s) ==
  /\ pc[s] = "select"
  /\ cases' = cases \cup newCases[s]
  /\ quarantines' = quarantines \cup newQuarantines[s]
  /\ newCases' = [newCases EXCEPT ![s] = {}]
  /\ newQuarantines' = [newQuarantines EXCEPT ![s] = {}]
  /\ IF todo[s] = <<>>
     THEN Goto(s, "done") /\ out' = [out EXCEPT ![s] = "ok"]
     ELSE UNCHANGED <<pc, out>>
  /\ UNCHANGED <<op, todo, seen>>

(* session.commit(); the answer may be lost on the way *)
CommitCreate(s) ==
  /\ pc[s] = "select" /\ todo[s] = <<>>
  /\ cases' = cases \cup newCases[s]
  /\ quarantines' = quarantines \cup newQuarantines[s]
  /\ \E outcome \in {"ok", "died"} : Finish(s, outcome)
  /\ UNCHANGED <<op, todo, seen>>

-----------------------------------------------------------------------------
(* Deciding and executing cases, releasing quarantines *)

(* mutant: any case may be executed *)
RefuseNoExecution(o, c) ==
  IF o = "start_execution" \/ Target(o) \in ALLOWED_RECOVERY_TRANSITIONS[c.status]
  THEN "none" ELSE "InvalidRecoveryCaseTransition"

(* why a command is refused; approval_required is TRUE in every case created *)
Refusal(o, c) ==
  IF o = "start_execution"
  THEN IF c.status = "APPROVED" /\ c.approved_by # None THEN "none"
       ELSE IF /\ c.approved_by = None
               /\ c.status \in {"AUTO_ANALYZED", "WAITING_APPROVAL", "APPROVED"}
       THEN "RecoveryApprovalRequired"
       ELSE "InvalidRecoveryCaseTransition"
  ELSE IF Target(o) \in ALLOWED_RECOVERY_TRANSITIONS[c.status] THEN "none"
       ELSE "InvalidRecoveryCaseTransition"

(* the case is read without a lock and the command checked against it *)
GetCase(s, o, c) ==
  /\ pc[s] = "idle"
  /\ op' = [op EXCEPT ![s] = o]
  /\ seen' = [seen EXCEPT ![s] = c]
  /\ IF Refusal(o, c) = "none"
     THEN Goto(s, "flush") /\ UNCHANGED <<newCases, newQuarantines, out>>
     ELSE Finish(s, Refusal(o, c))
  /\ UNCHANGED <<tables, todo>>

(* a quarantine that is not active any more is returned as it is *)
GetQuarantine(s, q) ==
  /\ pc[s] = "idle"
  /\ op' = [op EXCEPT ![s] = "release"]
  /\ seen' = [seen EXCEPT ![s] = q]
  /\ IF q.active
     THEN Goto(s, "flush") /\ UNCHANGED <<newCases, newQuarantines, out>>
     ELSE Finish(s, "ok")
  /\ UNCHANGED <<tables, todo>>

SameCase(c, d) == c.by = d.by /\ c.key = d.key
SameQuarantine(q, r) == q.by = r.by /\ q.target = r.target

(* another session has updated the row and not yet committed *)
RowHeldBy(o, s) ==
  /\ pc[o] = "commit"
  /\ \/ op[s] = "release" /\ op[o] = "release" /\ SameQuarantine(seen[o], seen[s])
     \/ op[s] # "release" /\ op[o] # "release" /\ SameCase(seen[o], seen[s])

RowIsHeld(s) == \E o \in Sessions \ {s} : RowHeldBy(o, s)

(* save: UPDATE by primary key *)
Flush(s) ==
  /\ pc[s] = "flush"
  /\ ~RowIsHeld(s)
  /\ Goto(s, "commit")
  /\ UNCHANGED <<tables, op, todo, seen, newCases, newQuarantines, out>>

(* the columns a command sets, on the row as it now is *)
Applied(s, c) ==
  [c EXCEPT
     !.status = Target(op[s]),
     !.approved_by = IF op[s] = "approve" THEN s ELSE @,
     !.action_attempt_id =
        IF op[s] = "start_execution" /\ seen[s].action_attempt_id = None THEN s ELSE @]

CommitCase(s) ==
  /\ pc[s] = "commit" /\ op[s] # "release"
  /\ cases' = {IF SameCase(c, seen[s]) THEN Applied(s, c) ELSE c : c \in cases}
  /\ \E outcome \in {"ok", "died"} : Finish(s, outcome)
  /\ UNCHANGED <<quarantines, op, todo, seen>>

CommitRelease(s) ==
  /\ pc[s] = "commit" /\ op[s] = "release"
  /\ quarantines' = {IF SameQuarantine(q, seen[s]) THEN [q EXCEPT !.active = FALSE]
                     ELSE q : q \in quarantines}
  /\ \E outcome \in {"ok", "died"} : Finish(s, outcome)
  /\ UNCHANGED <<cases, op, todo, seen>>

(* the command is killed or loses its connection before the commit *)
Die(s) ==
  /\ pc[s] \notin {"idle", "done"}
  /\ Finish(s, "died")
  /\ UNCHANGED <<tables, op, todo, seen>>

-----------------------------------------------------------------------------

Begin(s) ==
  \/ \E plan \in Plans : BeginCreate(s, plan)
  \/ \E o \in DecideOps \cap CaseOp, c \in cases : GetCase(s, o, c)
  \/ "release" \in DecideOps /\ \E q \in quarantines : GetQuarantine(s, q)

Step(s) ==
  \/ SelectExisting(s) \/ Insert(s) \/ CommitCreate(s)
  \/ Flush(s) \/ CommitCase(s) \/ CommitRelease(s)

Next == \E s \in Sessions : Begin(s) \/ Step(s) \/ Die(s)

Spec == Init /\ [][Next]_vars

-----------------------------------------------------------------------------
(* Properties *)

(* Detectors and operators may create the same case at the same time, each    *)
(* after having read that there is none: there is one case per source key    *)
(* (create_case, uq_recovery_cases_source_key).                               *)
OneCasePerSource == \A c, d \in cases : c.key = d.key => c = d

(* However creations and releases of a quarantine interleave, a target has at *)
(* most one active quarantine (create_quarantine, release_quarantine,         *)
(* uq_quarantine_records_active_target): releasing it frees the target.       *)
OneActiveQuarantine ==
  \A q, r \in quarantines : q.active /\ r.active /\ q.target = r.target => q = r

Executed(c) == c.status \in {"EXECUTING", "EXECUTED", "EXECUTION_FAILED"}

(* Although commands check a row they read without a lock and write it later, *)
(* a case that is or was executed, or has an action attempt, names who        *)
(* approved it (start_execution): no command takes an approval away.          *)
ExecutionWasApproved ==
  \A c \in cases : Executed(c) \/ c.action_attempt_id # None => c.approved_by # None

(* A finding that has to be contained and its containment are committed       *)
(* together (create_from_analyzer_result, _create_count_case): if the case is *)
(* there, its target is or has been quarantined, and a quarantine that names  *)
(* a case names one that exists.                                              *)
CaseIsContained ==
  /\ \A plan \in Plans : \A i \in 1..Len(plan) :
       LET item == plan[i] IN
         /\ item.table = "quarantine" /\ item.source # None
         /\ \E c \in cases : c.key = item.source
         => \E q \in quarantines : q.target = item.target
  /\ \A q \in quarantines : q.source # None => \E c \in cases : c.key = q.source

(* Rows inserted and not committed belong to a creating session *)
InsertsAreUncommitted ==
  \A s \in Sessions : pc[s] \notin {"select", "insert"} =>
    newCases[s] = {} /\ newQuarantines[s] = {}

InsertIsNew(s) ==
  LET item == Head(todo[s]) IN
  /\ todo[s] # <<>>
  /\ \/ item.table = "case" /\ \A c \in newCases[s] : c.key # item.key
     \/ item.table = "quarantine" /\ \A q \in newQuarantines[s] : q.target # item.target

NewCasesAreNew ==
  \A s \in Sessions : \A c \in newCases[s] :
    /\ ~Executed(c) /\ c.action_attempt_id = None
    /\ \A d \in cases : d.key # c.key
    /\ \A t \in Sessions : \A d \in newCases[t] : d.key = c.key => t = s /\ d = c

NewQuarantinesAreNew ==
  \A s \in Sessions : \A q \in newQuarantines[s] :
    /\ q.active /\ \A r \in quarantines : r.active => r.target # q.target
    /\ \A t \in Sessions : \A r \in newQuarantines[t] :
         r.target = q.target => t = s /\ r = q

PendingInserts ==
  /\ InsertsAreUncommitted
  /\ \A s \in Sessions : pc[s] = "insert" => InsertIsNew(s)
  /\ NewCasesAreNew /\ NewQuarantinesAreNew

PendingDecisions ==
  \A s \in Sessions : pc[s] \in {"flush", "commit"} /\ op[s] # "release" =>
    /\ op[s] \in CaseOp /\ seen[s] \in RecoveryCase
    /\ Refusal(op[s], seen[s]) = "none"
    /\ Executed(seen[s]) => seen[s].approved_by # None
    /\ \E c \in cases : SameCase(c, seen[s])
    /\ seen[s].approved_by # None =>
         \A c \in cases : SameCase(c, seen[s]) => c.approved_by # None

(* the part that needs no assumption about the plans *)
PendingInv ==
  /\ TypeOK
  /\ OneCasePerSource /\ OneActiveQuarantine /\ ExecutionWasApproved
  /\ PendingInserts /\ PendingDecisions

(* A creating command has worked off the first items of its plan: each is    *)
(* there for it to read, and it has inserted nothing else.                   *)
Recorded(s, item) ==
  \/ /\ item.table = "case"
     /\ \E c \in cases \cup newCases[s] : c.key = item.key
  \/ /\ item.table = "quarantine"
     /\ \E q \in quarantines \cup newQuarantines[s] : q.target = item.target

WorkedOff(s, plan, n) ==
  /\ Len(todo[s]) = Len(plan) - n
  /\ \A i \in 1..Len(todo[s]) : todo[s][i] = plan[n + i]
  /\ \A i \in 1..n : Recorded(s, plan[i])
  /\ \A c \in newCases[s] : \E i \in 1..n :
       plan[i].table = "case" /\ plan[i].key = c.key
  /\ \A q \in newQuarantines[s] : \E i \in 1..n :
       /\ plan[i].table = "quarantine"
       /\ plan[i].target = q.target /\ plan[i].source = q.source

PlansWorkedOff ==
  \A s \in Sessions : pc[s] \in {"select", "insert"} =>
    \E plan \in Plans : \E n \in 0..Len(plan) : WorkedOff(s, plan, n)

(* What a session is about to write is still right when it writes it: the     *)
(* rows it has inserted are in nobody's way, they are the first ones of its   *)
(* plan, and the case it has read has at least the approval it had then       *)
(* (create_case, create_quarantine, _transition, start_execution, save).      *)
(* Strengthens the invariants above to an inductive one.                      *)
RecoveryInv == PendingInv /\ PlansWorkedOff /\ CaseIsContained

(* s waits for a row that t has inserted or updated and not yet committed    *)
WaitsFor(s, t) ==
  \/ pc[s] = "insert" /\ InsertBlockedBy(t, Head(todo[s]))
  \/ pc[s] = "flush" /\ RowHeldBy(t, s)

(* Commands never wait for each other in a circle, although a creating        *)
(* command keeps the locks of the rows it has inserted while it waits for     *)
(* another's: all of them insert in the same order                            *)
(* (_create_reconciliation_cases, detect_stale_processing).                   *)
NoCircularWait ==
  \A S \in SUBSET Sessions : S # {} =>
    \E s \in S : \A t \in S \ {s} : ~WaitsFor(s, t)

=============================================================================
