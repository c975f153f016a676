------------------------- MODULE RecoveryCasesProofs -------------------------
(***************************************************************************)
(* For any number of sessions, plans and keys: one case per source key, one *)
(* active quarantine per target, no execution without an approval.          *)
(***************************************************************************)
EXTENDS RecoveryCases, TLAPS

(* Init establishes the inductive invariant: no rows, no session begun. *)
LEMMA PendingInit == Init => PendingInv
BY DEF Init, PendingInv, TypeOK, OneCasePerSource, OneActiveQuarantine,
   ExecutionWasApproved, PendingInserts, InsertsAreUncommitted, NewCasesAreNew,
   NewQuarantinesAreNew, PendingDecisions, Label, Outcome

(* BeginCreate takes a plan to work off; nothing is written. *)
LEMMA BeginCreateInv ==
  ASSUME PendingInv, NEW s \in Sessions, NEW plan \in Plans, BeginCreate(s, plan)
  PROVE  PendingInv'
BY RecoveryAssumptions DEF PendingInv, BeginCreate, Goto, tables, TypeOK, Label,
   OneCasePerSource, OneActiveQuarantine, ExecutionWasApproved, Executed,
   PendingInserts, InsertsAreUncommitted, InsertIsNew, NewCasesAreNew,
   NewQuarantinesAreNew, PendingDecisions, Refusal

(* SelectExisting goes on to the insert only if the session itself has not    *)
(* inserted the row.                                                          *)
LEMMA SelectInv ==
  ASSUME PendingInv, NEW s \in Sessions, SelectExisting(s)
  PROVE  PendingInv'
PROOF
  <1>1. /\ pc \in [Sessions -> Label] /\ todo \in [Sessions -> Seq(Item)]
        /\ pc[s] = "select" /\ todo[s] # <<>>
        /\ UNCHANGED <<cases, quarantines, op, seen, newCases, newQuarantines, out>>
    BY Zenon DEF PendingInv, TypeOK, SelectExisting, tables
  <1>2. Head(todo[s]) \in Item /\ Tail(todo[s]) \in Seq(Item)
    BY <1>1
  <1>3. CASE todo' = [todo EXCEPT ![s] = Tail(todo[s])] /\ pc' = pc
    <2>1. TypeOK'
      BY Zenon, <1>1, <1>2, <1>3 DEF PendingInv, TypeOK
    <2>2. \A t \in Sessions : pc'[t] = "insert" => InsertIsNew(t)'
      BY Zenon, <1>1, <1>3 DEF PendingInv, PendingInserts, InsertIsNew
    <2> QED
      BY <1>1, <1>3, <2>1, <2>2 DEF PendingInv, OneCasePerSource, OneActiveQuarantine,
         ExecutionWasApproved, PendingInserts, InsertsAreUncommitted, NewCasesAreNew,
         NewQuarantinesAreNew, PendingDecisions
  <1>4. CASE /\ ~Exists(s, Head(todo[s]))
             /\ pc' = [pc EXCEPT ![s] = "insert"] /\ todo' = todo
    <2>1. TypeOK'
      BY Zenon, <1>1, <1>4 DEF PendingInv, TypeOK, Label
    <2>2. InsertIsNew(s)
      BY Zenon, <1>1, <1>2, <1>4 DEF InsertIsNew, Exists, Item, PendingInv,
         PendingInserts, NewQuarantinesAreNew
    <2>3. \A t \in Sessions : pc'[t] = "insert" => InsertIsNew(t)'
      BY Zenon, <1>1, <1>4, <2>2 DEF PendingInv, PendingInserts, InsertIsNew
    <2>4. InsertsAreUncommitted'
      BY Zenon, <1>1, <1>4 DEF PendingInv, PendingInserts, InsertsAreUncommitted
    <2>5. PendingDecisions'
      BY Zenon, <1>1, <1>4 DEF PendingInv, PendingDecisions
    <2> QED
      BY <1>1, <2>1, <2>3, <2>4, <2>5 DEF PendingInv, OneCasePerSource,
         OneActiveQuarantine, ExecutionWasApproved, PendingInserts, NewCasesAreNew,
         NewQuarantinesAreNew
  <1> QED
    BY Zenon, <1>3, <1>4 DEF SelectExisting, Goto

(* Insert adds a row only if no committed row and no other session's has its   *)
(* key: the first is ViolatesUnique, the second what InsertMustWait waits for. *)
LEMMA InsertInv ==
  ASSUME PendingInv, NEW s \in Sessions, Insert(s)
  PROVE  PendingInv'
PROOF
  <1> DEFINE item == Head(todo[s])
  <1>1. item \in Item /\ todo[s] # <<>> /\ Tail(todo[s]) \in Seq(Item)
    BY DEF PendingInv, PendingInserts, InsertIsNew, Insert, TypeOK
  <1>2. CASE Finish(s, "IntegrityError") /\ UNCHANGED <<tables, op, todo, seen>>
    BY <1>2 DEF PendingInv, Finish, Goto, tables, TypeOK, Label, Outcome, Executed,
       OneCasePerSource, OneActiveQuarantine, ExecutionWasApproved,
       PendingInserts, InsertsAreUncommitted, InsertIsNew, NewCasesAreNew,
       NewQuarantinesAreNew, PendingDecisions
  <1>3. CASE /\ ~ViolatesUnique(item)
             /\ item.table = "case"
             /\ newCases' = [newCases EXCEPT ![s] = newCases[s] \cup {NewCase(s, item)}]
             /\ todo' = [todo EXCEPT ![s] = Tail(todo[s])]
             /\ Goto(s, "select")
             /\ UNCHANGED <<tables, op, seen, out, newQuarantines>>
    <2>1. NewCase(s, item) \in RecoveryCase
      BY Zenon, <1>1, <1>3 DEF NewCase, Item, RecoveryCase, RecoveryCaseStatus
    <2>2. TypeOK'
      BY Zenon, <1>1, <1>3, <2>1 DEF PendingInv, TypeOK, Goto, Label, tables
    <2>3. PendingInserts'
      <3>1. InsertsAreUncommitted' /\ NewQuarantinesAreNew'
        BY SMTT(90), <1>3 DEF PendingInv, TypeOK, PendingInserts, InsertsAreUncommitted,
           NewQuarantinesAreNew, Insert, Goto, tables, Executed
      <3>2. \A t \in Sessions : pc'[t] = "insert" => InsertIsNew(t)'
        BY Zenon, <1>3 DEF PendingInv, TypeOK, PendingInserts, InsertIsNew, Goto
      <3>3. InsertIsNew(s) /\ ~InsertMustWait(s, item)
        BY Zenon DEF PendingInv, PendingInserts, Insert
      <3>4. /\ \A r \in cases : r.key # item.key
            /\ \A t \in Sessions : \A r \in newCases[t] : r.key # item.key
        BY Zenon, <1>1, <1>3, <3>3 DEF InsertIsNew, InsertMustWait, InsertBlockedBy, ViolatesUnique
      <3>5. /\ NewCase(s, item).key = item.key
            /\ ~Executed(NewCase(s, item)) /\ NewCase(s, item).action_attempt_id = None
        BY Zenon DEF NewCase, Executed
      <3>6. NewCasesAreNew
        BY Zenon DEF PendingInv, PendingInserts
      <3>9. newCases \in [Sessions -> SUBSET RecoveryCase]
        BY Zenon DEF PendingInv, TypeOK
      <3>7. /\ \A t \in Sessions : \A r \in newCases'[t] :
                  r \in newCases[t] \/ (t = s /\ r = NewCase(s, item))
            /\ cases' = cases
        BY Zenon, <1>3, <3>9 DEF tables
      <3>8. NewCasesAreNew'
        BY <3>4, <3>5, <3>6, <3>7 DEF NewCasesAreNew, Executed
      <3> QED BY Zenon, <3>1, <3>2, <3>8 DEF PendingInserts
    <2>4. PendingDecisions'
      BY Zenon, <1>3 DEF PendingInv, TypeOK, PendingDecisions, Goto, tables
    <2> QED
      BY Zenon, <1>3, <2>2, <2>3, <2>4 DEF PendingInv, tables, OneCasePerSource,
         OneActiveQuarantine, ExecutionWasApproved
  <1>4. CASE /\ ~ViolatesUnique(item)
             /\ item.table = "quarantine"
             /\ newQuarantines' =
                  [newQuarantines EXCEPT ![s] = newQuarantines[s] \cup {NewQuarantine(s, item)}]
             /\ todo' = [todo EXCEPT ![s] = Tail(todo[s])]
             /\ Goto(s, "select")
             /\ UNCHANGED <<tables, op, seen, out, newCases>>
    <2>1. NewQuarantine(s, item) \in QuarantineRecord
      BY Zenon, <1>1, <1>4 DEF NewQuarantine, Item, QuarantineRecord
    <2>2. TypeOK'
      BY Zenon, <1>1, <1>4, <2>1 DEF PendingInv, TypeOK, Goto, Label, tables
    <2>3. PendingInserts'
      <3>1. InsertsAreUncommitted' /\ NewCasesAreNew'
        BY SMTT(90), <1>4 DEF PendingInv, TypeOK, PendingInserts, InsertsAreUncommitted,
           NewCasesAreNew, Insert, Goto, tables, Executed
      <3>2. \A t \in Sessions : pc'[t] = "insert" => InsertIsNew(t)'
        BY Zenon, <1>4 DEF PendingInv, TypeOK, PendingInserts, InsertIsNew, Goto
      <3>3. InsertIsNew(s) /\ ~InsertMustWait(s, item)
        BY Zenon DEF PendingInv, PendingInserts, Insert
      <3>4. /\ \A r \in quarantines : r.active => r.target # item.target
            /\ \A t \in Sessions : \A r \in newQuarantines[t] : r.target # item.target
        BY Zenon, <1>1, <1>4, <3>3 DEF InsertIsNew, InsertMustWait, InsertBlockedBy, ViolatesUnique
      <3>5. NewQuarantine(s, item).target = item.target /\ NewQuarantine(s, item).active
        BY Zenon DEF NewQuarantine, Executed
      <3>6. NewQuarantinesAreNew
        BY Zenon DEF PendingInv, PendingInserts
      <3>9. newQuarantines \in [Sessions -> SUBSET QuarantineRecord]
        BY Zenon DEF PendingInv, TypeOK
      <3>7. /\ \A t \in Sessions : \A r \in newQuarantines'[t] :
                  r \in newQuarantines[t] \/ (t = s /\ r = NewQuarantine(s, item))
            /\ quarantines' = quarantines
        BY Zenon, <1>4, <3>9 DEF tables
      <3>8. NewQuarantinesAreNew'
        BY <3>4, <3>5, <3>6, <3>7 DEF NewQuarantinesAreNew, Executed
      <3> QED BY Zenon, <3>1, <3>2, <3>8 DEF PendingInserts
    <2>4. PendingDecisions'
      BY Zenon, <1>4 DEF PendingInv, TypeOK, PendingDecisions, Goto, tables
    <2> QED
      BY Zenon, <1>4, <2>2, <2>3, <2>4 DEF PendingInv, tables, OneCasePerSource,
         OneActiveQuarantine, ExecutionWasApproved
  <1> QED
    BY Zenon, <1>1, <1>2, <1>3, <1>4 DEF Insert, Item

(* CommitCreate makes the session's rows visible; no committed row and no     *)
(* other session's has their keys.                                            *)
LEMMA CommitCreateInv ==
  ASSUME PendingInv, NEW s \in Sessions, CommitCreate(s)
  PROVE  PendingInv'
PROOF
  <1>1. TypeOK'
    BY DEF PendingInv, TypeOK, CommitCreate, Finish, Goto, Label, Outcome
  <1>2. OneCasePerSource' /\ OneActiveQuarantine'
    BY DEF PendingInv, TypeOK, CommitCreate, PendingInserts, NewCasesAreNew,
       NewQuarantinesAreNew, OneCasePerSource, OneActiveQuarantine
  <1>3. ExecutionWasApproved'
    BY Zenon DEF PendingInv, TypeOK, CommitCreate, PendingInserts, NewCasesAreNew,
       ExecutionWasApproved
  <1>4. PendingInserts'
    BY DEF PendingInv, TypeOK, CommitCreate, Finish, Goto, PendingInserts,
       InsertsAreUncommitted, InsertIsNew, NewCasesAreNew, NewQuarantinesAreNew
  <1>5. PendingDecisions'
    BY DEF PendingInv, TypeOK, CommitCreate, Finish, Goto, PendingInserts,
       NewCasesAreNew, PendingDecisions, SameCase
  <1> QED
    BY Zenon, <1>1, <1>2, <1>3, <1>4, <1>5 DEF PendingInv

(* GetCase remembers a row that is there, if the command is allowed on it. *)
LEMMA GetCaseInv ==
  ASSUME PendingInv, NEW s \in Sessions, NEW o \in CaseOp, NEW c \in cases,
         GetCase(s, o, c)
  PROVE  PendingInv'
PROOF
  <1>1. /\ UNCHANGED <<cases, quarantines, todo>>
        /\ op' = [op EXCEPT ![s] = o] /\ seen' = [seen EXCEPT ![s] = c]
        /\ pc[s] = "idle" /\ c \in RecoveryCase
    BY Zenon DEF PendingInv, TypeOK, GetCase, tables
  <1>2. newCases' = newCases /\ newQuarantines' = newQuarantines
    <2>1. newCases[s] = {} /\ newQuarantines[s] = {}
      BY Zenon, <1>1 DEF PendingInv, PendingInserts, InsertsAreUncommitted
    <2>2. /\ newCases \in [Sessions -> SUBSET RecoveryCase]
          /\ newQuarantines \in [Sessions -> SUBSET QuarantineRecord]
      BY Zenon DEF PendingInv, TypeOK
    <2>3. /\ newCases' \in {newCases, [newCases EXCEPT ![s] = {}]}
          /\ newQuarantines' \in {newQuarantines, [newQuarantines EXCEPT ![s] = {}]}
      BY Zenon DEF GetCase, Finish
    <2>4. [newCases EXCEPT ![s] = {}] = newCases
      BY Zenon, <2>1, <2>2
    <2>5. [newQuarantines EXCEPT ![s] = {}] = newQuarantines
      BY Zenon, <2>1, <2>2
    <2> QED BY Zenon, <2>3, <2>4, <2>5
  <1>3. \/ Refusal(o, c) = "none" /\ pc' = [pc EXCEPT ![s] = "flush"] /\ out' = out
        \/ /\ pc' = [pc EXCEPT ![s] = "done"]
           /\ out' = [out EXCEPT ![s] = Refusal(o, c)]
    BY Zenon DEF GetCase, Finish, Goto
  <1>4. TypeOK'
    BY ZenonT(120), <1>1, <1>2, <1>3 DEF PendingInv, TypeOK, Label, Outcome, Refusal, CaseOp, Op
  <1>5. PendingInserts'
    <2>1. pc \in [Sessions -> Label]
      BY Zenon DEF PendingInv, TypeOK
    <2>2. InsertsAreUncommitted' /\ NewCasesAreNew' /\ NewQuarantinesAreNew'
      BY <1>1, <1>2, <1>3, <2>1 DEF PendingInv, PendingInserts, InsertsAreUncommitted,
         NewCasesAreNew, NewQuarantinesAreNew
    <2>3. \A t \in Sessions : pc'[t] = "insert" => InsertIsNew(t)'
      BY Zenon, <1>1, <1>2, <1>3, <2>1 DEF PendingInv, PendingInserts, InsertIsNew
    <2> QED BY Zenon, <2>2, <2>3 DEF PendingInserts
  <1>6. PendingDecisions'
    BY <1>1, <1>3 DEF PendingInv, TypeOK, PendingDecisions, ExecutionWasApproved,
       OneCasePerSource, SameCase
  <1> QED
    BY Zenon, <1>1, <1>4, <1>5, <1>6 DEF PendingInv, OneCasePerSource, OneActiveQuarantine,
       ExecutionWasApproved

(* GetQuarantine writes nothing. *)
LEMMA GetQuarantineInv ==
  ASSUME PendingInv, NEW s \in Sessions, NEW q \in quarantines, GetQuarantine(s, q)
  PROVE  PendingInv'
PROOF
  <1>1. /\ UNCHANGED <<cases, quarantines, todo>>
        /\ op' = [op EXCEPT ![s] = "release"] /\ seen' = [seen EXCEPT ![s] = q]
        /\ pc[s] = "idle" /\ q \in QuarantineRecord
    BY Zenon DEF PendingInv, TypeOK, GetQuarantine, tables
  <1>2. newCases' = newCases /\ newQuarantines' = newQuarantines
    <2>1. newCases[s] = {} /\ newQuarantines[s] = {}
      BY Zenon, <1>1 DEF PendingInv, PendingInserts, InsertsAreUncommitted
    <2>2. /\ newCases \in [Sessions -> SUBSET RecoveryCase]
          /\ newQuarantines \in [Sessions -> SUBSET QuarantineRecord]
      BY Zenon DEF PendingInv, TypeOK
    <2>3. /\ newCases' \in {newCases, [newCases EXCEPT ![s] = {}]}
          /\ newQuarantines' \in {newQuarantines, [newQuarantines EXCEPT ![s] = {}]}
      BY Zenon DEF GetQuarantine, Finish
    <2>4. [newCases EXCEPT ![s] = {}] = newCases
      BY Zenon, <2>1, <2>2
    <2>5. [newQuarantines EXCEPT ![s] = {}] = newQuarantines
      BY Zenon, <2>1, <2>2
    <2> QED BY Zenon, <2>3, <2>4, <2>5
  <1>3. \/ pc' = [pc EXCEPT ![s] = "flush"] /\ out' = out
        \/ pc' = [pc EXCEPT ![s] = "done"] /\ out' = [out EXCEPT ![s] = "ok"]
    BY Zenon DEF GetQuarantine, Finish, Goto
  <1>4. TypeOK'
    BY ZenonT(120), <1>1, <1>2, <1>3 DEF PendingInv, TypeOK, Label, Outcome, Op
  <1>5. PendingInserts'
    <2>1. pc \in [Sessions -> Label]
      BY Zenon DEF PendingInv, TypeOK
    <2>2. InsertsAreUncommitted' /\ NewCasesAreNew' /\ NewQuarantinesAreNew'
      BY <1>1, <1>2, <1>3, <2>1 DEF PendingInv, PendingInserts, InsertsAreUncommitted,
         NewCasesAreNew, NewQuarantinesAreNew
    <2>3. \A t \in Sessions : pc'[t] = "insert" => InsertIsNew(t)'
      BY Zenon, <1>1, <1>2, <1>3, <2>1 DEF PendingInv, PendingInserts, InsertIsNew
    <2> QED BY Zenon, <2>2, <2>3 DEF PendingInserts
  <1>6. PendingDecisions'
    BY Zenon, <1>1, <1>3 DEF PendingInv, TypeOK, PendingDecisions
  <1> QED
    BY Zenon, <1>1, <1>4, <1>5, <1>6 DEF PendingInv, OneCasePerSource, OneActiveQuarantine,
       ExecutionWasApproved

(* Flush only waits for the row. *)
LEMMA FlushInv ==
  ASSUME PendingInv, NEW s \in Sessions, Flush(s)
  PROVE  PendingInv'
PROOF
  <1>1. /\ UNCHANGED <<cases, quarantines, op, todo, seen, newCases, newQuarantines, out>>
        /\ pc' = [pc EXCEPT ![s] = "commit"] /\ pc[s] = "flush"
        /\ pc \in [Sessions -> Label]
    BY Zenon DEF PendingInv, TypeOK, Flush, Goto, tables
  <1>2. TypeOK'
    BY Zenon, <1>1 DEF PendingInv, TypeOK, Label
  <1>3. PendingInserts'
    BY SMTT(90), <1>1 DEF PendingInv, PendingInserts, InsertsAreUncommitted, InsertIsNew,
       NewCasesAreNew, NewQuarantinesAreNew
  <1>4. PendingDecisions'
    BY Zenon, <1>1 DEF PendingInv, PendingDecisions
  <1> QED
    BY Zenon, <1>1, <1>2, <1>3, <1>4 DEF PendingInv, OneCasePerSource, OneActiveQuarantine,
       ExecutionWasApproved

(* A session that ends loses what it has not committed; what the others are    *)
(* about to write is as right as before.                                       *)
LEMMA FinishPending ==
  ASSUME PendingInv, NEW s \in Sessions, NEW outcome \in Outcome, Finish(s, outcome),
         UNCHANGED <<op, todo, seen>>, cases' \subseteq RecoveryCase,
         quarantines' \subseteq QuarantineRecord,
         \A d \in cases' : \E c \in cases : d.key = c.key,
         \A r \in quarantines' : r.active => r \in quarantines
  PROVE  TypeOK' /\ PendingInserts'
PROOF
  <1>1. /\ pc \in [Sessions -> Label]
        /\ newCases \in [Sessions -> SUBSET RecoveryCase]
        /\ newQuarantines \in [Sessions -> SUBSET QuarantineRecord]
    BY Zenon DEF PendingInv, TypeOK
  <1>2. /\ pc' = [pc EXCEPT ![s] = "done"]
        /\ newCases' = [newCases EXCEPT ![s] = {}]
        /\ newQuarantines' = [newQuarantines EXCEPT ![s] = {}]
        /\ out' = [out EXCEPT ![s] = outcome]
    BY Zenon DEF Finish, Goto
  <1>3. TypeOK'
    BY Zenon, <1>2 DEF PendingInv, TypeOK, Label
  <1>4. InsertsAreUncommitted'
    BY Zenon, <1>1, <1>2 DEF PendingInv, PendingInserts, InsertsAreUncommitted
  <1>5. \A t \in Sessions : pc'[t] = "insert" => InsertIsNew(t)'
    BY Zenon, <1>1, <1>2 DEF PendingInv, PendingInserts, InsertIsNew
  <1>6. NewCasesAreNew'
    BY SMTT(90), <1>1, <1>2 DEF PendingInv, PendingInserts, NewCasesAreNew
  <1>7. NewQuarantinesAreNew'
    BY <1>1, <1>2 DEF PendingInv, PendingInserts, NewQuarantinesAreNew
  <1> QED
    BY Zenon, <1>3, <1>4, <1>5, <1>6, <1>7 DEF PendingInserts

(* What a command leaves of a row: its name, its key and its approval. *)
LEMMA AppliedKeeps ==
  ASSUME PendingInv, NEW s \in Sessions, op[s] \in CaseOp, NEW c \in RecoveryCase
  PROVE  /\ Applied(s, c) \in RecoveryCase
         /\ Applied(s, c).by = c.by /\ Applied(s, c).key = c.key
         /\ c.approved_by # None => Applied(s, c).approved_by # None
         /\ Applied(s, c).status = Target(op[s])
         /\ op[s] = "approve" => Applied(s, c).approved_by # None
         /\ op[s] # "start_execution" =>
              Applied(s, c).action_attempt_id = c.action_attempt_id
PROOF
  <1>1. Target(op[s]) \in RecoveryCaseStatus
    BY Zenon DEF Target, RecoveryCaseStatus
  <1> QED
    BY ZenonT(120), <1>1, RecoveryAssumptions DEF Applied, RecoveryCase

(* A command that leads to a case being executed was allowed on an approved    *)
(* row.                                                                        *)
LEMMA AllowedIsApproved ==
  ASSUME NEW o \in CaseOp, NEW c \in RecoveryCase, Refusal(o, c) = "none",
         Executed(c) => c.approved_by # None,
         \/ o = "start_execution"
         \/ Target(o) \in {"EXECUTING", "EXECUTED", "EXECUTION_FAILED"}
  PROVE  c.approved_by # None
PROOF
  <1>1. CASE o = "start_execution"
    BY Zenon, <1>1 DEF Refusal
  <1>2. CASE o \in {"mark_executed", "mark_execution_failed"}
    <2>1. Target(o) \in {"EXECUTED", "EXECUTION_FAILED"}
      BY Zenon, <1>2 DEF Target
    <2>2. Target(o) \in ALLOWED_RECOVERY_TRANSITIONS[c.status]
      BY Zenon, <1>2 DEF Refusal
    <2>3. c.status = "EXECUTING"
      BY Zenon, <2>1, <2>2 DEF ALLOWED_RECOVERY_TRANSITIONS, RecoveryCaseStatus, RecoveryCase
    <2> QED BY Zenon, <2>3 DEF Executed
  <1>3. CASE o \in {"approve", "reject", "close"}
    <2>1. Target(o) \notin {"EXECUTING", "EXECUTED", "EXECUTION_FAILED"}
      BY Zenon, <1>3 DEF Target
    <2> QED BY Zenon, <1>3, <2>1
  <1> QED BY Zenon, <1>1, <1>2, <1>3 DEF CaseOp

(* CommitCase applies the command to the row as it is now, which may be newer  *)
(* than the one the command was checked against; the approval is still there.  *)
LEMMA CommitCaseInv ==
  ASSUME PendingInv, NEW s \in Sessions, CommitCase(s)
  PROVE  PendingInv'
PROOF
  <1>1. /\ op[s] \in CaseOp /\ seen[s] \in RecoveryCase
        /\ Refusal(op[s], seen[s]) = "none"
        /\ Executed(seen[s]) => seen[s].approved_by # None
        /\ seen[s].approved_by # None =>
             \A c \in cases : SameCase(c, seen[s]) => c.approved_by # None
    BY Zenon DEF PendingInv, PendingDecisions, CommitCase
  <1>2. cases \subseteq RecoveryCase
    BY Zenon DEF PendingInv, TypeOK
  <1>12. \A c \in cases :
          /\ Applied(s, c).by = c.by /\ Applied(s, c).key = c.key
          /\ c.approved_by # None => Applied(s, c).approved_by # None
    BY Zenon, <1>1, <1>2, AppliedKeeps
  <1>3. \A d \in cases' : \E c \in cases :
          d = c \/ (SameCase(c, seen[s]) /\ d = Applied(s, c))
    BY Zenon DEF CommitCase
  <1>4. \A c \in cases : \E d \in cases' : d.by = c.by /\ d.key = c.key
    BY Zenon, <1>12 DEF CommitCase
  <1>5. cases' \subseteq RecoveryCase
    BY Zenon, <1>1, <1>2, <1>3, AppliedKeeps
  <1>6. OneCasePerSource'
    <2>1. OneCasePerSource
      BY Zenon DEF PendingInv
    <2> SUFFICES ASSUME NEW d \in cases', NEW e \in cases', d.key = e.key PROVE d = e
      BY Zenon DEF OneCasePerSource
    <2>2. PICK c \in cases : d = IF SameCase(c, seen[s]) THEN Applied(s, c) ELSE c
      BY Zenon DEF CommitCase
    <2>3. PICK b \in cases : e = IF SameCase(b, seen[s]) THEN Applied(s, b) ELSE b
      BY Zenon DEF CommitCase
    <2>4. c.key = b.key
      BY Zenon, <1>1, <1>2, <2>2, <2>3, AppliedKeeps
    <2> QED BY Zenon, <2>1, <2>2, <2>3, <2>4 DEF OneCasePerSource
  <1>7. ExecutionWasApproved'
    <2> SUFFICES ASSUME NEW d \in cases', Executed(d) \/ d.action_attempt_id # None
                 PROVE  d.approved_by # None
      BY Zenon DEF ExecutionWasApproved, Executed
    <2>1. PICK c \in cases : d = c \/ (SameCase(c, seen[s]) /\ d = Applied(s, c))
      BY Zenon, <1>3
    <2>2. ExecutionWasApproved
      BY Zenon DEF PendingInv
    <2>3. CASE d = c
      BY Zenon, <2>2, <2>3 DEF ExecutionWasApproved
    <2>4. CASE SameCase(c, seen[s]) /\ d = Applied(s, c)
      <3>1. CASE \/ op[s] = "start_execution"
                 \/ Target(op[s]) \in {"EXECUTING", "EXECUTED", "EXECUTION_FAILED"}
        <4>1. seen[s].approved_by # None
          BY Zenon, <1>1, <3>1, AllowedIsApproved
        <4> QED BY Zenon, <1>1, <1>2, <2>4, <4>1, AppliedKeeps
      <3>2. CASE ~(\/ op[s] = "start_execution"
                   \/ Target(op[s]) \in {"EXECUTING", "EXECUTED", "EXECUTION_FAILED"})
        <4>1. c.action_attempt_id # None
          BY Zenon, <1>1, <1>2, <2>4, <3>2, AppliedKeeps DEF Executed
        <4> QED BY Zenon, <1>1, <1>2, <2>2, <2>4, <4>1, AppliedKeeps DEF ExecutionWasApproved
      <3> QED BY Zenon, <3>1, <3>2
    <2> QED BY Zenon, <2>1, <2>3, <2>4
  <1>8. TypeOK' /\ PendingInserts'
    <2>1. \A d \in cases' : \E c \in cases : d.key = c.key
      BY Zenon, <1>12, <1>3
    <2>2. PICK outcome \in {"ok", "died"} : Finish(s, outcome)
      BY Zenon DEF CommitCase
    <2>3. quarantines' = quarantines /\ quarantines \subseteq QuarantineRecord
      BY Zenon DEF CommitCase, PendingInv, TypeOK
    <2> QED
      BY Zenon, <1>5, <2>1, <2>2, <2>3, FinishPending DEF CommitCase, Outcome
  <1>9. PendingDecisions'
    <2> SUFFICES ASSUME NEW t \in Sessions, pc'[t] \in {"flush", "commit"},
                        op'[t] # "release"
                 PROVE  /\ op'[t] \in CaseOp /\ seen'[t] \in RecoveryCase
                        /\ Refusal(op'[t], seen'[t]) = "none"
                        /\ Executed(seen'[t]) => seen'[t].approved_by # None
                        /\ \E c \in cases' : SameCase(c, seen'[t])
                        /\ seen'[t].approved_by # None =>
                             \A c \in cases' : SameCase(c, seen'[t]) => c.approved_by # None
      BY Zenon DEF PendingDecisions, SameCase, Refusal, Executed
    <2>1. op' = op /\ seen' = seen /\ pc'[t] = pc[t]
      BY Zenon DEF CommitCase, Finish, Goto, PendingInv, TypeOK
    <2>2. /\ op[t] \in CaseOp /\ seen[t] \in RecoveryCase
          /\ Refusal(op[t], seen[t]) = "none"
          /\ Executed(seen[t]) => seen[t].approved_by # None
          /\ \E c \in cases : SameCase(c, seen[t])
          /\ seen[t].approved_by # None =>
               \A c \in cases : SameCase(c, seen[t]) => c.approved_by # None
      BY Zenon, <2>1 DEF PendingInv, PendingDecisions
    <2>3. \E c \in cases' : SameCase(c, seen[t])
      BY Zenon, <1>4, <2>2 DEF SameCase
    <2>4. ASSUME seen[t].approved_by # None, NEW d \in cases', SameCase(d, seen[t])
          PROVE  d.approved_by # None
      <3>1. PICK c \in cases : d = c \/ (SameCase(c, seen[s]) /\ d = Applied(s, c))
        BY Zenon, <1>3
      <3>2. SameCase(c, seen[t])
        BY Zenon, <1>12, <2>4, <3>1 DEF SameCase
      <3> QED BY Zenon, <1>12, <2>2, <2>4, <3>1, <3>2
    <2> QED BY Zenon, <2>1, <2>2, <2>3, <2>4
  <1> QED
    BY Zenon, <1>6, <1>7, <1>8, <1>9 DEF PendingInv, CommitCase, OneActiveQuarantine

(* CommitRelease deactivates a quarantine, which frees its target. *)
LEMMA CommitReleaseInv ==
  ASSUME PendingInv, NEW s \in Sessions, CommitRelease(s)
  PROVE  PendingInv'
PROOF
  <1>1. cases' = cases /\ op' = op /\ todo' = todo /\ seen' = seen
    BY Zenon DEF CommitRelease
  <1>2. /\ cases \subseteq RecoveryCase /\ quarantines \subseteq QuarantineRecord
        /\ pc \in [Sessions -> Label]
    BY Zenon DEF PendingInv, TypeOK
  <1>3. quarantines' \subseteq QuarantineRecord
    BY ZenonT(120), <1>2 DEF CommitRelease, QuarantineRecord
  <1>4. \A r \in quarantines' : r.active => r \in quarantines
    BY Zenon, <1>2 DEF CommitRelease, QuarantineRecord
  <1>5. PICK outcome \in {"ok", "died"} : Finish(s, outcome)
    BY Zenon DEF CommitRelease
  <1>6. TypeOK' /\ PendingInserts'
    BY Zenon, <1>1, <1>2, <1>3, <1>4, <1>5, FinishPending DEF Outcome
  <1>7. PendingDecisions'
    BY Zenon, <1>1, <1>2, <1>5 DEF Finish, Goto, PendingInv, PendingDecisions
  <1> QED
    BY Zenon, <1>1, <1>4, <1>6, <1>7 DEF PendingInv, OneCasePerSource, OneActiveQuarantine,
       ExecutionWasApproved

(* A command that dies leaves the tables as they are. *)
LEMMA DieInv ==
  ASSUME PendingInv, NEW s \in Sessions, Die(s)
  PROVE  PendingInv'
PROOF
  <1>1. UNCHANGED <<cases, quarantines, op, todo, seen>> /\ Finish(s, "died")
    BY Zenon DEF Die, tables
  <1>2. /\ cases \subseteq RecoveryCase /\ quarantines \subseteq QuarantineRecord
        /\ pc \in [Sessions -> Label]
    BY Zenon DEF PendingInv, TypeOK
  <1>3. TypeOK' /\ PendingInserts'
    BY Zenon, <1>1, <1>2, FinishPending DEF Outcome
  <1>4. PendingDecisions'
    BY Zenon, <1>1, <1>2 DEF Finish, Goto, PendingInv, PendingDecisions
  <1> QED
    BY Zenon, <1>1, <1>3, <1>4 DEF PendingInv, OneCasePerSource, OneActiveQuarantine,
       ExecutionWasApproved

(* Every step of every command preserves the inductive invariant. *)
LEMMA PendingNext == PendingInv /\ [Next]_vars => PendingInv'
PROOF
  <1> SUFFICES ASSUME PendingInv, [Next]_vars PROVE PendingInv'
    OBVIOUS
  <1>1. CASE UNCHANGED vars
    <2>1. TypeOK'
      BY Zenon, <1>1 DEF vars, tables, PendingInv, TypeOK
    <2>2. OneCasePerSource' /\ OneActiveQuarantine' /\ ExecutionWasApproved'
      BY Zenon, <1>1 DEF vars, tables, PendingInv, OneCasePerSource, OneActiveQuarantine,
         ExecutionWasApproved
    <2>3. InsertsAreUncommitted' /\ NewCasesAreNew' /\ NewQuarantinesAreNew'
      BY <1>1 DEF vars, tables, PendingInv, PendingInserts, InsertsAreUncommitted,
         NewCasesAreNew, NewQuarantinesAreNew
    <2>4. PendingInserts'
      BY Zenon, <1>1, <2>3 DEF vars, tables, PendingInv, PendingInserts, InsertIsNew
    <2>5. PendingDecisions'
      BY Zenon, <1>1 DEF vars, tables, PendingInv, PendingDecisions
    <2> QED
      BY Zenon, <2>1, <2>2, <2>4, <2>5 DEF PendingInv
  <1>2. ASSUME NEW s \in Sessions, Begin(s) PROVE PendingInv'
    BY Zenon, <1>2, BeginCreateInv, GetCaseInv, GetQuarantineInv DEF Begin
  <1>3. ASSUME NEW s \in Sessions, Step(s) PROVE PendingInv'
    BY Zenon, <1>3, SelectInv, InsertInv, CommitCreateInv, FlushInv, CommitCaseInv,
       CommitReleaseInv DEF Step
  <1>4. ASSUME NEW s \in Sessions, Die(s) PROVE PendingInv'
    BY Zenon, <1>4, DieInv
  <1> QED
    BY Zenon, <1>1, <1>2, <1>3, <1>4 DEF Next

(* What sessions have read and inserted stays right until they write it, for   *)
(* any number of sessions (create_case, start_execution, create_quarantine).   *)
THEOREM PendingInvariant == Spec => []PendingInv
BY PendingInit, PendingNext, PTL DEF Spec

(* However many detectors and operators race, a source key has one case        *)
(* (create_case).                                                              *)
THEOREM OneCase == Spec => []OneCasePerSource
PROOF
  <1>1. PendingInv => OneCasePerSource
    BY Zenon DEF PendingInv
  <1> QED BY <1>1, PendingInvariant, PTL

(* However creations and releases interleave, a target has at most one active  *)
(* quarantine (create_quarantine, release_quarantine).                         *)
THEOREM OneQuarantine == Spec => []OneActiveQuarantine
PROOF
  <1>1. PendingInv => OneActiveQuarantine
    BY Zenon DEF PendingInv
  <1> QED BY <1>1, PendingInvariant, PTL

(* No interleaving of approvals, rejections and executions, each checked       *)
(* against a row that may be stale, executes a case nobody approved            *)
(* (start_execution).                                                          *)
THEOREM NoUnapprovedExecution == Spec => []ExecutionWasApproved
PROOF
  <1>1. PendingInv => ExecutionWasApproved
    BY Zenon DEF PendingInv
  <1> QED BY <1>1, PendingInvariant, PTL

-----------------------------------------------------------------------------
(* Containment *)

HasCase(k) == \E c \in cases : c.key = k
HasQuarantine(x) == \E q \in quarantines : q.target = x

(* What has a name in the tables keeps it, and only CommitCreate adds names *)
LEMMA NamesStay ==
  ASSUME [Next]_vars
  PROVE  /\ \A k : HasCase(k) => HasCase(k)'
         /\ \A x : HasQuarantine(x) => HasQuarantine(x)'
         /\ \/ \E s \in Sessions : CommitCreate(s)
            \/ /\ \A k : HasCase(k)' => HasCase(k)
               /\ \A q \in quarantines' : \E r \in quarantines :
                    r.target = q.target /\ r.source = q.source
<1>1. ASSUME UNCHANGED tables
      PROVE  /\ \A k : HasCase(k)' <=> HasCase(k)
             /\ \A x : HasQuarantine(x)' <=> HasQuarantine(x)
             /\ \A q \in quarantines' : \E r \in quarantines :
                  r.target = q.target /\ r.source = q.source
  BY Zenon, <1>1 DEF tables, HasCase, HasQuarantine
<1>2. ASSUME NEW s \in Sessions, CommitCreate(s)
      PROVE  /\ \A k : HasCase(k) => HasCase(k)'
             /\ \A x : HasQuarantine(x) => HasQuarantine(x)'
  BY Zenon, <1>2 DEF CommitCreate, HasCase, HasQuarantine
<1>3. ASSUME NEW s \in Sessions, CommitCase(s)
      PROVE  /\ \A k : HasCase(k)' <=> HasCase(k)
             /\ quarantines' = quarantines
  <2>1. /\ cases' = {IF SameCase(c, seen[s]) THEN Applied(s, c) ELSE c : c \in cases}
        /\ quarantines' = quarantines
    BY Zenon, <1>3 DEF CommitCase
  <2>2. \A c : Applied(s, c).key = c.key
    BY DEF Applied
  <2> QED
    BY Zenon, <2>1, <2>2 DEF HasCase
<1>4. ASSUME NEW s \in Sessions, CommitRelease(s)
      PROVE  /\ cases' = cases
             /\ \A x : HasQuarantine(x)' <=> HasQuarantine(x)
             /\ \A q \in quarantines' : \E r \in quarantines :
                  r.target = q.target /\ r.source = q.source
  <2>1. /\ cases' = cases
        /\ quarantines' = {IF SameQuarantine(q, seen[s]) THEN [q EXCEPT !.active = FALSE]
                           ELSE q : q \in quarantines}
    BY Zenon, <1>4 DEF CommitRelease
  <2>2. \A q \in quarantines : /\ [q EXCEPT !.active = FALSE].target = q.target
                               /\ [q EXCEPT !.active = FALSE].source = q.source
    OBVIOUS
  <2>3. ASSUME NEW q \in quarantines
        PROVE  \E r \in quarantines' : r.target = q.target /\ r.source = q.source
    <3>1. CASE SameQuarantine(q, seen[s])
      <4>1. [q EXCEPT !.active = FALSE] \in quarantines'
        BY Zenon, <2>1, <3>1
      <4> QED
        BY Zenon, <2>2, <4>1
    <3>2. CASE ~SameQuarantine(q, seen[s])
      BY Zenon, <2>1, <3>2
    <3> QED
      BY Zenon, <3>1, <3>2
  <2>4. ASSUME NEW q \in quarantines'
        PROVE  \E r \in quarantines : r.target = q.target /\ r.source = q.source
    <3>1. PICK r \in quarantines : q = IF SameQuarantine(r, seen[s])
                                       THEN [r EXCEPT !.active = FALSE] ELSE r
      BY Zenon, <2>1
    <3>2. q = [r EXCEPT !.active = FALSE] \/ q = r
      BY Zenon, <3>1
    <3> QED
      BY Zenon, <2>2, <3>2
  <2>5. ASSUME NEW x PROVE HasQuarantine(x)' <=> HasQuarantine(x)
    <3>1. ASSUME HasQuarantine(x) PROVE HasQuarantine(x)'
      BY Zenon, <2>3, <3>1 DEF HasQuarantine
    <3>2. ASSUME HasQuarantine(x)' PROVE HasQuarantine(x)
      BY Zenon, <2>4, <3>2 DEF HasQuarantine
    <3> QED
      BY Zenon, <3>1, <3>2
  <2> QED
    BY Zenon, <2>1, <2>4, <2>5
<1>5. ASSUME NEW s \in Sessions,
             Begin(s) \/ SelectExisting(s) \/ Insert(s) \/ Flush(s) \/ Die(s)
      PROVE  UNCHANGED tables
  BY Zenon, <1>5 DEF Begin, BeginCreate, GetCase, GetQuarantine, SelectExisting, Insert, Flush, Die
<1>6. ASSUME NEW s \in Sessions, CommitCase(s)
      PROVE  /\ \A x : HasQuarantine(x)' <=> HasQuarantine(x)
             /\ \A q \in quarantines' : \E r \in quarantines :
                  r.target = q.target /\ r.source = q.source
  BY Zenon, <1>3, <1>6 DEF HasQuarantine
<1>7. ASSUME NEW s \in Sessions, CommitRelease(s) PROVE \A k : HasCase(k)' <=> HasCase(k)
  BY Zenon, <1>4, <1>7 DEF HasCase
<1>8. CASE UNCHANGED vars
  BY Zenon, <1>1, <1>8 DEF vars
<1> QED
  BY Zenon, <1>1, <1>2, <1>3, <1>4, <1>5, <1>6, <1>7, <1>8 DEF Next, Step

(* A session's progress is not disturbed by the others *)
LEMMA ProgressStays ==
  ASSUME [Next]_vars, NEW s \in Sessions, NEW plan \in Plans, NEW n \in 0..Len(plan),
         WorkedOff(s, plan, n),
         todo'[s] = todo[s], newCases'[s] = newCases[s],
         newQuarantines'[s] = newQuarantines[s]
  PROVE  WorkedOff(s, plan, n)'
<1>1. ASSUME NEW item, Recorded(s, item) PROVE Recorded(s, item)'
  <2>1. /\ \A k : HasCase(k) => HasCase(k)'
        /\ \A x : HasQuarantine(x) => HasQuarantine(x)'
    BY Zenon, NamesStay
  <2> QED
    BY Zenon, <1>1, <2>1 DEF Recorded, HasCase, HasQuarantine
<1> QED
  BY <1>1 DEF WorkedOff

(* What is left of a sequence after its head *)
LEMMA TailFacts ==
  ASSUME NEW S, NEW q \in Seq(S), q # <<>>
  PROVE  /\ Len(q) \in Nat \ {0} /\ Head(q) = q[1]
         /\ Tail(q) \in Seq(S) /\ Len(Tail(q)) = Len(q) - 1
         /\ \A i \in 1..Len(q) - 1 : Tail(q)[i] = q[i + 1]
OBVIOUS

(* Counting on by one *)
LEMMA NextIndex ==
  ASSUME NEW n \in Nat
  PROVE  /\ 1..n \subseteq 1..n + 1 /\ n + 1 \in 1..n + 1
         /\ \A i \in 1..n + 1 : i = n + 1 \/ i \in 1..n
OBVIOUS

(* All of a plan is left at first *)
LEMMA NothingDone ==
  ASSUME NEW plan \in Seq(Item)
  PROVE  /\ 0 \in 0..Len(plan) /\ Len(plan) = Len(plan) - 0
         /\ \A i \in 1..Len(plan) : plan[i] = plan[0 + i]
         /\ \A i \in 1..0 : FALSE
OBVIOUS

(* What is left of a plan when one more item is done *)
LEMMA NextItem ==
  ASSUME NEW plan \in Seq(Item), NEW rest \in Seq(Item), rest # <<>>,
         NEW n \in 0..Len(plan), Len(rest) = Len(plan) - n,
         \A i \in 1..Len(rest) : rest[i] = plan[n + i]
  PROVE  /\ n \in Nat /\ n + 1 \in 0..Len(plan) /\ Head(rest) = plan[n + 1]
         /\ Len(Tail(rest)) = Len(plan) - (n + 1)
         /\ \A i \in 1..Len(Tail(rest)) : Tail(rest)[i] = plan[n + 1 + i]
<1>1. /\ Len(rest) \in Nat \ {0} /\ Head(rest) = rest[1]
      /\ Len(Tail(rest)) = Len(rest) - 1
      /\ \A i \in 1..Len(rest) - 1 : Tail(rest)[i] = rest[i + 1]
  BY Zenon, TailFacts
<1>2. Len(plan) \in Nat
  OBVIOUS
<1>3. n \in Nat /\ n + 1 \in 0..Len(plan) /\ Len(Tail(rest)) = Len(plan) - (n + 1)
  BY <1>1, <1>2
<1>4. Head(rest) = plan[n + 1]
  BY <1>1
<1>5. ASSUME NEW i \in 1..Len(Tail(rest)) PROVE Tail(rest)[i] = plan[n + 1 + i]
  <2>1. /\ i \in 1..Len(rest) - 1 /\ i + 1 \in 1..Len(rest)
        /\ n + (i + 1) = n + 1 + i
    BY <1>1
  <2>2. Tail(rest)[i] = rest[i + 1] /\ rest[i + 1] = plan[n + (i + 1)]
    BY Zenon, <1>1, <2>1
  <2> QED
    BY Zenon, <2>1, <2>2
<1> QED
  BY Zenon, <1>3, <1>4, <1>5

(* The next item of the plan is recorded *)
LEMMA ProgressMade ==
  ASSUME TypeOK, [Next]_vars, NEW s \in Sessions, NEW plan \in Plans, NEW n \in 0..Len(plan),
         WorkedOff(s, plan, n), todo[s] # <<>>, todo'[s] = Tail(todo[s]),
         NEW item, item = Head(todo[s]), Recorded(s, item)',
         newCases[s] \subseteq newCases'[s], newQuarantines[s] \subseteq newQuarantines'[s],
         \A c \in newCases'[s] \ newCases[s] :
           item.table = "case" /\ item.key = c.key,
         \A q \in newQuarantines'[s] \ newQuarantines[s] :
           item.table = "quarantine" /\ item.target = q.target /\ item.source = q.source
  PROVE  n + 1 \in 0..Len(plan) /\ WorkedOff(s, plan, n + 1)'
<1>1. plan \in Seq(Item) /\ todo[s] \in Seq(Item)
  BY Zenon, RecoveryAssumptions DEF TypeOK
<1>2. /\ Len(todo[s]) = Len(plan) - n
      /\ \A i \in 1..Len(todo[s]) : todo[s][i] = plan[n + i]
      /\ \A i \in 1..n : Recorded(s, plan[i])
      /\ \A c \in newCases[s] : \E i \in 1..n : plan[i].table = "case" /\ plan[i].key = c.key
      /\ \A q \in newQuarantines[s] : \E i \in 1..n :
           /\ plan[i].table = "quarantine"
           /\ plan[i].target = q.target /\ plan[i].source = q.source
  BY Zenon DEF WorkedOff
<1>3. /\ n \in Nat /\ n + 1 \in 0..Len(plan) /\ Head(todo[s]) = plan[n + 1]
      /\ Len(Tail(todo[s])) = Len(plan) - (n + 1)
      /\ \A i \in 1..Len(Tail(todo[s])) : Tail(todo[s])[i] = plan[n + 1 + i]
  BY Zenon, <1>1, <1>2, NextItem
<1>4. n + 1 \in 0..Len(plan) /\ item = plan[n + 1]
  BY Zenon, <1>3
<1>5. /\ Len(todo'[s]) = Len(plan) - (n + 1)
      /\ \A i \in 1..Len(todo'[s]) : todo'[s][i] = plan[n + 1 + i]
  BY Zenon, <1>3
<1>6. ASSUME NEW x, Recorded(s, x) PROVE Recorded(s, x)'
  <2>1. /\ \A k : HasCase(k) => HasCase(k)'
        /\ \A y : HasQuarantine(y) => HasQuarantine(y)'
    BY Zenon, NamesStay
  <2> QED
    BY Zenon, <1>6, <2>1 DEF Recorded, HasCase, HasQuarantine
<1>7. ASSUME NEW i \in 1..n + 1 PROVE Recorded(s, plan[i])'
  <2>1. CASE i = n + 1
    BY Zenon, <1>4, <2>1
  <2>2. CASE i \in 1..n
    BY Zenon, <1>2, <1>6, <2>2
  <2> QED
    BY Zenon, <1>3, <2>1, <2>2, NextIndex
<1>8. 1..n \subseteq 1..n + 1 /\ n + 1 \in 1..n + 1
  BY Zenon, <1>3, NextIndex
<1>9. ASSUME NEW c \in newCases'[s]
       PROVE  \E i \in 1..n + 1 : plan[i].table = "case" /\ plan[i].key = c.key
  <2>1. CASE c \in newCases[s]
    BY Zenon, <1>2, <1>8, <2>1
  <2>2. CASE c \notin newCases[s]
    BY Zenon, <1>4, <1>8, <1>9, <2>2
  <2> QED
    BY Zenon, <2>1, <2>2
<1>10. ASSUME NEW q \in newQuarantines'[s]
       PROVE  \E i \in 1..n + 1 : /\ plan[i].table = "quarantine"
                                  /\ plan[i].target = q.target /\ plan[i].source = q.source
  <2>1. CASE q \in newQuarantines[s]
    BY Zenon, <1>2, <1>8, <2>1
  <2>2. CASE q \notin newQuarantines[s]
    BY Zenon, <1>4, <1>8, <1>10, <2>2
  <2> QED
    BY Zenon, <2>1, <2>2
<1> QED
  BY Zenon, <1>4, <1>5, <1>7, <1>9, <1>10 DEF WorkedOff

(* Every step leaves the others' progress, and its own session's progress     *)
(* advances with its plan (SelectExisting, Insert)                            *)
LEMMA PlansNext ==
  ASSUME PendingInv, PlansWorkedOff, [Next]_vars
  PROVE  PlansWorkedOff'
<1> DEFINE Creating == {"select", "insert"}
           Same(s) == /\ todo'[s] = todo[s] /\ newCases'[s] = newCases[s]
                      /\ newQuarantines'[s] = newQuarantines[s]
           Goal(s) == \E plan \in Plans : \E n \in 0..Len(plan) : WorkedOff(s, plan, n)'
<1>1. /\ TypeOK /\ pc \in [Sessions -> Label] /\ todo \in [Sessions -> Seq(Item)]
      /\ DOMAIN newCases = Sessions /\ DOMAIN newQuarantines = Sessions
  BY Zenon DEF PendingInv, TypeOK
<1>2. ASSUME NEW s \in Sessions, pc[s] \in Creating, Same(s) PROVE Goal(s)
  <2>1. PICK plan \in Plans : \E n \in 0..Len(plan) : WorkedOff(s, plan, n)
    BY Zenon, <1>2 DEF PlansWorkedOff
  <2>2. PICK n \in 0..Len(plan) : WorkedOff(s, plan, n)
    BY Zenon, <2>1
  <2>3. WorkedOff(s, plan, n)'
    BY Zenon, <1>2, <2>2, ProgressStays
  <2> QED
    BY Zenon, <2>3
<1>3. ASSUME NEW s \in Sessions, NEW plan \in Plans, BeginCreate(s, plan) PROVE Goal(s)
  <2>1. /\ todo'[s] = plan /\ newCases'[s] = {} /\ newQuarantines'[s] = {}
        /\ plan \in Seq(Item)
    BY Zenon, <1>1, <1>3, RecoveryAssumptions
       DEF BeginCreate, PendingInv, PendingInserts, InsertsAreUncommitted
  <2>2. 0 \in 0..Len(plan) /\ WorkedOff(s, plan, 0)'
    BY Zenon, <2>1, NothingDone DEF WorkedOff
  <2> QED
    BY Zenon, <2>2
<1>4. ASSUME NEW s \in Sessions, pc[s] \in Creating, todo[s] # <<>>,
             todo'[s] = Tail(todo[s]),
             NEW item, item = Head(todo[s]), Recorded(s, item)',
             newCases[s] \subseteq newCases'[s], newQuarantines[s] \subseteq newQuarantines'[s],
             \A c \in newCases'[s] \ newCases[s] :
               item.table = "case" /\ item.key = c.key,
             \A q \in newQuarantines'[s] \ newQuarantines[s] :
               item.table = "quarantine" /\ item.target = q.target /\ item.source = q.source
      PROVE  Goal(s)
  <2>1. PICK plan \in Plans : \E n \in 0..Len(plan) : WorkedOff(s, plan, n)
    BY Zenon, <1>4 DEF PlansWorkedOff
  <2>2. PICK n \in 0..Len(plan) : WorkedOff(s, plan, n)
    BY Zenon, <2>1
  <2>3. n + 1 \in 0..Len(plan) /\ WorkedOff(s, plan, n + 1)'
    BY Zenon, <1>1, <1>4, <2>2, ProgressMade
  <2> QED
    BY Zenon, <2>3
<1>5. ASSUME NEW s \in Sessions, SelectExisting(s) PROVE Goal(s)
  <2>1. /\ pc[s] \in Creating /\ todo[s] # <<>>
        /\ UNCHANGED <<cases, quarantines, newCases, newQuarantines>>
    BY Zenon, <1>5 DEF SelectExisting, tables
  <2>2. CASE todo' = todo
    BY Zenon, <1>2, <2>1, <2>2
  <2>3. CASE Exists(s, Head(todo[s])) /\ todo' = [todo EXCEPT ![s] = Tail(@)]
    <3>1. PICK item : item = Head(todo[s])
      OBVIOUS
    <3>2. Recorded(s, item)'
      BY Zenon, <2>1, <2>3, <3>1 DEF Exists, Recorded
    <3>3. todo'[s] = Tail(todo[s])
      BY Zenon, <1>1, <2>3
    <3>4. newCases'[s] = newCases[s] /\ newQuarantines'[s] = newQuarantines[s]
      BY Zenon, <2>1
    <3> QED
      BY Zenon, <1>4, <2>1, <3>1, <3>2, <3>3, <3>4
  <2> QED
    BY Zenon, <1>5, <2>2, <2>3 DEF SelectExisting
<1>6. ASSUME NEW s \in Sessions, Insert(s), pc'[s] \in Creating PROVE Goal(s)
  <2>1. PICK item : item = Head(todo[s])
    OBVIOUS
  <2>2. pc[s] = "insert" /\ pc[s] \in Creating /\ InsertIsNew(s) /\ todo[s] # <<>>
    BY Zenon, <1>6 DEF Insert, PendingInv, PendingInserts, InsertIsNew
  <2>3. /\ todo' = [todo EXCEPT ![s] = Tail(@)]
        /\ UNCHANGED <<cases, quarantines>>
        /\ \/ /\ item.table = "case"
              /\ newCases' = [newCases EXCEPT ![s] = @ \cup {NewCase(s, item)}]
              /\ newQuarantines' = newQuarantines
           \/ /\ item.table = "quarantine"
              /\ newQuarantines' = [newQuarantines EXCEPT ![s] = @ \cup {NewQuarantine(s, item)}]
              /\ newCases' = newCases
    BY Zenon, <1>1, <1>6, <2>1, <2>2 DEF Insert, Finish, Goto, InsertIsNew, tables
  <2>4. todo'[s] = Tail(todo[s])
    BY Zenon, <1>1, <2>3
  <2>5. CASE /\ item.table = "case"
             /\ newCases' = [newCases EXCEPT ![s] = @ \cup {NewCase(s, item)}]
             /\ newQuarantines' = newQuarantines
    <3>1. newCases'[s] = newCases[s] \cup {NewCase(s, item)} /\ NewCase(s, item).key = item.key
      BY Zenon, <1>1, <2>5 DEF NewCase
    <3>2. Recorded(s, item)'
      BY Zenon, <2>5, <3>1 DEF Recorded
    <3>3. \A c \in newCases'[s] \ newCases[s] : item.table = "case" /\ item.key = c.key
      BY Zenon, <2>5, <3>1
    <3>4. /\ newCases[s] \subseteq newCases'[s] /\ newQuarantines[s] \subseteq newQuarantines'[s]
          /\ newQuarantines'[s] = newQuarantines[s]
      BY Zenon, <2>5, <3>1
    <3> QED
      BY Zenon, <1>4, <2>1, <2>2, <2>4, <3>2, <3>3, <3>4
  <2>6. CASE /\ item.table = "quarantine"
             /\ newQuarantines' = [newQuarantines EXCEPT ![s] = @ \cup {NewQuarantine(s, item)}]
             /\ newCases' = newCases
    <3>1. /\ newQuarantines'[s] = newQuarantines[s] \cup {NewQuarantine(s, item)}
          /\ NewQuarantine(s, item).target = item.target
          /\ NewQuarantine(s, item).source = item.source
      BY Zenon, <1>1, <2>6 DEF NewQuarantine
    <3>2. Recorded(s, item)'
      BY Zenon, <2>6, <3>1 DEF Recorded
    <3>3. \A q \in newQuarantines'[s] \ newQuarantines[s] :
            item.table = "quarantine" /\ item.target = q.target /\ item.source = q.source
      BY Zenon, <2>6, <3>1
    <3>4. /\ newCases[s] \subseteq newCases'[s] /\ newQuarantines[s] \subseteq newQuarantines'[s]
          /\ newCases'[s] = newCases[s]
      BY Zenon, <2>6, <3>1
    <3> QED
      BY Zenon, <1>4, <2>1, <2>2, <2>4, <3>2, <3>3, <3>4
  <2> QED
    BY Zenon, <2>3, <2>5, <2>6
<1>7. ASSUME NEW t \in Sessions, Begin(t) \/ Step(t) \/ Die(t),
             NEW s \in Sessions, pc'[s] \in Creating
      PROVE  Goal(s)
  <2>1. CASE s # t
    <3>1. pc'[s] = pc[s] /\ Same(s)
      BY Zenon, <1>1, <1>7, <2>1 DEF Begin, Step, BeginCreate, GetCase, GetQuarantine,
         SelectExisting, Insert, CommitCreate, Flush, CommitCase, CommitRelease, Die,
         Finish, Goto
    <3> QED
      BY Zenon, <1>2, <1>7, <3>1
  <2>2. CASE s = t
    <3>1. \/ \E plan \in Plans : BeginCreate(t, plan)
          \/ SelectExisting(t) \/ Insert(t)
          \/ pc'[t] \notin Creating
      BY Zenon, <1>1, <1>7 DEF Begin, Step, GetCase, GetQuarantine, CommitCreate, Flush,
         CommitCase, CommitRelease, Die, Finish, Goto
    <3> QED
      BY Zenon, <1>3, <1>5, <1>6, <1>7, <2>2, <3>1
  <2> QED
    BY Zenon, <2>1, <2>2
<1>8. ASSUME UNCHANGED vars, NEW s \in Sessions, pc'[s] \in Creating PROVE Goal(s)
  BY Zenon, <1>2, <1>8 DEF vars
<1> QED
  BY Zenon, <1>7, <1>8 DEF PlansWorkedOff, Next

(* ContainmentIsPlanned for one item of each plan *)
LEMMA PlannedTogether ==
  ASSUME NEW plan \in Plans, NEW i \in 1..Len(plan),
         NEW other \in Plans, NEW j \in 1..Len(other), other[j].table = "quarantine"
  PROVE  /\ plan[i].table = "case" /\ other[j].source = plan[i].key
            => \E m \in 1..Len(plan) :
                 plan[m].table = "quarantine" /\ plan[m].target = other[j].target
         /\ other[j].source # None
            => \E m \in 1..Len(other) :
                 other[m].table = "case" /\ other[m].key = other[j].source
BY ContainmentIsPlanned

(* A case and its containment become visible in one commit *)
LEMMA ContainedNext ==
  ASSUME PendingInv, PlansWorkedOff, CaseIsContained, [Next]_vars
  PROVE  CaseIsContained'
<1> DEFINE Held(item) == item.table = "quarantine" /\ item.source # None
<1>1. /\ \A k : HasCase(k) => HasCase(k)'
      /\ \A x : HasQuarantine(x) => HasQuarantine(x)'
  BY Zenon, NamesStay
<1>2. /\ \A plan \in Plans : \A i \in 1..Len(plan) :
           Held(plan[i]) /\ HasCase(plan[i].source) => HasQuarantine(plan[i].target)
      /\ \A q \in quarantines : q.source # None => HasCase(q.source)
  BY Zenon DEF CaseIsContained, HasCase, HasQuarantine
<1> SUFFICES
      /\ \A plan \in Plans : \A i \in 1..Len(plan) :
           Held(plan[i]) /\ HasCase(plan[i].source)' => HasQuarantine(plan[i].target)'
      /\ \A q \in quarantines' : q.source # None => HasCase(q.source)'
  BY Zenon DEF CaseIsContained, HasCase, HasQuarantine
<1>3. CASE /\ \A k : HasCase(k)' => HasCase(k)
           /\ \A q \in quarantines' : \E r \in quarantines :
                r.target = q.target /\ r.source = q.source
  <2>1. ASSUME NEW q \in quarantines', q.source # None PROVE HasCase(q.source)'
    <3>1. PICK r \in quarantines : r.source = q.source
      BY Zenon, <1>3
    <3>2. HasCase(r.source)
      BY Zenon, <1>2, <2>1, <3>1
    <3> QED
      BY Zenon, <1>1, <3>1, <3>2
  <2> QED
    BY Zenon, <1>1, <1>2, <1>3, <2>1
<1>4. ASSUME NEW s \in Sessions, CommitCreate(s)
      PROVE  /\ \A plan \in Plans : \A i \in 1..Len(plan) :
                  Held(plan[i]) /\ HasCase(plan[i].source)' => HasQuarantine(plan[i].target)'
             /\ \A q \in quarantines' : q.source # None => HasCase(q.source)'
  <2>1. /\ pc[s] \in {"select", "insert"} /\ todo[s] = <<>>
        /\ cases' = cases \cup newCases[s]
        /\ quarantines' = quarantines \cup newQuarantines[s]
    BY Zenon, <1>4 DEF CommitCreate
  <2>2. PICK plan \in Plans : \E n \in 0..Len(plan) : WorkedOff(s, plan, n)
    BY Zenon, <2>1 DEF PlansWorkedOff
  <2>3. PICK n \in 0..Len(plan) : WorkedOff(s, plan, n)
    BY Zenon, <2>2
  <2>4. plan \in Seq(Item) /\ Len(plan) \in Nat /\ n = Len(plan)
    BY <2>1, <2>3, RecoveryAssumptions DEF WorkedOff
  <2>5. /\ \A i \in 1..Len(plan) : Recorded(s, plan[i])
        /\ \A c \in newCases[s] : \E i \in 1..Len(plan) :
             plan[i].table = "case" /\ plan[i].key = c.key
        /\ \A q \in newQuarantines[s] : \E i \in 1..Len(plan) :
             /\ plan[i].table = "quarantine"
             /\ plan[i].target = q.target /\ plan[i].source = q.source
    BY Zenon, <2>3, <2>4 DEF WorkedOff
  <2>6. ASSUME NEW m \in 1..Len(plan)
        PROVE  /\ plan[m].table = "case" => HasCase(plan[m].key)'
               /\ plan[m].table = "quarantine" => HasQuarantine(plan[m].target)'
    <3>1. Recorded(s, plan[m])
      BY Zenon, <2>5, <2>6
    <3> QED
      BY Zenon, <2>1, <3>1 DEF Recorded, HasCase, HasQuarantine
  <2>7. ASSUME NEW other \in Plans, NEW j \in 1..Len(other), Held(other[j]),
               HasCase(other[j].source)'
        PROVE  HasQuarantine(other[j].target)'
    <3>1. CASE HasCase(other[j].source)
      BY Zenon, <1>1, <1>2, <2>7, <3>1
    <3>2. CASE ~HasCase(other[j].source)
      <4>1. PICK c \in newCases[s] : c.key = other[j].source
        BY Zenon, <2>1, <2>7, <3>2 DEF HasCase
      <4>2. PICK i \in 1..Len(plan) : plan[i].table = "case" /\ plan[i].key = c.key
        BY Zenon, <2>5
      <4>3. PICK m \in 1..Len(plan) :
              plan[m].table = "quarantine" /\ plan[m].target = other[j].target
        <5>1. plan[i].table = "case" /\ other[j].table = "quarantine"
              /\ other[j].source = plan[i].key
          BY Zenon, <2>7, <4>1, <4>2
        <5> QED
          BY <5>1, PlannedTogether
      <4> QED
        BY Zenon, <2>6, <4>3
    <3> QED
      BY Zenon, <3>1, <3>2
  <2>8. ASSUME NEW q \in quarantines', q.source # None PROVE HasCase(q.source)'
    <3>1. CASE q \in quarantines
      BY Zenon, <1>1, <1>2, <2>8, <3>1
    <3>2. CASE q \in newQuarantines[s]
      <4>1. PICK i \in 1..Len(plan) : plan[i].table = "quarantine" /\ plan[i].source = q.source
        BY Zenon, <2>5, <3>2
      <4>2. PICK m \in 1..Len(plan) : plan[m].table = "case" /\ plan[m].key = plan[i].source
        BY <2>8, <4>1, PlannedTogether
      <4> QED
        BY Zenon, <2>6, <4>1, <4>2
    <3> QED
      BY Zenon, <2>1, <2>8, <3>1, <3>2
  <2> QED
    BY Zenon, <2>7, <2>8
<1> QED
  BY Zenon, <1>3, <1>4, NamesStay

(* There is nothing to contain and nothing to work off at the start *)
LEMMA RecoveryInit == Init => RecoveryInv
<1> SUFFICES ASSUME Init PROVE RecoveryInv
  OBVIOUS
<1>1. PendingInv
  BY Zenon, PendingInit
<1>2. PlansWorkedOff /\ CaseIsContained
  BY Zenon DEF Init, PlansWorkedOff, CaseIsContained
<1> QED
  BY Zenon, <1>1, <1>2 DEF RecoveryInv

(* Every command keeps the pending rows in order, its plan in step and the    *)
(* cases contained                                                            *)
THEOREM RecoveryInvariant == Spec => []RecoveryInv
<1>1. RecoveryInv /\ [Next]_vars => RecoveryInv'
  BY Zenon, PendingNext, PlansNext, ContainedNext DEF RecoveryInv
<1> QED BY <1>1, RecoveryInit, PTL DEF Spec

(* A finding that has to be contained is committed with its quarantine, for   *)
(* any number of sessions and any plans that pair the two                     *)
(* (create_from_analyzer_result, _create_count_case)                          *)
THEOREM CaseIsContainedAlways == Spec => []CaseIsContained
<1>1. RecoveryInv => CaseIsContained
  BY Zenon DEF RecoveryInv
<1> QED BY <1>1, RecoveryInvariant, PTL

-----------------------------------------------------------------------------
(* Waiting *)

(* The key that a waiting insert needs comes in its plan after every key its  *)
(* session holds                                                              *)
LEMMA HeldBeforeWanted ==
  ASSUME PendingInv, PlansWorkedOff, NEW s \in Sessions, pc[s] = "insert",
         NEW item, item = Head(todo[s])
  PROVE  /\ \E plan \in Plans : \E i \in 1..Len(plan) : item = plan[i]
         /\ \A c \in newCases[s] : Before(<<"case", c.key>>, UniqueKey(item))
         /\ \A q \in newQuarantines[s] : Before(<<"quarantine", q.target>>, UniqueKey(item))
<1>1. todo[s] # <<>> /\ todo[s] \in Seq(Item) /\ pc[s] \in {"select", "insert"}
  BY Zenon DEF PendingInv, PendingInserts, InsertIsNew, TypeOK
<1>2. PICK plan \in Plans : \E n \in 0..Len(plan) : WorkedOff(s, plan, n)
  BY Zenon, <1>1 DEF PlansWorkedOff
<1>3. PICK n \in 0..Len(plan) : WorkedOff(s, plan, n)
  BY Zenon, <1>2
<1>4. /\ Len(todo[s]) = Len(plan) - n
      /\ \A i \in 1..Len(todo[s]) : todo[s][i] = plan[n + i]
      /\ \A c \in newCases[s] : \E i \in 1..n :
           plan[i].table = "case" /\ plan[i].key = c.key
      /\ \A q \in newQuarantines[s] : \E i \in 1..n :
           plan[i].table = "quarantine" /\ plan[i].target = q.target
  BY Zenon, <1>3 DEF WorkedOff
<1>5. plan \in Seq(Item) /\ Len(plan) \in Nat
  BY RecoveryAssumptions
<1>6. Len(todo[s]) \in Nat \ {0} /\ item = todo[s][1]
  BY Zenon, <1>1, TailFacts
<1>7. /\ n + 1 \in 1..Len(plan) /\ item = plan[n + 1]
      /\ \A i \in 1..n : i \in 1..Len(plan) /\ i < n + 1
  BY <1>4, <1>5, <1>6
<1>8. ASSUME NEW i \in 1..n PROVE Before(UniqueKey(plan[i]), UniqueKey(item))
  BY Zenon, <1>7 DEF Before
<1>9. ASSUME NEW c \in newCases[s] PROVE Before(<<"case", c.key>>, UniqueKey(item))
  <2>1. PICK i \in 1..n : plan[i].table = "case" /\ plan[i].key = c.key
    BY Zenon, <1>4
  <2>2. UniqueKey(plan[i]) = <<"case", c.key>>
    BY Zenon, <2>1 DEF UniqueKey
  <2> QED
    BY Zenon, <1>8, <2>2
<1>10. ASSUME NEW q \in newQuarantines[s]
       PROVE  Before(<<"quarantine", q.target>>, UniqueKey(item))
  <2>1. PICK i \in 1..n : plan[i].table = "quarantine" /\ plan[i].target = q.target
    BY Zenon, <1>4
  <2>2. UniqueKey(plan[i]) = <<"quarantine", q.target>>
    BY Zenon, <2>1 DEF UniqueKey
  <2> QED
    BY Zenon, <1>8, <2>2
<1> QED
  BY Zenon, <1>7, <1>9, <1>10

(* A session that waits for an insert of another one has not reached a key    *)
(* that the other one holds                                                   *)
LEMMA WaitsInOrder ==
  ASSUME PendingInv, PlansWorkedOff, NEW s \in Sessions, NEW t \in Sessions,
         pc[s] = "insert", pc[t] = "insert", WaitsFor(s, t)
  PROVE  Before(UniqueKey(Head(todo[s])), UniqueKey(Head(todo[t])))
<1>1. InsertBlockedBy(t, Head(todo[s])) /\ Updating(t, CaseOp) = {} /\ Updating(t, {"release"}) = {}
  BY Zenon DEF WaitsFor, Updating
<1>2. CASE Head(todo[s]).table = "case"
  <2>1. PICK c \in newCases[t] : c.key = Head(todo[s]).key
    BY Zenon, <1>1, <1>2 DEF InsertBlockedBy
  <2>2. UniqueKey(Head(todo[s])) = <<"case", c.key>>
    BY Zenon, <1>2, <2>1 DEF UniqueKey
  <2> QED
    BY Zenon, <2>2, HeldBeforeWanted
<1>3. CASE Head(todo[s]).table # "case"
  <2>1. PICK q \in newQuarantines[t] : q.target = Head(todo[s]).target
    BY Zenon, <1>1, <1>3 DEF InsertBlockedBy
  <2>2. UniqueKey(Head(todo[s])) = <<"quarantine", q.target>>
    BY Zenon, <1>3, <2>1 DEF UniqueKey
  <2> QED
    BY Zenon, <2>2, HeldBeforeWanted
<1> QED
  BY Zenon, <1>2, <1>3

(* However many sessions run and whatever they create, no set of them waits   *)
(* in a circle, as long as all plans insert in one order                      *)
(* (_create_reconciliation_cases, detect_stale_processing): among the waiting *)
(* ones, the one that wants the last key in that order waits for none         *)
THEOREM NoCircularWaitAlways == Spec => []NoCircularWait
<1>1. ASSUME PendingInv, PlansWorkedOff PROVE NoCircularWait
  <2> SUFFICES ASSUME NEW S \in SUBSET Sessions, S # {}
               PROVE  \E s \in S : \A t \in S \ {s} : ~WaitsFor(s, t)
    BY Zenon DEF NoCircularWait
  <2>1. CASE \E s \in S : pc[s] \notin {"insert", "flush"}
    BY Zenon, <2>1 DEF WaitsFor
  <2>2. CASE /\ \A s \in S : pc[s] \in {"insert", "flush"}
             /\ \E s \in S : pc[s] = "flush"
    BY Zenon, <2>2 DEF WaitsFor, RowHeldBy
  <2>3. CASE \A s \in S : pc[s] = "insert"
    <3> DEFINE K == {UniqueKey(Head(todo[s])) : s \in S}
    <3>1. K # {}
      OBVIOUS
    <3>2. K \in SUBSET UNION {{UniqueKey(plan[i]) : i \in 1..Len(plan)} : plan \in Plans}
      <4>1. ASSUME NEW s \in S
            PROVE  \E plan \in Plans : \E i \in 1..Len(plan) : Head(todo[s]) = plan[i]
        <5>1. s \in Sessions /\ pc[s] = "insert"
          BY Zenon, <2>3
        <5> QED
          BY <1>1, <5>1, HeldBeforeWanted
      <4>2. ASSUME NEW s \in S
            PROVE  UniqueKey(Head(todo[s])) \in
                     UNION {{UniqueKey(plan[i]) : i \in 1..Len(plan)} : plan \in Plans}
        <5>1. PICK plan \in Plans : \E i \in 1..Len(plan) : Head(todo[s]) = plan[i]
          BY Zenon, <4>1
        <5>2. UniqueKey(Head(todo[s])) \in {UniqueKey(plan[i]) : i \in 1..Len(plan)}
          BY Zenon, <5>1
        <5> QED
          BY Zenon, <5>2
      <4> QED
        BY Zenon, <4>2
    <3>3. PICK x \in K : \A y \in K : ~Before(x, y)
      BY Zenon, <3>1, <3>2, OneInsertOrder
    <3>4. PICK s \in S : x = UniqueKey(Head(todo[s]))
      BY Zenon
    <3>5. ASSUME NEW t \in S \ {s} PROVE ~WaitsFor(s, t)
      <4>1. ~Before(UniqueKey(Head(todo[s])), UniqueKey(Head(todo[t])))
        BY Zenon, <3>3, <3>4
      <4>2. s \in Sessions /\ t \in Sessions /\ pc[s] = "insert" /\ pc[t] = "insert"
        BY Zenon, <2>3
      <4> QED
        BY Zenon, <1>1, <4>1, <4>2, WaitsInOrder
    <3> QED
      BY Zenon, <3>5
  <2> QED
    BY Zenon, <2>1, <2>2, <2>3
<1>2. RecoveryInv => NoCircularWait
  BY Zenon, <1>1 DEF RecoveryInv
<1> QED BY <1>2, RecoveryInvariant, PTL

=============================================================================
