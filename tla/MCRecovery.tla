----------------------------- MODULE MCRecovery -----------------------------
(***************************************************************************)
(* An instance of RecoveryCases: the commands that meet.                    *)
(***************************************************************************)
EXTENDS RecoveryCases, FiniteSets, TLC

CONSTANTS MaxMeeting   \* how many commands meet while findings are recorded

LOCAL INSTANCE RecoveryPlans

Outage == AnalysisPlan("inc-1", "POSTGRES_DOWN_WRITE_SUSPENDED", FALSE)

(* an analysis that asks for containment, one that creates nothing, the      *)
(* operator quarantining the same target, reconciliations that find          *)
(* different subsets of issues, and stale records                            *)
MCPlans ==
  {Outage, AnalysisPlan("inc-2", "CONSISTENCY_ISSUE_CANDIDATE", FALSE),
   AnalysisPlan("inc-2", "UNKNOWN_INCIDENT", FALSE),
   QuarantinePlan(<<"GLOBAL_WRITE", "inc-2">>),
   ReconciliationPlan({"duplicate_ledger", "ledger_without_transaction_event"}),
   StalePlan(<<"r1", "r2">>) \o ReconciliationPlan({"ledger_without_transaction_event"}),
   StalePlan(<<"r1", "r2">>)}

Items == UNION {{plan[i] : i \in DOMAIN plan} : plan \in MCPlans}
MCCaseKeys == {i.key : i \in {j \in Items : j.table = "case"}}
MCTargets == {i.target : i \in {j \in Items : j.table = "quarantine"}}

Deciders == {s \in Sessions : op[s] \in CaseOp}
Started == {s \in Sessions : pc[s] # "idle"}

(* At most MaxMeeting commands record findings and release quarantines at    *)
(* the same time.  Once a case is decided on, all other commands decide on   *)
(* it too, and it is the one of the outage.                                  *)
Meeting ==
  IF Deciders = {} THEN Cardinality(Started) <= MaxMeeting
  ELSE /\ Cardinality(Started \ Deciders) = 1
       /\ \A c \in cases : c.key = Head(Outage).key

SessionSymmetry == Permutations(Sessions)

=============================================================================
