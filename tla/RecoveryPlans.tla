---------------------------- MODULE RecoveryPlans ----------------------------
(***************************************************************************)
(* What the detectors have the recovery service create, in the order in     *)
(* which they do: the plans of RecoveryCases.  A source key and a           *)
(* quarantine target are tuples of the parts their strings are formatted    *)
(* from.                                                                    *)
(***************************************************************************)
EXTENDS Sequences

CONSTANT None

RecoveryCaseType ==
  {"STALE_PROCESSING", "BALANCE_MISMATCH", "DUPLICATE_LEDGER",
   "ORPHAN_IDEMPOTENCY", "FAILOVER_IN_DOUBT", "CONSISTENCY_ISSUE_CANDIDATE",
   "WRITE_SUSPENDED_UNKNOWN_DEPENDENCY", "POSTGRES_DOWN_WRITE_SUSPENDED"}

CaseItem(key) == [table |-> "case", key |-> key]
QuarantineItem(target, source) ==
  [table |-> "quarantine", target |-> target, source |-> source]

(* an operator's quarantine command *)
QuarantinePlan(target) == <<QuarantineItem(target, None)>>

(* create_from_analyzer_result: an unsafe result or a classification that is *)
(* not a case type creates nothing                                           *)
AnalysisPlan(incident, classification, sensitive) ==
  IF sensitive \/ classification \notin RecoveryCaseType THEN <<>>
  ELSE LET key == <<"incident", incident, classification>> IN
       IF classification = "CONSISTENCY_ISSUE_CANDIDATE"
       THEN <<CaseItem(key), QuarantineItem(<<"GLOBAL_WRITE", incident>>, key)>>
       ELSE <<CaseItem(key)>>

(* a case per issue type that is found, with a quarantine if the issue asks  *)
(* for one                                                                   *)
CountCase(found, issue, quarantine_global) ==
  LET key == <<"ph5:reconcile", issue>> IN
  IF issue \notin found THEN <<>>
  ELSE IF quarantine_global
  THEN <<CaseItem(key), QuarantineItem(<<"GLOBAL_WRITE", issue>>, key)>>
  ELSE <<CaseItem(key)>>

(* found: the issue types that are counted at least once *)
ReconciliationPlan(found) ==
     CountCase(found, "duplicate_ledger", TRUE)
  \o CountCase(found, "account_balance_mismatch", TRUE)
  \o CountCase(found, "completed_idempotency_without_transaction_event", FALSE)
  \o CountCase(found, "transaction_event_without_ledger", TRUE)
  \o CountCase(found, "ledger_without_transaction_event", TRUE)

(* records: the stale idempotency records, oldest first *)
StalePlan(records) == [i \in DOMAIN records |-> CaseItem(<<"ph5:stale", records[i]>>)]

=============================================================================
