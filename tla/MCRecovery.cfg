CONSTANTS
  None = None
  Plans <- MCPlans
  CaseKeys <- MCCaseKeys
  Targets <- MCTargets
  Sessions = {s1, s2, s3, s4, s5}
  DecideOps = {"approve", "reject", "start_execution", "mark_executed", "mark_execution_failed", "close", "release"}
  MaxMeeting = 3
SPECIFICATION Spec
CONSTRAINT Meeting
SYMMETRY SessionSymmetry
INVARIANTS RecoveryInv CaseIsContained ExecutionWasApproved NoCircularWait
CHECK_DEADLOCK FALSE
