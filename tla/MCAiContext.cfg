SPECIFICATION Spec
CONSTANTS
  r1 = r1
  Runners = {r1, r2, r3}
  Payloads <- MCPayloads
  MaxSuffix = 4
CHECK_DEADLOCK FALSE
INVARIANTS ContextIsSafe ValidIsSafe RemovalsAreRecorded SanitizedIsValid
