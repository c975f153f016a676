SPECIFICATION Spec
CONSTANTS
  Absent = Absent
  Torn = Torn
  Missing = Missing
  Invalid = Invalid
  Nothing = Nothing
  Creators = {c1, c2}
  Analyzers = {a1, a2}
  Ingesters = {i1, i2}
  Inputs <- MCInputs
  Found <- MCFound
  Scenarios <- MCScenarios
  MaxSuffix = 1
CHECK_DEADLOCK FALSE
CONSTRAINT Meeting
SYMMETRY ActorSymmetry
INVARIANTS SettledAnalysisIsAtomic OneCasePerSettledIncident
