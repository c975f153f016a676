SPECIFICATION Spec
CONSTANTS
  None = None
  NotCollected = NotCollected
  MaxChanges = 3
  Disturbances <- MCDisturbances
INVARIANT DrillMatchesCatalog
INVARIANT DominantPhaseIsNamed
PROPERTY LossIsNotNormal
PROPERTY VerdictSurvivesLoss
CHECK_DEADLOCK FALSE
