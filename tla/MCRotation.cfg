SPECIFICATION Spec
CONSTANTS
  None = None
  Unparsable = Unparsable
  AllowedSkew = 1
  Production = TRUE
  Processes = {p1, p2}
  Client = "bank-a"
  Keys = {"k1", "k2"}
  FirstKey = "k1"
  Window = 2
  MaxTime = 4
  MaxSent = 1
SYMMETRY ProcessSymmetry
CHECK_DEADLOCK FALSE
INVARIANT DrillPasses
PROPERTIES NoValidTrafficLost StagedKeyNeverWrites OutStaysOut
