SPECIFICATION Spec
CONSTANTS
    Operators = {o1, o2}
    Scripts <- AllScripts
    Settings <- MCSettings
    MaxCommands = 4
    MaxFaults = 2
    MaxStops = 1
    MaxKills = 1
CHECK_DEADLOCK FALSE
CONSTRAINT Meeting
SYMMETRY OperatorSymmetry
INVARIANTS ShownIsRouted SnippetIsRouted FailedSwitchLeavesBlue CompletedSwitchSettles
