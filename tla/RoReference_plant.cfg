SPECIFICATION RoSpec
CONSTANTS
    Cases <- PlantCases
    Rounds = 100
INVARIANTS CouplingClosed
CHECK_DEADLOCK FALSE
