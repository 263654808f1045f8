SPECIFICATION Spec
CONSTANTS
    p1 = p1
    o1 = o1
    o2 = o2
    Pollers = {p1}
    Operators = {o1, o2}
    WriteBack = TRUE
    MaxDecisions = 4
    MaxCrashes = 2
SYMMETRY OperatorSymmetry
INVARIANTS TypeOK RestartRestores DecisionsAudited TicketsBacked
 
