SPECIFICATION Spec
CONSTANTS
    Api = {a1, a2}
    MaxEvents = 3
    DbFaults = FALSE
INVARIANTS TableVerifies
