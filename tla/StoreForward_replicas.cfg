SPECIFICATION Spec
CONSTANTS
    MaxSeq = 4
    CounterMayBeLost = FALSE
    NoSeq = NoSeq
    Api = {a1, a2}
    DbFaults = FALSE
    Conn = {c1, c2, c3}
    Forwarder = {f1, f2}
    NoClient = NoClient
SYMMETRY Symmetry
INVARIANTS TypeOK AckedIsDurable ReplayInOrderOnce
PROPERTIES KeepsPromise IdsNeverReused
