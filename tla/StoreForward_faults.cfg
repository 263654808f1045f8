SPECIFICATION FairSpec
CONSTANTS
    MaxSeq = 2
    CounterMayBeLost = TRUE
    NoSeq = NoSeq
    Api = {a1, a2}
    DbFaults = TRUE
    Conn = {c1, c2}
    Forwarder = {f1}
    NoClient = NoClient
INVARIANTS RecordedOnce PendingNeverOverwritten
PROPERTIES SpoolDrains
