SPECIFICATION FairSpec
CONSTANTS
    Request = {r1, r2}
    Payload = {p1, p2}
    MaxVersions = 4
    Durable = TRUE
    MayCrash = FALSE
INVARIANTS  TransitionsAudited
PROPERTIES ApprovedActivates
