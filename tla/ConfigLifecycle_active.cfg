SPECIFICATION Spec
CONSTANTS
    Request = {r1, r2}
    Payload = {p1}
    MaxVersions = 3
    Durable = TRUE
    MayCrash = FALSE
INVARIANTS OneActive
