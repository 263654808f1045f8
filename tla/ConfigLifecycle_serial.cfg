SPECIFICATION Spec
CONSTANTS
    Request = {r1}
    Payload = {p1, p2}
    MaxVersions = 4
    Durable = TRUE
    MayCrash = TRUE
INVARIANTS TypeOK OneActive OneInFlight
PROPERTIES OneWay ChangesGoverned
