SPECIFICATION ServicesSpec
CONSTANTS
    Focuses = {"api", "audit", "jobs", "treatments", "bus", "training", "edge", "twin", "tracker", "ro", "analysis"}
    Settings <- MCSettings
    ScopeArgs <- MCScopeArgs
    Api = {a1}
    MaxEvents = 4
    DbFaults = TRUE
    c1 = c1  c2 = c2  e1 = e1  e2 = e2  h1 = h1  h2 = h2  r1 = r1  r2 = r2
    Clients = {c1, c2}
    Scenarios <- MCScenarios
    PollAttempts = 1
    MaxFaults = 1
    Processes <- MCProcesses
    MaxTreatments = 2
    MaxOutages = 1
    Events = {e1, e2}
    Handlers = {h1, h2}
    LogHandler = h1
    Subjects <- MCSubjects
    MaxLinkLosses = 1
    Requests = {r1, r2}
    Drills = {"leak", "storm"}
    Captures <- MCCaptures
    MaxSessions = 1
    MaxActions = 2
    MaxRecords = 2
    MaxResets = 1
    Configs <- MCConfigs
    DeviceReads <- MCReads
    Ranges <- MCRanges
    FrozenLimit = 2
    Deadband = 2
    BufferCap = 3
    MaxReads = 3
    MaxPushes = 2
    TwinProcesses = {p1, p2}
    Model <- MCModel
    MaxLoads = 4
    MaxBreaks = 2
    AlertIds = {al1, al2, al3}
    Window = 2
    MaxAlerts = 4
    Cases <- MCCases
    Rounds = 100
INVARIANTS PartsTypeOK   TableVerifies ResultsHonest  AlgorithmsSound
PROPERTIES   WorkEnds
CHECK_DEADLOCK FALSE
