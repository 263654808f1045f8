------------------------------- MODULE Services -------------------------------
(***************************************************************************)
(* The parts of the platform that share no state, side by side: the API's  *)
(* requests, its audit chain in one process, its event bus, training, the  *)
(* model tracker and the network store, the two simulation services, the   *)
(* edge gateway's signal path and the RO reference.  Actions of different  *)
(* parts commute and no property relates two of them, so a behaviour       *)
(* interleaves the steps of one part, its focus, and the others keep their *)
(* initial state: the state space is the sum of the parts'.  The focus     *)
(* "analysis" takes no step; the pure algorithms are compared with their   *)
(* references there.                                                       *)
(***************************************************************************)
EXTENDS AuditChain, WaterQuality, ServiceAnalysis

CONSTANTS
    Focuses,                                       \* the parts that are run
    Settings, ScopeArgs,                           \* Api
    Clients, Scenarios, PollAttempts, MaxFaults,   \* SimJobs
    Processes, MaxTreatments, MaxOutages,          \* TreatmentJobs
    Events, Handlers, LogHandler, Subjects, MaxLinkLosses, \* EventBus
    Requests, Drills, Captures, MaxSessions, MaxActions, MaxRecords, MaxResets, \* Training
    Configs, DeviceReads, Ranges, FrozenLimit, Deadband, BufferCap, MaxReads, MaxPushes, \* Signals
    TwinProcesses, Model, MaxLoads, MaxBreaks,     \* Twin
    AlertIds, Window, MaxAlerts                    \* ModelQuality

VARIABLES
    focus,
    env, cards, orphans, orders, runs, latest, feedback, audit, usage, month, resetting, caller, logged,
    up, jobs, file, task, calls, faults,
    treatments, tasks, alive, outages, fetched,
    busLink, bound, handlers, publishing, wire, seen, counters, losses,
    sessions, sandboxes, records, trainingTrail, requests, opened, resets,
    config, resolution, monitor, health, flagged, depth, pushed, history, pushes,
    twinTable, memory, connection, loader, loads, breaks,
    window, index, entries, recorded

Web == INSTANCE Api
Sim == INSTANCE SimJobs
Treat == INSTANCE TreatmentJobs
Bus == INSTANCE EventBus WITH Log <- LogHandler, link <- busLink
Drill == INSTANCE Training
Edge == INSTANCE Signals
Net == INSTANCE Twin WITH Processes <- TwinProcesses, table <- twinTable
Quality == INSTANCE ModelQuality WITH Alerts <- AlertIds

webvars == <<env, cards, orphans, orders, runs, latest, feedback, audit, usage, month, resetting, caller, logged>>
chainvars == <<table, trigger, stage, link, mem, call, unsent, announced, created>>
simvars == <<up, jobs, file, task, calls, faults>>
treatmentvars == <<treatments, tasks, alive, outages, fetched>>
busvars == <<busLink, bound, handlers, publishing, wire, seen, counters, losses>>
drillvars == <<sessions, sandboxes, records, trainingTrail, requests, opened, resets>>
edgevars == <<config, resolution, monitor, health, flagged, depth, pushed, history, pushes>>
netvars == <<twinTable, memory, connection, loader, loads, breaks>>
qualityvars == <<window, index, entries, recorded>>
appvars == <<webvars, chainvars, busvars, drillvars, netvars, qualityvars>>
servicevars == <<focus, appvars, simvars, treatmentvars, edgevars, rovars>>

ASSUME ServicesAssumption ==
    /\ FrozenLimit \in Nat \ {0} /\ Deadband \in Nat /\ BufferCap \in Nat
    /\ Window \in Nat \ {0} /\ Rounds \in Nat \ {0} /\ PollAttempts \in Nat \ {0}
    /\ LogHandler \in Handlers /\ IsFiniteSet(Handlers) /\ IsFiniteSet(Events)
    /\ {MaxSessions, MaxResets, MaxTreatments, MaxLoads} \subseteq Nat

\* The settings of the API bound its run and let a caller name no scope.
ASSUME SettingsAssumption ==
    /\ \A e \in Settings : /\ {e.bounds.events, e.bounds.runs, e.bounds.use} \subseteq Nat
                           /\ e.bounds.months \in Nat \ {0}
    /\ <<Web!None, Web!None>> \in ScopeArgs

\* What is solved, read and computed: a treatment request has a point to solve
\* (treatment-sim checks its grids), a read is a list and its numbers are whole
\* thousandths, as a tag's scale and offset are, a plant has physical data.
ASSUME InputsAssumption ==
    /\ \A s \in Processes :
          /\ s.points \in Seq([energy : Nat, recovery : Nat, tds : Nat]) /\ DOMAIN s.points # {}
          /\ {s.minRecovery, s.maxTds} \subseteq Nat
    /\ \A source \in {"opcua", "modbus", "historian"} : \A found \in DeviceReads[source] :
          DOMAIN found = 1..Len(found) /\ Len(found) \in Nat
    /\ \A found \in DeviceReads["opcua"] \cup DeviceReads["historian"] : \A i \in DOMAIN found :
          found[i].value \in [is : {"number", "nan", "text"}, v : Int]
    /\ \A found \in DeviceReads["modbus"] : \A i \in DOMAIN found :
          found[i].kind \in {"coil", "discrete", "holding", "input"} /\ found[i].words \in Seq(Int)
    /\ \A c \in Configs : \A entry \in Range(c.tagMap.tags) :
          \A factor \in {"scale", "offset"} \cap DOMAIN entry : entry[factor] \in Int
    /\ IsFiniteSet(Net!ElementIds) /\ Net!ElementIds # {}
    /\ \A c \in Cases : /\ {c.area, c.pressure, c.tds, c.kelvin, c.drop} \subseteq Nat
                         /\ c.feed \in Nat \ {0}

---------------------------------------------------------------------------
\* A part that is not run has one initial state.
Settled(part, v, S) == focus = part \/ v = CHOOSE x \in S : TRUE
ServicesInit ==
    /\ focus \in Focuses
    /\ Web!Init /\ Settled("api", env, Settings)
    /\ Init /\ Sim!JobsInit /\ Treat!TreatmentInit /\ Bus!BusInit /\ Drill!TrainingInit
    /\ Edge!SignalsInit /\ Settled("edge", config, Configs)
    /\ Net!TwinInit /\ Settled("twin", connection, [TwinProcesses -> {"up", "none"}])
    /\ Quality!TrackerInit
    /\ RoInit /\ Settled("ro", case, Cases)

ApiStep ==
    /\ focus = "api" /\ Web!Next
    /\ UNCHANGED <<focus, chainvars, simvars, treatmentvars, busvars, drillvars,
                   edgevars, netvars, qualityvars, rovars>>
AuditStep ==
    /\ focus = "audit" /\ Next
    /\ UNCHANGED <<focus, webvars, simvars, treatmentvars, busvars, drillvars,
                   edgevars, netvars, qualityvars, rovars>>
JobsStep ==
    /\ focus = "jobs" /\ Sim!JobsNext
    /\ UNCHANGED <<focus, appvars, treatmentvars, edgevars, rovars>>
TreatmentStep ==
    /\ focus = "treatments" /\ Treat!TreatmentNext
    /\ UNCHANGED <<focus, appvars, simvars, edgevars, rovars>>
BusStep ==
    /\ focus = "bus" /\ Bus!BusNext
    /\ UNCHANGED <<focus, webvars, chainvars, simvars, treatmentvars, drillvars,
                   edgevars, netvars, qualityvars, rovars>>
TrainingStep ==
    /\ focus = "training" /\ Drill!TrainingNext
    /\ UNCHANGED <<focus, webvars, chainvars, simvars, treatmentvars, busvars,
                   edgevars, netvars, qualityvars, rovars>>
EdgeStep ==
    /\ focus = "edge" /\ Edge!SignalsNext
    /\ UNCHANGED <<focus, appvars, simvars, treatmentvars, rovars>>
TwinStep ==
    /\ focus = "twin" /\ Net!TwinNext
    /\ UNCHANGED <<focus, webvars, chainvars, simvars, treatmentvars, busvars, drillvars,
                   edgevars, qualityvars, rovars>>
TrackerStep ==
    /\ focus = "tracker" /\ Quality!TrackerNext
    /\ UNCHANGED <<focus, webvars, chainvars, simvars, treatmentvars, busvars, drillvars,
                   edgevars, netvars, rovars>>
RoStep ==
    /\ focus = "ro" /\ RoNext
    /\ UNCHANGED <<focus, appvars, simvars, treatmentvars, edgevars>>

ServicesNext ==
    \/ ApiStep \/ AuditStep \/ JobsStep \/ TreatmentStep \/ BusStep
    \/ TrainingStep \/ EdgeStep \/ TwinStep \/ TrackerStep \/ RoStep

(* What is scheduled: a client's own next request or poll, the event       *)
(* loop's run of a task the service still has and the service's return,    *)
(* and the publishing thread's own wait.  Nothing is asked of the job      *)
(* worker, the broker or the network.  Each part takes finitely many of    *)
(* these steps, so one weak fairness condition serves them all.            *)
Scheduled ==
    \/ JobsStep /\ \E c \in Clients : Sim!Submit(c) \/ Sim!Poll(c)
    \/ TreatmentStep /\ (Treat!Return \/ \E j \in DOMAIN tasks : Treat!RunTreatment(j) \/ Treat!Solve(j))
    \/ BusStep /\ \E e \in Events : Bus!GiveUp(e) \/ Bus!Published(e)
ServicesSpec == ServicesInit /\ [][ServicesNext]_servicevars /\ WF_servicevars(Scheduled)

---------------------------------------------------------------------------
\* What is claimed of a part is claimed where the part runs.
Runs(part) == focus = part

\* Every variable keeps the shape of what the code stores in it.
PartsTypeOK ==
    /\ focus \in Focuses
    /\ Runs("api") => Web!TypeOK
    /\ Runs("audit") => TypeOK
    /\ Runs("jobs") => Sim!JobsTypeOK
    /\ Runs("treatments") => Treat!TreatmentTypeOK
    /\ Runs("bus") => Bus!BusTypeOK
    /\ Runs("training") => Drill!TrainingTypeOK
    /\ Runs("edge") => Edge!SignalsTypeOK
    /\ Runs("twin") => Net!TwinTypeOK
    /\ Runs("ro") => RoTypeOK

\* Every row answered to a caller is one the caller's token covers
\* (auth.py, the routers of main.py, cmms).
RowsInScope == Runs("api") => Web!RowsInScope

\* The audit trail tells how every card, order and limit got where it is,
\* through decisions, feedback and a reset that takes several steps.
TrailExplainsCards == Runs("api") => Web!TrailExplainsCards

\* No request changes state without the role, the feature and the
\* credential that its route asks for.
ChangesAuthorised == Web!ChangesAuthorised

\* A result that is handed out is the result: of the job that was asked for
\* (hydraulic-sim), of the points that were solved (treatment-sim), of the
\* actions a session recorded (training.py) and of a loaded network (Twin);
\* and what the configuration decides follows from it (Gatekeeping).
ResultsHonest ==
    /\ Runs("jobs") => Sim!JobsHonest
    /\ Runs("treatments") => Treat!SolvedHonestly
    /\ Runs("training") => Drill!RecordsTrue
    /\ Runs("twin") => Net!TwinWhole
    /\ Runs("ro") => ReturnsSolved
    /\ Runs("analysis") => Gate!GatekeepingSound /\ Condition!MaintenanceSound /\ Condition!ConditionModelsSound

\* What is counted is what happened: deliveries and failures of the bus, the
\* health of a gateway and its flags, which tell a signal's whole history of
\* readings (quality.py), and the alerts that the tracker's index stands for.
CountsTrue ==
    /\ Runs("bus") => Bus!BusAccounts
    /\ Runs("edge") => Edge!HealthHonest /\ Edge!FlagsTellHistory
    /\ Runs("tracker") => Quality!TrackerTrue

\* No step takes back what was given: a job's end, a fetched result, the
\* record of a training session, the knowledge that a gateway fell back, and
\* the promise that an audit event that was committed will be announced.
NothingTakenBack ==
    /\ Sim!JobsForward /\ Treat!FetchesForward /\ Drill!RecordsKept /\ Edge!FallbackStays
    /\ AuditAnnounced

\* Every scenario run, every treatment job that is not lost and every publish
\* ends, though services stop, jobs are forgotten and the broker goes away.
WorkEnds == <>[](Sim!CallsOver /\ Treat!TreatmentsOver /\ Bus!PublishesOver)

\* What is computed agrees with its reference on bounded inputs: the pure
\* algorithms, and the iteration of the RO reference, which is physical and
\* closed when it met its threshold (calculations.py).
AlgorithmsSound ==
    /\ Runs("ro") => ClosedWhenMet /\ ReferencePhysical
    /\ Runs("analysis") =>
          /\ Net!TwinSound /\ Quality!ModelQualitySound
          /\ Condition!CausesRanked /\ WaterQualitySound
=============================================================================
