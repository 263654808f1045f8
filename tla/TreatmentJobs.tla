---------------------------- MODULE TreatmentJobs ----------------------------
(***************************************************************************)
(* treatment-sim: jobs in memory (app/jobs.py), the four endpoints         *)
(* (app/main.py), the dispatcher over two engines (app/engine.py), and the *)
(* what-if comparison of two jobs (app/simulation_center.py).              *)
(*                                                                         *)
(* A solve is one operating point; its physics is a constant, an outcome   *)
(* per point that both engines agree on up to their tolerance.  What is    *)
(* modelled is which points a job solves, by which engine, what it keeps,  *)
(* and the life of the job while others are submitted and the service is   *)
(* restarted.                                                              *)
(***************************************************************************)
EXTENDS Integers, Sequences

CONSTANTS
    Processes,      \* what is submitted: records of Submission's form
    MaxTreatments,  \* bound: jobs created
    MaxOutages      \* bound: stops of the service

VARIABLES treatments, tasks, alive, outages, fetched

tvars == <<treatments, tasks, alive, outages, fetched>>

Kinds == {"simulate", "optimize", "sensitivity", "membrane_degradation"}
SweepVariables == {"feed_tds_mg_l", "feed_temperature_c", "feed_pressure_bar"}

\* An operating point as the optimizer judges it.
Point(energy, recovery, tds) == [energy |-> energy, recovery |-> recovery, tds |-> tds]
\* points: what the request makes the engine solve, in order (65 pressures, a
\* sweep's steps, or the sound and the aged membrane).
Submission(kind, variable, points, minRecovery, maxTds) ==
    [kind |-> kind, variable |-> variable, points |-> points, minRecovery |-> minRecovery,
     maxTds |-> maxTds]

---------------------------------------------------------------------------
\* _baseline: WaterTAP where the solver is installed and converges, else the
\* analytical model; each point decides for itself.
Engines == {"watertap", "analytical"}
ActiveEngine(solver) == IF solver THEN "watertap" ELSE "analytical"

\* run_optimize: the first of the cheapest feasible points, or of all of them.
Feasible(p, s) == p.recovery >= s.minRecovery /\ p.tds <= s.maxTds
Cheapest(s, candidates) ==
    CHOOSE i \in candidates : \A k \in candidates :
        \/ s.points[i].energy < s.points[k].energy
        \/ s.points[i].energy = s.points[k].energy /\ i <= k
\* Seeded fault: the cheapest of all points, feasible or not.
OptimizeAll(s) ==
    [chosen |-> Cheapest(s, DOMAIN s.points), feasible |-> \E i \in DOMAIN s.points : Feasible(s.points[i], s)]
Optimize(s) ==
    LET all == DOMAIN s.points
        feasible == {i \in all : Feasible(s.points[i], s)}
    IN [chosen |-> Cheapest(s, IF feasible = {} THEN all ELSE feasible),
        feasible |-> feasible # {}]

\* The points a result carries, and the one whose engine labels the result:
\* the chosen one, the last of a sweep, the sound membrane of a degradation.
Kept(s) == IF s.kind = "optimize" THEN {Optimize(s).chosen} ELSE DOMAIN s.points
Label(s) == CASE s.kind = "optimize" -> Optimize(s).chosen
              [] s.kind = "sensitivity" -> Len(s.points)
              [] OTHER -> 1
Refused(s) == s.kind = "sensitivity" /\ s.variable \notin SweepVariables

Solution(s, engines) ==
    [points |-> [i \in Kept(s) |-> s.points[i]], engine |-> engines[Label(s)],
     feasible |-> s.kind # "optimize" \/ Optimize(s).feasible]
NoSolution == [points |-> <<>>, engine |-> "none", feasible |-> FALSE]

\* _pct_change, and the confidence of a comparison in hundredths: agreement
\* with the reference within a tolerance of 15 %, errors in thousandths.
PctChange(new, old) == IF old = 0 THEN 0 ELSE ((new - old) * 100) \div old
ScenarioConfidence(error, engine) ==
    LET agreed == 95 - (error * 40) \div 150
        base == IF agreed < 30 THEN 30 ELSE IF agreed > 95 THEN 95 ELSE agreed
    IN IF engine = "watertap" THEN (IF base + 5 > 95 THEN 95 ELSE base + 5) ELSE base

---------------------------------------------------------------------------
TreatmentJob(s) == [request |-> s, state |-> "queued", result |-> NoSolution]
TreatmentIds == DOMAIN treatments
NextTreatment == Len(tasks) + 1

\* _update: the job is replaced by an updated copy under the loop's lock; a job
\* that is not there is left alone.
Update(j, state, result) ==
    treatments' = IF j \notin TreatmentIds THEN treatments
                  ELSE [treatments EXCEPT ![j] = [request |-> @.request, state |-> state, result |-> result]]

\* An endpoint: create and submit; the client is given the identifier.
Create(s) ==
    /\ alive /\ NextTreatment <= MaxTreatments
    /\ treatments' = [j \in TreatmentIds \cup {NextTreatment} |->
                         IF j = NextTreatment THEN TreatmentJob(s) ELSE treatments[j]]
    /\ tasks' = Append(tasks, "scheduled")
    /\ fetched' = Append(fetched, "nothing")
    /\ UNCHANGED <<alive, outages>>

\* get_job: what the client of job j sees.
Fetch(j) ==
    /\ alive
    /\ fetched' = [fetched EXCEPT ![j] =
                     IF j \in TreatmentIds THEN treatments[j].state ELSE "gone"]
    /\ UNCHANGED <<treatments, tasks, alive, outages>>

\* _run: mark running, solve in the executor, keep the result or the failure.
RunTreatment(j) ==
    /\ alive /\ tasks[j] = "scheduled"
    /\ tasks' = [tasks EXCEPT ![j] = "solving"]
    /\ Update(j, "running", NoSolution)
    /\ UNCHANGED <<alive, outages, fetched>>
Solve(j) ==
    LET s == treatments[j].request
    IN /\ alive /\ tasks[j] = "solving" /\ j \in TreatmentIds
       /\ tasks' = [tasks EXCEPT ![j] = "over"]
       /\ \/ ~Refused(s) /\ \E solver \in BOOLEAN :
                \E engines \in [DOMAIN s.points -> {"analytical", ActiveEngine(solver)}] :
                    Update(j, "succeeded", Solution(s, engines))
          \/ Update(j, "failed", NoSolution)
       /\ UNCHANGED <<alive, outages, fetched>>

\* The jobs and the tasks are in memory only.
Outage ==
    /\ alive /\ outages < MaxOutages
    /\ alive' = FALSE /\ outages' = outages + 1
    /\ treatments' = <<>>
    /\ tasks' = [j \in DOMAIN tasks |-> "over"]
    /\ UNCHANGED fetched
Return ==
    /\ ~alive /\ alive' = TRUE
    /\ UNCHANGED <<treatments, tasks, outages, fetched>>

TreatmentInit ==
    /\ treatments = <<>> /\ tasks = <<>> /\ fetched = <<>>
    /\ alive = TRUE /\ outages = 0
TreatmentNext ==
    \/ \E s \in Processes : Create(s)
    \/ \E j \in DOMAIN tasks : Fetch(j) \/ RunTreatment(j) \/ Solve(j)
    \/ Outage \/ Return

TreatmentTypeOK ==
    /\ TreatmentIds \subseteq DOMAIN tasks /\ DOMAIN fetched = DOMAIN tasks
    /\ DOMAIN tasks \subseteq 1..MaxTreatments
    /\ \A j \in TreatmentIds :
           /\ treatments[j].request \in Processes
           /\ treatments[j].state \in {"queued", "running", "succeeded", "failed"}
           /\ treatments[j].result.engine \in Engines \cup {"none"}

---------------------------------------------------------------------------
(* A solved job keeps what was asked: an optimization a point that meets   *)
(* the limits whenever one of the grid does, and then the cheapest of      *)
(* those; a sweep or a degradation every point; and no job the service     *)
(* still holds is without a task that will end it (engine.py:91-142,       *)
(* jobs.py:58-92).                                                         *)
SolvedHonestly ==
    \A j \in TreatmentIds :
        LET job == treatments[j]
            s == job.request
        IN /\ job.state = "succeeded" =>
                /\ ~Refused(s)
                /\ \A i \in DOMAIN job.result.points : job.result.points[i] = s.points[i]
                /\ s.kind # "optimize" => DOMAIN job.result.points = DOMAIN s.points
                /\ s.kind = "optimize" =>
                     \A i \in DOMAIN job.result.points, k \in DOMAIN s.points :
                         Feasible(s.points[k], s) =>
                             /\ Feasible(s.points[i], s)
                             /\ s.points[i].energy <= s.points[k].energy
           /\ (tasks[j] = "over") <=> (job.state \in {"succeeded", "failed"})

(* What a client has read of a job does not go back: it goes on from queued *)
(* to its end, or the job is gone (404), which is for good (jobs.py:49-51). *)
Seen == [nothing |-> 0, queued |-> 1, running |-> 2, succeeded |-> 3, failed |-> 3,
         gone |-> 4]
FetchesForward ==
    [][\A j \in DOMAIN fetched :
          /\ Seen[fetched[j]] <= Seen[fetched'[j]]
          /\ fetched[j] \in {"succeeded", "failed"} =>
                fetched'[j] \in {fetched[j], "gone"}]_tvars

\* No job waits for a task that the service still has (jobs.py:76-92).
TreatmentsOver == \A j \in DOMAIN tasks : tasks[j] = "over"
=============================================================================
