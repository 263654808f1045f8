------------------------------- MODULE SimJobs -------------------------------
(***************************************************************************)
(* hydraulic-sim: jobs in a file-backed store (app/main.py,                *)
(* app/jobstore.py), the engine's decisions (app/engine.py) and the client *)
(* in watertwin-api that submits a baseline and a scenario and polls       *)
(* (app/hydraulic_client.py, main.py:554-571).                             *)
(*                                                                         *)
(* A job is an object that its worker changes in place, without the        *)
(* store's lock, and that every flush writes out as it is; a crash loses   *)
(* the objects and the background tasks.                                   *)
(***************************************************************************)
EXTENDS Integers, Sequences, FiniteSets

CONSTANTS
    Clients,     \* requests of watertwin-api that run a scenario
    Scenarios,   \* the scenario requests they may carry
    PollAttempts,
    MaxFaults    \* bound: stops of the service and flushes the disk refuses

VARIABLES up, jobs, file, task, calls, faults

jvars == <<up, jobs, file, task, calls, faults>>

NoJob == "none"
Ended == {"completed", "failed"}

---------------------------------------------------------------------------
(* The engine (app/engine.py): what it makes of a request.                 *)

Request(scenario, element, setting) ==
    [scenario |-> scenario, element |-> element, setting |-> setting]
Baseline == Request("baseline", "default", "none")
NoResult == Request("none", "none", "none")  \* a result is named by its request

\* _apply_scenario: an element the network does not have, or a demand change
\* that changes nothing, is a scenario error; EPANET itself may fail too.
Refuses(r) ==
    \/ r.scenario \in {"pump_outage", "valve_closure", "leak"} /\ r.element = "unknown"
    \/ r.scenario = "demand_change" /\ \/ r.setting = "nodes" /\ r.element = "unknown"
                                       \/ r.setting = "none"

\* _violations: pressures in tenths of a metre against the required 25 m,
\* velocities in hundredths against the limit.
Severity(pressure, required) ==
    IF pressure >= required THEN "none"
    ELSE IF 2 * pressure < required THEN "critical" ELSE "warning"
TooFast(velocity, limit, excluded) == ~excluded /\ velocity > limit

\* _confidence, in hundredths; mass errors in hundredths of a m3/h.
Magnitude(n) == IF n < 0 THEN -n ELSE n
Confidence(scenario, massError) ==
    LET c == 80 - (IF Magnitude(massError) > 100 THEN 20 ELSE 0)
                - (IF scenario = "leak" THEN 10 ELSE 0)
    IN IF c < 40 THEN 40 ELSE IF c > 95 THEN 95 ELSE c
MassBalanceOk(massError, demand) ==
    Magnitude(massError) <= (IF demand <= 10000 THEN 100 ELSE demand \div 100)

\* _localize_leak: the nodes by falling pressure residual, first come first.
RankLeak(nodes, residual) ==
    CHOOSE order \in [1..Len(nodes) -> 1..Len(nodes)] :
        \A i, j \in 1..Len(nodes) : i < j =>
            \/ residual[order[i]] > residual[order[j]]
            \/ residual[order[i]] = residual[order[j]] /\ order[i] < order[j]

---------------------------------------------------------------------------
(* The job store and the background worker.                                *)

Job(r) == [request |-> r, state |-> "queued", result |-> NoResult, error |-> NoJob]
\* Identifiers are random; here they are counted and never used again.
NewId == Cardinality(DOMAIN task) + 1

\* A store, or the set of tasks, with the entry of j added or replaced.
With(store, j, value) == [i \in DOMAIN store \cup {j} |-> IF i = j THEN value ELSE store[i]]

\* put: the object is kept, and the whole store flushed, or the disk refuses.
Flush(js) ==
    \/ file' = js /\ UNCHANGED faults
    \/ faults < MaxFaults /\ faults' = faults + 1 /\ UNCHANGED file
Flushed == UNCHANGED faults

Set(j, field, value) == [jobs EXCEPT ![j][field] = value]
Step(j, from, to) == up /\ task[j] = from /\ task' = [task EXCEPT ![j] = to]

\* _run_job, a statement at a time; an exception of the first put ends the
\* task, one of the last leaves the file behind.
MarkRunning(j) ==
    /\ Step(j, "queued", "running")
    /\ jobs' = Set(j, "state", "running")
    /\ UNCHANGED <<up, file, calls, faults>>
PutRunning(j) ==
    /\ up /\ task[j] = "running"
    /\ Flush(jobs)
    /\ task' = [task EXCEPT ![j] = IF Flushed THEN "engine" ELSE "dead"]
    /\ UNCHANGED <<up, jobs, calls>>
\* Seeded fault: the state is set before the result.
CompleteFirst(j) ==
    /\ Step(j, "engine", "solved")
    /\ ~Refuses(jobs[j].request)
    /\ jobs' = Set(j, "state", "completed")
    /\ UNCHANGED <<up, file, calls, faults>>
KeepResult(j) ==
    /\ Step(j, "engine", "solved")
    /\ ~Refuses(jobs[j].request)
    /\ jobs' = Set(j, "result", jobs[j].request)
    /\ UNCHANGED <<up, file, calls, faults>>
MarkCompleted(j) ==
    /\ Step(j, "solved", "put")
    /\ jobs' = Set(j, "state", "completed")
    /\ UNCHANGED <<up, file, calls, faults>>
MarkFailed(j) ==
    /\ Step(j, "engine", "error")
    /\ jobs' = Set(j, "state", "failed")
    /\ UNCHANGED <<up, file, calls, faults>>
KeepError(j) ==
    /\ Step(j, "error", "put")
    /\ jobs' = Set(j, "error", IF Refuses(jobs[j].request) THEN "scenario" ELSE "engine")
    /\ UNCHANGED <<up, file, calls, faults>>
PutEnded(j) ==
    /\ Step(j, "put", "dead")
    /\ Flush(jobs)
    /\ UNCHANGED <<up, jobs, calls>>

Work(j) == MarkRunning(j) \/ PutRunning(j) \/ KeepResult(j) \/ MarkCompleted(j)
           \/ MarkFailed(j) \/ KeepError(j) \/ PutEnded(j)

---------------------------------------------------------------------------
(* run_scenario's calls: HydraulicSimClient.run for the baseline, then for *)
(* the scenario.  asked is what the endpoint wants, todo what is left.      *)

Idle == [asked |-> <<>>, todo |-> <<>>, phase |-> "idle", job |-> 0, polls |-> 0, results |-> <<>>,
         answer |-> NoJob]
Call(c, call) == calls' = [calls EXCEPT ![c] = call]
Answered(c, answer) == Call(c, [calls[c] EXCEPT !.phase = "done", !.answer = answer])

Begin(c, r) ==
    /\ calls[c] = Idle
    /\ Call(c, [Idle EXCEPT !.asked = <<Baseline, r>>, !.todo = <<Baseline, r>>,
                            !.phase = "submit"])
    /\ UNCHANGED <<up, jobs, file, task, faults>>

\* _submit: the store keeps the job even when the flush fails and the client is
\* told so; the task is added only after it.  A service that is down makes the
\* session raise, which the endpoint does not turn into a 502.
Submit(c) ==
    /\ calls[c].phase = "submit"
    /\ IF ~up
       THEN Answered(c, "unreachable") /\ UNCHANGED <<jobs, file, task, faults>>
       ELSE /\ LET added == With(jobs, NewId, Job(Head(calls[c].todo)))
               IN jobs' = added /\ Flush(added)
            /\ IF Flushed
               THEN /\ task' = With(task, NewId, "queued")
                    /\ Call(c, [calls[c] EXCEPT !.phase = "poll", !.job = NewId, !.polls = 0])
               ELSE /\ task' = With(task, NewId, "dead")
                    /\ Answered(c, "failed")
    /\ UNCHANGED <<up>>

\* _await_result; the result of a call is that of its job.
TakeResult(c, result) ==
    LET call == calls[c]
        results == Append(call.results, result)
    IN IF Len(call.todo) = 1
       THEN Call(c, [call EXCEPT !.todo = <<>>, !.results = results, !.phase = "done",
                                 !.answer = "ok"])
       ELSE Call(c, [call EXCEPT !.todo = Tail(@), !.results = results, !.phase = "submit"])
\* Seeded fault: the poll has no bound.
PollForever(c) ==
    LET call == calls[c]
        j == call.job
    IN /\ call.phase = "poll"
       /\ \/ ~up /\ Answered(c, "unreachable")
          \/ up /\ j \notin DOMAIN jobs /\ Answered(c, "failed")
          \/ /\ up /\ j \in DOMAIN jobs
             /\ \/ jobs[j].state = "failed" /\ Answered(c, "failed")
                \/ jobs[j].state = "completed" /\ TakeResult(c, jobs[j].result)
                \/ jobs[j].state \notin Ended /\ UNCHANGED calls
       /\ UNCHANGED <<up, jobs, file, task, faults>>
Poll(c) ==
    LET call == calls[c]
        j == call.job
    IN /\ call.phase = "poll"
       /\ \/ ~up /\ Answered(c, "unreachable")
          \/ up /\ j \notin DOMAIN jobs /\ Answered(c, "failed")
          \/ /\ up /\ j \in DOMAIN jobs
             /\ \/ jobs[j].state = "failed" /\ Answered(c, "failed")
                \/ jobs[j].state = "completed" /\ TakeResult(c, jobs[j].result)
                \/ /\ jobs[j].state \notin Ended
                   /\ IF call.polls + 1 = PollAttempts THEN Answered(c, "timeout")
                      ELSE Call(c, [call EXCEPT !.polls = @ + 1])
       /\ UNCHANGED <<up, jobs, file, task, faults>>

---------------------------------------------------------------------------
\* The container stops and starts again; the file is read back.
Crash ==
    /\ up /\ faults < MaxFaults
    /\ up' = FALSE /\ faults' = faults + 1
    /\ jobs' = <<>>
    /\ task' = [j \in DOMAIN task |-> "dead"]
    /\ UNCHANGED <<file, calls>>
Restart ==
    /\ ~up /\ up' = TRUE
    /\ jobs' = file
    /\ UNCHANGED <<file, task, calls, faults>>

JobsInit ==
    /\ up = TRUE /\ jobs = <<>> /\ file = <<>> /\ task = <<>>
    /\ calls = [c \in Clients |-> Idle]
    /\ faults = 0

JobsNext ==
    \/ \E c \in Clients : (\E r \in Scenarios : Begin(c, r)) \/ Submit(c) \/ Poll(c)
    \/ \E j \in DOMAIN task : Work(j)
    \/ Crash \/ Restart
---------------------------------------------------------------------------
JobsTypeOK ==
    /\ DOMAIN jobs \subseteq DOMAIN task /\ DOMAIN file \subseteq DOMAIN task
    /\ \A js \in {jobs, file} : \A j \in DOMAIN js :
           /\ js[j].request \in Scenarios \cup {Baseline}
           /\ js[j].state \in {"queued", "running"} \cup Ended
           /\ js[j].result \in {NoResult, js[j].request}
    /\ \A c \in Clients : calls[c].polls \in 0..PollAttempts

(* What a poll may rely on (main.py:63-76, jobstore.py:43-53,              *)
(* hydraulic_client.py:78-93): a job seen as completed, in memory or in    *)
(* the file, has its result although the worker changes the object without *)
(* the lock; the file is never ahead of the objects; and an endpoint that  *)
(* answers holds the results of its own baseline and scenario, in order.   *)
Rank == [queued |-> 0, running |-> 1, completed |-> 2, failed |-> 2]
JobsHonest ==
    /\ \A js \in {jobs, file} : \A j \in DOMAIN js :
           js[j].state = "completed" => js[j].result = js[j].request
    /\ up => \A j \in DOMAIN file : j \in DOMAIN jobs /\ Rank[file[j].state] <= Rank[jobs[j].state]
    /\ \A c \in Clients : calls[c].answer = "ok" => calls[c].results = calls[c].asked

(* A job goes forward only and keeps its end; what a crash takes back is   *)
(* what was never flushed (main.py:52-76, jobstore.py:42-55).              *)
Forward(js, js2) ==
    \A j \in DOMAIN js :
        /\ j \in DOMAIN js2
        /\ Rank[js[j].state] <= Rank[js2[j].state]
        /\ js[j].state \in Ended =>
               js2[j].state = js[j].state /\ js2[j].result = js[j].result
JobsForward ==
    [][/\ Forward(file, file')
       /\ up /\ up' => Forward(jobs, jobs')]_jvars

\* The calls of run_scenario that are answered or were never made
\* (hydraulic_client.py:79-93).
CallsOver == \A c \in Clients : calls[c].phase \in {"idle", "done"}
=============================================================================
