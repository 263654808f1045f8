----------------------------- MODULE ServiceState_proofs -----------------------------
(***************************************************************************)
(* Proofs about the parts of Services that keep what they were asked to do *)
(* and what they were told: the two simulation services, the event bus,    *)
(* training, the network store and the alert tracker, for any number of    *)
(* clients, handlers, crashes, polls and lost messages and any bounds on   *)
(* their runs.                                                             *)
(***************************************************************************)
EXTENDS Services, SequenceTheorems, FiniteSetTheorems, WellFoundedInduction, TLAPS

\* The parts count as FiniteSets does.
LEMMA StateCounting ==
    \A S : /\ Sim!Cardinality(S) = Cardinality(S) /\ Bus!Cardinality(S) = Cardinality(S)
         /\ Drill!Cardinality(S) = Cardinality(S) /\ Net!Cardinality(S) = Cardinality(S)
BY DEF Sim!Cardinality, Bus!Cardinality, Drill!Cardinality, Net!Cardinality, Cardinality

---------------------------------------------------------------------------
(***************************************************************************)
(* SimJobs: the jobs of hydraulic-sim and their clients.                   *)
(***************************************************************************)
-----------------------------------------------------------------------------
(* The inductive invariant.                                                *)
JobStates == {"queued", "running"} \cup Sim!Ended
Places == {"queued", "running", "engine", "solved", "error", "put", "dead"}
Asked == Scenarios \cup {Sim!Baseline}
JobSet ==
    [request : Asked, state : JobStates, result : Asked \cup {Sim!NoResult},
     error : {Sim!NoJob, "scenario", "engine"}]

\* A result is that of the job's own request, and a completed job has it.
Honest(job) ==
    /\ job.result \in {Sim!NoResult, job.request}
    /\ job.state = "completed" => job.result = job.request
\* What a store holds: jobs that were submitted, with a result once completed.
Stored(js) ==
    /\ js \in [DOMAIN js -> JobSet]
    /\ DOMAIN js \subseteq DOMAIN task
    /\ \A j \in DOMAIN js : Honest(js[j])

\* A task that is not dead has its job before it, in the state that belongs
\* to its place; the result is kept before the job is marked as completed.
StateAt(place) ==
    CASE place = "queued" -> {"queued"}
      [] place \in {"running", "engine", "solved"} -> {"running"}
      [] place = "error" -> {"failed"}
      [] OTHER -> Sim!Ended
Attended(j) ==
    task[j] # "dead" =>
        /\ up /\ j \in DOMAIN jobs /\ jobs[j].state \in StateAt(task[j])
        /\ task[j] = "solved" => jobs[j].result = jobs[j].request

Numbered == \E n \in Nat : DOMAIN task = 1..n
WorkInv ==
    /\ up \in BOOLEAN /\ faults \in Nat
    /\ Numbered /\ task \in [DOMAIN task -> Places]
    /\ Stored(jobs) /\ Stored(file)
    /\ \A j \in DOMAIN task : Attended(j)
    /\ up => Sim!Forward(file, jobs)

\* A client that polled PollAttempts times in vain has timed out.
Polls == {n \in Nat : n < PollAttempts}
CallSet ==
    [asked : Seq(Asked), todo : Seq(Asked), phase : {"idle", "submit", "poll", "done"},
     job : Nat, polls : Polls, results : Seq(Asked \cup {Sim!NoResult}),
     answer : {Sim!NoJob, "ok", "failed", "timeout", "unreachable"}]

\* Of what the endpoint asked for, the results it has and what is left.
Midway(asking) ==
    \E r \in Asked :
        /\ asking.asked = <<Sim!Baseline, r>>
        /\ \/ asking.todo = <<Sim!Baseline, r>> /\ asking.results = <<>>
           \/ asking.todo = <<r>> /\ asking.results = <<Sim!Baseline>>
Names(js, asking) == asking.job \in DOMAIN js => js[asking.job].request = Head(asking.todo)
CallOK(asking) ==
    /\ asking.phase \in {"submit", "poll"} => Midway(asking) /\ asking.answer = Sim!NoJob
    /\ asking.phase = "poll" => asking.job \in DOMAIN task /\ Names(jobs, asking) /\ Names(file, asking)
    /\ asking.answer = "ok" => asking.results = asking.asked
CallInv == calls \in [Clients -> CallSet] /\ \A c \in Clients : CallOK(calls[c])

-----------------------------------------------------------------------------
(* Going forward is an order.                                              *)
LEMMA ForwardStays ==
    ASSUME NEW js, Stored(js)
    PROVE  Sim!Forward(js, js)
  BY DEF Sim!Forward, Stored, JobSet, JobStates, Sim!Ended, Sim!Rank

LEMMA ForwardAgain ==
    ASSUME NEW a, NEW b, NEW c, Stored(a), Stored(b), Stored(c), Sim!Forward(a, b), Sim!Forward(b, c)
    PROVE  Sim!Forward(a, c)
<1> SUFFICES ASSUME NEW j \in DOMAIN a
             PROVE  /\ j \in DOMAIN c
                    /\ Sim!Rank[a[j].state] <= Sim!Rank[c[j].state]
                    /\ a[j].state \in Sim!Ended => c[j].state = a[j].state /\ c[j].result = a[j].result
  BY DEF Sim!Forward
<1>1. /\ j \in DOMAIN b /\ Sim!Rank[a[j].state] <= Sim!Rank[b[j].state]
      /\ a[j].state \in Sim!Ended => b[j].state = a[j].state /\ b[j].result = a[j].result
  BY DEF Sim!Forward
<1>2. /\ j \in DOMAIN c /\ Sim!Rank[b[j].state] <= Sim!Rank[c[j].state]
      /\ b[j].state \in Sim!Ended => c[j].state = b[j].state /\ c[j].result = b[j].result
  BY <1>1 DEF Sim!Forward
<1>3. a[j].state \in JobStates /\ b[j].state \in JobStates /\ c[j].state \in JobStates
  BY <1>1, <1>2 DEF Stored, JobSet
<1>4. \A s \in JobStates : Sim!Rank[s] \in Nat
  BY DEF Sim!Rank, JobStates, Sim!Ended
<1> QED BY <1>1, <1>2, <1>3, <1>4

LEMMA FreshId ==
    ASSUME Numbered
    PROVE  /\ Sim!NewId \in Nat /\ Sim!NewId \notin DOMAIN task
           /\ \E n \in Nat : DOMAIN task \cup {Sim!NewId} = 1..n
<1>1. PICK n \in Nat : DOMAIN task = 1..n
  BY DEF Numbered
<1>2. Cardinality(1..n) = n
  BY FS_Interval
<1>3. Sim!NewId = n + 1
  BY <1>1, <1>2, StateCounting DEF Sim!NewId
<1>4. (1..n) \cup {n + 1} = 1..(n + 1)
  OBVIOUS
<1> QED BY <1>1, <1>3, <1>4

-----------------------------------------------------------------------------
(* A statement of the worker: one job changes, forward, to what its task   *)
(* then stands for, and the file stays.                                    *)
LEMMA SomePolls == PollAttempts \in Nat /\ 0 \in Polls
BY ServicesAssumption DEF Polls

LEMMA WorkerMoves ==
    ASSUME WorkInv, CallInv, NEW j \in DOMAIN task, NEW to \in Places \ {"dead"}, NEW job \in JobSet,
           task[j] # "dead", task' = [task EXCEPT ![j] = to], jobs' = [jobs EXCEPT ![j] = job],
           UNCHANGED <<up, file, calls, faults>>,
           job.request = jobs[j].request, job.state \in StateAt(to),
           Honest(job), to = "solved" => job.result = job.request,
           Sim!Rank[jobs[j].state] <= Sim!Rank[job.state],
           jobs[j].state \in Sim!Ended => job.state = jobs[j].state /\ job.result = jobs[j].result
    PROVE  WorkInv' /\ CallInv' /\ Sim!Forward(jobs, jobs')
<1>0. up /\ j \in DOMAIN jobs
  BY DEF WorkInv, Attended
<1>1. DOMAIN task' = DOMAIN task /\ DOMAIN jobs' = DOMAIN jobs
  BY DEF WorkInv, Stored
<1>2. jobs'[j] = job /\ \A i \in DOMAIN jobs : i # j => jobs'[i] = jobs[i]
  BY <1>0 DEF WorkInv, Stored
<1>3. task'[j] = to /\ \A i \in DOMAIN task : i # j => task'[i] = task[i]
  BY DEF WorkInv
<1>4. Stored(jobs)' /\ Stored(file)'
  BY <1>1, <1>2, <1>0 DEF WorkInv, Stored
<1>5. Sim!Forward(jobs, jobs')
  BY <1>0, <1>1, <1>2, ForwardStays DEF WorkInv, Sim!Forward
<1>6. Sim!Forward(file, jobs')
  <2>1. Stored(file) /\ Stored(jobs) /\ Sim!Forward(file, jobs)
    BY <1>0 DEF WorkInv
  <2>2. \A js : Stored(js)' = Stored(js)
    BY <1>1 DEF Stored
  <2>3. Stored(jobs')
    BY <1>4, <1>1 DEF Stored
  <2> QED BY <2>1, <2>3, <1>5, ForwardAgain
<1>7. \A i \in DOMAIN task' : Attended(i)'
  <2> SUFFICES ASSUME NEW i \in DOMAIN task PROVE Attended(i)'
    BY <1>1
  <2>1. CASE i = j
    BY <2>1, <1>0, <1>1, <1>2, <1>3 DEF Attended
  <2>2. CASE i # j
    BY <2>2, <1>1, <1>2, <1>3 DEF Attended, WorkInv
  <2> QED BY <2>1, <2>2
<1>8. WorkInv'
  <2>1. Numbered' /\ task' \in [DOMAIN task' -> Places]
    BY <1>1 DEF WorkInv, Numbered
  <2> QED BY <2>1, <1>4, <1>6, <1>7 DEF WorkInv, Sim!Forward
<1>9. CallInv'
  <2>1. \A asking : Names(jobs, asking) => Names(jobs, asking)'
    BY <1>1, <1>2 DEF Names
  <2> QED BY <2>1, <1>1 DEF CallInv, CallOK, Names, Midway
<1> QED BY <1>5, <1>8, <1>9

\* What a step has to show.
Good == WorkInv' /\ CallInv' /\ Sim!Forward(file, file') /\ (up /\ up' => Sim!Forward(jobs, jobs'))

LEMMA WorkerStep ==
    ASSUME WorkInv, CallInv, NEW j \in DOMAIN task,
           Sim!MarkRunning(j) \/ Sim!KeepResult(j) \/ Sim!MarkCompleted(j) \/ Sim!MarkFailed(j) \/ Sim!KeepError(j)
    PROVE  Good
<1>0. /\ task[j] # "dead" /\ up /\ j \in DOMAIN jobs /\ jobs[j] \in JobSet
      /\ Sim!Forward(file, file)
  <2>1. task[j] # "dead" /\ up
    BY DEF Sim!MarkRunning, Sim!KeepResult, Sim!MarkCompleted, Sim!MarkFailed, Sim!KeepError, Sim!Step
  <2> QED BY <2>1, ForwardStays DEF WorkInv, Attended, Stored
<1>1. /\ jobs[j].state \in StateAt(task[j]) /\ (task[j] = "solved" => jobs[j].result = jobs[j].request)
      /\ Honest(jobs[j])
  BY <1>0 DEF WorkInv, Attended, Stored
<1>2. SUFFICES WorkInv' /\ CallInv' /\ Sim!Forward(jobs, jobs')
  <2>1. file' = file
    BY DEF Sim!MarkRunning, Sim!KeepResult, Sim!MarkCompleted, Sim!MarkFailed, Sim!KeepError
  <2> QED BY <1>0, <2>1 DEF Good
<1>3. CASE Sim!MarkRunning(j)
  <2> DEFINE job == [jobs[j] EXCEPT !.state = "running"]
  <2>1. /\ job \in JobSet /\ jobs' = [jobs EXCEPT ![j] = job]
        /\ task[j] = "queued" /\ task' = [task EXCEPT ![j] = "running"]
        /\ UNCHANGED <<up, file, calls, faults>>
    BY <1>0, <1>3 DEF Sim!MarkRunning, Sim!Step, Sim!Set, JobSet, JobStates, Sim!Ended
  <2>2. /\ job.request = jobs[j].request /\ job.state \in StateAt("running")
        /\ Honest(job) /\ ("running" = "solved" => job.result = job.request)
        /\ Sim!Rank[jobs[j].state] <= Sim!Rank[job.state]
        /\ jobs[j].state \in Sim!Ended => job.state = jobs[j].state /\ job.result = jobs[j].result
        /\ "running" \in Places \ {"dead"}
    BY <1>0, <1>1, <2>1 DEF Honest, StateAt, JobSet, JobStates, Sim!Ended, Places, Sim!Rank
  <2> HIDE DEF job
  <2> QED BY <1>0, <2>1, <2>2, WorkerMoves
<1>4. CASE Sim!KeepResult(j)
  <2> DEFINE job == [jobs[j] EXCEPT !.result = jobs[j].request]
  <2>1. /\ job \in JobSet /\ jobs' = [jobs EXCEPT ![j] = job]
        /\ task[j] = "engine" /\ task' = [task EXCEPT ![j] = "solved"]
        /\ UNCHANGED <<up, file, calls, faults>>
    BY <1>0, <1>4 DEF Sim!KeepResult, Sim!Step, Sim!Set, JobSet, JobStates, Sim!Ended
  <2>2. /\ job.request = jobs[j].request /\ job.state \in StateAt("solved")
        /\ Honest(job) /\ ("solved" = "solved" => job.result = job.request)
        /\ Sim!Rank[jobs[j].state] <= Sim!Rank[job.state]
        /\ jobs[j].state \in Sim!Ended => job.state = jobs[j].state /\ job.result = jobs[j].result
        /\ "solved" \in Places \ {"dead"}
    BY <1>0, <1>1, <2>1 DEF Honest, StateAt, JobSet, JobStates, Sim!Ended, Places, Sim!Rank
  <2> HIDE DEF job
  <2> QED BY <1>0, <2>1, <2>2, WorkerMoves
<1>5. CASE Sim!MarkCompleted(j)
  <2> DEFINE job == [jobs[j] EXCEPT !.state = "completed"]
  <2>1. /\ job \in JobSet /\ jobs' = [jobs EXCEPT ![j] = job]
        /\ task[j] = "solved" /\ task' = [task EXCEPT ![j] = "put"]
        /\ UNCHANGED <<up, file, calls, faults>>
    BY <1>0, <1>5 DEF Sim!MarkCompleted, Sim!Step, Sim!Set, JobSet, JobStates, Sim!Ended
  <2>2. /\ job.request = jobs[j].request /\ job.state \in StateAt("put")
        /\ Honest(job) /\ ("put" = "solved" => job.result = job.request)
        /\ Sim!Rank[jobs[j].state] <= Sim!Rank[job.state]
        /\ jobs[j].state \in Sim!Ended => job.state = jobs[j].state /\ job.result = jobs[j].result
        /\ "put" \in Places \ {"dead"}
    BY <1>0, <1>1, <2>1 DEF Honest, StateAt, JobSet, JobStates, Sim!Ended, Places, Sim!Rank
  <2> HIDE DEF job
  <2> QED BY <1>0, <2>1, <2>2, WorkerMoves
<1>6. CASE Sim!MarkFailed(j)
  <2> DEFINE job == [jobs[j] EXCEPT !.state = "failed"]
  <2>1. /\ job \in JobSet /\ jobs' = [jobs EXCEPT ![j] = job]
        /\ task[j] = "engine" /\ task' = [task EXCEPT ![j] = "error"]
        /\ UNCHANGED <<up, file, calls, faults>>
    BY <1>0, <1>6 DEF Sim!MarkFailed, Sim!Step, Sim!Set, JobSet, JobStates, Sim!Ended
  <2>2. /\ job.request = jobs[j].request /\ job.state \in StateAt("error")
        /\ Honest(job) /\ ("error" = "solved" => job.result = job.request)
        /\ Sim!Rank[jobs[j].state] <= Sim!Rank[job.state]
        /\ jobs[j].state \in Sim!Ended => job.state = jobs[j].state /\ job.result = jobs[j].result
        /\ "error" \in Places \ {"dead"}
    BY <1>0, <1>1, <2>1 DEF Honest, StateAt, JobSet, JobStates, Sim!Ended, Places, Sim!Rank
  <2> HIDE DEF job
  <2> QED BY <1>0, <2>1, <2>2, WorkerMoves
<1>7. CASE Sim!KeepError(j)
  <2> DEFINE why == IF Sim!Refuses(jobs[j].request) THEN "scenario" ELSE "engine"
  <2> DEFINE job == [jobs[j] EXCEPT !.error = why]
  <2>0. why \in {"scenario", "engine"} /\ jobs' = [jobs EXCEPT ![j]["error"] = why]
    BY <1>7 DEF Sim!KeepError, Sim!Set
  <2> HIDE DEF why
  <2>1. /\ job \in JobSet /\ jobs' = [jobs EXCEPT ![j] = job]
        /\ task[j] = "error" /\ task' = [task EXCEPT ![j] = "put"]
        /\ UNCHANGED <<up, file, calls, faults>>
    BY <1>0, <1>7, <2>0 DEF Sim!KeepError, Sim!Step, Sim!Set, JobSet, JobStates, Sim!Ended
  <2>2. /\ job.request = jobs[j].request /\ job.state \in StateAt("put")
        /\ Honest(job) /\ ("put" = "solved" => job.result = job.request)
        /\ Sim!Rank[jobs[j].state] <= Sim!Rank[job.state]
        /\ jobs[j].state \in Sim!Ended => job.state = jobs[j].state /\ job.result = jobs[j].result
        /\ "put" \in Places \ {"dead"}
    BY <1>0, <1>1, <2>1 DEF Honest, StateAt, JobSet, JobStates, Sim!Ended, Places, Sim!Rank
  <2> HIDE DEF job
  <2> QED BY <1>0, <2>1, <2>2, WorkerMoves
<1> QED BY <1>3, <1>4, <1>5, <1>6, <1>7

(* A flush writes the objects as they are, or the disk refuses and the     *)
(* file stays behind; the task goes on or ends.                            *)
LEMMA FlushStep ==
    ASSUME WorkInv, CallInv, NEW j \in DOMAIN task, Sim!PutRunning(j) \/ Sim!PutEnded(j)
    PROVE  Good
<1>1. /\ up /\ UNCHANGED <<up, jobs, calls>> /\ task[j] \in {"running", "put"}
      /\ file' \in {file, jobs} /\ faults' \in Nat
      /\ \E to \in {"engine", "dead"} :
             task' = [task EXCEPT ![j] = to] /\ (to = "engine" => task[j] = "running")
  BY DEF Sim!PutRunning, Sim!PutEnded, Sim!Step, Sim!Flush, WorkInv
<1>2. PICK to \in {"engine", "dead"} :
          task' = [task EXCEPT ![j] = to] /\ (to = "engine" => task[j] = "running")
  BY <1>1
<1>3. DOMAIN task' = DOMAIN task /\ task' \in [DOMAIN task' -> Places]
      /\ task'[j] = to /\ \A i \in DOMAIN task : i # j => task'[i] = task[i]
  BY <1>2 DEF WorkInv, Places
<1>4. Stored(file) /\ Stored(jobs) /\ Sim!Forward(file, jobs) /\ Sim!Forward(jobs, jobs) /\ Sim!Forward(file, file)
  BY <1>1, ForwardStays DEF WorkInv
<1>5. Sim!Forward(file, file') /\ Sim!Forward(file', jobs)
  BY <1>1, <1>4
<1>6. Stored(jobs)' /\ Stored(file)'
  BY <1>1, <1>3, <1>4 DEF Stored
<1>7. \A i \in DOMAIN task : Attended(i)'
  BY <1>1, <1>2, <1>3 DEF WorkInv, Attended, StateAt
<1>8. WorkInv'
  <2>1. Numbered'
    BY <1>3 DEF WorkInv, Numbered
  <2> QED BY <2>1, <1>1, <1>3, <1>5, <1>6, <1>7 DEF WorkInv, Sim!Forward
<1>9. CallInv'
  <2>1. \A asking : Names(jobs, asking) /\ Names(file, asking) => Names(jobs, asking)' /\ Names(file, asking)'
    BY <1>1 DEF Names
  <2> QED BY <2>1, <1>1, <1>3 DEF CallInv, CallOK, Midway
<1> QED BY <1>1, <1>4, <1>5, <1>8, <1>9 DEF Good

-----------------------------------------------------------------------------
(* The clients.                                                            *)

(* A step of one client that leaves the service alone.                     *)
LEMMA ClientMoves ==
    ASSUME WorkInv, CallInv, NEW c \in Clients, NEW asking \in CallSet, CallOK(asking),
           Sim!Call(c, asking), UNCHANGED <<up, jobs, file, task, faults>>
    PROVE  Good
<1>1. WorkInv'
  BY DEF WorkInv, Numbered, Stored, Attended, Sim!Forward
<1>2. CallInv'
  <2>1. \A d : CallOK(d)' = CallOK(d)
    BY DEF CallOK, Names, Midway
  <2> QED BY <2>1 DEF CallInv, Sim!Call
<1>3. Sim!Forward(file, file) /\ Sim!Forward(jobs, jobs)
  BY ForwardStays DEF WorkInv
<1> QED BY <1>1, <1>2, <1>3 DEF Good

LEMMA BeginStep ==
    ASSUME WorkInv, CallInv, NEW c \in Clients, NEW r \in Scenarios, Sim!Begin(c, r)
    PROVE  Good
<1> DEFINE asking == [Sim!Idle EXCEPT !.asked = <<Sim!Baseline, r>>, !.todo = <<Sim!Baseline, r>>, !.phase = "submit"]
<1>1. <<Sim!Baseline, r>> \in Seq(Asked) /\ r \in Asked /\ <<>> \in Seq(Asked \cup {Sim!NoResult}) /\ 0 \in Polls
  BY SomePolls DEF Asked
<1>0. Sim!Idle \in CallSet /\ Sim!Idle.results = <<>> /\ Sim!Idle.answer = Sim!NoJob
  <2>1. <<>> \in Seq(Asked)
    OBVIOUS
  <2> QED BY <1>1, <2>1 DEF Sim!Idle, CallSet
<1>2. asking \in CallSet /\ asking.asked = <<Sim!Baseline, r>> /\ asking.todo = <<Sim!Baseline, r>>
      /\ asking.phase = "submit" /\ asking.results = <<>> /\ asking.answer = Sim!NoJob
  BY <1>0, <1>1 DEF CallSet
<1>3. CallOK(asking)
  BY <1>1, <1>2 DEF CallOK, Midway, Sim!NoJob
<1>4. Sim!Call(c, asking) /\ UNCHANGED <<up, jobs, file, task, faults>>
  BY DEF Sim!Begin, Sim!Call
<1> HIDE DEF asking
<1> QED BY <1>2, <1>3, <1>4, ClientMoves

\* An answer that is not "ok" ends the call.
LEMMA AnswerOK ==
    ASSUME CallInv, NEW c \in Clients, NEW answer \in {"failed", "timeout", "unreachable"}
    PROVE  LET asking == [calls[c] EXCEPT !.phase = "done", !.answer = answer]
           IN asking \in CallSet /\ CallOK(asking)
  BY ZenonT(30) DEF CallInv, CallSet, CallOK

LEMMA AppendOne ==
    ASSUME NEW S, NEW a \in S, NEW b \in S
    PROVE  Append(<<a>>, b) = <<a, b>>
<1> DEFINE s == Append(<<a>>, b)
           t == <<a, b>>
<1>1. s \in Seq(S) /\ Len(s) = 2 /\ s[1] = a /\ s[2] = b
  <2>1. <<a>> \in Seq(S) /\ Len(<<a>>) = 1 /\ <<a>>[1] = a
    OBVIOUS
  <2> QED BY <2>1, AppendProperties
<1>2. t \in Seq(S) /\ Len(t) = 2 /\ t[1] = a /\ t[2] = b
  OBVIOUS
<1> HIDE DEF s, t
<1>3. \A i \in 1..2 : s[i] = t[i]
  BY <1>1, <1>2
<1>4. s = t
  BY <1>1, <1>2, <1>3, SeqEqual
<1> QED BY <1>4 DEF s, t

LEMMA PollStep ==
    ASSUME WorkInv, CallInv, NEW c \in Clients, Sim!Poll(c)
    PROVE  Good
<1>0. calls[c] \in CallSet /\ CallOK(calls[c]) /\ calls[c].phase = "poll"
      /\ UNCHANGED <<up, jobs, file, task, faults>>
  BY DEF CallInv, Sim!Poll
<1>1. ASSUME NEW answer \in {"failed", "timeout", "unreachable"}, Sim!Answered(c, answer) PROVE Good
  BY <1>0, <1>1, AnswerOK, ClientMoves DEF Sim!Answered
<1>2. PICK r \in Asked :
          /\ calls[c].asked = <<Sim!Baseline, r>>
          /\ \/ calls[c].todo = <<Sim!Baseline, r>> /\ calls[c].results = <<>>
             \/ calls[c].todo = <<r>> /\ calls[c].results = <<Sim!Baseline>>
  BY <1>0 DEF CallOK, Midway
<1>3. ASSUME calls[c].job \in DOMAIN jobs, jobs[calls[c].job].state = "completed",
             Sim!TakeResult(c, jobs[calls[c].job].result)
      PROVE  Good
  <2>1. jobs[calls[c].job].result = Head(calls[c].todo)
    BY <1>0, <1>3 DEF CallOK, Names, WorkInv, Stored, Honest
  <2>2. Sim!Baseline \in Asked
    BY DEF Asked
  <2>3. CASE calls[c].todo = <<Sim!Baseline, r>> /\ calls[c].results = <<>>
    <3> DEFINE asking == [calls[c] EXCEPT !.todo = <<r>>, !.results = <<Sim!Baseline>>, !.phase = "submit"]
    <3>1. Len(calls[c].todo) # 1 /\ Head(calls[c].todo) = Sim!Baseline /\ Tail(calls[c].todo) = <<r>>
          /\ Append(calls[c].results, Sim!Baseline) = <<Sim!Baseline>>
      BY <2>3
    <3>2. Sim!Call(c, asking)
      BY <1>3, <2>1, <3>1 DEF Sim!TakeResult
    <3>3. asking \in CallSet /\ CallOK(asking)
      <4>1. <<r>> \in Seq(Asked) /\ <<Sim!Baseline>> \in Seq(Asked \cup {Sim!NoResult})
        BY <2>2
      <4>2. asking \in CallSet
        BY <1>0, <4>1 DEF CallSet
      <4>3. asking.phase = "submit" /\ asking.asked = <<Sim!Baseline, r>> /\ asking.todo = <<r>>
            /\ asking.results = <<Sim!Baseline>> /\ asking.answer = Sim!NoJob
        BY <1>0, <1>2 DEF CallSet, CallOK
      <4> HIDE DEF asking
      <4> QED BY <4>2, <4>3 DEF CallOK, Midway, Sim!NoJob
    <3> QED BY <1>0, <3>2, <3>3, ClientMoves
  <2>4. CASE calls[c].todo = <<r>> /\ calls[c].results = <<Sim!Baseline>>
    <3> DEFINE asking == [calls[c] EXCEPT !.todo = <<>>, !.results = <<Sim!Baseline, r>>, !.phase = "done",
                                        !.answer = "ok"]
    <3>1. Len(calls[c].todo) = 1 /\ Head(calls[c].todo) = r
          /\ Append(calls[c].results, r) = <<Sim!Baseline, r>>
      <4>1. Len(<<r>>) = 1 /\ Head(<<r>>) = r
        OBVIOUS
      <4>2. Append(<<Sim!Baseline>>, r) = <<Sim!Baseline, r>>
        BY <2>2, AppendOne
      <4> QED BY <2>4, <4>1, <4>2
    <3>2. Sim!Call(c, asking)
      BY <1>3, <2>1, <3>1 DEF Sim!TakeResult
    <3>3. asking \in CallSet /\ CallOK(asking)
      <4>1. <<>> \in Seq(Asked) /\ <<Sim!Baseline, r>> \in Seq(Asked \cup {Sim!NoResult})
        BY <2>2
      <4>2. asking \in CallSet
        BY <1>0, <4>1 DEF CallSet
      <4>3. asking.phase = "done" /\ asking.results = asking.asked
        BY <1>0, <1>2 DEF CallSet
      <4> HIDE DEF asking
      <4> QED BY <4>2, <4>3 DEF CallOK
    <3> QED BY <1>0, <3>2, <3>3, ClientMoves
  <2> QED BY <1>2, <2>3, <2>4
<1>4. ASSUME Sim!Call(c, [calls[c] EXCEPT !.polls = calls[c].polls + 1]), calls[c].polls + 1 # PollAttempts
      PROVE  Good
  <2> DEFINE asking == [calls[c] EXCEPT !.polls = calls[c].polls + 1]
  <2>1. asking \in CallSet
    <3>1. calls[c].polls + 1 \in Polls
      BY <1>0, <1>4, SomePolls DEF CallSet, Polls
    <3> QED BY <1>0, <3>1 DEF CallSet
  <2>2. CallOK(asking)
    <3>1. /\ asking.asked = calls[c].asked /\ asking.todo = calls[c].todo /\ asking.phase = calls[c].phase
          /\ asking.job = calls[c].job /\ asking.results = calls[c].results /\ asking.answer = calls[c].answer
      BY <1>0 DEF CallSet
    <3> HIDE DEF asking
    <3> QED BY <1>0, <3>1 DEF CallOK, Midway, Names
  <2> QED BY <1>0, <1>4, <2>1, <2>2, ClientMoves
<1> QED BY <1>0, <1>1, <1>3, <1>4 DEF Sim!Poll

LEMMA PollingCall ==
    ASSUME NEW k \in CallSet, NEW id \in Nat
    PROVE  LET asking == [k EXCEPT !.phase = "poll", !.job = id, !.polls = 0]
           IN  /\ asking \in CallSet /\ asking.phase = "poll" /\ asking.job = id
               /\ asking.asked = k.asked /\ asking.todo = k.todo
               /\ asking.results = k.results /\ asking.answer = k.answer
<1> DEFINE first == [k EXCEPT !.phase = "poll", !.job = id]
<1>1. /\ first \in CallSet /\ first.phase = "poll" /\ first.job = id
      /\ first.asked = k.asked /\ first.todo = k.todo
      /\ first.results = k.results /\ first.answer = k.answer
  BY DEF CallSet
<1>2. [k EXCEPT !.phase = "poll", !.job = id, !.polls = 0] = [first EXCEPT !.polls = 0]
  OBVIOUS
<1> HIDE DEF first
<1> QED BY <1>1, <1>2, SomePolls DEF CallSet

(* A submit adds a job under an identifier that was never used.            *)
LEMMA SubmitStep ==
    ASSUME WorkInv, CallInv, NEW c \in Clients, Sim!Submit(c)
    PROVE  Good
<1> DEFINE new == Sim!Job(Head(calls[c].todo))
           added == Sim!With(jobs, Sim!NewId, new)
<1>0. calls[c] \in CallSet /\ CallOK(calls[c]) /\ calls[c].phase = "submit" /\ up' = up
  BY DEF CallInv, Sim!Submit
<1>1. CASE ~up
  <2>1. Sim!Answered(c, "unreachable") /\ UNCHANGED <<up, jobs, file, task, faults>>
    BY <1>1 DEF Sim!Submit
  <2> QED BY <2>1, AnswerOK, ClientMoves DEF Sim!Answered
<1>2. CASE up
  <2>1. Head(calls[c].todo) \in Asked
    <3>1. \E r \in Asked : calls[c].todo \in {<<Sim!Baseline, r>>, <<r>>}
      BY <1>0 DEF CallOK, Midway
    <3> QED BY <3>1 DEF Asked
  <2>2. /\ Sim!NewId \in Nat /\ Sim!NewId \notin DOMAIN task
        /\ \E n \in Nat : DOMAIN task \cup {Sim!NewId} = 1..n
    BY FreshId DEF WorkInv
  <2>3. new \in JobSet /\ new.state = "queued" /\ new.request = Head(calls[c].todo) /\ Honest(new)
    BY <2>1 DEF Sim!Job, JobSet, JobStates, Honest
  <2>4. PICK place \in {"queued", "dead"}, asking \in CallSet :
            /\ jobs' = added /\ file' \in {file, added} /\ faults' \in Nat
            /\ task' = Sim!With(task, Sim!NewId, place) /\ Sim!Call(c, asking)
            /\ \/ /\ asking.phase = "poll" /\ asking.job = Sim!NewId
                  /\ asking.asked = calls[c].asked /\ asking.todo = calls[c].todo
                  /\ asking.results = calls[c].results /\ asking.answer = calls[c].answer
               \/ asking.phase = "done" /\ asking.answer = "failed"
    <3>1. jobs' = added /\ Sim!Flush(added)
      BY <1>2 DEF Sim!Submit
    <3>2. file' \in {file, added} /\ faults' \in Nat
      BY <3>1 DEF Sim!Flush, WorkInv
    <3>3. CASE Sim!Flushed
      <4> DEFINE asking == [calls[c] EXCEPT !.phase = "poll", !.job = Sim!NewId, !.polls = 0]
      <4>1. task' = Sim!With(task, Sim!NewId, "queued") /\ Sim!Call(c, asking)
        BY <1>2, <3>3 DEF Sim!Submit
      <4>2. /\ asking \in CallSet /\ asking.phase = "poll" /\ asking.job = Sim!NewId
            /\ asking.asked = calls[c].asked /\ asking.todo = calls[c].todo
            /\ asking.results = calls[c].results /\ asking.answer = calls[c].answer
        BY <1>0, <2>2, PollingCall
      <4> HIDE DEF asking, added
      <4> QED BY <3>1, <3>2, <4>1, <4>2
    <3>4. CASE ~Sim!Flushed
      <4> DEFINE asking == [calls[c] EXCEPT !.phase = "done", !.answer = "failed"]
      <4>1. task' = Sim!With(task, Sim!NewId, "dead") /\ Sim!Call(c, asking)
        BY <1>2, <3>4 DEF Sim!Submit, Sim!Answered
      <4>2. asking \in CallSet /\ asking.phase = "done" /\ asking.answer = "failed"
        BY <1>0 DEF CallSet
      <4> HIDE DEF asking, added
      <4> QED BY <3>1, <3>2, <4>1, <4>2
    <3> QED BY <3>3, <3>4
  <2> HIDE DEF new
  <2>5. /\ DOMAIN task' = DOMAIN task \cup {Sim!NewId} /\ task'[Sim!NewId] = place
        /\ \A i \in DOMAIN task : task'[i] = task[i]
        /\ task' \in [DOMAIN task' -> Places]
    BY <2>2, <2>4 DEF WorkInv, Places, Sim!With
  <2>6. /\ DOMAIN added = DOMAIN jobs \cup {Sim!NewId} /\ added[Sim!NewId] = new
        /\ \A i \in DOMAIN jobs : added[i] = jobs[i]
        /\ added \in [DOMAIN added -> JobSet]
        /\ Sim!NewId \notin DOMAIN jobs /\ Sim!NewId \notin DOMAIN file
    BY <2>2, <2>3 DEF WorkInv, Stored, Sim!With
  <2> HIDE DEF added
  <2>7. Stored(jobs) /\ Stored(file) /\ Sim!Forward(file, jobs)
    BY <1>2 DEF WorkInv
  <2>8. \A js : js \in {file, added} =>
            /\ js \in [DOMAIN js -> JobSet] /\ DOMAIN js \subseteq DOMAIN task'
            /\ \A j \in DOMAIN js : Honest(js[j])
    BY <2>3, <2>5, <2>6, <2>7 DEF Stored
  <2>9. Stored(jobs)' /\ Stored(file)'
    BY <2>4, <2>8 DEF Stored
  <2>10. Sim!Forward(jobs, added) /\ Sim!Forward(file, added) /\ Sim!Forward(file, file)
         /\ Sim!Forward(added, added)
    <3>1. Sim!Forward(jobs, jobs) /\ Sim!Forward(file, file)
      BY <2>7, ForwardStays
    <3>2. Sim!Rank["queued"] <= Sim!Rank["queued"] /\ "queued" \notin Sim!Ended
      BY DEF Sim!Rank, Sim!Ended
    <3> QED BY <2>3, <2>6, <2>7, <3>1, <3>2 DEF Sim!Forward
  <2>11. \A i \in DOMAIN task' : Attended(i)'
    <3>1. ASSUME NEW i \in DOMAIN task PROVE Attended(i)'
      BY <1>0, <2>4, <2>5, <2>6 DEF WorkInv, Attended
    <3>2. PICK n : n = Sim!NewId
      OBVIOUS
    <3>3. /\ task'[n] \in {"queued", "dead"} /\ up'
          /\ n \in DOMAIN jobs' /\ jobs'[n].state = "queued"
      BY <1>0, <1>2, <2>3, <2>4, <2>5, <2>6, <3>2
    <3>4. Attended(n)'
      BY <3>3 DEF Attended, StateAt
    <3> QED BY <2>5, <3>1, <3>2, <3>4
  <2>12. WorkInv'
    <3>1. Numbered'
      BY <2>2, <2>5 DEF Numbered
    <3> QED BY <1>0, <1>2, <2>4, <2>5, <2>9, <2>10, <2>11, <3>1 DEF WorkInv
  <2>13. CallInv'
    <3>1. \A k : Names(jobs, k) /\ k.job \in DOMAIN task => Names(jobs, k)'
      BY <2>4, <2>6, <2>2 DEF Names
    <3>2. \A k : Names(jobs, k) /\ Names(file, k) /\ k.job \in DOMAIN task => Names(file, k)'
      BY <2>4, <2>6, <2>2 DEF Names
    <3>3. \A k : CallOK(k) => CallOK(k)'
      BY <3>1, <3>2, <2>5 DEF CallOK, Midway
    <3>4. (Names(jobs, asking)' /\ Names(file, asking)') \/ asking.phase # "poll"
      BY <2>3, <2>4, <2>6 DEF Names
    <3>5. CallOK(asking)'
      BY <1>0, <2>4, <2>5, <3>4 DEF CallOK, Midway
    <3>6. calls' = [calls EXCEPT ![c] = asking]
      BY <2>4 DEF Sim!Call
    <3> QED BY <3>3, <3>5, <3>6 DEF CallInv
  <2> QED BY <1>2, <2>4, <2>10, <2>12, <2>13 DEF Good
<1> QED BY <1>1, <1>2 DEF WorkInv

-----------------------------------------------------------------------------
(* A crash loses the objects and the tasks, a restart reads the file.      *)
LEMMA CrashStep ==
    ASSUME WorkInv, CallInv, Sim!Crash
    PROVE  Good
<1>1. DOMAIN jobs' = {} /\ DOMAIN task' = DOMAIN task /\ task' \in [DOMAIN task' -> Places]
      /\ \A j \in DOMAIN task : task'[j] = "dead"
  BY DEF Sim!Crash, Places, WorkInv
<1>2. up' = FALSE /\ faults' \in Nat /\ UNCHANGED <<file, calls>>
  BY DEF Sim!Crash, WorkInv
<1>3. jobs' \in [DOMAIN jobs' -> JobSet]
  BY DEF Sim!Crash
<1>4. WorkInv'
  BY <1>1, <1>2, <1>3 DEF WorkInv, Stored, Attended, Numbered
<1>5. CallInv'
  <2>1. \A k : CallOK(k) => CallOK(k)'
    BY <1>1, <1>2 DEF CallOK, Names, Midway
  <2> QED BY <2>1, <1>2 DEF CallInv
<1> QED BY <1>2, <1>4, <1>5, ForwardStays DEF Good, WorkInv

LEMMA RestartStep ==
    ASSUME WorkInv, CallInv, Sim!Restart
    PROVE  Good
<1>1. /\ ~up /\ up' = TRUE /\ jobs' = file /\ UNCHANGED <<file, task, calls, faults>>
      /\ jobs' = file'
  BY DEF Sim!Restart
<1>2. \A j \in DOMAIN task : task[j] = "dead"
  BY <1>1 DEF WorkInv, Attended
<1>3. Stored(file) /\ Sim!Forward(file, file)
  BY ForwardStays DEF WorkInv
<1>4. WorkInv'
  BY <1>1, <1>2, <1>3 DEF WorkInv, Stored, Attended, Numbered, Sim!Forward
<1>5. CallInv'
  <2>1. \A k : CallOK(k) => CallOK(k)'
    BY <1>1 DEF CallOK, Names, Midway
  <2> QED BY <2>1, <1>1 DEF CallInv
<1> QED BY <1>1, <1>3, <1>4, <1>5 DEF Good

-----------------------------------------------------------------------------
LEMMA InitInv == Sim!JobsInit => WorkInv /\ CallInv
<1> SUFFICES ASSUME Sim!JobsInit PROVE WorkInv /\ CallInv
  OBVIOUS
<1>1. DOMAIN jobs = {} /\ DOMAIN file = {} /\ DOMAIN task = {}
      /\ jobs = [j \in {} |-> Sim!Baseline] /\ file = [j \in {} |-> Sim!Baseline]
      /\ task = [j \in {} |-> "dead"] /\ up = TRUE /\ faults = 0
  BY DEF Sim!JobsInit
<1>2. WorkInv
  <2>1. Numbered
    <3>1. DOMAIN task = 1..0
      BY <1>1
    <3> QED BY <3>1 DEF Numbered
  <2> QED BY <2>1, <1>1 DEF WorkInv, Stored, Attended, Sim!Forward
<1>3. CallInv
  <2>1. <<>> \in Seq(Asked) /\ <<>> \in Seq(Asked \cup {Sim!NoResult})
    OBVIOUS
  <2>2. Sim!Idle \in CallSet /\ Sim!Idle.phase = "idle" /\ Sim!Idle.answer = Sim!NoJob
    BY <2>1, SomePolls DEF Sim!Idle, CallSet
  <2>3. CallOK(Sim!Idle)
    BY <2>2 DEF CallOK, Sim!NoJob
  <2> QED BY <2>2, <2>3 DEF Sim!JobsInit, CallInv
<1> QED BY <1>2, <1>3

LEMMA StepJobs ==
    ASSUME WorkInv, CallInv, [Sim!JobsNext]_simvars
    PROVE  Good
<1>1. CASE UNCHANGED simvars
  <2>1. WorkInv' /\ CallInv'
    BY <1>1 DEF simvars, WorkInv, CallInv, CallOK, Names, Midway, Numbered, Stored, Attended, Sim!Forward
  <2> QED BY <1>1, <2>1, ForwardStays DEF simvars, Good, WorkInv
<1>2. CASE Sim!JobsNext
  <2>1. ASSUME NEW j \in DOMAIN task, Sim!Work(j) PROVE Good
    BY <2>1, WorkerStep, FlushStep DEF Sim!Work
  <2> QED BY <1>2, <2>1, BeginStep, SubmitStep, PollStep, CrashStep, RestartStep DEF Sim!JobsNext
<1> QED BY <1>1, <1>2

LEMMA JobsAreHonest == WorkInv /\ CallInv => Sim!JobsHonest
<1> SUFFICES ASSUME WorkInv, CallInv PROVE Sim!JobsHonest
  OBVIOUS
<1>1. \A js \in {jobs, file} : \A j \in DOMAIN js :
          js[j].state = "completed" => js[j].result = js[j].request
  BY DEF WorkInv, Stored, Honest
<1>2. up => \A j \in DOMAIN file : j \in DOMAIN jobs /\ Sim!Rank[file[j].state] <= Sim!Rank[jobs[j].state]
  BY DEF WorkInv, Sim!Forward
<1>3. \A c \in Clients : calls[c].answer = "ok" => calls[c].results = calls[c].asked
  BY DEF CallInv, CallOK
<1> QED BY <1>1, <1>2, <1>3 DEF Sim!JobsHonest

\* The types are what the invariant keeps of them.
LEMMA JobsTypes == WorkInv /\ CallInv => Sim!JobsTypeOK
<1> SUFFICES ASSUME WorkInv, CallInv PROVE Sim!JobsTypeOK
  OBVIOUS
<1>1. DOMAIN jobs \subseteq DOMAIN task /\ DOMAIN file \subseteq DOMAIN task
  BY DEF WorkInv, Stored
<1>2. \A js \in {jobs, file} : \A j \in DOMAIN js :
          js[j] \in JobSet /\ js[j].result \in {Sim!NoResult, js[j].request}
  BY DEF WorkInv, Stored, Honest
<1>3. \A job \in JobSet : job.request \in Scenarios \cup {Sim!Baseline}
                       /\ job.state \in {"queued", "running"} \cup Sim!Ended
  BY DEF JobSet, Asked, JobStates
<1>4. \A c \in Clients : calls[c].polls \in 0..PollAttempts
  <2>1. \A n \in Polls : n \in 0..PollAttempts
    BY SomePolls DEF Polls
  <2> QED BY <2>1 DEF CallInv, CallSet
<1> QED BY <1>1, <1>2, <1>3, <1>4 DEF Sim!JobsTypeOK

---------------------------------------------------------------------------
(***************************************************************************)
(* TreatmentJobs: the jobs of treatment-sim.                               *)
(***************************************************************************)
\* What an endpoint accepts (treatment-sim main.py:59-98): some points, each with its figures.
Solvable ==
    \A s \in Processes :
        /\ DOMAIN s.points # {}
        /\ s.points \in Seq([energy : Nat, recovery : Nat, tds : Nat])
        /\ s.minRecovery \in Nat /\ s.maxTds \in Nat
SomeTreatments == MaxTreatments \in Nat /\ Solvable

-----------------------------------------------------------------------------
(* The optimizer's choice.                                                 *)
LEMMA LeastOf ==
    ASSUME NEW S \in SUBSET Nat, S # {}
    PROVE  \E least \in S : \A n \in S : least <= n
<1> DEFINE R == OpToRel(<, Nat)
<1>1. IsWellFoundedOn(R, Nat)
  BY NatLessThanWellFounded
<1>2. PICK least \in S : \A n \in S : ~(<<n, least>> \in R)
  <2> HIDE DEF R
  <2> QED BY <1>1, WFMin
<1>3. \A n \in S : ~(n < least)
  BY <1>2 DEF OpToRel
<1> QED BY <1>3

LEMMA CheapestIs ==
    ASSUME NEW s \in Processes, Solvable, NEW C \in SUBSET DOMAIN s.points, C # {}
    PROVE  /\ Treat!Cheapest(s, C) \in C
           /\ \A k \in C : s.points[Treat!Cheapest(s, C)].energy <= s.points[k].energy
<1> DEFINE e(i) == s.points[i].energy
           Best(i) == \A k \in C : e(i) < e(k) \/ (e(i) = e(k) /\ i <= k)
<1>1. \A i \in C : i \in Nat /\ e(i) \in Nat
  <2>1. s.points \in Seq([energy : Nat, recovery : Nat, tds : Nat])
    BY DEF Solvable
  <2>2. ASSUME NEW P, NEW f \in Seq(P), NEW i \in DOMAIN f PROVE i \in Nat /\ f[i] \in P
    OBVIOUS
  <2>3. \A i \in DOMAIN s.points : i \in Nat /\ s.points[i] \in [energy : Nat, recovery : Nat, tds : Nat]
    BY <2>1, <2>2, Zenon
  <2> QED BY <2>3
<1>2. \E i \in C : Best(i)
  <2> HIDE DEF e
  <2>1. PICK low \in {e(i) : i \in C} : \A n \in {e(i) : i \in C} : low <= n
    <3>1. {e(i) : i \in C} \in SUBSET Nat /\ {e(i) : i \in C} # {}
      BY <1>1
    <3> QED BY <3>1, LeastOf
  <2>2. {i \in C : e(i) = low} \in SUBSET Nat /\ {i \in C : e(i) = low} # {}
    BY <1>1, <2>1
  <2>3. PICK i \in {i \in C : e(i) = low} : \A k \in {k \in C : e(k) = low} : i <= k
    BY <2>2, LeastOf
  <2>4. ASSUME NEW k \in C PROVE e(i) < e(k) \/ (e(i) = e(k) /\ i <= k)
    <3>1. low <= e(k) /\ e(i) = low
      BY <2>1, <2>3
    <3> QED BY <3>1, <2>3, <1>1
  <2> QED BY <2>3, <2>4
<1>3. Treat!Cheapest(s, C) = CHOOSE i \in C : Best(i)
  BY DEF Treat!Cheapest
<1>4. Treat!Cheapest(s, C) \in C /\ Best(Treat!Cheapest(s, C))
  <2> HIDE DEF Best
  <2> QED BY <1>2, <1>3
<1> QED BY <1>1, <1>4

\* It meets the limits when a point does, and is then the cheapest of those.
LEMMA OptimizeIs ==
    ASSUME NEW s \in Processes, Solvable
    PROVE  LET o == Treat!Optimize(s).chosen
           IN /\ o \in DOMAIN s.points
              /\ \A k \in DOMAIN s.points : Treat!Feasible(s.points[k], s) =>
                     Treat!Feasible(s.points[o], s) /\ s.points[o].energy <= s.points[k].energy
<1> DEFINE all == DOMAIN s.points
           feasible == {i \in all : Treat!Feasible(s.points[i], s)}
           C == IF feasible = {} THEN all ELSE feasible
           o == Treat!Cheapest(s, C)
<1>1. Treat!Optimize(s).chosen = o
  BY DEF Treat!Optimize
<1>2. C \in SUBSET DOMAIN s.points /\ C # {}
  BY DEF Solvable
<1> HIDE DEF C
<1>3. o \in C /\ \A k \in C : s.points[o].energy <= s.points[k].energy
  BY <1>2, CheapestIs
<1> QED BY <1>1, <1>2, <1>3 DEF C

-----------------------------------------------------------------------------
(* The inductive invariant.                                                *)
Fetches == {"nothing", "queued", "running", "succeeded", "failed", "gone"}
TreatmentTypes ==
    /\ tasks \in Seq({"scheduled", "solving", "over"}) /\ Len(tasks) <= MaxTreatments
    /\ fetched \in Seq(Fetches) /\ Len(fetched) = Len(tasks)
    /\ Treat!TreatmentIds \subseteq DOMAIN tasks
\* The state of a job is that of its task, and what its client has read of it
\* is not ahead of it.
TreatStates == {"queued", "running", "succeeded", "failed"}
InStep(at, state) ==
    \/ at = "scheduled" /\ state = "queued"
    \/ at = "solving" /\ state = "running"
    \/ at = "over" /\ state \in {"succeeded", "failed"}
NotAhead(read, state) ==
    \/ read \in {"nothing", "queued", state}
    \/ read = "running" /\ state # "queued"
SolvedJob(job) ==
    /\ job.request \in Processes /\ job.state \in TreatStates
    /\ job.state = "succeeded" =>
           /\ ~Treat!Refused(job.request)
           /\ \E engines \in [DOMAIN job.request.points -> Treat!Engines] :
                  job.result = Treat!Solution(job.request, engines)
    /\ job.state # "succeeded" => job.result = Treat!NoSolution
JobOK(j) ==
    /\ SolvedJob(treatments[j])
    /\ InStep(tasks[j], treatments[j].state)
    /\ NotAhead(fetched[j], treatments[j].state)
TreatInv ==
    /\ TreatmentTypes
    /\ \A j \in Treat!TreatmentIds : JobOK(j)
    /\ \A j \in DOMAIN tasks \ Treat!TreatmentIds : tasks[j] = "over"

LEMMA InitTreat == SomeTreatments /\ Treat!TreatmentInit => TreatInv
  BY DEF SomeTreatments, Treat!TreatmentInit, TreatInv, TreatmentTypes, Treat!TreatmentIds

-----------------------------------------------------------------------------
(* The steps.                                                              *)
TreatForward ==
    \A j \in DOMAIN fetched :
        /\ Treat!Seen[fetched[j]] <= Treat!Seen[fetched'[j]]
        /\ fetched[j] \in {"succeeded", "failed"} => fetched'[j] \in {fetched[j], "gone"}

LEMMA ReadForward ==
    ASSUME NEW read \in Fetches
    PROVE  /\ Treat!Seen[read] <= Treat!Seen[read] /\ Treat!Seen[read] <= Treat!Seen["gone"]
           /\ \A state \in TreatStates : NotAhead(read, state) =>
                 /\ Treat!Seen[read] <= Treat!Seen[state]
                 /\ read \in {"succeeded", "failed"} => state = read
<1>1. Treat!Seen[read] <= Treat!Seen[read] /\ Treat!Seen[read] <= Treat!Seen["gone"]
  BY DEF Fetches, Treat!Seen
<1>2. ASSUME NEW state \in TreatStates, NotAhead(read, state)
      PROVE  Treat!Seen[read] <= Treat!Seen[state] /\ (read \in {"succeeded", "failed"} => state = read)
  BY <1>2 DEF NotAhead, TreatStates, Fetches, Treat!Seen
<1> QED BY <1>1, <1>2

LEMMA UnreadForward ==
    ASSUME TreatInv, fetched' = fetched
    PROVE  TreatForward
<1>1. \A j \in DOMAIN fetched : fetched[j] \in Fetches
  BY DEF TreatInv, TreatmentTypes
<1> QED BY <1>1, ReadForward DEF TreatForward

LEMMA StepCreate ==
    ASSUME SomeTreatments, TreatInv, NEW s \in Processes, Treat!Create(s)
    PROVE  TreatInv' /\ TreatForward
<1>n. PICK n : n = Treat!NextTreatment
  OBVIOUS
<1>1. /\ n = Len(tasks) + 1 /\ n \in Nat /\ Len(tasks) \in Nat /\ n <= MaxTreatments
      /\ DOMAIN tasks = 1..Len(tasks) /\ n \notin DOMAIN tasks
      /\ treatments' = [j \in Treat!TreatmentIds \cup {n} |-> IF j = n THEN Treat!TreatmentJob(s) ELSE treatments[j]]
      /\ tasks' = Append(tasks, "scheduled") /\ fetched' = Append(fetched, "nothing")
  BY <1>n DEF Treat!Create, Treat!NextTreatment, TreatInv, TreatmentTypes, SomeTreatments
<1>2. /\ Treat!TreatmentIds' = Treat!TreatmentIds \cup {n}
      /\ DOMAIN tasks' = DOMAIN tasks \cup {n} /\ DOMAIN fetched = DOMAIN tasks
      /\ treatments'[n] = Treat!TreatmentJob(s) /\ tasks'[n] = "scheduled" /\ fetched'[n] = "nothing"
      /\ \A j \in DOMAIN tasks : tasks'[j] = tasks[j] /\ fetched'[j] = fetched[j]
      /\ \A j \in Treat!TreatmentIds : treatments'[j] = treatments[j]
  BY <1>1 DEF Treat!TreatmentIds, TreatInv, TreatmentTypes
<1>3. TreatmentTypes'
  <2>1. /\ tasks' \in Seq({"scheduled", "solving", "over"}) /\ Len(tasks') = n
        /\ fetched' \in Seq(Fetches) /\ Len(fetched') = n
    <3>1. "scheduled" \in {"scheduled", "solving", "over"} /\ "nothing" \in Fetches
      BY DEF Fetches
    <3> QED BY <1>1, <3>1 DEF TreatInv, TreatmentTypes
  <2>2. (Treat!TreatmentIds \subseteq DOMAIN tasks)'
    BY <1>2 DEF TreatInv, TreatmentTypes
  <2> QED BY <1>1, <2>1, <2>2 DEF TreatmentTypes
<1>4. \A j \in Treat!TreatmentIds' : JobOK(j)'
  <2>1. JobOK(n)'
    <3>1. SolvedJob(Treat!TreatmentJob(s))
      BY DEF SolvedJob, Treat!TreatmentJob, TreatStates
    <3>2. InStep("scheduled", Treat!TreatmentJob(s).state) /\ NotAhead("nothing", Treat!TreatmentJob(s).state)
      BY DEF Treat!TreatmentJob, InStep, NotAhead
    <3> QED BY <1>2, <3>1, <3>2 DEF JobOK
  <2>2. ASSUME NEW j \in Treat!TreatmentIds PROVE JobOK(j)'
    <3>1. /\ treatments'[j] = treatments[j] /\ tasks'[j] = tasks[j] /\ fetched'[j] = fetched[j]
          /\ JobOK(j)
      BY <1>2 DEF TreatInv, TreatmentTypes
    <3> QED BY <3>1 DEF JobOK
  <2> QED BY <1>2, <2>1, <2>2
<1>5. \A j \in DOMAIN tasks' \ Treat!TreatmentIds' : tasks'[j] = "over"
  BY <1>2 DEF TreatInv
<1>6. TreatForward
  <2>1. \A j \in DOMAIN fetched : fetched[j] \in Fetches /\ fetched'[j] = fetched[j]
    BY <1>2 DEF TreatInv, TreatmentTypes
  <2> QED BY <2>1, ReadForward DEF TreatForward
<1> QED BY <1>3, <1>4, <1>5, <1>6 DEF TreatInv

LEMMA StepFetch ==
    ASSUME TreatInv, NEW j \in DOMAIN tasks, Treat!Fetch(j)
    PROVE  TreatInv' /\ TreatForward
<1> DEFINE new == IF j \in Treat!TreatmentIds THEN treatments[j].state ELSE "gone"
<1>1. DOMAIN fetched = DOMAIN tasks
  BY DEF TreatInv, TreatmentTypes
<1>2. fetched' = [fetched EXCEPT ![j] = new] /\ UNCHANGED <<treatments, tasks>>
  BY DEF Treat!Fetch
<1>3. \/ j \in Treat!TreatmentIds /\ new = treatments[j].state /\ new \in TreatStates /\ NotAhead(fetched[j], new)
      \/ j \notin Treat!TreatmentIds /\ new = "gone"
  BY DEF TreatInv, JobOK, SolvedJob
<1> HIDE DEF new
<1>4. new \in Fetches /\ fetched[j] \in Fetches
  <2>1. TreatStates \subseteq Fetches /\ "gone" \in Fetches
    BY DEF TreatStates, Fetches
  <2> QED BY <1>1, <1>3, <2>1 DEF TreatInv, TreatmentTypes
<1>5. /\ Treat!Seen[fetched[j]] <= Treat!Seen[new]
      /\ fetched[j] \in {"succeeded", "failed"} => new \in {fetched[j], "gone"}
  BY <1>3, <1>4, ReadForward
<1>6. /\ DOMAIN fetched' = DOMAIN fetched /\ fetched'[j] = new
      /\ \A k \in DOMAIN fetched \ {j} : fetched'[k] = fetched[k]
  BY <1>1, <1>2
<1>7. TreatmentTypes'
  BY <1>1, <1>2, <1>4 DEF TreatInv, TreatmentTypes, Treat!TreatmentIds
<1>8. \A k \in Treat!TreatmentIds : JobOK(k)'
  <2>1. ASSUME NEW k \in Treat!TreatmentIds \ {j} PROVE JobOK(k)'
    <3>1. JobOK(k) /\ treatments'[k] = treatments[k] /\ tasks'[k] = tasks[k] /\ fetched'[k] = fetched[k]
      BY <1>1, <1>2, <1>6 DEF TreatInv, TreatmentTypes
    <3> QED BY <3>1 DEF JobOK
  <2>2. ASSUME j \in Treat!TreatmentIds PROVE JobOK(j)'
    <3>1. new = treatments[j].state /\ JobOK(j)
      BY <1>3, <2>2 DEF TreatInv
    <3>2. NotAhead(new, new)
      BY DEF NotAhead
    <3> QED BY <1>2, <1>6, <3>1, <3>2 DEF JobOK
  <2> QED BY <2>1, <2>2
<1>9. TreatForward
  <2>1. \A k \in DOMAIN fetched : fetched[k] \in Fetches
    BY DEF TreatInv, TreatmentTypes
  <2> QED BY <1>5, <1>6, <2>1, ReadForward DEF TreatForward
<1> QED BY <1>2, <1>7, <1>8, <1>9 DEF TreatInv, Treat!TreatmentIds

\* A task's step: it and its job go on together.
LEMMA TaskStep ==
    ASSUME TreatInv, NEW j \in Treat!TreatmentIds, NEW to \in {"solving", "over"}, NEW state \in TreatStates,
           NEW result, InStep(to, state), \A read \in Fetches : NotAhead(read, treatments[j].state)
               => NotAhead(read, state),
           tasks' = [tasks EXCEPT ![j] = to], Treat!Update(j, state, result), UNCHANGED fetched,
           SolvedJob([request |-> treatments[j].request, state |-> state, result |-> result])
    PROVE  TreatInv' /\ TreatForward
<1> DEFINE job == [request |-> treatments[j].request, state |-> state, result |-> result]
<1>1. treatments' = [treatments EXCEPT ![j] = job]
  BY DEF Treat!Update
<1>2. job.state = state
  OBVIOUS
<1>3. SolvedJob(job)
  OBVIOUS
<1> HIDE DEF job
<1>4. /\ Treat!TreatmentIds' = Treat!TreatmentIds /\ DOMAIN tasks' = DOMAIN tasks /\ j \in DOMAIN tasks
      /\ treatments'[j] = job /\ tasks'[j] = to
      /\ \A k \in Treat!TreatmentIds \ {j} : treatments'[k] = treatments[k]
      /\ \A k \in DOMAIN tasks \ {j} : tasks'[k] = tasks[k]
  BY <1>1 DEF TreatInv, TreatmentTypes, Treat!TreatmentIds
<1>5. TreatmentTypes'
  BY <1>4 DEF TreatInv, TreatmentTypes
<1>6. JobOK(j)'
  <2>1. fetched[j] \in Fetches /\ NotAhead(fetched[j], treatments[j].state)
    BY <1>4 DEF TreatInv, TreatmentTypes, JobOK
  <2> QED BY <1>2, <1>3, <1>4, <2>1 DEF JobOK
<1>7. ASSUME NEW k \in Treat!TreatmentIds \ {j} PROVE JobOK(k)'
  <2>1. JobOK(k) /\ treatments'[k] = treatments[k] /\ tasks'[k] = tasks[k]
    BY <1>4 DEF TreatInv, TreatmentTypes
  <2> QED BY <2>1 DEF JobOK
<1>8. \A k \in DOMAIN tasks' \ Treat!TreatmentIds' : tasks'[k] = "over"
  BY <1>4 DEF TreatInv
<1> QED BY <1>4, <1>5, <1>6, <1>7, <1>8, UnreadForward DEF TreatInv

LEMMA StepRun ==
    ASSUME TreatInv, NEW j \in DOMAIN tasks, Treat!RunTreatment(j)
    PROVE  TreatInv' /\ TreatForward
<1>1. j \in Treat!TreatmentIds /\ JobOK(j) /\ tasks[j] = "scheduled"
  BY DEF Treat!RunTreatment, TreatInv
<1>2. treatments[j].state = "queued" /\ treatments[j].request \in Processes
  BY <1>1 DEF JobOK, SolvedJob, InStep
<1>3. SolvedJob([request |-> treatments[j].request, state |-> "running", result |-> Treat!NoSolution])
  BY <1>2 DEF SolvedJob, TreatStates
<1>4. InStep("solving", "running") /\ \A read \in Fetches : NotAhead(read, "queued") => NotAhead(read, "running")
  BY DEF InStep, NotAhead
<1>5. "running" \in TreatStates
  BY DEF TreatStates
<1> QED BY <1>1, <1>2, <1>3, <1>4, <1>5, TaskStep DEF Treat!RunTreatment

LEMMA StepSolve ==
    ASSUME TreatInv, NEW j \in DOMAIN tasks, Treat!Solve(j)
    PROVE  TreatInv' /\ TreatForward
<1> DEFINE s == treatments[j].request
<1>1. j \in Treat!TreatmentIds /\ JobOK(j) /\ tasks[j] = "solving"
  BY DEF Treat!Solve, TreatInv
<1>2. treatments[j].state = "running" /\ s \in Processes
  BY <1>1 DEF JobOK, SolvedJob, InStep
<1>3. /\ "succeeded" \in TreatStates /\ "failed" \in TreatStates
      /\ InStep("over", "succeeded") /\ InStep("over", "failed")
      /\ \A read \in Fetches : NotAhead(read, "running") => NotAhead(read, "succeeded") /\ NotAhead(read, "failed")
  BY DEF InStep, NotAhead, TreatStates
<1>4. tasks' = [tasks EXCEPT ![j] = "over"] /\ UNCHANGED fetched
  BY DEF Treat!Solve
<1>5. CASE Treat!Update(j, "failed", Treat!NoSolution)
  <2>1. SolvedJob([request |-> s, state |-> "failed", result |-> Treat!NoSolution])
    BY <1>2 DEF SolvedJob, TreatStates
  <2> QED BY <1>1, <1>2, <1>3, <1>4, <1>5, <2>1, TaskStep
<1>6. ASSUME ~Treat!Refused(s), NEW solver \in BOOLEAN,
             NEW engines \in [DOMAIN s.points -> {"analytical", Treat!ActiveEngine(solver)}],
             Treat!Update(j, "succeeded", Treat!Solution(s, engines))
      PROVE  TreatInv' /\ TreatForward
  <2>1. engines \in [DOMAIN s.points -> Treat!Engines]
    BY DEF Treat!ActiveEngine, Treat!Engines
  <2>2. SolvedJob([request |-> s, state |-> "succeeded", result |-> Treat!Solution(s, engines)])
    BY <1>2, <1>6, <2>1 DEF SolvedJob, TreatStates
  <2> QED BY <1>1, <1>2, <1>3, <1>4, <1>6, <2>2, TaskStep
<1> QED BY <1>5, <1>6 DEF Treat!Solve

LEMMA StepOutage == ASSUME TreatInv, Treat!Outage PROVE TreatInv' /\ TreatForward
<1>1. /\ Treat!TreatmentIds' = {} /\ DOMAIN tasks' = DOMAIN tasks /\ fetched' = fetched
      /\ tasks' \in Seq({"scheduled", "solving", "over"}) /\ Len(tasks') = Len(tasks)
      /\ \A j \in DOMAIN tasks' : tasks'[j] = "over"
  BY DEF Treat!Outage, TreatInv, TreatmentTypes, Treat!TreatmentIds
<1> QED BY <1>1, UnreadForward DEF TreatInv, TreatmentTypes

LEMMA QuietTreat ==
    ASSUME TreatInv, UNCHANGED <<treatments, tasks, fetched>>
    PROVE  TreatInv' /\ TreatForward
<1>1. TreatInv'
  BY DEF TreatInv, TreatmentTypes, Treat!TreatmentIds, JobOK
<1> QED BY <1>1, UnreadForward

LEMMA TreatStep ==
    SomeTreatments /\ TreatInv /\ [Treat!TreatmentNext]_treatmentvars => TreatInv' /\ [TreatForward]_treatmentvars
<1> SUFFICES ASSUME SomeTreatments, TreatInv, [Treat!TreatmentNext]_treatmentvars PROVE TreatInv' /\ TreatForward
  OBVIOUS
<1>1. ASSUME NEW s \in Processes, Treat!Create(s) PROVE TreatInv' /\ TreatForward
  BY <1>1, StepCreate
<1>2. ASSUME NEW j \in DOMAIN tasks, Treat!Fetch(j) PROVE TreatInv' /\ TreatForward
  BY <1>2, StepFetch
<1>3. ASSUME NEW j \in DOMAIN tasks, Treat!RunTreatment(j) PROVE TreatInv' /\ TreatForward
  BY <1>3, StepRun
<1>4. ASSUME NEW j \in DOMAIN tasks, Treat!Solve(j) PROVE TreatInv' /\ TreatForward
  BY <1>4, StepSolve
<1>5. CASE Treat!Return
  BY <1>5, QuietTreat DEF Treat!Return
<1>6. CASE UNCHANGED treatmentvars
  BY <1>6, QuietTreat DEF treatmentvars
<1> QED BY <1>1, <1>2, <1>3, <1>4, <1>5, <1>6, StepOutage DEF Treat!TreatmentNext

\* The label of a result is the engine of a point that was solved.
LEMMA SolutionIs ==
    ASSUME NEW s \in Processes, Solvable, NEW engines \in [DOMAIN s.points -> Treat!Engines]
    PROVE  LET result == Treat!Solution(s, engines)
               o == Treat!Optimize(s).chosen
           IN /\ result.engine \in Treat!Engines
              /\ \A i \in DOMAIN result.points : result.points[i] = s.points[i]
              /\ s.kind # "optimize" => DOMAIN result.points = DOMAIN s.points
              /\ s.kind = "optimize" => DOMAIN result.points = {o}
<1>1. Treat!Label(s) \in DOMAIN s.points
  <2>1. s.points \in Seq([energy : Nat, recovery : Nat, tds : Nat]) /\ DOMAIN s.points # {}
    BY DEF Solvable
  <2>2. 1 \in DOMAIN s.points /\ Len(s.points) \in DOMAIN s.points
    BY <2>1
  <2>3. Treat!Optimize(s).chosen \in DOMAIN s.points
    BY OptimizeIs
  <2> QED BY <2>2, <2>3 DEF Treat!Label
<1>2. /\ Treat!Solution(s, engines).engine = engines[Treat!Label(s)]
      /\ Treat!Solution(s, engines).points = [i \in Treat!Kept(s) |-> s.points[i]]
  BY DEF Treat!Solution
<1> QED BY <1>1, <1>2 DEF Treat!Kept

LEMMA TreatTypes == SomeTreatments /\ TreatInv => Treat!TreatmentTypeOK
<1> SUFFICES ASSUME SomeTreatments, TreatInv PROVE Treat!TreatmentTypeOK
  OBVIOUS
<1>1. ASSUME NEW j \in Treat!TreatmentIds
      PROVE  /\ treatments[j].request \in Processes
             /\ treatments[j].state \in {"queued", "running", "succeeded", "failed"}
             /\ treatments[j].result.engine \in Treat!Engines \cup {"none"}
  <2>1. SolvedJob(treatments[j])
    BY DEF TreatInv, JobOK
  <2>2. Treat!NoSolution.engine = "none"
    BY DEF Treat!NoSolution
  <2> QED BY <2>1, <2>2, SolutionIs DEF SolvedJob, TreatStates, SomeTreatments
<1>2. /\ Treat!TreatmentIds \subseteq DOMAIN tasks /\ DOMAIN fetched = DOMAIN tasks
      /\ DOMAIN tasks \subseteq 1..MaxTreatments
  BY DEF TreatInv, TreatmentTypes, SomeTreatments
<1> QED BY <1>1, <1>2 DEF Treat!TreatmentTypeOK

LEMMA TreatHonest == SomeTreatments /\ TreatInv => Treat!SolvedHonestly
<1> SUFFICES ASSUME SomeTreatments, TreatInv, NEW j \in Treat!TreatmentIds
             PROVE  LET job == treatments[j]
                        s == job.request
                    IN /\ job.state = "succeeded" =>
                            /\ ~Treat!Refused(s)
                            /\ \A i \in DOMAIN job.result.points : job.result.points[i] = s.points[i]
                            /\ s.kind # "optimize" => DOMAIN job.result.points = DOMAIN s.points
                            /\ s.kind = "optimize" =>
                                 \A i \in DOMAIN job.result.points, k \in DOMAIN s.points :
                                     Treat!Feasible(s.points[k], s) =>
                                         /\ Treat!Feasible(s.points[i], s)
                                         /\ s.points[i].energy <= s.points[k].energy
                       /\ (tasks[j] = "over") <=> (job.state \in {"succeeded", "failed"})
  BY DEF Treat!SolvedHonestly
<1> DEFINE job == treatments[j]
           s == job.request
<1>1. SolvedJob(job) /\ InStep(tasks[j], job.state)
  BY DEF TreatInv, JobOK
<1>2. (tasks[j] = "over") <=> (job.state \in {"succeeded", "failed"})
  BY <1>1 DEF InStep
<1>3. ASSUME job.state = "succeeded"
      PROVE  /\ ~Treat!Refused(s)
             /\ \A i \in DOMAIN job.result.points : job.result.points[i] = s.points[i]
             /\ s.kind # "optimize" => DOMAIN job.result.points = DOMAIN s.points
             /\ s.kind = "optimize" => DOMAIN job.result.points = {Treat!Optimize(s).chosen}
             /\ s \in Processes
  <2>1. PICK engines \in [DOMAIN s.points -> Treat!Engines] : job.result = Treat!Solution(s, engines)
    BY <1>1, <1>3 DEF SolvedJob
  <2>2. s \in Processes /\ ~Treat!Refused(s)
    BY <1>1, <1>3 DEF SolvedJob
  <2> HIDE DEF s, job
  <2> QED BY <2>1, <2>2, SolutionIs DEF SomeTreatments
<1>4. ASSUME s \in Processes
      PROVE  \A k \in DOMAIN s.points : Treat!Feasible(s.points[k], s) =>
                 /\ Treat!Feasible(s.points[Treat!Optimize(s).chosen], s)
                 /\ s.points[Treat!Optimize(s).chosen].energy <= s.points[k].energy
  BY <1>4, OptimizeIs DEF SomeTreatments
<1> HIDE DEF s, job
<1> QED BY <1>2, <1>3, <1>4 DEF s, job

---------------------------------------------------------------------------
(***************************************************************************)
(* EventBus: every publish is accounted for.                               *)
(***************************************************************************)
\* Finitely many publishes and handlers; the default handler is one of them.
SomeBus == IsFiniteSet(Events) /\ IsFiniteSet(Handlers) /\ LogHandler \in Handlers

-----------------------------------------------------------------------------
(* The inductive invariant: an event is seen once by each way, by the wire *)
(* once the broker delivered it and directly once publish gave up; every   *)
(* counter is the number of what it counts.                                *)
Phases == {"no", "refused", "sending", "published", "direct"}
Wires == {"none", "scheduled", "raised", "sent", "delivered", "lost"}
Sights == {<<>>, <<"wire">>, <<"direct">>, <<"wire", "direct">>, <<"direct", "wire">>}
Saw(s, way) == \E i \in DOMAIN s : s[i] = way
SeenBy(way) == {p \in Events \X Handlers : Saw(seen[p[1]][p[2]], way)}

BusTypes ==
    /\ busLink \in {"unset", "absent", "up", "down"} /\ bound \in BOOLEAN
    /\ LogHandler \in handlers /\ handlers \subseteq Handlers
    /\ publishing \in [Events -> Phases] /\ wire \in [Events -> Wires]
    /\ seen \in [Events -> [Handlers -> Sights]]
    /\ counters \in [Bus!Names -> Nat]
Consistent ==
    \A e \in Events :
        /\ publishing[e] \in {"no", "refused"} => wire[e] = "none"
        /\ publishing[e] = "published" => wire[e] \in {"sent", "delivered", "lost"}
        /\ \A h \in Handlers :
               /\ Saw(seen[e][h], "wire") => wire[e] = "delivered"
               /\ Saw(seen[e][h], "direct") => publishing[e] = "direct"
BusCounted ==
    /\ counters["published"] = Cardinality(Bus!Ended("published"))
    /\ counters["degraded_deliveries"] = Cardinality(Bus!Ended("direct"))
    /\ counters["direct_deliveries"] = Cardinality(SeenBy("direct"))
    /\ counters["bus_deliveries"] = Cardinality(SeenBy("wire"))
    /\ counters["publish_failures"] <= counters["degraded_deliveries"]
BusInv == BusTypes /\ Consistent /\ BusCounted

-----------------------------------------------------------------------------
(* What handing an event over adds to a sight.                             *)
LEMMA SawIn ==
    ASSUME NEW a, NEW b, NEW w
    PROVE  /\ ~Saw(<<>>, w)
           /\ Saw(<<a>>, w) <=> w = a
           /\ Saw(<<a, b>>, w) <=> w = a \/ w = b
<1>1. DOMAIN <<>> = {} /\ DOMAIN <<a>> = {1} /\ DOMAIN <<a, b>> = {1, 2}
  OBVIOUS
<1>2. <<a>>[1] = a /\ <<a, b>>[1] = a /\ <<a, b>>[2] = b
  OBVIOUS
<1> QED BY <1>1, <1>2 DEF Saw

LEMMA SawWay ==
    \A w \in {"wire", "direct"} :
        /\ ~Saw(<<>>, w)
        /\ Saw(<<"wire">>, w) <=> w = "wire"
        /\ Saw(<<"direct">>, w) <=> w = "direct"
        /\ Saw(<<"wire", "direct">>, w)
        /\ Saw(<<"direct", "wire">>, w)
<1> TAKE w \in {"wire", "direct"}
<1>1. ~Saw(<<>>, w)
  BY SawIn
<1>2. Saw(<<"wire">>, w) <=> w = "wire"
  BY SawIn
<1>3. Saw(<<"direct">>, w) <=> w = "direct"
  BY SawIn
<1>4. Saw(<<"wire", "direct">>, w) <=> w = "wire" \/ w = "direct"
  BY SawIn
<1>5. Saw(<<"direct", "wire">>, w) <=> w = "direct" \/ w = "wire"
  BY SawIn
<1> QED BY <1>1, <1>2, <1>3, <1>4, <1>5

LEMMA Appended ==
    ASSUME NEW S, NEW a \in S, NEW b \in S
    PROVE  Append(<<>>, a) = <<a>> /\ Append(<<a>>, b) = <<a, b>>
<1>1. Append(<<>>, a) = <<a>>
  <2>1. <<>> \in Seq(S) /\ <<a>> \in Seq(S) /\ Len(<<a>>) = 1 /\ Len(<<>>) = 0 /\ <<a>>[1] = a
    OBVIOUS
  <2> DEFINE s == Append(<<>>, a)
  <2>2. s \in Seq(S) /\ Len(s) = 1 /\ s[1] = a
    BY <2>1, AppendProperties
  <2> HIDE DEF s
  <2>3. s = <<a>>
    BY <2>1, <2>2, SeqEqual
  <2> QED BY <2>3 DEF s
<1>2. Append(<<a>>, b) = <<a, b>>
  <2> DEFINE s == Append(<<a>>, b)
             t == <<a, b>>
  <2>1. s \in Seq(S) /\ Len(s) = 2 /\ s[1] = a /\ s[2] = b
    <3>1. <<a>> \in Seq(S) /\ Len(<<a>>) = 1 /\ <<a>>[1] = a
      OBVIOUS
    <3> QED BY <3>1, AppendProperties
  <2>2. t \in Seq(S) /\ Len(t) = 2 /\ t[1] = a /\ t[2] = b
    OBVIOUS
  <2> HIDE DEF s, t
  <2>3. \A i \in 1..2 : s[i] = t[i]
    BY <2>1, <2>2
  <2>4. s = t
    BY <2>1, <2>2, <2>3, SeqEqual
  <2> QED BY <2>4 DEF s, t
<1> QED BY <1>1, <1>2

LEMMA AppendWay ==
    /\ Append(<<>>, "wire") = <<"wire">>
    /\ Append(<<>>, "direct") = <<"direct">>
    /\ Append(<<"wire">>, "direct") = <<"wire", "direct">>
    /\ Append(<<"direct">>, "wire") = <<"direct", "wire">>
<1> DEFINE S == {"wire", "direct"}
<1>1. "wire" \in S /\ "direct" \in S
  OBVIOUS
<1> HIDE DEF S
<1>2. Append(<<>>, "wire") = <<"wire">> /\ Append(<<"wire">>, "direct") = <<"wire", "direct">>
  BY <1>1, Appended
<1>3. Append(<<>>, "direct") = <<"direct">> /\ Append(<<"direct">>, "wire") = <<"direct", "wire">>
  BY <1>1, Appended
<1> QED BY <1>2, <1>3

LEMMA SeesOnce ==
    ASSUME NEW s \in Sights, NEW way \in {"wire", "direct"}, ~Saw(s, way)
    PROVE  /\ Append(s, way) \in Sights
           /\ \A w \in {"wire", "direct"} : Saw(Append(s, way), w) <=> w = way \/ Saw(s, w)
<1>1. CASE s = <<>>
  BY <1>1, SawWay, AppendWay DEF Sights
<1>2. CASE s = <<"wire">>
  BY <1>2, SawWay, AppendWay DEF Sights
<1>3. CASE s = <<"direct">>
  BY <1>3, SawWay, AppendWay DEF Sights
<1>4. CASE s = <<"wire", "direct">> \/ s = <<"direct", "wire">>
  BY <1>4, SawWay
<1> QED BY <1>1, <1>2, <1>3, <1>4 DEF Sights

LEMMA SightsSaw ==
    ASSUME NEW s \in Sights
    PROVE  /\ Len(s) \in 0..2
           /\ Len(s) = 2 => Saw(s, "wire") /\ Saw(s, "direct") /\ s[1] # s[2]
           /\ s # <<>> => Saw(s, "wire") \/ Saw(s, "direct")
<1>1. CASE s = <<>>
  BY <1>1
<1>2. CASE s = <<"wire">> \/ s = <<"direct">>
  <2>1. Len(s) = 1
    BY <1>2
  <2>2. Saw(s, "wire") \/ Saw(s, "direct")
    BY <1>2, SawWay
  <2> QED BY <2>1, <2>2
<1>3. CASE s = <<"wire", "direct">> \/ s = <<"direct", "wire">>
  <2>1. Len(s) = 2 /\ s[1] # s[2]
    BY <1>3
  <2>2. Saw(s, "wire") /\ Saw(s, "direct")
    BY <1>3, SawWay
  <2> QED BY <2>1, <2>2
<1> QED BY <1>1, <1>2, <1>3 DEF Sights

(* The pairs of one event and a set of handlers.                           *)
LEMMA RowSize ==
    ASSUME NEW e, NEW H, IsFiniteSet(H)
    PROVE  IsFiniteSet({e} \X H) /\ Cardinality({e} \X H) = Cardinality(H)
<1>1. IsFiniteSet({e}) /\ Cardinality({e}) = 1
  BY FS_Singleton
<1>2. Cardinality(H) \in Nat
  BY FS_CardinalityType
<1> QED BY <1>1, <1>2, FS_Product

LEMMA Grown ==
    ASSUME NEW A, NEW B, IsFiniteSet(A), IsFiniteSet(B), A \cap B = {}
    PROVE  /\ Cardinality(A \cup B) = Cardinality(A) + Cardinality(B)
           /\ Cardinality(A) \in Nat /\ Cardinality(B) \in Nat
<1>1. Cardinality(A) \in Nat /\ Cardinality(B) \in Nat
  BY FS_CardinalityType
<1>3. Cardinality(A \cap B) = 0
  BY FS_EmptySet
<1>2. Cardinality(A \cup B) = Cardinality(A) + Cardinality(B) - Cardinality(A \cap B)
  BY FS_Union
<1> QED BY <1>1, <1>2, <1>3

-----------------------------------------------------------------------------
(* Handing an event to the handlers that do not raise.                     *)
Handed(e, way, failing) ==
    seen' = [seen EXCEPT ![e] = [h \in Handlers |->
                IF h \in handlers \ failing THEN Append(seen[e][h], way) ELSE seen[e][h]]]
Sighted(e, way, failing) ==
    /\ seen' \in [Events -> [Handlers -> Sights]]
    /\ \A d \in Events, h \in Handlers, w \in {"wire", "direct"} :
           Saw(seen'[d][h], w) <=>
               Saw(seen[d][h], w) \/ (d = e /\ w = way /\ h \in handlers \ failing)
    /\ \A w \in {"wire", "direct"} :
           Cardinality(SeenBy(w)') =
               Cardinality(SeenBy(w)) + (IF w = way THEN Cardinality(handlers \ failing) ELSE 0)
    /\ Cardinality(handlers \ failing) \in Nat /\ Cardinality(failing) \in Nat

LEMMA Dispatched ==
    ASSUME SomeBus, BusTypes, NEW e \in Events, NEW way \in {"wire", "direct"},
           \A h \in Handlers : ~Saw(seen[e][h], way), NEW failing \in SUBSET handlers,
           Handed(e, way, failing)
    PROVE  Sighted(e, way, failing)
<1>0. /\ seen \in [Events -> [Handlers -> Sights]] /\ handlers \subseteq Handlers
      /\ IsFiniteSet(handlers \ failing) /\ IsFiniteSet(failing)
  <2>1. handlers \subseteq Handlers /\ IsFiniteSet(Handlers)
    BY DEF BusTypes, SomeBus
  <2>2. handlers \ failing \in SUBSET Handlers /\ failing \in SUBSET Handlers
    BY <2>1
  <2> QED BY <2>1, <2>2, FS_Subset DEF BusTypes
<1>1. \A h \in Handlers : seen[e][h] \in Sights /\ Append(seen[e][h], way) \in Sights
  BY <1>0, SeesOnce
<1>2. /\ \A h \in Handlers : seen'[e][h] =
             IF h \in handlers \ failing THEN Append(seen[e][h], way) ELSE seen[e][h]
      /\ \A d \in Events : d # e => seen'[d] = seen[d]
      /\ seen' \in [Events -> [Handlers -> Sights]]
  BY <1>0, <1>1 DEF Handed
<1>3. ASSUME NEW d \in Events, NEW h \in Handlers, NEW w \in {"wire", "direct"}
      PROVE  Saw(seen'[d][h], w) <=>
                 Saw(seen[d][h], w) \/ (d = e /\ w = way /\ h \in handlers \ failing)
  <2>1. CASE d = e /\ h \in handlers \ failing
    <3>1. seen'[d][h] = Append(seen[e][h], way)
      BY <2>1, <1>2
    <3>2. Saw(Append(seen[e][h], way), w) <=> w = way \/ Saw(seen[e][h], w)
      BY <1>1, SeesOnce
    <3> QED BY <2>1, <3>1, <3>2
  <2>2. CASE ~ (d = e /\ h \in handlers \ failing)
    <3>1. seen'[d][h] = seen[d][h]
      BY <2>2, <1>2
    <3> QED BY <2>2, <3>1
  <2> QED BY <2>1, <2>2
<1>4. ASSUME NEW w \in {"wire", "direct"}
      PROVE  Cardinality(SeenBy(w)') =
                 Cardinality(SeenBy(w)) + (IF w = way THEN Cardinality(handlers \ failing) ELSE 0)
  <2> DEFINE new == {e} \X (handlers \ failing)
  <2>1. IsFiniteSet(SeenBy(w))
    <3>1. IsFiniteSet(Events \X Handlers) /\ SeenBy(w) \in SUBSET (Events \X Handlers)
      BY FS_Product DEF SomeBus, SeenBy
    <3> QED BY <3>1, FS_Subset
  <2>2. IsFiniteSet(new) /\ Cardinality(new) = Cardinality(handlers \ failing)
    BY <1>0, RowSize
  <2>3. CASE w = way
    <3>1. SeenBy(w) \cap new = {}
      BY <2>3 DEF SeenBy
    <3>2. SeenBy(w)' = SeenBy(w) \cup new
      <4>1. \A p \in Events \X Handlers :
                Saw(seen'[p[1]][p[2]], w) <=> Saw(seen[p[1]][p[2]], w) \/ p \in new
        BY <1>3, <2>3
      <4>2. new \subseteq Events \X Handlers
        BY <1>0
      <4> HIDE DEF new
      <4> QED BY <4>1, <4>2 DEF SeenBy
    <3> HIDE DEF new
    <3> QED BY <2>1, <2>2, <2>3, <3>1, <3>2, Grown
  <2>4. CASE w # way
    <3>1. SeenBy(w)' = SeenBy(w)
      BY <1>3, <2>4 DEF SeenBy
    <3>2. Cardinality(SeenBy(w)) \in Nat
      BY <2>1, FS_CardinalityType
    <3> QED BY <2>4, <3>1, <3>2
  <2> QED BY <2>3, <2>4
<1>5. Cardinality(handlers \ failing) \in Nat /\ Cardinality(failing) \in Nat
  BY <1>0, FS_CardinalityType
<1> QED BY <1>2, <1>3, <1>4, <1>5 DEF Sighted

(* The publishes that ended in a way, after one more did.                  *)
LEMMA OneMoreEnded ==
    ASSUME SomeBus, BusTypes, NEW e \in Events, NEW way \in Phases, publishing[e] # way,
           publishing' = [publishing EXCEPT ![e] = way]
    PROVE  /\ Cardinality(Bus!Ended(way)') = Cardinality(Bus!Ended(way)) + 1
           /\ Cardinality(Bus!Ended(way)) \in Nat
           /\ \A other \in Phases : other # way /\ publishing[e] # other =>
                  Cardinality(Bus!Ended(other)') = Cardinality(Bus!Ended(other))
<1>1. publishing \in [Events -> Phases]
  BY DEF BusTypes
<1>2. Bus!Ended(way)' = Bus!Ended(way) \cup {e} /\ Bus!Ended(way) \cap {e} = {}
  BY <1>1 DEF Bus!Ended
<1>3. IsFiniteSet(Bus!Ended(way))
  <2>1. Bus!Ended(way) \in SUBSET Events
    BY DEF Bus!Ended
  <2> QED BY <2>1, FS_Subset DEF SomeBus
<1>4. \A other \in Phases : other # way /\ publishing[e] # other => Bus!Ended(other)' = Bus!Ended(other)
  BY <1>1 DEF Bus!Ended
<1> QED BY <1>2, <1>3, <1>4, FS_AddElement, FS_CardinalityType

-----------------------------------------------------------------------------
(* publish without the broker's answer: the handlers get the event now.    *)
LEMMA DegradeStep ==
    ASSUME SomeBus, BusInv, NEW e \in Events, publishing[e] \in {"no", "sending"}, NEW f \in {0, 1},
           NEW amounts, Bus!Degrade(e, amounts),
           "degraded_deliveries" \in DOMAIN amounts /\ amounts["degraded_deliveries"] = 1,
           IF "publish_failures" \in DOMAIN amounts THEN amounts["publish_failures"] = f ELSE f = 0,
           DOMAIN amounts \subseteq {"degraded_deliveries", "publish_failures"},
           UNCHANGED <<busLink, bound, handlers, wire>>
    PROVE  BusInv'
<1>0. BusTypes /\ Consistent /\ BusCounted /\ publishing' = [publishing EXCEPT ![e] = "direct"]
  BY DEF BusInv, Bus!Degrade
<1>1. PICK failing \in SUBSET handlers :
          /\ seen' = [seen EXCEPT ![e] = [h \in Handlers |->
                        IF h \in handlers \ failing THEN Append(seen[e][h], "direct") ELSE seen[e][h]]]
          /\ Bus!Inc([n \in DOMAIN amounts \cup {"direct_deliveries", "handler_errors"} |->
                    IF n = "direct_deliveries" THEN Bus!Cardinality(handlers \ failing)
                    ELSE IF n = "handler_errors" THEN Bus!Cardinality(failing) ELSE amounts[n]])
  BY DEF Bus!Degrade, Bus!Dispatch
<1>2. \A h \in Handlers : ~Saw(seen[e][h], "direct")
  BY <1>0 DEF Consistent
<1>3. /\ seen' \in [Events -> [Handlers -> Sights]]
      /\ \A d \in Events, h \in Handlers, w \in {"wire", "direct"} :
             Saw(seen'[d][h], w) <=>
                 Saw(seen[d][h], w) \/ (d = e /\ w = "direct" /\ h \in handlers \ failing)
      /\ Cardinality(SeenBy("direct")') = Cardinality(SeenBy("direct")) + Bus!Cardinality(handlers \ failing)
      /\ Cardinality(SeenBy("wire")') = Cardinality(SeenBy("wire")) + 0
      /\ Bus!Cardinality(handlers \ failing) \in Nat /\ Bus!Cardinality(failing) \in Nat
  <2>1. Handed(e, "direct", failing)
    BY <1>1 DEF Handed
  <2>2. Sighted(e, "direct", failing)
    BY <1>0, <1>2, <2>1, Dispatched
  <2> QED BY <2>2, StateCounting DEF Sighted
<1>4. /\ Cardinality(Bus!Ended("direct")') = Cardinality(Bus!Ended("direct")) + 1
      /\ Cardinality(Bus!Ended("published")') = Cardinality(Bus!Ended("published"))
  BY <1>0, OneMoreEnded DEF Phases
<1> DEFINE handed == Bus!Cardinality(handlers \ failing)
           failed == Bus!Cardinality(failing)
           am == [n \in DOMAIN amounts \cup {"direct_deliveries", "handler_errors"} |->
                    IF n = "direct_deliveries" THEN handed
                    ELSE IF n = "handler_errors" THEN failed ELSE amounts[n]]
<1>5. /\ am["direct_deliveries"] = handed /\ am["handler_errors"] = failed
      /\ am["degraded_deliveries"] = 1
      /\ "publish_failures" \in DOMAIN amounts => am["publish_failures"] = f
      /\ DOMAIN am = DOMAIN amounts \cup {"direct_deliveries", "handler_errors"}
  OBVIOUS
<1>6. counters' = [n \in Bus!Names |-> counters[n] + (IF n \in DOMAIN am THEN am[n] ELSE 0)]
  BY <1>1 DEF Bus!Inc
<1>7. handed \in Nat /\ failed \in Nat
  BY <1>3
<1> HIDE DEF am, handed, failed
<1>8. /\ counters' \in [Bus!Names -> Nat]
      /\ counters'["published"] = counters["published"]
      /\ counters'["degraded_deliveries"] = counters["degraded_deliveries"] + 1
      /\ counters'["direct_deliveries"] = counters["direct_deliveries"] + handed
      /\ counters'["bus_deliveries"] = counters["bus_deliveries"]
      /\ counters'["publish_failures"] = counters["publish_failures"] + f
  <2>1. \A n \in Bus!Names : counters[n] \in Nat
        /\ counters'[n] = counters[n] + (IF n \in DOMAIN am THEN am[n] ELSE 0)
    BY <1>0, <1>6 DEF BusTypes
  <2>2. "published" \notin DOMAIN am /\ "bus_deliveries" \notin DOMAIN am
    BY <1>5
  <2>3. \A n \in DOMAIN am : am[n] \in Nat
    BY <1>5, <1>7
  <2>4. /\ "publish_failures" \notin DOMAIN amounts => "publish_failures" \notin DOMAIN am /\ f = 0
        /\ "publish_failures" \in DOMAIN amounts => "publish_failures" \in DOMAIN am /\ am["publish_failures"] = f
        /\ {"degraded_deliveries", "direct_deliveries"} \subseteq DOMAIN am
    BY <1>5
  <2>5. {"published", "degraded_deliveries", "direct_deliveries", "bus_deliveries", "publish_failures"}
           \subseteq Bus!Names
    BY DEF Bus!Names
  <2>6. counters' \in [Bus!Names -> Nat]
    BY <1>6, <2>1, <2>3
  <2> QED BY <1>5, <2>1, <2>2, <2>4, <2>5, <2>6
<1>9. BusTypes'
  BY <1>0, <1>3, <1>8 DEF BusTypes, Phases
<1>10. Consistent'
  BY <1>0, <1>3 DEF Consistent, BusTypes
<1>11. BusCounted'
  <2>1. \A n \in {"published", "degraded_deliveries", "direct_deliveries", "bus_deliveries",
                  "publish_failures"} : counters[n] \in Nat
    BY <1>0 DEF BusTypes, Bus!Names
  <2> QED BY <1>0, <1>3, <1>4, <1>8, <2>1 DEF BusCounted, handed
<1> QED BY <1>9, <1>10, <1>11 DEF BusInv

(* The broker hands over a message that was sent.                          *)
LEMMA DeliverStep ==
    ASSUME SomeBus, BusInv, NEW e \in Events, Bus!Deliver(e)
    PROVE  BusInv'
<1>0. /\ BusTypes /\ Consistent /\ BusCounted /\ wire[e] = "sent"
      /\ wire' = [wire EXCEPT ![e] = "delivered"] /\ UNCHANGED <<busLink, bound, handlers, publishing>>
  BY DEF BusInv, Bus!Deliver
<1>1. PICK failing \in SUBSET handlers :
          /\ seen' = [seen EXCEPT ![e] = [h \in Handlers |->
                        IF h \in handlers \ failing THEN Append(seen[e][h], "wire") ELSE seen[e][h]]]
          /\ Bus!Inc([n \in DOMAIN <<>> \cup {"bus_deliveries", "handler_errors"} |->
                    IF n = "bus_deliveries" THEN Bus!Cardinality(handlers \ failing)
                    ELSE IF n = "handler_errors" THEN Bus!Cardinality(failing) ELSE <<>>[n]])
  BY DEF Bus!Deliver, Bus!Dispatch
<1>2. \A h \in Handlers : ~Saw(seen[e][h], "wire")
  BY <1>0 DEF Consistent
<1>3. /\ seen' \in [Events -> [Handlers -> Sights]]
      /\ \A d \in Events, h \in Handlers, w \in {"wire", "direct"} :
             Saw(seen'[d][h], w) <=>
                 Saw(seen[d][h], w) \/ (d = e /\ w = "wire" /\ h \in handlers \ failing)
      /\ Cardinality(SeenBy("wire")') = Cardinality(SeenBy("wire")) + Bus!Cardinality(handlers \ failing)
      /\ Cardinality(SeenBy("direct")') = Cardinality(SeenBy("direct")) + 0
      /\ Bus!Cardinality(handlers \ failing) \in Nat /\ Bus!Cardinality(failing) \in Nat
  <2>1. Handed(e, "wire", failing)
    BY <1>1 DEF Handed
  <2>2. Sighted(e, "wire", failing)
    BY <1>0, <1>2, <2>1, Dispatched
  <2> QED BY <2>2, StateCounting DEF Sighted
<1> DEFINE handed == Bus!Cardinality(handlers \ failing)
           failed == Bus!Cardinality(failing)
           am == [n \in DOMAIN <<>> \cup {"bus_deliveries", "handler_errors"} |->
                    IF n = "bus_deliveries" THEN handed
                    ELSE IF n = "handler_errors" THEN failed ELSE <<>>[n]]
<1>5. /\ am["bus_deliveries"] = handed /\ am["handler_errors"] = failed
      /\ DOMAIN am = {"bus_deliveries", "handler_errors"}
  <2>1. DOMAIN <<>> = {}
    OBVIOUS
  <2> QED BY <2>1
<1>6. counters' = [n \in Bus!Names |-> counters[n] + (IF n \in DOMAIN am THEN am[n] ELSE 0)]
  BY <1>1 DEF Bus!Inc
<1>7. handed \in Nat /\ failed \in Nat
  BY <1>3
<1> HIDE DEF am, handed, failed
<1>8. /\ counters' \in [Bus!Names -> Nat]
      /\ counters'["bus_deliveries"] = counters["bus_deliveries"] + handed
      /\ \A n \in {"published", "degraded_deliveries", "direct_deliveries", "publish_failures"} :
             counters'[n] = counters[n]
  <2>1. \A n \in Bus!Names : counters[n] \in Nat
        /\ counters'[n] = counters[n] + (IF n \in DOMAIN am THEN am[n] ELSE 0)
    BY <1>0, <1>6 DEF BusTypes
  <2>2. \A n \in DOMAIN am : am[n] \in Nat
    BY <1>5, <1>7
  <2>3. {"published", "degraded_deliveries", "direct_deliveries", "bus_deliveries", "publish_failures"}
           \subseteq Bus!Names
    BY DEF Bus!Names
  <2>4. counters' \in [Bus!Names -> Nat]
    BY <1>6, <2>1, <2>2
  <2> QED BY <1>5, <2>1, <2>3, <2>4
<1>9. BusTypes'
  BY <1>0, <1>3, <1>8 DEF BusTypes, Wires
<1>10. Consistent'
  BY <1>0, <1>3 DEF Consistent, BusTypes
<1>11. BusCounted'
  <2>1. Bus!Ended("direct")' = Bus!Ended("direct") /\ Bus!Ended("published")' = Bus!Ended("published")
    BY <1>0 DEF Bus!Ended
  <2>2. \A n \in {"published", "degraded_deliveries", "direct_deliveries", "bus_deliveries",
                  "publish_failures"} : counters[n] \in Nat
    BY <1>0 DEF BusTypes, Bus!Names
  <2> QED BY <1>0, <1>3, <1>8, <2>1, <2>2 DEF BusCounted, handed
<1> QED BY <1>9, <1>10, <1>11 DEF BusInv

-----------------------------------------------------------------------------
LEMMA InitBus == SomeBus /\ Bus!BusInit => BusInv
<1> SUFFICES ASSUME SomeBus, Bus!BusInit PROVE BusInv
  OBVIOUS
<1>1. BusTypes
  BY DEF Bus!BusInit, BusTypes, SomeBus, Phases, Wires, Sights
<1>2. \A e \in Events, h \in Handlers, w \in {"wire", "direct"} : ~Saw(seen[e][h], w)
  BY SawWay DEF Bus!BusInit
<1>3. Consistent
  BY <1>2 DEF Bus!BusInit, Consistent
<1>4. BusCounted
  <2>1. Bus!Ended("published") = {} /\ Bus!Ended("direct") = {}
    BY DEF Bus!BusInit, Bus!Ended
  <2>2. SeenBy("wire") = {} /\ SeenBy("direct") = {}
    BY <1>2 DEF SeenBy
  <2>3. Cardinality({}) = 0
    BY FS_EmptySet
  <2>4. \A n \in Bus!Names : counters[n] = 0
    BY DEF Bus!BusInit
  <2> QED BY <2>1, <2>2, <2>3, <2>4 DEF BusCounted, Bus!Names
<1> QED BY <1>1, <1>3, <1>4 DEF BusInv

(* A step that neither counts nor hands over nor ends a publish.           *)
LEMMA QuietStep ==
    ASSUME BusInv, UNCHANGED <<counters, seen>>, BusTypes', Consistent',
           Bus!Ended("published")' = Bus!Ended("published"), Bus!Ended("direct")' = Bus!Ended("direct")
    PROVE  BusInv'
<1>1. SeenBy("wire")' = SeenBy("wire") /\ SeenBy("direct")' = SeenBy("direct")
  BY DEF SeenBy
<1> QED BY <1>1 DEF BusInv, BusCounted

LEMMA PublishStep ==
    ASSUME SomeBus, BusInv, NEW e \in Events, Bus!Publish(e)
    PROVE  BusInv'
<1>1. publishing[e] = "no" /\ UNCHANGED <<busLink, bound, handlers>>
  BY DEF Bus!Publish
<1>2. CASE Bus!Connected
  <2>1. /\ publishing' = [publishing EXCEPT ![e] = "sending"]
        /\ wire' = [wire EXCEPT ![e] = "scheduled"] /\ UNCHANGED <<seen, counters>>
    BY <1>2 DEF Bus!Publish
  <2>2. BusTypes'
    BY <1>1, <2>1 DEF BusInv, BusTypes, Phases, Wires
  <2>3. Consistent'
    BY <1>1, <2>1 DEF BusInv, BusTypes, Consistent
  <2>4. Bus!Ended("published")' = Bus!Ended("published") /\ Bus!Ended("direct")' = Bus!Ended("direct")
    BY <1>1, <2>1 DEF BusInv, BusTypes, Bus!Ended
  <2> QED BY <2>1, <2>2, <2>3, <2>4, QuietStep
<1>3. CASE ~Bus!Connected
  <2> DEFINE amounts == [degraded_deliveries |-> 1]
  <2>1. Bus!Degrade(e, amounts) /\ UNCHANGED wire
    BY <1>3 DEF Bus!Publish
  <2>2. DOMAIN amounts = {"degraded_deliveries"} /\ amounts["degraded_deliveries"] = 1
    OBVIOUS
  <2> HIDE DEF amounts
  <2> QED BY <1>1, <2>1, <2>2, DegradeStep
<1> QED BY <1>2, <1>3

LEMMA GiveUpStep ==
    ASSUME SomeBus, BusInv, NEW e \in Events, Bus!GiveUp(e)
    PROVE  BusInv'
<1> DEFINE amounts == [publish_failures |-> 1, degraded_deliveries |-> 1]
<1>1. Bus!Degrade(e, amounts) /\ publishing[e] = "sending" /\ UNCHANGED <<busLink, bound, handlers, wire>>
  BY DEF Bus!GiveUp
<1>2. /\ DOMAIN amounts = {"publish_failures", "degraded_deliveries"}
      /\ amounts["degraded_deliveries"] = 1 /\ amounts["publish_failures"] = 1
  OBVIOUS
<1> HIDE DEF amounts
<1> QED BY <1>1, <1>2, DegradeStep

LEMMA PublishedStep ==
    ASSUME SomeBus, BusInv, NEW e \in Events, Bus!Published(e)
    PROVE  BusInv'
<1>1. /\ publishing[e] = "sending" /\ wire[e] \in {"sent", "delivered", "lost"}
      /\ publishing' = [publishing EXCEPT ![e] = "published"]
      /\ UNCHANGED <<busLink, bound, handlers, wire, seen>>
      /\ BusTypes /\ Consistent /\ BusCounted
  BY DEF Bus!Published, BusInv
<1>2. /\ Cardinality(Bus!Ended("published")') = Cardinality(Bus!Ended("published")) + 1
      /\ Cardinality(Bus!Ended("direct")') = Cardinality(Bus!Ended("direct"))
  BY <1>1, OneMoreEnded DEF Phases
<1>3. counters' = [n \in Bus!Names |-> counters[n] + (IF n = "published" THEN 1 ELSE 0)]
  <2> DEFINE am == [published |-> 1]
  <2>1. DOMAIN am = {"published"} /\ am["published"] = 1
    OBVIOUS
  <2>2. counters' = [n \in Bus!Names |-> counters[n] + (IF n \in DOMAIN am THEN am[n] ELSE 0)]
    BY DEF Bus!Published, Bus!Inc
  <2> HIDE DEF am
  <2> QED BY <2>1, <2>2
<1>4. /\ counters' \in [Bus!Names -> Nat] /\ counters'["published"] = counters["published"] + 1
      /\ \A n \in {"degraded_deliveries", "direct_deliveries", "bus_deliveries", "publish_failures"} :
             counters'[n] = counters[n]
  <2>1. \A n \in Bus!Names : counters[n] \in Nat
    BY <1>1 DEF BusTypes
  <2> QED BY <1>3, <2>1 DEF Bus!Names
<1>5. BusTypes'
  BY <1>1, <1>4 DEF BusTypes, Phases
<1>6. Consistent'
  BY <1>1 DEF Consistent, BusTypes
<1>7. SeenBy("wire")' = SeenBy("wire") /\ SeenBy("direct")' = SeenBy("direct")
  BY <1>1 DEF SeenBy
<1>8. BusCounted'
  BY <1>1, <1>2, <1>4, <1>7 DEF BusCounted
<1> QED BY <1>5, <1>6, <1>8 DEF BusInv

(* Connection, subscription, the coroutine, the broker.                    *)
LEMMA ConnectStep ==
    ASSUME BusInv, Bus!Connect
    PROVE  BusInv'
<1>1. /\ busLink' \in {"up", "absent"} /\ bound' \in BOOLEAN /\ UNCHANGED <<handlers, publishing, wire, seen>>
      /\ BusTypes /\ Consistent /\ BusCounted
  BY DEF Bus!Connect, Bus!Bind, BusInv, BusTypes
<1>2. /\ counters' \in [Bus!Names -> Nat]
      /\ \A n \in {"published", "degraded_deliveries", "direct_deliveries", "bus_deliveries",
                   "publish_failures"} : counters'[n] = counters[n]
  <2>0. \A n \in Bus!Names : counters[n] \in Nat
    BY <1>1 DEF BusTypes
  <2>1. CASE UNCHANGED counters
    BY <1>1, <2>1 DEF BusTypes
  <2>2. CASE Bus!Inc([connect_failures |-> 1])
    <3> DEFINE am == [connect_failures |-> 1]
    <3>1. DOMAIN am = {"connect_failures"} /\ am["connect_failures"] = 1
      OBVIOUS
    <3>2. counters' = [n \in Bus!Names |-> counters[n] + (IF n \in DOMAIN am THEN am[n] ELSE 0)]
      BY <2>2 DEF Bus!Inc
    <3> HIDE DEF am
    <3> QED BY <2>0, <3>1, <3>2 DEF Bus!Names
  <2> QED BY <2>1, <2>2 DEF Bus!Connect
<1>3. BusTypes' /\ Consistent'
  BY <1>1, <1>2 DEF BusTypes, Consistent
<1>4. SeenBy("wire")' = SeenBy("wire") /\ SeenBy("direct")' = SeenBy("direct")
      /\ Bus!Ended("published")' = Bus!Ended("published") /\ Bus!Ended("direct")' = Bus!Ended("direct")
  BY <1>1 DEF SeenBy, Bus!Ended
<1> QED BY <1>1, <1>2, <1>3, <1>4 DEF BusInv, BusCounted

LEMMA OtherStep ==
    ASSUME BusInv,
           \/ UNCHANGED busvars
           \/ Bus!LinkDown \/ Bus!LinkUp \/ \E h \in Handlers : Bus!Subscribe(h)
           \/ \E e \in Events : Bus!Refuse(e) \/ Bus!Send(e) \/ Bus!Lose(e)
    PROVE  BusInv'
<1> USE DEF BusInv
<1>1. CASE UNCHANGED busvars
  <2>1. BusTypes' /\ Consistent' /\ UNCHANGED <<counters, seen, publishing>>
    BY <1>1 DEF busvars, BusTypes, Consistent
  <2> QED BY <2>1, QuietStep DEF Bus!Ended
<1>2. CASE Bus!LinkDown \/ Bus!LinkUp
  <2>1. BusTypes' /\ Consistent' /\ UNCHANGED <<counters, seen, publishing>>
    BY <1>2 DEF Bus!LinkDown, Bus!LinkUp, BusTypes, Consistent
  <2> QED BY <2>1, QuietStep DEF Bus!Ended
<1>3. ASSUME NEW h \in Handlers, Bus!Subscribe(h) PROVE BusInv'
  <2>1. bound' \in BOOLEAN
    BY <1>3 DEF Bus!Subscribe, Bus!Bind, BusTypes
  <2>2. BusTypes' /\ Consistent' /\ UNCHANGED <<counters, seen, publishing>>
    BY <1>3, <2>1 DEF Bus!Subscribe, BusTypes, Consistent
  <2> QED BY <2>2, QuietStep DEF Bus!Ended
<1>4. ASSUME NEW e \in Events, Bus!Refuse(e) PROVE BusInv'
  <2>1. publishing[e] = "no" /\ publishing' = [publishing EXCEPT ![e] = "refused"]
        /\ UNCHANGED <<busLink, bound, handlers, wire, seen, counters>>
    BY <1>4 DEF Bus!Refuse
  <2>2. BusTypes' /\ Consistent'
    BY <2>1 DEF BusTypes, Consistent, Phases
  <2>3. Bus!Ended("published")' = Bus!Ended("published") /\ Bus!Ended("direct")' = Bus!Ended("direct")
    BY <2>1 DEF BusTypes, Bus!Ended
  <2> QED BY <2>1, <2>2, <2>3, QuietStep
<1>5. ASSUME NEW e \in Events, Bus!Send(e) \/ Bus!Lose(e) PROVE BusInv'
  <2>1. /\ wire[e] \in {"scheduled", "sent"}
        /\ \E to \in {"sent", "raised", "lost"} :
               wire' = [wire EXCEPT ![e] = to] /\ (wire[e] = "sent" => to = "lost")
        /\ UNCHANGED <<busLink, bound, handlers, publishing, seen, counters>>
    BY <1>5 DEF Bus!Send, Bus!Lose
  <2>2. PICK to \in {"sent", "raised", "lost"} :
            wire' = [wire EXCEPT ![e] = to] /\ (wire[e] = "sent" => to = "lost")
    BY <2>1
  <2>3. BusTypes'
    BY <2>1, <2>2 DEF BusTypes, Wires
  <2>4. Consistent'
    BY <2>1, <2>2 DEF BusTypes, Consistent
  <2> QED BY <2>1, <2>3, <2>4, QuietStep DEF Bus!Ended
<1> QED BY <1>1, <1>2, <1>3, <1>4, <1>5

LEMMA StepBus == SomeBus /\ BusInv /\ [Bus!BusNext]_busvars => BusInv'
  BY ConnectStep, PublishStep, GiveUpStep, PublishedStep, DeliverStep, OtherStep DEF Bus!BusNext

-----------------------------------------------------------------------------
(* BusAccounts (bus.py, transport.py): a publish that returned reached the  *)
(* broker or was handed over here; a handler sees an event twice only after *)
(* a wait that was given up and by two different ways; the counters are the *)
(* deliveries, the publishes and the fallbacks.                             *)
LEMMA BusHonest == SomeBus /\ BusInv => Bus!BusAccounts
<1> SUFFICES ASSUME SomeBus, BusInv PROVE Bus!BusAccounts
  OBVIOUS
<1>1. \A e \in Bus!Ended("published") : wire[e] \in {"sent", "delivered", "lost"}
  BY DEF BusInv, Consistent, Bus!Ended
<1>2. ASSUME NEW e \in Events, NEW h \in Handlers
      PROVE  /\ Len(seen[e][h]) <= 2
             /\ Len(seen[e][h]) = 2 => /\ publishing[e] = "direct" /\ wire[e] = "delivered"
                                       /\ seen[e][h][1] # seen[e][h][2]
             /\ seen[e][h] # <<>> => publishing[e] # "refused"
  <2>1. seen[e][h] \in Sights
    BY DEF BusInv, BusTypes
  <2>2. /\ Saw(seen[e][h], "wire") => wire[e] = "delivered"
        /\ Saw(seen[e][h], "direct") => publishing[e] = "direct"
        /\ publishing[e] = "refused" => wire[e] = "none"
    BY DEF BusInv, Consistent
  <2>3. PICK s \in Sights : s = seen[e][h]
    BY <2>1
  <2>4. /\ Len(s) \in 0..2
        /\ Len(s) = 2 => Saw(s, "wire") /\ Saw(s, "direct") /\ s[1] # s[2]
        /\ s # <<>> => Saw(s, "wire") \/ Saw(s, "direct")
    BY SightsSaw
  <2>5. ASSUME NEW n \in 0..2 PROVE n <= 2
    OBVIOUS
  <2>6. Len(s) <= 2
    BY ONLY <2>4, <2>5, Zenon
  <2>7. Len(s) = 2 => publishing[e] = "direct" /\ wire[e] = "delivered" /\ s[1] # s[2]
    BY <2>2, <2>3, <2>4
  <2>8. s # <<>> => publishing[e] # "refused"
    BY <2>2, <2>3, <2>4
  <2> QED BY <2>3, <2>6, <2>7, <2>8
<1>3. SeenBy("direct") = {p \in Events \X Handlers : \E i \in DOMAIN seen[p[1]][p[2]] :
                                                        seen[p[1]][p[2]][i] = "direct"}
      /\ SeenBy("wire") = {p \in Events \X Handlers : \E i \in DOMAIN seen[p[1]][p[2]] :
                                                        seen[p[1]][p[2]][i] = "wire"}
  BY DEF SeenBy, Saw
<1>4. Cardinality(SeenBy("direct")) = Bus!Times("direct") /\ Cardinality(SeenBy("wire")) = Bus!Times("wire")
  BY <1>3, StateCounting DEF Bus!Times
<1> QED BY <1>1, <1>2, <1>4, StateCounting DEF Bus!BusAccounts, BusInv, BusCounted

LEMMA BusTypesHold == BusInv => Bus!BusTypeOK
  BY DEF BusInv, BusTypes, Bus!BusTypeOK, Phases, Wires

---------------------------------------------------------------------------
(***************************************************************************)
(* Training: sessions, their sandboxes and records.                        *)
(***************************************************************************)
\* The bounds on sessions and resets.
SomeDrills == MaxSessions \in Nat /\ MaxResets \in Nat

-----------------------------------------------------------------------------
(* Prefixes, index by index.                                               *)
Prefix(s, t) == Len(s) <= Len(t) /\ \A i \in 1..Len(s) : s[i] = t[i]
LEMMA PrefixIs ==
    ASSUME NEW T, NEW s \in Seq(T), NEW t \in Seq(T)
    PROVE  Drill!IsPrefix(s, t) <=> Prefix(s, t)
  BY DEF Drill!IsPrefix, Prefix

-----------------------------------------------------------------------------
(* Scores.  More items weigh no less, and the percentage follows.          *)
LEMMA DivMonotonic ==
    ASSUME NEW a \in Nat, NEW b \in Nat, NEW d \in Nat \ {0}, a <= b
    PROVE  a \div d <= b \div d
  OBVIOUS

IsRubric(rubric) ==
    /\ DOMAIN rubric # {} /\ IsFiniteSet(DOMAIN rubric)
    /\ \A k \in DOMAIN rubric : rubric[k] \in 1..Drill!Heaviest

LEMMA RubricsAre == \A drill \in DOMAIN Drill!Rubrics : IsRubric(Drill!Rubrics[drill])
<1>1. \A drill \in DOMAIN Drill!Rubrics :
          drill \in {"pumpDegradation", "leak", "outage", "stormPowerLoss"}
  BY DEF Drill!Rubrics
<1>2. ASSUME NEW a, NEW b, NEW c, NEW d PROVE IsFiniteSet({a, b, c, d})
  <2>1. IsFiniteSet({a}) /\ IsFiniteSet({a} \cup {b})
    BY FS_Singleton, FS_AddElement
  <2>2. IsFiniteSet(({a} \cup {b}) \cup {c}) /\ IsFiniteSet((({a} \cup {b}) \cup {c}) \cup {d})
    BY <2>1, FS_AddElement
  <2>3. (({a} \cup {b}) \cup {c}) \cup {d} = {a, b, c, d}
    OBVIOUS
  <2> QED BY <2>2, <2>3
<1>3. IsRubric(Drill!Rubrics["pumpDegradation"])
  <2>1. /\ DOMAIN Drill!Rubrics["pumpDegradation"] = {"diagnoseVibration", "efficiencyLoss", "planMaintenance", "advisoryOnly"}
        /\ \A k \in DOMAIN Drill!Rubrics["pumpDegradation"] : Drill!Rubrics["pumpDegradation"][k] \in 1..20
    BY DEF Drill!Rubrics
  <2>2. IsFiniteSet({"diagnoseVibration", "efficiencyLoss", "planMaintenance", "advisoryOnly"})
    BY <1>2
  <2> QED BY <2>1, <2>2 DEF IsRubric, Drill!Heaviest
<1>4. IsRubric(Drill!Rubrics["leak"])
  <2>1. /\ DOMAIN Drill!Rubrics["leak"] = {"detectLeak", "localise", "dispatchInspection", "advisoryOnly"}
        /\ \A k \in DOMAIN Drill!Rubrics["leak"] : Drill!Rubrics["leak"][k] \in 1..20
    BY DEF Drill!Rubrics
  <2>2. IsFiniteSet({"detectLeak", "localise", "dispatchInspection", "advisoryOnly"})
    BY <1>2
  <2> QED BY <2>1, <2>2 DEF IsRubric, Drill!Heaviest
<1>5. IsRubric(Drill!Rubrics["outage"])
  <2>1. /\ DOMAIN Drill!Rubrics["outage"] = {"confirmGenerator", "loadShed", "protectCritical", "advisoryOnly"}
        /\ \A k \in DOMAIN Drill!Rubrics["outage"] : Drill!Rubrics["outage"][k] \in 1..20
    BY DEF Drill!Rubrics
  <2>2. IsFiniteSet({"confirmGenerator", "loadShed", "protectCritical", "advisoryOnly"})
    BY <1>2
  <2> QED BY <2>1, <2>2 DEF IsRubric, Drill!Heaviest
<1>6. IsRubric(Drill!Rubrics["stormPowerLoss"])
  <2>1. /\ DOMAIN Drill!Rubrics["stormPowerLoss"] = {"powerResponse", "protectMembranes", "sustainCritical", "advisoryOnly"}
        /\ \A k \in DOMAIN Drill!Rubrics["stormPowerLoss"] : Drill!Rubrics["stormPowerLoss"][k] \in 1..20
    BY DEF Drill!Rubrics
  <2>2. IsFiniteSet({"powerResponse", "protectMembranes", "sustainCritical", "advisoryOnly"})
    BY <1>2
  <2> QED BY <2>1, <2>2 DEF IsRubric, Drill!Heaviest
<1> QED BY <1>1, <1>3, <1>4, <1>5, <1>6

LEMMA TenthsFinite ==
    ASSUME NEW rubric, IsRubric(rubric), NEW keys \in SUBSET DOMAIN rubric
    PROVE  IsFiniteSet(Drill!Tenths(rubric, keys))
<1>1. 1 \in Int /\ Drill!Heaviest \in Int
  BY DEF Drill!Heaviest
<1>2. IsFiniteSet(1..Drill!Heaviest) /\ IsFiniteSet(DOMAIN rubric)
  BY <1>1, FS_Interval DEF IsRubric
<1>3. ASSUME NEW S, NEW T, IsFiniteSet(S), IsFiniteSet(T), NEW K \in SUBSET S
      PROVE  IsFiniteSet({p \in K \X T : p[2] <= rubric[p[1]]})
  <2>1. IsFiniteSet(S \X T)
    BY <1>3, FS_Product
  <2>2. {p \in K \X T : p[2] <= rubric[p[1]]} \in SUBSET (S \X T)
    BY <1>3
  <2> QED BY <2>1, <2>2, FS_Subset
<1> QED BY <1>2, <1>3 DEF Drill!Tenths

LEMMA WeightIs ==
    ASSUME NEW rubric, NEW keys
    PROVE  Drill!WeightOf(rubric, keys) = Cardinality(Drill!Tenths(rubric, keys))
BY StateCounting DEF Drill!WeightOf

LEMMA WeightGrows ==
    ASSUME NEW rubric, IsRubric(rubric),
           NEW some \in SUBSET DOMAIN rubric, NEW more \in SUBSET DOMAIN rubric, some \subseteq more
    PROVE  /\ Drill!WeightOf(rubric, some) \in Nat /\ Drill!WeightOf(rubric, more) \in Nat
           /\ Drill!WeightOf(rubric, some) <= Drill!WeightOf(rubric, more)
<1>1. IsFiniteSet(Drill!Tenths(rubric, more)) /\ IsFiniteSet(Drill!Tenths(rubric, some))
  BY TenthsFinite
<1>2. Drill!Tenths(rubric, some) \in SUBSET Drill!Tenths(rubric, more)
  BY DEF Drill!Tenths
<1> QED BY <1>1, <1>2, FS_Subset, FS_CardinalityType, WeightIs

LEMMA WholeWeighs ==
    ASSUME NEW rubric, IsRubric(rubric)
    PROVE  Drill!WeightOf(rubric, DOMAIN rubric) \in Nat \ {0}
<1>1. PICK k \in DOMAIN rubric : rubric[k] \in 1..20
  BY DEF IsRubric, Drill!Heaviest
<1>2. <<k, 1>> \in Drill!Tenths(rubric, DOMAIN rubric)
  BY <1>1 DEF Drill!Tenths, Drill!Heaviest
<1>3. IsFiniteSet(Drill!Tenths(rubric, DOMAIN rubric))
  BY TenthsFinite
<1> QED BY <1>2, <1>3, FS_CardinalityType, FS_EmptySet, WeightIs

LEMMA PercentageGrows ==
    ASSUME NEW a \in Nat, NEW b \in Nat, NEW all \in Nat \ {0}, a <= b, b <= all
    PROVE  Drill!Percentage(a, all) \in Drill!Percentages /\ Drill!Percentage(a, all) <= Drill!Percentage(b, all)
<1>1. 2 * all \in Nat \ {0} /\ 2000 * a + all \in Nat /\ 2000 * b + all \in Nat
      /\ 2000 * a + all <= 2000 * b + all
  OBVIOUS
<1>2. (2000 * a + all) \div (2 * all) <= (2000 * b + all) \div (2 * all)
  BY <1>1, DivMonotonic
<1>3. (2000 * a + all) \div (2 * all) \in Drill!Percentages
  <2> DEFINE d == 2 * all
             q == (2000 * a + all) \div d
  <2>1. 2000 * a + all < 1001 * d
    OBVIOUS
  <2>2. q \in Nat /\ q * d <= 2000 * a + all
    BY <1>1
  <2>3. q <= 1000
    BY <2>1, <2>2, <1>1
  <2> QED BY <2>2, <2>3 DEF Drill!Percentages
<1> QED BY <1>2, <1>3 DEF Drill!Percentage
LEMMA ScoreGrows ==
    ASSUME NEW drill \in DOMAIN Drill!Rubrics, NEW T, NEW a \in Seq(T), NEW b \in Seq(T), Prefix(a, b)
    PROVE  /\ Drill!ScoreActions(drill, a).percentage \in Drill!Percentages
           /\ Drill!ScoreActions(drill, a).percentage <= Drill!ScoreActions(drill, b).percentage
           /\ Drill!ScoreActions(drill, a).passed
                <=> Drill!ScoreActions(drill, a).band \in {"Exemplary", "Proficient"}
<1> DEFINE rubric == Drill!Rubrics[drill]
           M(s) == Drill!Matched(rubric, s)
           all == Drill!WeightOf(rubric, DOMAIN rubric)
           Enough(p) == p >= 700
<1>1. IsRubric(rubric)
  BY RubricsAre
<1> HIDE DEF rubric
<1>2. M(a) \in SUBSET DOMAIN rubric /\ M(b) \in SUBSET DOMAIN rubric /\ M(a) \subseteq M(b)
  <2>1. \A i \in DOMAIN a : i \in DOMAIN b /\ a[i] = b[i]
    BY DEF Prefix
  <2> QED BY <2>1 DEF Drill!Matched
<1> HIDE DEF M
<1>3. /\ Drill!WeightOf(rubric, M(a)) \in Nat /\ Drill!WeightOf(rubric, M(b)) \in Nat
      /\ Drill!WeightOf(rubric, M(a)) <= Drill!WeightOf(rubric, M(b))
      /\ Drill!WeightOf(rubric, M(b)) <= all /\ all \in Nat \ {0}
  BY <1>1, <1>2, WeightGrows, WholeWeighs
<1>4. /\ Drill!Percentage(Drill!WeightOf(rubric, M(a)), all) \in Drill!Percentages
      /\ Drill!Percentage(Drill!WeightOf(rubric, M(a)), all) <= Drill!Percentage(Drill!WeightOf(rubric, M(b)), all)
  BY <1>3, PercentageGrows
<1>5. /\ Drill!ScoreActions(drill, a).percentage = Drill!Percentage(Drill!WeightOf(rubric, M(a)), all)
      /\ Drill!ScoreActions(drill, b).percentage = Drill!Percentage(Drill!WeightOf(rubric, M(b)), all)
      /\ Drill!ScoreActions(drill, a).band = Drill!BandFor(Drill!ScoreActions(drill, a).percentage)
      /\ Drill!ScoreActions(drill, a).passed <=> Enough(Drill!ScoreActions(drill, a).percentage)
  BY DEF Drill!ScoreActions, rubric, M
<1>6. \A p \in Drill!Percentages : Enough(p) <=> Drill!BandFor(p) \in {"Exemplary", "Proficient"}
  BY DEF Drill!BandFor, Drill!Percentages
<1>7. /\ Drill!ScoreActions(drill, a).percentage \in Drill!Percentages
      /\ Drill!ScoreActions(drill, a).percentage <= Drill!ScoreActions(drill, b).percentage
  BY <1>4, <1>5
<1> HIDE DEF Enough
<1> QED BY <1>5, <1>6, <1>7, Zenon

-----------------------------------------------------------------------------
(* The inductive invariant.                                                *)
Ops == {"free", "started", "captured", "scored"}
Answers == {"none", "unknown scenario", "unknown kind", "unknown session", "error", "ok"}
Bands == {"Exemplary", "Proficient", "Developing", "Needs Review"}
Session == [drill : DOMAIN Drill!Rubrics, status : {"in_progress", "scored"}, actions : Seq(Captures)]
TrainingRecord ==
    [session : Nat, drill : DOMAIN Drill!Rubrics, actions : Seq(Captures),
     score : [percentage : Drill!Percentages, band : Bands, passed : BOOLEAN]]
TrainingTypes ==
    /\ opened \in Nat /\ opened <= MaxSessions /\ resets <= MaxResets /\ resets \in Nat
    /\ DOMAIN sessions = DOMAIN sandboxes /\ DOMAIN sessions \subseteq 1..opened
    /\ sessions \in [DOMAIN sessions -> Session]
    /\ sandboxes \in [DOMAIN sessions -> Seq(Captures)]
    /\ records \in Seq(TrainingRecord)
    /\ requests \in [Requests -> [op : Ops, on : Nat, answer : Answers]]

\* A record is of a session, of its drill and of its first actions.
OfSession(record) ==
    /\ Drill!Known(record.session) /\ record.drill = sessions[record.session].drill
    /\ record.score = Drill!ScoreActions(record.drill, record.actions)
    /\ Prefix(record.actions, sandboxes[record.session])
\* Later records of a session are of no fewer actions.
Nested ==
    \A i, j \in DOMAIN records :
        records[i].session = records[j].session /\ i <= j =>
            Prefix(records[i].actions, records[j].actions)
ScoredOnce(s) ==
    (sessions[s].status = "scored") <=> \E i \in DOMAIN records : records[i].session = s
DrillInv ==
    /\ TrainingTypes /\ Nested
    /\ \A i \in DOMAIN records : OfSession(records[i])
    /\ \A s \in DOMAIN sessions : sessions[s].actions = sandboxes[s] /\ ScoredOnce(s)

LEMMA FreeTyped ==
    /\ Drill!Free \in [op : Ops, on : Nat, answer : Answers]
    /\ \A answer \in Answers : [Drill!Free EXCEPT !.answer = answer] \in [op : Ops, on : Nat, answer : Answers]
<1>1. Drill!Free = [op |-> "free", on |-> 0, answer |-> "none"] /\ "free" \in Ops /\ "none" \in Answers
  BY DEF Drill!Free, Ops, Answers
<1> QED BY <1>1

LEMMA InitDrill == SomeDrills /\ Drill!TrainingInit => DrillInv
<1> SUFFICES ASSUME SomeDrills, Drill!TrainingInit PROVE DrillInv
  OBVIOUS
<1>1. DOMAIN sessions = {} /\ DOMAIN records = {} /\ DOMAIN sandboxes = {}
  BY DEF Drill!TrainingInit
<1>2. records \in Seq(TrainingRecord)
  BY DEF Drill!TrainingInit
<1>4. requests \in [Requests -> [op : Ops, on : Nat, answer : Answers]]
  BY FreeTyped DEF Drill!TrainingInit
<1>3. sessions \in [DOMAIN sessions -> Session] /\ sandboxes \in [DOMAIN sessions -> Seq(Captures)]
  BY <1>1 DEF Drill!TrainingInit
<1> QED BY <1>1, <1>2, <1>3, <1>4 DEF Drill!TrainingInit, DrillInv, TrainingTypes, Nested, SomeDrills

-----------------------------------------------------------------------------
(* The steps.                                                              *)
Kept ==
    resets' = resets =>
        /\ \A i \in DOMAIN records : i \in DOMAIN records' /\ records'[i] = records[i]
        /\ \A s \in DOMAIN sandboxes : Drill!IsPrefix(sandboxes[s], sandboxes'[s])
        /\ \A i \in DOMAIN records, j \in DOMAIN records' :
              records[i].session = records'[j].session /\ i < j =>
                  records[i].score.percentage <= records'[j].score.percentage

LEMMA RequestsTyped ==
    ASSUME TrainingTypes, NEW r \in Requests, NEW op \in Ops, NEW on \in Nat, NEW answer \in Answers,
           Drill!Request(r, op, on) \/ Drill!Answer(r, answer)
    PROVE  requests' \in [Requests -> [op : Ops, on : Nat, answer : Answers]]
<1> DEFINE R == [op : Ops, on : Nat, answer : Answers]
<1>1. requests \in [Requests -> R]
  BY DEF TrainingTypes
<1>2. \A v \in R : [requests EXCEPT ![r] = v] \in [Requests -> R]
  BY <1>1
<1>3. CASE Drill!Request(r, op, on)
  <2>1. [op |-> op, on |-> on, answer |-> "none"] \in R
    BY DEF Answers
  <2> QED BY <1>2, <1>3, <2>1 DEF Drill!Request
<1>4. CASE Drill!Answer(r, answer)
  BY <1>2, <1>4, FreeTyped DEF Drill!Answer
<1> QED BY <1>3, <1>4

LEMMA PrefixMore ==
    ASSUME NEW T, NEW s \in Seq(T), NEW t \in Seq(T), NEW u \in Seq(T)
    PROVE  /\ Prefix(s, s)
           /\ Prefix(s, t) /\ Prefix(t, u) => Prefix(s, u)
           /\ \A x \in T : Prefix(s, Append(s, x))
  BY DEF Prefix

\* The scores of a session's records.
LEMMA LaterScoresMore ==
    ASSUME NEW r \in TrainingRecord, NEW q \in TrainingRecord, r.drill = q.drill,
           r.score = Drill!ScoreActions(r.drill, r.actions), q.score = Drill!ScoreActions(q.drill, q.actions),
           Prefix(r.actions, q.actions)
    PROVE  r.score.percentage <= q.score.percentage
<1>1. r.drill \in DOMAIN Drill!Rubrics /\ r.actions \in Seq(Captures) /\ q.actions \in Seq(Captures)
  BY DEF TrainingRecord
<1> QED BY <1>1, ScoreGrows

LEMMA ScoresInOrder ==
    ASSUME NEW rs \in Seq(TrainingRecord),
           \A i \in DOMAIN rs : rs[i].score = Drill!ScoreActions(rs[i].drill, rs[i].actions),
           \A i, j \in DOMAIN rs : rs[i].session = rs[j].session /\ i <= j =>
               rs[i].drill = rs[j].drill /\ Prefix(rs[i].actions, rs[j].actions)
    PROVE  \A i, j \in DOMAIN rs :
               rs[i].session = rs[j].session /\ i < j =>
                   rs[i].score.percentage <= rs[j].score.percentage
<1> SUFFICES ASSUME NEW i \in DOMAIN rs, NEW j \in DOMAIN rs, rs[i].session = rs[j].session, i < j
             PROVE  rs[i].score.percentage <= rs[j].score.percentage
  OBVIOUS
<1>1. rs[i] \in TrainingRecord /\ rs[j] \in TrainingRecord /\ i <= j
  OBVIOUS
<1> QED BY <1>1, LaterScoresMore

\* Once the invariant holds after a step, the order of scores does.
Ordered ==
    \A i, j \in DOMAIN records :
        records[i].session = records[j].session /\ i < j =>
            records[i].score.percentage <= records[j].score.percentage
LEMMA DrillOrdered == DrillInv => Ordered
<1> SUFFICES ASSUME DrillInv PROVE Ordered
  OBVIOUS
<1>1. \A i \in DOMAIN records : OfSession(records[i])
  BY DEF DrillInv
<1>2. \A i, j \in DOMAIN records : records[i].session = records[j].session /\ i <= j =>
          records[i].drill = records[j].drill /\ Prefix(records[i].actions, records[j].actions)
  BY <1>1 DEF DrillInv, Nested, OfSession
<1>3. records \in Seq(TrainingRecord)
  BY DEF DrillInv, TrainingTypes
<1> QED BY <1>1, <1>2, <1>3, ScoresInOrder DEF OfSession, Ordered

LEMMA QuietTraining ==
    ASSUME DrillInv, UNCHANGED <<sessions, sandboxes, records, opened, resets>>,
           requests' \in [Requests -> [op : Ops, on : Nat, answer : Answers]]
    PROVE  DrillInv' /\ Kept
<1>1. DrillInv'
  BY DEF DrillInv, TrainingTypes, Nested, OfSession, ScoredOnce, Drill!Known
<1>2. \A s \in DOMAIN sandboxes : Drill!IsPrefix(sandboxes[s], sandboxes'[s])
  BY PrefixIs, PrefixMore DEF DrillInv, TrainingTypes
<1> QED BY <1>1, <1>2, DrillOrdered DEF Kept, Ordered

\* A score has the fields a record stores.
LEMMA ScoreTyped ==
    ASSUME NEW drill \in DOMAIN Drill!Rubrics, NEW T, NEW actions \in Seq(T)
    PROVE  Drill!ScoreActions(drill, actions) \in [percentage : Drill!Percentages, band : Bands, passed : BOOLEAN]
<1> DEFINE p == Drill!ScoreActions(drill, actions).percentage
<1>1. p \in Drill!Percentages
  BY ScoreGrows, PrefixMore
<1>2. Drill!ScoreActions(drill, actions) = [percentage |-> p, band |-> Drill!BandFor(p), passed |-> p >= 700]
  BY DEF Drill!ScoreActions
<1>3. Drill!BandFor(p) \in Bands
  BY DEF Drill!BandFor, Bands
<1> HIDE DEF p
<1>4. PICK b \in BOOLEAN : b <=> p >= 700
  OBVIOUS
<1>5. Drill!ScoreActions(drill, actions) = [percentage |-> p, band |-> Drill!BandFor(p), passed |-> b]
  BY <1>2, <1>4
<1> QED BY <1>1, <1>3, <1>5

LEMMA StepStart ==
    ASSUME SomeDrills, DrillInv, NEW r \in Requests, NEW drill, Drill!StartSession(r, drill)
    PROVE  DrillInv' /\ Kept
<1> USE DEF SomeDrills
<1>1. CASE drill \notin DOMAIN Drill!Rubrics
  <2>1. Drill!Answer(r, "unknown scenario") /\ "unknown scenario" \in Answers /\ "free" \in Ops /\ 0 \in Nat
    BY <1>1 DEF Drill!StartSession, Ops, Answers
  <2>2. requests' \in [Requests -> [op : Ops, on : Nat, answer : Answers]]
    BY <2>1, RequestsTyped DEF DrillInv
  <2> QED BY <1>1, <2>2, QuietTraining DEF Drill!StartSession
<1>2. CASE drill \in DOMAIN Drill!Rubrics
  <2> DEFINE s == opened'
  <2>1. /\ s = opened + 1 /\ s <= MaxSessions /\ s \in Nat /\ s \notin DOMAIN sessions
        /\ Drill!OpenSession(s, drill) /\ Drill!Request(r, "started", s)
        /\ UNCHANGED <<records, resets>>
    BY <1>2 DEF Drill!StartSession, DrillInv, TrainingTypes
  <2>2. requests' \in [Requests -> [op : Ops, on : Nat, answer : Answers]]
    <3>1. "started" \in Ops /\ "none" \in Answers
      BY DEF Ops, Answers
    <3> QED BY <2>1, <3>1, RequestsTyped DEF DrillInv
  <2>3. [drill |-> drill, status |-> "in_progress", actions |-> <<>>] \in Session
    BY <1>2 DEF Session
  <2>4. /\ DOMAIN sessions' = DOMAIN sessions \cup {s} /\ DOMAIN sandboxes' = DOMAIN sandboxes \cup {s}
        /\ sessions'[s] = [drill |-> drill, status |-> "in_progress", actions |-> <<>>]
        /\ sandboxes'[s] = <<>>
        /\ \A t \in DOMAIN sessions : sessions'[t] = sessions[t] /\ sandboxes'[t] = sandboxes[t]
        /\ sessions' \in [DOMAIN sessions' -> Session]
        /\ sandboxes' \in [DOMAIN sessions' -> Seq(Captures)]
    BY <2>1, <2>3 DEF Drill!OpenSession, Drill!With, DrillInv, TrainingTypes
  <2>5. TrainingTypes'
    BY <2>1, <2>2, <2>4 DEF DrillInv, TrainingTypes
  <2>6. \A i \in DOMAIN records : OfSession(records[i])'
    BY <2>1, <2>4 DEF DrillInv, OfSession, Drill!Known, TrainingTypes
  <2>7. Nested'
    BY <2>1 DEF DrillInv, Nested
  <2>8. \A t \in DOMAIN sessions' : sessions'[t].actions = sandboxes'[t] /\ ScoredOnce(t)'
    <3>1. ASSUME NEW t \in DOMAIN sessions PROVE sessions'[t].actions = sandboxes'[t] /\ ScoredOnce(t)'
      BY <2>1, <2>4 DEF DrillInv, ScoredOnce
    <3>2. \A i \in DOMAIN records : records[i].session # s
      BY <2>1 DEF DrillInv, OfSession, Drill!Known
    <3>3. sessions'[s].actions = sandboxes'[s] /\ sessions'[s].status # "scored"
      BY <2>4
    <3>4. ASSUME NEW t \in DOMAIN sessions', t = s PROVE sessions'[t].actions = sandboxes'[t] /\ ScoredOnce(t)'
      <4>1. sessions'[t].status # "scored" /\ \A i \in DOMAIN records : records[i].session # t
        BY <3>2, <3>3, <3>4
      <4> QED BY <4>1, <3>3, <3>4, <2>1 DEF ScoredOnce
    <3>5. \A t \in DOMAIN sessions' : t \in DOMAIN sessions \/ t = s
      BY <2>4
    <3> QED BY <3>1, <3>4, <3>5
  <2>9. \A t \in DOMAIN sandboxes : Drill!IsPrefix(sandboxes[t], sandboxes'[t])
    BY <2>4, PrefixIs, PrefixMore DEF DrillInv, TrainingTypes
  <2> QED BY <2>1, <2>5, <2>6, <2>7, <2>8, <2>9, DrillOrdered DEF DrillInv, Kept, Ordered
<1> QED BY <1>1, <1>2

LEMMA StepCapture ==
    ASSUME SomeDrills, DrillInv, NEW r \in Requests, NEW s \in 1..MaxSessions,
           NEW action \in Captures, Drill!CaptureAction(r, s, action)
    PROVE  DrillInv' /\ Kept
<1>1. CASE action.kind \notin Drill!ActionKinds \/ ~Drill!Known(s)
  <2>1. PICK answer \in {"unknown kind", "unknown session"} : Drill!Answer(r, answer)
    BY <1>1 DEF Drill!CaptureAction
  <2>2. answer \in Answers /\ "free" \in Ops /\ 0 \in Nat
    BY DEF Ops, Answers
  <2>3. requests' \in [Requests -> [op : Ops, on : Nat, answer : Answers]]
    BY <2>1, <2>2, RequestsTyped DEF DrillInv
  <2> QED BY <1>1, <2>3, QuietTraining DEF Drill!CaptureAction
<1>2. CASE action.kind \in Drill!ActionKinds /\ Drill!Known(s)
  <2> DEFINE all == Append(sandboxes[s], action)
  <2>1. /\ s \in DOMAIN sessions /\ DOMAIN sessions = DOMAIN sandboxes
        /\ sandboxes' = [sandboxes EXCEPT ![s] = all]
        /\ sessions' = [sessions EXCEPT ![s].actions = all]
        /\ Drill!Request(r, "captured", s) /\ UNCHANGED <<records, opened, resets>>
    BY <1>2 DEF Drill!CaptureAction, Drill!RecordAction, Drill!Known, DrillInv, TrainingTypes
  <2>2. requests' \in [Requests -> [op : Ops, on : Nat, answer : Answers]]
    <3>1. "captured" \in Ops /\ "none" \in Answers /\ s \in Nat
      BY DEF Ops, Answers, SomeDrills
    <3> QED BY <2>1, <3>1, RequestsTyped DEF DrillInv
  <2>3. sandboxes[s] \in Seq(Captures) /\ all \in Seq(Captures) /\ Prefix(sandboxes[s], all)
    BY <2>1, PrefixMore DEF DrillInv, TrainingTypes
  <2> HIDE DEF all
  <2>4. /\ DOMAIN sessions' = DOMAIN sessions /\ DOMAIN sandboxes' = DOMAIN sandboxes
        /\ \A t \in DOMAIN sessions :
               /\ sessions'[t].drill = sessions[t].drill /\ sessions'[t].status = sessions[t].status
               /\ sandboxes'[t] = IF t = s THEN all ELSE sandboxes[t]
               /\ sessions'[t].actions = IF t = s THEN all ELSE sessions[t].actions
        /\ sessions' \in [DOMAIN sessions' -> Session]
        /\ sandboxes' \in [DOMAIN sessions' -> Seq(Captures)]
    BY <2>1, <2>3 DEF DrillInv, TrainingTypes, Session
  <2>5. TrainingTypes'
    BY <2>1, <2>2, <2>4 DEF DrillInv, TrainingTypes
  <2>6. \A t \in DOMAIN sandboxes :
            /\ sandboxes[t] \in Seq(Captures) /\ sandboxes'[t] \in Seq(Captures)
            /\ Prefix(sandboxes[t], sandboxes'[t])
    BY <2>1, <2>3, <2>4, PrefixMore DEF DrillInv, TrainingTypes
  <2>7. \A i \in DOMAIN records : OfSession(records[i])'
    <3> SUFFICES ASSUME NEW i \in DOMAIN records PROVE OfSession(records[i])'
      OBVIOUS
    <3>1. OfSession(records[i]) /\ records[i] \in TrainingRecord
      BY DEF DrillInv, TrainingTypes
    <3>2. /\ records[i].session \in DOMAIN sandboxes /\ records[i].actions \in Seq(Captures)
          /\ Prefix(records[i].actions, sandboxes[records[i].session])
      BY <3>1, <2>1 DEF OfSession, Drill!Known, TrainingRecord
    <3>3. Prefix(records[i].actions, sandboxes'[records[i].session])
      BY <3>2, <2>6, PrefixMore
    <3> QED BY <3>1, <3>2, <3>3, <2>1, <2>4 DEF OfSession, Drill!Known
  <2>8. Nested'
    BY <2>1 DEF DrillInv, Nested
  <2>9. \A t \in DOMAIN sessions' : sessions'[t].actions = sandboxes'[t] /\ ScoredOnce(t)'
    BY <2>1, <2>4 DEF DrillInv, ScoredOnce
  <2>10. \A t \in DOMAIN sandboxes : Drill!IsPrefix(sandboxes[t], sandboxes'[t])
    BY <2>6, PrefixIs
  <2> QED BY <2>1, <2>5, <2>7, <2>8, <2>9, <2>10, DrillOrdered DEF DrillInv, Kept, Ordered
<1> QED BY <1>1, <1>2

LEMMA StepSubmit ==
    ASSUME SomeDrills, DrillInv, NEW r \in Requests, NEW s \in 1..MaxSessions, Drill!SubmitSession(r, s)
    PROVE  DrillInv' /\ Kept
<1>1. CASE ~Drill!Known(s)
  <2>1. Drill!Answer(r, "unknown session") /\ "unknown session" \in Answers /\ "free" \in Ops /\ 0 \in Nat
    BY <1>1 DEF Drill!SubmitSession, Ops, Answers
  <2>2. requests' \in [Requests -> [op : Ops, on : Nat, answer : Answers]]
    BY <2>1, RequestsTyped DEF DrillInv
  <2> QED BY <1>1, <2>2, QuietTraining DEF Drill!SubmitSession
<1>2. CASE Drill!Known(s)
  <2> DEFINE new == Drill!BuildRecord(s)
  <2>1. /\ s \in DOMAIN sessions /\ DOMAIN sessions = DOMAIN sandboxes
        /\ records' = Append(records, new)
        /\ sessions' = [sessions EXCEPT ![s].status = "scored"]
        /\ Drill!Request(r, "scored", s) /\ UNCHANGED <<sandboxes, opened, resets>>
    BY <1>2 DEF Drill!SubmitSession, Drill!ScoreSession, Drill!Known, DrillInv, TrainingTypes
  <2>2. requests' \in [Requests -> [op : Ops, on : Nat, answer : Answers]]
    <3>1. "scored" \in Ops /\ "none" \in Answers /\ s \in Nat
      BY DEF Ops, Answers, SomeDrills
    <3> QED BY <2>1, <3>1, RequestsTyped DEF DrillInv
  <2>3. /\ sessions[s].drill \in DOMAIN Drill!Rubrics /\ sessions[s].actions \in Seq(Captures)
        /\ sessions[s].actions = sandboxes[s] /\ s \in Nat
    BY <2>1 DEF DrillInv, TrainingTypes, Session, SomeDrills
  <2>4. /\ new \in TrainingRecord /\ new.session = s /\ new.drill = sessions[s].drill
        /\ new.actions = sandboxes[s] /\ new.score = Drill!ScoreActions(new.drill, new.actions)
    BY <2>3, ScoreTyped DEF Drill!BuildRecord, TrainingRecord
  <2> HIDE DEF new
  <2>5. /\ DOMAIN sessions' = DOMAIN sessions
        /\ \A t \in DOMAIN sessions :
               /\ sessions'[t].drill = sessions[t].drill /\ sessions'[t].actions = sessions[t].actions
               /\ sessions'[t].status = IF t = s THEN "scored" ELSE sessions[t].status
        /\ sessions' \in [DOMAIN sessions' -> Session]
    BY <2>1 DEF DrillInv, TrainingTypes, Session
  <2>6. /\ records' \in Seq(TrainingRecord) /\ DOMAIN records = 1..Len(records)
        /\ DOMAIN records' = 1..(Len(records) + 1) /\ Len(records) \in Nat
        /\ records'[Len(records) + 1] = new
        /\ \A i \in DOMAIN records : i \in DOMAIN records' /\ records'[i] = records[i]
    BY <2>1, <2>4 DEF DrillInv, TrainingTypes
  <2>7. TrainingTypes'
    BY <2>1, <2>2, <2>5, <2>6 DEF DrillInv, TrainingTypes
  <2>8. \A i \in DOMAIN records' : i \in DOMAIN records \/ i = Len(records) + 1
    BY <2>6
  <2>9. \A i \in DOMAIN records' : OfSession(records[i])'
    <3>1. \A i \in DOMAIN records : OfSession(records[i])'
      BY <2>1, <2>5, <2>6 DEF DrillInv, OfSession, Drill!Known
    <3>2. Prefix(new.actions, sandboxes[s])
      BY <2>3, <2>4, PrefixMore
    <3>3. ASSUME NEW i \in DOMAIN records', i = Len(records) + 1 PROVE OfSession(records[i])'
      BY <3>2, <3>3, <2>1, <2>4, <2>5, <2>6 DEF OfSession, Drill!Known
    <3> QED BY <2>8, <3>1, <3>3
  <2>10. Nested'
    <3> SUFFICES ASSUME NEW i \in DOMAIN records', NEW j \in DOMAIN records',
                        records'[i].session = records'[j].session, i <= j
                 PROVE  Prefix(records'[i].actions, records'[j].actions)
      BY DEF Nested
    <3>1. CASE j \in DOMAIN records
      <4>1. i \in DOMAIN records
        BY <2>6, <2>8, <3>1
      <4> QED BY <3>1, <4>1, <2>6 DEF DrillInv, Nested
    <3>2. CASE j = Len(records) + 1 /\ i \in DOMAIN records
      <4>1. OfSession(records[i]) /\ records'[j] = new /\ records'[i] = records[i]
        BY <2>6, <3>2 DEF DrillInv
      <4> QED BY <4>1, <2>4 DEF OfSession
    <3>3. CASE j = Len(records) + 1 /\ i = Len(records) + 1
      <4>1. records'[i] = new /\ records'[j] = new /\ new.actions \in Seq(Captures)
        BY <2>3, <2>4, <2>6, <3>3
      <4> QED BY <4>1, PrefixMore
    <3> QED BY <2>8, <3>1, <3>2, <3>3
  <2>11. \A t \in DOMAIN sessions' : sessions'[t].actions = sandboxes'[t] /\ ScoredOnce(t)'
    <3> SUFFICES ASSUME NEW t \in DOMAIN sessions
                 PROVE  sessions'[t].actions = sandboxes'[t] /\ ScoredOnce(t)'
      BY <2>5
    <3>1. sessions'[t].actions = sandboxes'[t]
      BY <2>1, <2>5 DEF DrillInv
    <3>2. (\E i \in DOMAIN records' : records'[i].session = t)
            <=> (t = s \/ \E i \in DOMAIN records : records[i].session = t)
      BY <2>4, <2>6, <2>8
    <3>3. (sessions'[t].status = "scored") <=> (t = s \/ sessions[t].status = "scored")
      BY <2>5
    <3> QED BY <3>1, <3>2, <3>3 DEF DrillInv, ScoredOnce
  <2>12. DrillInv'
    BY <2>7, <2>9, <2>10, <2>11 DEF DrillInv
  <2>13. \A t \in DOMAIN sandboxes : Drill!IsPrefix(sandboxes[t], sandboxes'[t])
    <3>1. \A t \in DOMAIN sandboxes : sandboxes[t] \in Seq(Captures)
      BY DEF DrillInv, TrainingTypes
    <3> QED BY <3>1, <2>1, PrefixIs, PrefixMore
  <2>14. \A i \in DOMAIN records, j \in DOMAIN records' :
              records[i].session = records'[j].session /\ i < j =>
                  records[i].score.percentage <= records'[j].score.percentage
    <3>1. Ordered'
      BY <2>12, DrillOrdered, PTL
    <3> QED BY <3>1, <2>6 DEF Ordered
  <2> QED BY <2>6, <2>12, <2>13, <2>14 DEF Kept
<1> QED BY <1>1, <1>2

LEMMA StepFinish ==
    ASSUME DrillInv, NEW r \in Requests, Drill!Finish(r)
    PROVE  DrillInv' /\ Kept
<1>1. PICK answer \in {"error", "ok"} : Drill!Answer(r, answer)
  BY DEF Drill!Finish
<1>2. answer \in Answers /\ "free" \in Ops /\ 0 \in Nat
  BY DEF Ops, Answers
<1>3. requests' \in [Requests -> [op : Ops, on : Nat, answer : Answers]]
  BY <1>1, <1>2, RequestsTyped DEF DrillInv
<1> QED BY <1>3, QuietTraining DEF Drill!Finish

LEMMA StepResetTraining == SomeDrills /\ DrillInv /\ Drill!ResetTraining => DrillInv' /\ Kept
<1> SUFFICES ASSUME SomeDrills, DrillInv, Drill!ResetTraining PROVE DrillInv' /\ Kept
  OBVIOUS
<1>1. /\ DOMAIN sessions' = {} /\ DOMAIN records' = {} /\ DOMAIN sandboxes' = {}
      /\ records' = <<>> /\ requests' = requests /\ opened' = opened
      /\ resets' \in Nat /\ resets' # resets
  BY DEF Drill!ResetTraining, DrillInv, TrainingTypes
<1>2. sessions' \in [DOMAIN sessions' -> Session] /\ sandboxes' \in [DOMAIN sessions' -> Seq(Captures)]
  BY <1>1 DEF Drill!ResetTraining
<1>3. records' \in Seq(TrainingRecord) /\ resets' <= MaxResets
  BY <1>1 DEF Drill!ResetTraining, SomeDrills, DrillInv, TrainingTypes
<1>4. TrainingTypes'
  BY <1>1, <1>2, <1>3 DEF DrillInv, TrainingTypes
<1> QED BY <1>1, <1>4 DEF DrillInv, Nested, Kept

LEMMA DrillStep == SomeDrills /\ DrillInv /\ [Drill!TrainingNext]_drillvars => DrillInv' /\ [Kept]_drillvars
<1> SUFFICES ASSUME SomeDrills, DrillInv, [Drill!TrainingNext]_drillvars PROVE DrillInv' /\ [Kept]_drillvars
  OBVIOUS
<1>1. CASE Drill!TrainingNext
  <2>1. ASSUME NEW r \in Requests, NEW drill \in Drills, Drill!StartSession(r, drill) PROVE DrillInv' /\ Kept
    BY <2>1, StepStart
  <2>2. ASSUME NEW r \in Requests, NEW s \in 1..MaxSessions, Drill!SubmitSession(r, s) PROVE DrillInv' /\ Kept
    BY <2>2, StepSubmit
  <2>3. ASSUME NEW r \in Requests, NEW s \in 1..MaxSessions, NEW action \in Captures,
               Drill!CaptureAction(r, s, action)
        PROVE  DrillInv' /\ Kept
    BY <2>3, StepCapture
  <2>4. ASSUME NEW r \in Requests, Drill!Finish(r) PROVE DrillInv' /\ Kept
    BY <2>4, StepFinish
  <2> QED BY <1>1, <2>1, <2>2, <2>3, <2>4, StepResetTraining DEF Drill!TrainingNext
<1>2. CASE UNCHANGED drillvars
  <2>1. UNCHANGED <<sessions, sandboxes, records, opened, resets>> /\ requests' = requests
    BY <1>2 DEF drillvars
  <2> QED BY <1>2, <2>1, QuietTraining DEF DrillInv, TrainingTypes
<1> QED BY <1>1, <1>2

LEMMA DrillTypes == DrillInv => Drill!TrainingTypeOK
  BY DEF DrillInv, TrainingTypes, Drill!TrainingTypeOK, Session, Ops

\* The drill's asset is one that the injector reads.
LEMMA DrillReads == \A drill \in DOMAIN Drill!Rubrics : Drill!Injected[drill].affected \in Drill!Injected[drill].read
<1>1. \A drill \in DOMAIN Drill!Rubrics :
          drill \in {"pumpDegradation", "leak", "outage", "stormPowerLoss"}
  BY DEF Drill!Rubrics
<1> QED BY <1>1 DEF Drill!Injected

LEMMA DrillTrue == DrillInv => Drill!RecordsTrue
<1> SUFFICES ASSUME DrillInv PROVE Drill!RecordsTrue
  OBVIOUS
<1>1. ASSUME NEW i \in DOMAIN records
      PROVE  /\ records[i].score = Drill!ScoreActions(records[i].drill, records[i].actions)
             /\ records[i].score.passed <=> records[i].score.band \in {"Exemplary", "Proficient"}
             /\ records[i].score.percentage \in Drill!Percentages
             /\ Drill!Known(records[i].session)
             /\ Drill!IsPrefix(records[i].actions, sandboxes[records[i].session])
  <2>1. OfSession(records[i]) /\ records[i] \in TrainingRecord
    BY DEF DrillInv, TrainingTypes
  <2>2. records[i].drill \in DOMAIN Drill!Rubrics /\ records[i].actions \in Seq(Captures)
    BY <2>1 DEF TrainingRecord
  <2>3. records[i].score = Drill!ScoreActions(records[i].drill, records[i].actions)
    BY <2>1 DEF OfSession
  <2>4. Prefix(records[i].actions, records[i].actions)
    BY <2>2, PrefixMore
  <2>5. /\ records[i].score.passed <=> records[i].score.band \in {"Exemplary", "Proficient"}
        /\ records[i].score.percentage \in Drill!Percentages
    <3>1. /\ Drill!ScoreActions(records[i].drill, records[i].actions).percentage \in Drill!Percentages
          /\ Drill!ScoreActions(records[i].drill, records[i].actions).passed
                <=> Drill!ScoreActions(records[i].drill, records[i].actions).band \in {"Exemplary", "Proficient"}
      BY <2>2, <2>4, ScoreGrows
    <3> QED BY <2>3, <3>1, Zenon
  <2>6. sandboxes[records[i].session] \in Seq(Captures)
    BY <2>1 DEF OfSession, Drill!Known, DrillInv, TrainingTypes
  <2> QED BY <2>1, <2>2, <2>3, <2>5, <2>6, PrefixIs, Zenon DEF OfSession
<1>2. \A s \in DOMAIN sessions :
          /\ sessions[s].actions = sandboxes[s]
          /\ (sessions[s].status = "scored") <=> \E i \in DOMAIN records : records[i].session = s
  BY DEF DrillInv, ScoredOnce
<1>3. \A s \in DOMAIN sessions : sessions[s].drill \in DOMAIN Drill!Rubrics
  BY DEF DrillInv, TrainingTypes, Session
<1>4. \A s \in DOMAIN sessions :
          Drill!Injected[sessions[s].drill].affected \in Drill!Injected[sessions[s].drill].read
  BY <1>3, DrillReads, Zenon
<1> QED BY <1>1, <1>2, <1>4, Zenon DEF Drill!RecordsTrue

---------------------------------------------------------------------------
(***************************************************************************)
(* Twin: the network store.                                                *)
(***************************************************************************)
\* The file names finitely many elements and at least one.
SomeNetwork == IsFiniteSet(Net!ElementIds) /\ Net!ElementIds # {}

-----------------------------------------------------------------------------
(* The order of the load names every element once.                         *)
N == Len(Net!LoadOrder)

LEMMA OrderIsBijective ==
    ASSUME SomeNetwork
    PROVE  /\ N \in Nat \ {0}
           /\ Net!LoadOrder \in [1..N -> Net!ElementIds]
           /\ \A i, j \in 1..N : Net!LoadOrder[i] = Net!LoadOrder[j] => i = j
           /\ \A x \in Net!ElementIds : \E i \in 1..N : Net!LoadOrder[i] = x
<1> DEFINE c == Cardinality(Net!ElementIds)
<1>1. c \in Nat /\ c # 0 /\ ExistsBijection(1..c, Net!ElementIds)
  BY FS_CardinalityType, FS_EmptySet DEF SomeNetwork
<1>2. PICK g \in Bijection(1..c, Net!ElementIds) : TRUE
  BY <1>1 DEF ExistsBijection
<1>3. g \in [1..c -> Net!ElementIds] /\ Net!IsInjective(g)
  BY <1>2 DEF Bijection, Injection, IsInjective, Net!IsInjective
<1>4. Net!LoadOrder \in [1..c -> Net!ElementIds] /\ Net!IsInjective(Net!LoadOrder)
  BY <1>3, StateCounting DEF Net!LoadOrder, Net!SetToSeq
<1>5. Net!LoadOrder \in Injection(1..c, Net!ElementIds)
  BY <1>4 DEF Injection, IsInjective, Net!IsInjective
<1>6. Cardinality(1..c) = c
  BY <1>1, FS_Interval
<1>7. Net!LoadOrder \in Surjection(1..c, Net!ElementIds)
  <2> HIDE DEF c
  <2>1. IsFiniteSet(Net!ElementIds) BY DEF SomeNetwork
  <2>2. Cardinality(1..c) = Cardinality(Net!ElementIds) BY <1>6 DEF c
  <2> QED BY <1>5, <2>1, <2>2, FS_Injection
<1>8. \A x \in Net!ElementIds : \E i \in 1..c : Net!LoadOrder[i] = x
  BY <1>7 DEF Surjection
<1>9. N = c
  <2>1. Net!LoadOrder \in Seq(Net!ElementIds) /\ DOMAIN Net!LoadOrder = 1..c
    BY <1>1, <1>4
  <2> QED BY <2>1, <1>1 DEF N
<1> HIDE DEF c, N
<1>10. \A i, j \in 1..c : Net!LoadOrder[i] = Net!LoadOrder[j] => i = j
  BY <1>4 DEF Net!IsInjective
<1> QED BY <1>1, <1>4, <1>8, <1>9, <1>10

-----------------------------------------------------------------------------
(* Types.                                                                  *)
Steps == {Net!Idle, <<"truncate">>} \cup {<<"insert", i>> : i \in 1..N}
StoreTypeOK ==
    /\ Net!TwinTypeOK
    /\ loader \in [TwinProcesses -> Steps]
    /\ breaks \in Nat
    /\ \A p \in TwinProcesses : memory[p] \in {{}, Net!ElementIds}

LEMMA LoadTypes ==
    ASSUME SomeNetwork, StoreTypeOK, [Net!TwinNext]_netvars
    PROVE  StoreTypeOK'
<1> USE DEF StoreTypeOK, Net!TwinTypeOK, Steps, Net!Idle
<1>0. N \in Nat \ {0} /\ Net!LoadOrder \in [1..N -> Net!ElementIds]
  BY OrderIsBijective
<1> HIDE DEF N
<1>1. CASE UNCHANGED netvars
  BY <1>1 DEF netvars
<1>2. ASSUME NEW p \in TwinProcesses, Net!Counting(p) PROVE StoreTypeOK'
  BY <1>2 DEF Net!Counting
<1>3. ASSUME NEW p \in TwinProcesses, Net!LoadMemory(p) PROVE StoreTypeOK'
  BY <1>3 DEF Net!LoadMemory, Net!Mirror
<1>4. ASSUME NEW p \in TwinProcesses, Net!Truncate(p) PROVE StoreTypeOK'
  BY <1>4, <1>0 DEF Net!Truncate
<1>5. ASSUME NEW p \in TwinProcesses, Net!Insert(p) PROVE StoreTypeOK'
  <2>1. PICK i \in 1..N : loader[p] = <<"insert", i>>
    BY <1>5 DEF Net!Insert
  <2>2. CASE Net!LoadOrder[i] \in twinTable
    BY <1>5, <2>1, <2>2 DEF Net!Insert, Net!Mirror
  <2>3. CASE Net!LoadOrder[i] \notin twinTable
    <3>1. /\ twinTable' = twinTable \cup {Net!LoadOrder[i]}
          /\ loader' = [loader EXCEPT ![p] = IF i = N THEN Net!Idle ELSE <<"insert", i + 1>>]
          /\ UNCHANGED <<memory, connection, loads, breaks>>
      BY <1>5, <2>1, <2>3 DEF Net!Insert, N
    <3>2. i # N => i + 1 \in 1..N
      BY <1>0
    <3>3. (IF i = N THEN Net!Idle ELSE <<"insert", i + 1>>) \in Steps
      BY <3>2
    <3> QED BY <1>0, <3>1, <3>3
  <2> QED BY <2>2, <2>3
<1>6. ASSUME NEW p \in TwinProcesses, Net!Break(p) PROVE StoreTypeOK'
  BY <1>6 DEF Net!Break
<1>7. ASSUME NEW p \in TwinProcesses, Net!RestartProcess(p) PROVE StoreTypeOK'
  BY <1>7 DEF Net!RestartProcess
<1> QED BY <1>1, <1>2, <1>3, <1>4, <1>5, <1>6, <1>7 DEF Net!TwinNext

-----------------------------------------------------------------------------
(* Why two loads into each other leave the whole network: whatever is      *)
(* missing, some process is still on its way to it, with nothing in        *)
(* between that could stop it.  Truncating puts a process at the start;    *)
(* a process that stops stops at an element that is there.                 *)
Inserting(p) == Net!UseDb(p) /\ Len(loader[p]) = 2
Missing == {i \in 1..N : Net!LoadOrder[i] \notin twinTable}
OnItsWay(p, i) ==
    \E k \in 1..i : loader[p] = <<"insert", k>> /\ Net!UseDb(p) /\ \A m \in k..i : m \in Missing
Untouched == twinTable = {} /\ \A p \in TwinProcesses : ~Inserting(p)
LoadInv ==
    breaks = 0 => Untouched \/ \A i \in Missing : \E p \in TwinProcesses : OnItsWay(p, i)

LEMMA InsertStep ==
    ASSUME SomeNetwork, StoreTypeOK, LoadInv, NEW p \in TwinProcesses, Net!Insert(p)
    PROVE  LoadInv'
<1>0. N \in Nat \ {0} /\ Net!LoadOrder \in [1..N -> Net!ElementIds]
      /\ \A i, j \in 1..N : Net!LoadOrder[i] = Net!LoadOrder[j] => i = j
  BY OrderIsBijective
<1>1. PICK k \in 1..N : loader[p] = <<"insert", k>>
  BY DEF Net!Insert, StoreTypeOK, Steps, Net!Idle
<1>2. Net!UseDb(p) /\ UNCHANGED <<connection, breaks>> /\ loader \in [TwinProcesses -> Steps]
  BY DEF Net!Insert, StoreTypeOK
<1>3. N' = N /\ UNCHANGED Net!LoadOrder
  BY DEF N, Net!LoadOrder, Net!ElementIds, Net!Topology
<1>4. SUFFICES ASSUME breaks = 0, NEW i \in Missing'
               PROVE  \E q \in TwinProcesses : OnItsWay(q, i)'
  BY <1>2 DEF LoadInv
<1>5. \A j \in Missing : \E q \in TwinProcesses : OnItsWay(q, j)
  <2>1. Inserting(p) BY <1>1, <1>2 DEF Inserting
  <2> QED BY <2>1, <1>4 DEF LoadInv, Untouched
<1>6. CASE Net!LoadOrder[k] \in twinTable
  <2>1. twinTable' = twinTable /\ loader' = [loader EXCEPT ![p] = Net!Idle]
    BY <1>1, <1>6 DEF Net!Insert, Net!Mirror
  <2>2. Missing' = Missing
    BY <2>1, <1>3 DEF Missing
  <2>3. PICK q \in TwinProcesses : OnItsWay(q, i)
    BY <2>2, <1>5
  <2>4. PICK a \in 1..i : loader[q] = <<"insert", a>> /\ Net!UseDb(q) /\ \A m \in a..i : m \in Missing
    BY <2>3 DEF OnItsWay
  <2>5. i \in 1..N BY <2>2 DEF Missing
  <2>6. a \in Missing
    BY <2>4, <2>5, <1>0
  <2>7. q # p
    BY <2>4, <2>6, <1>1, <1>6 DEF Missing
  <2>8. loader'[q] = loader[q]
    BY <2>1, <2>7, <1>2
  <2> QED BY <2>2, <2>4, <2>8, <1>2 DEF OnItsWay, Net!UseDb
<1>7. CASE Net!LoadOrder[k] \notin twinTable
  <2>1. /\ twinTable' = twinTable \cup {Net!LoadOrder[k]}
        /\ loader' = [loader EXCEPT ![p] = IF k = N THEN Net!Idle ELSE <<"insert", k + 1>>]
    BY <1>1, <1>7 DEF Net!Insert, N
  <2>2. i \in 1..N /\ Net!LoadOrder[i] \notin twinTable'
    BY <1>3 DEF Missing
  <2>3. Missing' = Missing \ {k}
    BY <2>1, <1>0, <1>3 DEF Missing
  <2>4. i \in Missing /\ i # k
    BY <2>3
  <2>5. PICK q \in TwinProcesses : OnItsWay(q, i)
    BY <2>4, <1>5
  <2>6. PICK a \in 1..i : loader[q] = <<"insert", a>> /\ Net!UseDb(q) /\ \A m \in a..i : m \in Missing
    BY <2>5 DEF OnItsWay
  <2>7. q = p => a = k
    BY <2>6, <1>1
  <2>8. CASE a <= k /\ k <= i
    <3>1. k < i /\ k # N /\ k + 1 \in 1..i
      BY <2>8, <2>4, <2>2, <1>0
    <3>2. loader'[p] = <<"insert", k + 1>>
      BY <2>1, <3>1, <1>2
    <3>3. \A m \in (k + 1)..i : m \in Missing'
      BY <2>3, <2>6, <2>8, <3>1
    <3> QED BY <3>1, <3>2, <3>3, <1>2 DEF OnItsWay, Net!UseDb
  <2>9. CASE ~ (a <= k /\ k <= i)
    <3>1. q # p
      BY <2>7, <2>9, <2>6, <2>2
    <3>2. loader'[q] = loader[q]
      BY <2>1, <3>1, <1>2
    <3>3. \A m \in a..i : m \in Missing'
      BY <2>3, <2>6, <2>9
    <3> QED BY <2>6, <3>2, <3>3, <1>2 DEF OnItsWay, Net!UseDb
  <2> QED BY <2>8, <2>9
<1> QED BY <1>6, <1>7

LEMMA LoadStep ==
    ASSUME SomeNetwork, StoreTypeOK, LoadInv, [Net!TwinNext]_netvars
    PROVE  LoadInv'
<1>0. N \in Nat \ {0} /\ loader \in [TwinProcesses -> Steps] /\ breaks \in Nat
  BY OrderIsBijective DEF StoreTypeOK
<1>1. N' = N /\ UNCHANGED Net!LoadOrder
  BY DEF N, Net!LoadOrder, Net!ElementIds, Net!Topology
(* A step of a process that leaves table, connections and the inserting    *)
(* processes as they are.                                                  *)
<1>2. ASSUME NEW p \in TwinProcesses, UNCHANGED <<twinTable, connection, breaks>>,
             \A q \in TwinProcesses : q # p => loader'[q] = loader[q],
             Inserting(p) => loader'[p] = loader[p],
             ~Inserting(p) => ~Inserting(p)'
      PROVE  LoadInv'
  <2>1. Missing' = Missing /\ \A q \in TwinProcesses : Net!UseDb(q)' = Net!UseDb(q)
    BY <1>1, <1>2 DEF Missing, Net!UseDb
  <2>2. \A q \in TwinProcesses : Inserting(q)' => Inserting(q)
    BY <1>2, <2>1 DEF Inserting
  <2>3. \A q \in TwinProcesses, i \in Missing : OnItsWay(q, i) => OnItsWay(q, i)'
    BY <1>2, <2>1 DEF OnItsWay, Inserting
  <2> QED BY <1>2, <2>1, <2>2, <2>3 DEF LoadInv, Untouched
<1>3. CASE UNCHANGED netvars
  BY <1>1, <1>3 DEF netvars, LoadInv, Untouched, Missing, OnItsWay, Inserting, Net!UseDb
<1>4. ASSUME NEW p \in TwinProcesses, Net!Counting(p) PROVE LoadInv'
  <2>1. /\ UNCHANGED <<twinTable, connection, breaks>>
        /\ loader[p] = Net!Idle /\ loader' = [loader EXCEPT ![p] = <<"truncate">>]
    BY <1>4 DEF Net!Counting
  <2>2. ~Inserting(p) /\ ~Inserting(p)'
    BY <2>1, <1>0 DEF Inserting, Net!Idle
  <2> QED BY <2>1, <2>2, <1>2, <1>0
<1>5. ASSUME NEW p \in TwinProcesses, Net!LoadMemory(p) PROVE LoadInv'
  <2>1. /\ UNCHANGED <<twinTable, connection, breaks>>
        /\ ~Net!UseDb(p) /\ loader' = [loader EXCEPT ![p] = Net!Idle]
    BY <1>5 DEF Net!LoadMemory, Net!Mirror
  <2>2. ~Inserting(p) /\ ~Inserting(p)'
    BY <2>1 DEF Inserting, Net!UseDb
  <2> QED BY <2>1, <2>2, <1>2, <1>0
<1>6. ASSUME NEW p \in TwinProcesses, Net!Truncate(p) PROVE LoadInv'
  <2>1. twinTable' = {} /\ loader' = [loader EXCEPT ![p] = <<"insert", 1>>] /\ Net!UseDb(p)
        /\ UNCHANGED connection
    BY <1>6 DEF Net!Truncate
  <2>2. loader'[p] = <<"insert", 1>> /\ Net!UseDb(p)'
    BY <2>1, <1>0 DEF Net!UseDb
  <2>3. Missing' = 1..N
    BY <2>1, <1>1 DEF Missing
  <2>4. \A i \in Missing' : OnItsWay(p, i)'
    BY <2>2, <2>3, <1>0 DEF OnItsWay
  <2> QED BY <2>4 DEF LoadInv
<1>7. ASSUME NEW p \in TwinProcesses, Net!Break(p) \/ Net!RestartProcess(p) PROVE LoadInv'
  BY <1>7, <1>0 DEF Net!Break, Net!RestartProcess, LoadInv
<1> QED BY <1>3, <1>4, <1>5, <1>6, <1>7, InsertStep DEF Net!TwinNext

-----------------------------------------------------------------------------
(* TwinWhole (network_store.py, network_twin.py): unless a connection      *)
(* broke or a process died, the table is whole once nobody loads it, and   *)
(* what a process keeps in memory is the whole network or nothing.         *)
LEMMA InitTwin == SomeNetwork /\ Net!TwinInit => StoreTypeOK /\ LoadInv
BY DEF Net!TwinInit, StoreTypeOK, Net!TwinTypeOK, Steps, Net!Idle, LoadInv, Untouched, Inserting

LEMMA StepTwin ==
    ASSUME SomeNetwork, StoreTypeOK, LoadInv, [Net!TwinNext]_netvars
    PROVE  (StoreTypeOK /\ LoadInv)'
BY LoadTypes, LoadStep

LEMMA TwinHonest == SomeNetwork /\ StoreTypeOK /\ LoadInv => Net!TwinWhole
<1> SUFFICES ASSUME SomeNetwork, StoreTypeOK, LoadInv, Net!Loading = {}, breaks = 0, twinTable # {}
             PROVE  twinTable = Net!ElementIds
  BY DEF Net!TwinWhole, StoreTypeOK
<1>1. \A p \in TwinProcesses : loader[p] = <<>>
  BY DEF Net!Loading, Net!Idle
<1>2. \A p \in TwinProcesses, i \in Missing : ~OnItsWay(p, i)
  <2>1. \A k : <<>> # <<"insert", k>>
    OBVIOUS
  <2> QED BY <1>1, <2>1, Zenon DEF OnItsWay
<1>3. Missing = {}
  BY <1>2 DEF LoadInv, Untouched
<1>4. \A i \in 1..N : Net!LoadOrder[i] \in twinTable
  BY <1>3 DEF Missing
<1>5. Net!ElementIds \subseteq twinTable
  BY <1>4, OrderIsBijective
<1> QED BY <1>5 DEF StoreTypeOK, Net!TwinTypeOK

---------------------------------------------------------------------------
(***************************************************************************)
(* ModelQuality: the alert tracker.                                        *)
(***************************************************************************)
SomeWindow == Window \in Nat \ {0}
\* The window is the newest entries, in order; the index names the newest of
\* them under each identifier; an identifier recorded once is in one entry.
Oldest == Len(entries) - Len(window) + 1
TrackerTypes ==
    /\ entries \in Seq([id : AlertIds, verdict : Quality!Verdicts]) /\ window \in Seq(Nat)
    /\ recorded \in [AlertIds -> Nat] /\ DOMAIN index \subseteq AlertIds
    /\ Len(window) = IF Len(entries) < Window THEN Len(entries) ELSE Window
    /\ \A i \in 1..Len(window) : window[i] = Oldest + i - 1
Indexed(id) ==
    /\ index[id] \in Oldest..Len(entries) /\ entries[index[id]].id = id
    /\ \A k \in Oldest..Len(entries) : entries[k].id = id => k <= index[id]
Counted(id) ==
    /\ recorded[id] = 0 => \A k \in 1..Len(entries) : entries[k].id # id
    /\ recorded[id] = 1 =>
          /\ \A k, l \in 1..Len(entries) : entries[k].id = id /\ entries[l].id = id => k = l
          /\ \A k \in Oldest..Len(entries) : entries[k].id = id => id \in DOMAIN index
TrackerInv ==
    /\ TrackerTypes
    /\ \A id \in DOMAIN index : Indexed(id)
    /\ \A id \in AlertIds : Counted(id)

\* A sequence, index by index.
LEMMA SeqIs ==
    ASSUME NEW T, NEW f \in Seq(T)
    PROVE  /\ Len(f) \in Nat /\ DOMAIN f = 1..Len(f) /\ f = [k \in 1..Len(f) |-> f[k]]
           /\ \A k \in 1..Len(f) : f[k] \in T
           /\ f # <<>> => Head(f) = f[1]
           /\ \A g : (DOMAIN g = 1..Len(f) /\ g = [k \in 1..Len(f) |-> g[k]] /\ \A k \in 1..Len(f) : g[k] \in T)
                        => g \in Seq(T) /\ Len(g) = Len(f)
<1>1. /\ Len(f) \in Nat /\ DOMAIN f = 1..Len(f) /\ f = [k \in 1..Len(f) |-> f[k]]
      /\ \A k \in 1..Len(f) : f[k] \in T
      /\ f # <<>> => Head(f) = f[1]
  OBVIOUS
<1>2. ASSUME NEW n \in Nat, NEW g, g = [k \in 1..n |-> g[k]], \A k \in 1..n : g[k] \in T
      PROVE  g \in Seq(T) /\ Len(g) = n
  <2>1. g \in [1..n -> T] /\ DOMAIN g = 1..n
    BY <1>2
  <2> QED BY <2>1, <1>2
<1> QED BY <1>1, <1>2

LEMMA InitTracker == SomeWindow /\ Quality!TrackerInit => TrackerInv
<1> SUFFICES ASSUME SomeWindow, Quality!TrackerInit PROVE TrackerInv
  OBVIOUS
<1>1. /\ DOMAIN index = {} /\ Len(entries) = 0 /\ Len(window) = 0 /\ window \in Seq(Nat)
      /\ entries \in Seq([id : AlertIds, verdict : Quality!Verdicts]) /\ recorded \in [AlertIds -> Nat]
      /\ \A id \in AlertIds : recorded[id] = 0
  BY DEF Quality!TrackerInit
<1>2. TrackerTypes
  BY <1>1 DEF TrackerTypes, SomeWindow
<1>3. \A id \in AlertIds : Counted(id)
  BY <1>1 DEF Counted
<1> QED BY <1>1, <1>2, <1>3 DEF TrackerInv

LEMMA StepRecord ==
    ASSUME SomeWindow, TrackerInv, NEW id \in AlertIds, NEW verdict \in Quality!Verdicts,
        Quality!Record(id, verdict)
    PROVE  TrackerInv'
<1> DEFINE left == IF Len(window) = Window
                   THEN [i \in DOMAIN index \ {entries[Head(window)].id} |-> index[i]] ELSE index
<1>n. PICK n \in Nat, w \in Nat : n = Len(entries) /\ w = Len(window)
  BY DEF TrackerInv, TrackerTypes
<1>1. /\ entries' = Append(entries, [id |-> id, verdict |-> verdict])
      /\ recorded' = [recorded EXCEPT ![id] = @ + 1]
      /\ Len(entries') = n + 1
  BY <1>n DEF Quality!Record, TrackerInv, TrackerTypes
<1>2. /\ entries' \in Seq([id : AlertIds, verdict : Quality!Verdicts])
      /\ entries'[n + 1].id = id /\ \A k \in 1..n : entries'[k] = entries[k]
  BY <1>1, <1>n DEF TrackerInv, TrackerTypes
<1>3. /\ w = (IF n < Window THEN n ELSE Window) /\ w <= n /\ Window \in Nat \ {0}
      /\ \A i \in 1..w : window[i] = n - w + i
      /\ Oldest = n - w + 1
  <2>1. Oldest = n - w + 1
    BY <1>n DEF Oldest
  <2>2. w = (IF n < Window THEN n ELSE Window) /\ Window \in Nat \ {0}
    BY <1>n DEF TrackerInv, TrackerTypes, SomeWindow
  <2>3. \A i \in 1..w : window[i] = Oldest + i - 1
    BY <1>n DEF TrackerInv, TrackerTypes
  <2> QED BY <2>1, <2>2, <2>3
<1>4. /\ index' = [i \in DOMAIN left \cup {id} |-> IF i = id THEN n + 1 ELSE left[i]]
      /\ window' = Append(IF w = Window THEN Tail(window) ELSE window, n + 1)
  BY <1>1, <1>n DEF Quality!Record
<1>5. /\ window' \in Seq(Nat) /\ Len(window') = (IF w = Window THEN w ELSE w + 1)
      /\ \A i \in 1..Len(window') : window'[i] = (n + 1) - Len(window') + i
  <2>1. CASE w = Window
    <3>1. /\ Tail(window) \in Seq(Nat) /\ Len(Tail(window)) = w - 1
          /\ \A i \in 1..(w - 1) : Tail(window)[i] = window[i + 1]
      BY <1>n, <1>3, <2>1 DEF TrackerInv, TrackerTypes
    <3>2. window' = Append(Tail(window), n + 1)
      BY <1>4, <2>1
    <3>3. /\ window' \in Seq(Nat) /\ Len(window') = w /\ window'[w] = n + 1
          /\ \A i \in 1..(w - 1) : window'[i] = window[i + 1]
      BY <3>1, <3>2, <1>3, <2>1
    <3> QED BY <3>3, <1>3, <2>1
  <2>2. CASE w # Window
    <3>1. window \in Seq(Nat) /\ window' = Append(window, n + 1)
      BY <1>4, <2>2 DEF TrackerInv, TrackerTypes
    <3>2. /\ window' \in Seq(Nat) /\ Len(window') = w + 1 /\ window'[w + 1] = n + 1
          /\ \A i \in 1..w : window'[i] = window[i]
      BY <3>1, <1>n
    <3> QED BY <3>2, <1>3, <2>2
  <2> QED BY <2>1, <2>2
<1>6. /\ Oldest' = (n + 1) - Len(window') + 1
      /\ Oldest' = (IF w = Window THEN Oldest + 1 ELSE Oldest) /\ Oldest \in Nat /\ Oldest' \in Nat
  <2>1. Oldest' = (n + 1) - Len(window') + 1
    BY <1>1 DEF Oldest
  <2>2. Oldest' = (n + 1) - (IF w = Window THEN w ELSE w + 1) + 1
    BY <2>1, <1>5
  <2> QED BY <2>1, <2>2, <1>3
<1>7. /\ DOMAIN left = IF w = Window THEN DOMAIN index \ {entries[Oldest].id} ELSE DOMAIN index
      /\ \A i \in DOMAIN left : left[i] = index[i]
  <2>1. CASE w = Window
    <3>1. Head(window) = Oldest
      <4>1. Head(window) = window[1]
        <5>1. window \in Seq(Nat) /\ window # <<>>
          BY <1>n, <1>3, <2>1 DEF TrackerInv, TrackerTypes
        <5> QED BY <5>1, SeqIs
      <4>2. window[1] = n - w + 1
        BY <1>3, <2>1
      <4> QED BY <4>1, <4>2, <1>3
    <3> QED BY <2>1, <3>1, <1>n
  <2>2. CASE w # Window
    BY <2>2, <1>n
  <2> QED BY <2>1, <2>2
<1> HIDE DEF left
<1>8. /\ DOMAIN index' = DOMAIN left \cup {id} /\ index'[id] = n + 1
      /\ \A i \in DOMAIN left : i # id => index'[i] = index[i]
  BY <1>4, <1>7
<1>9. TrackerTypes'
  <2>1. recorded' \in [AlertIds -> Nat] /\ DOMAIN index' \subseteq AlertIds
    BY <1>1, <1>7, <1>8 DEF TrackerInv, TrackerTypes
  <2>2. Len(window') = IF Len(entries') < Window THEN Len(entries') ELSE Window
    BY <1>1, <1>3, <1>5
  <2>3. \A i \in 1..Len(window') : window'[i] = Oldest' + i - 1
    <3> DEFINE old == Oldest'
    <3>1. old = (n + 1) - Len(window') + 1 /\ old \in Nat
      BY <1>6
    <3> HIDE DEF old
    <3>2. \A i \in 1..Len(window') : window'[i] = old + i - 1
      <4>1. Len(window') \in Nat
        BY <1>5
      <4> QED BY <3>1, <4>1, <1>5
    <3> QED BY <3>2 DEF old
  <2> QED BY <1>2, <1>5, <2>1, <2>2, <2>3 DEF TrackerTypes
<1>10. ASSUME NEW i \in DOMAIN index' PROVE Indexed(i)'
  <2>1. CASE i = id
    BY <2>1, <1>1, <1>2, <1>3, <1>6, <1>8 DEF Indexed
  <2>2. CASE i # id
    <3>1. i \in DOMAIN left /\ i \in DOMAIN index /\ index'[i] = index[i] /\ Indexed(i)
      BY <2>2, <1>7, <1>8 DEF TrackerInv
    <3>2. index[i] \in Oldest..n /\ entries[index[i]].id = i
          /\ \A k \in Oldest..n : entries[k].id = i => k <= index[i]
      BY <3>1, <1>n DEF Indexed
    <3>3. index[i] \in Oldest'..n
      <4>1. w = Window => index[i] # Oldest
        BY <3>1, <3>2, <1>7
      <4> QED BY <4>1, <3>2, <1>6
    <3>4. entries'[index[i]].id = i
      BY <3>2, <1>2, <1>3
    <3>5. ASSUME NEW k \in Oldest'..(n + 1), entries'[k].id = i PROVE k <= index[i]
      <4>1. k # n + 1 /\ k \in 1..n /\ k \in Oldest..n
        <5>1. k # n + 1
          BY <3>5, <2>2, <1>2
        <5>2. Oldest' \in Nat /\ Oldest' >= 1 /\ Oldest' >= Oldest /\ Oldest \in Nat
          BY <1>3, <1>6
        <5> QED BY <5>1, <5>2, <3>5
      <4> QED BY <4>1, <3>2, <3>5, <1>2
    <3> QED BY <3>1, <3>3, <3>4, <3>5, <1>1, <1>6 DEF Indexed
  <2> QED BY <2>1, <2>2
<1>11. ASSUME NEW i \in AlertIds PROVE Counted(i)'
  <2>1. Counted(i) /\ recorded[i] \in Nat
    BY DEF TrackerInv, TrackerTypes
  <2>2. CASE i = id
    <3>1. recorded'[i] = recorded[i] + 1
      BY <2>2, <1>1 DEF TrackerInv, TrackerTypes
    <3>2. i \in DOMAIN index'
      BY <2>2, <1>8
    <3>3. ASSUME recorded'[i] = 1, NEW k \in 1..(n + 1), NEW l \in 1..(n + 1),
                 entries'[k].id = i, entries'[l].id = i
          PROVE  k = l
      <4>1. \A m \in 1..n : entries[m].id # i
        BY <3>1, <3>3, <2>1, <1>n DEF Counted
      <4> QED BY <4>1, <3>3, <1>2
    <3> QED BY <3>1, <3>2, <3>3, <2>1, <1>1 DEF Counted
  <2>3. CASE i # id
    <3>1. recorded'[i] = recorded[i]
      BY <2>3, <1>1 DEF TrackerInv, TrackerTypes
    <3>2. \A k \in 1..(n + 1) : entries'[k].id = i => k \in 1..n /\ entries[k].id = i
      BY <2>3, <1>2
    <3>3. ASSUME recorded[i] = 1, NEW k \in Oldest'..(n + 1), entries'[k].id = i PROVE i \in DOMAIN index'
      <4>1. k \in 1..n /\ entries[k].id = i /\ k \in Oldest..n /\ (w = Window => k # Oldest)
        BY <3>2, <3>3, <1>3, <1>6
      <4>2. i \in DOMAIN index
        BY <4>1, <3>3, <2>1, <1>n DEF Counted
      <4>3. w = Window => entries[Oldest].id # i
        <5>1. ASSUME w = Window, entries[Oldest].id = i PROVE FALSE
          <6>1. Oldest \in 1..n
            BY <1>3, <4>1
          <6> QED BY <6>1, <5>1, <4>1, <3>3, <2>1, <1>n DEF Counted
        <5> QED BY <5>1
      <4> QED BY <4>2, <4>3, <1>7, <1>8
    <3>4. recorded[i] = 0 => \A k \in 1..(n + 1) : entries'[k].id # i
      BY <3>2, <2>1, <1>n DEF Counted
    <3>5. recorded[i] = 1 => \A k, l \in 1..(n + 1) : entries'[k].id = i /\ entries'[l].id = i => k = l
      BY <3>2, <2>1, <1>n DEF Counted
    <3> QED BY <3>1, <3>3, <3>4, <3>5, <1>1 DEF Counted
  <2> QED BY <2>2, <2>3
<1> QED BY <1>9, <1>10, <1>11 DEF TrackerInv

LEMMA StepResolve ==
    ASSUME TrackerInv, NEW id \in AlertIds, NEW verdict \in Quality!Verdicts, Quality!Resolve(id, verdict)
    PROVE  TrackerInv'
<1>1. /\ id \in DOMAIN index /\ entries' = [entries EXCEPT ![index[id]].verdict = verdict]
      /\ UNCHANGED <<window, index, recorded>>
  BY DEF Quality!Resolve
<1>2. entries \in Seq([id : AlertIds, verdict : Quality!Verdicts])
  BY DEF TrackerInv, TrackerTypes
<1>3. /\ entries' \in Seq([id : AlertIds, verdict : Quality!Verdicts]) /\ Len(entries') = Len(entries)
      /\ \A k \in 1..Len(entries) : entries'[k].id = entries[k].id
  <2> DEFINE T == [id : AlertIds, verdict : Quality!Verdicts]
             e == entries
             j == index[id]
             f == [e EXCEPT ![j].verdict = verdict]
  <2>1. e \in Seq(T) /\ entries' = f
    BY <1>1, <1>2
  <2>2. \A x \in T : [x EXCEPT !.verdict = verdict] \in T /\ [x EXCEPT !.verdict = verdict].id = x.id
    OBVIOUS
  <2> HIDE DEF T, e, j
  <2>3. Len(e) \in Nat /\ DOMAIN e = 1..Len(e) /\ \A k \in 1..Len(e) : e[k] \in T
    BY <2>1, SeqIs
  <2>4. /\ DOMAIN f = 1..Len(e) /\ f = [k \in 1..Len(e) |-> f[k]]
        /\ \A k \in 1..Len(e) : f[k] = IF k = j THEN [e[k] EXCEPT !.verdict = verdict] ELSE e[k]
    BY <2>3
  <2>5. \A k \in 1..Len(e) : f[k] \in T /\ f[k].id = e[k].id
    BY <2>2, <2>3, <2>4
  <2> HIDE DEF f
  <2>6. f \in Seq(T) /\ Len(f) = Len(e)
    BY <2>1, <2>4, <2>5, SeqIs
  <2> QED BY <2>1, <2>5, <2>6 DEF T, e
<1>4. Oldest' = Oldest /\ Oldest \in Nat /\ Oldest >= 1 /\ Len(entries) \in Nat
  BY <1>1, <1>3 DEF Oldest, TrackerInv, TrackerTypes
<1>5. TrackerTypes'
  BY <1>1, <1>3, <1>4 DEF TrackerInv, TrackerTypes
<1>6. \A i \in DOMAIN index : Indexed(i)'
  BY <1>1, <1>3, <1>4 DEF TrackerInv, Indexed
<1>7. \A i \in AlertIds : Counted(i)'
  BY <1>1, <1>3, <1>4 DEF TrackerInv, Counted
<1> QED BY <1>1, <1>5, <1>6, <1>7 DEF TrackerInv

LEMMA StepTracker == SomeWindow /\ TrackerInv /\ [Quality!TrackerNext]_qualityvars => TrackerInv'
<1> SUFFICES ASSUME SomeWindow, TrackerInv, [Quality!TrackerNext]_qualityvars PROVE TrackerInv'
  OBVIOUS
<1>1. CASE Quality!TrackerNext
  BY <1>1, StepRecord, StepResolve DEF Quality!TrackerNext
<1>2. CASE UNCHANGED qualityvars
  <2>1. UNCHANGED <<entries, window, index, recorded>>
    BY <1>2 DEF qualityvars
  <2>2. TrackerTypes' /\ Oldest' = Oldest
    BY <2>1 DEF TrackerInv, TrackerTypes, Oldest
  <2>3. ASSUME NEW id \in DOMAIN index PROVE Indexed(id)'
    BY <2>1, <2>2 DEF TrackerInv, Indexed
  <2>4. ASSUME NEW id \in AlertIds PROVE Counted(id)'
    <3>1. Counted(id) /\ entries' = entries /\ recorded' = recorded
      BY <2>1 DEF TrackerInv
    <3>2. \A k : entries'[k] = entries[k] /\ Len(entries') = Len(entries)
      BY <3>1
    <3>3. recorded'[id] = recorded[id] /\ DOMAIN index' = DOMAIN index
      BY <2>1
    <3> QED BY <2>2, <3>1, <3>2, <3>3, Zenon DEF Counted
  <2> QED BY <2>1, <2>2, <2>3, <2>4 DEF TrackerInv
<1> QED BY <1>1, <1>2

LEMMA TrackerHonest == SomeWindow /\ TrackerInv => Quality!TrackerTrue
<1> SUFFICES ASSUME SomeWindow, TrackerInv PROVE Quality!TrackerTrue
  OBVIOUS
<1>1. /\ Len(window) \in Nat /\ Len(entries) \in Nat /\ Len(window) <= Len(entries)
      /\ Oldest = Len(entries) - Len(window) + 1 /\ DOMAIN window = 1..Len(window)
      /\ \A i \in 1..Len(window) : window[i] = Oldest + i - 1
      /\ \A i \in DOMAIN window : window[i] \in Oldest..Len(entries) /\ entries[window[i]].id \in AlertIds
  <2>1. /\ Len(window) \in Nat /\ Len(entries) \in Nat /\ Len(window) <= Len(entries)
        /\ DOMAIN window = 1..Len(window)
        /\ \A k \in 1..Len(entries) : entries[k] \in [id : AlertIds, verdict : Quality!Verdicts]
    <3>1. entries \in Seq([id : AlertIds, verdict : Quality!Verdicts]) /\ window \in Seq(Nat)
      BY DEF TrackerInv, TrackerTypes
    <3>2. /\ Len(window) \in Nat /\ Len(entries) \in Nat /\ DOMAIN window = 1..Len(window)
          /\ \A k \in 1..Len(entries) : entries[k] \in [id : AlertIds, verdict : Quality!Verdicts]
      BY <3>1, SeqIs
    <3>3. Len(window) <= Len(entries)
      BY <3>2 DEF TrackerInv, TrackerTypes, SomeWindow
    <3> QED BY <3>2, <3>3
  <2>2. Oldest = Len(entries) - Len(window) + 1
    BY DEF Oldest
  <2>3. \A i \in 1..Len(window) : window[i] = Oldest + i - 1
    BY DEF TrackerInv, TrackerTypes
  <2> DEFINE old == Oldest
             n == Len(entries)
             w == Len(window)
  <2> HIDE DEF old, n, w
  <2>4. \A i \in 1..w : window[i] \in old..n /\ window[i] \in 1..n
    BY <2>1, <2>2, <2>3 DEF old, n, w
  <2> QED BY <2>1, <2>2, <2>3, <2>4 DEF old, n, w
<1>2. ASSUME NEW id \in DOMAIN index
      PROVE  /\ \E i \in DOMAIN window : window[i] = index[id]
             /\ entries[index[id]].id = id
             /\ \A i \in DOMAIN window : entries[window[i]].id = id => window[i] <= index[id]
  <2>1. Indexed(id)
    BY DEF TrackerInv
  <2>2. index[id] - Oldest + 1 \in DOMAIN window /\ window[index[id] - Oldest + 1] = index[id]
    BY <2>1, <1>1 DEF Indexed
  <2> QED BY <2>1, <2>2, <1>1 DEF Indexed
<1>3. \A i \in DOMAIN window : recorded[entries[window[i]].id] = 1 => entries[window[i]].id \in DOMAIN index
  BY <1>1 DEF TrackerInv, Counted
<1>4. Len(window) = IF Len(entries) < Window THEN Len(entries) ELSE Window
  BY DEF TrackerInv, TrackerTypes
<1> QED BY <1>2, <1>3, <1>4 DEF Quality!TrackerTrue

---------------------------------------------------------------------------
(***************************************************************************)
(* The parts in Services: each starts as its own initial condition says,   *)
(* and a step of Services is a step of the part or leaves it alone.        *)
(***************************************************************************)
LEMMA JobsInputs == SomeTreatments /\ SomeBus
BY ServicesAssumption, InputsAssumption DEF SomeTreatments, Solvable, SomeBus

LEMMA WorkStarts == ServicesInit => WorkInv /\ CallInv /\ TreatInv /\ BusInv
BY InitInv, InitTreat, InitBus, JobsInputs DEF ServicesInit

\* A step of Services as the jobs, the treatments and the bus see it.
LEMMA StepOfWork ==
    ASSUME [ServicesNext]_servicevars
    PROVE  /\ [Sim!JobsNext]_simvars
           /\ [Treat!TreatmentNext]_treatmentvars
           /\ [Bus!BusNext]_busvars
BY DEF ServicesNext, servicevars, appvars, ApiStep, AuditStep, JobsStep, TreatmentStep, BusStep,
       TrainingStep, EdgeStep, TwinStep, TrackerStep, RoStep

\* What JobsForward says of a step.
JobsGoForward == Sim!Forward(file, file') /\ (up /\ up' => Sim!Forward(jobs, jobs'))

(* hydraulic-sim (main.py:52-76, jobstore.py:42-55) and its client         *)
(* (hydraulic_client.py:78-93): whatever the clients, the worker, a crash  *)
(* and a disk that refuses do, a completed job has its own result, the     *)
(* file is never ahead of the objects, an answer holds the results that    *)
(* were asked for, and no job goes back while the service stays up.        *)
THEOREM JobsAreSafe ==
    ServicesSpec => [](Sim!JobsTypeOK /\ Sim!JobsHonest) /\ Sim!JobsForward
<1>1. ServicesInit => WorkInv /\ CallInv
  BY WorkStarts
<1>2. WorkInv /\ CallInv /\ [ServicesNext]_servicevars
          => (WorkInv /\ CallInv)' /\ [JobsGoForward]_simvars
  BY StepOfWork, StepJobs DEF Good, JobsGoForward
<1>3. WorkInv /\ CallInv => Sim!JobsTypeOK /\ Sim!JobsHonest
  BY JobsTypes, JobsAreHonest
<1> QED BY <1>1, <1>2, <1>3, PTL DEF ServicesSpec, Sim!JobsForward, JobsGoForward, Sim!jvars, simvars

(* treatment-sim (engine.py:91-142, jobs.py:49-92): for any requests,      *)
(* retention and outages, a job that succeeded keeps what was asked, the   *)
(* cheapest admissible point where it optimizes, a job that is still held  *)
(* and not ended has a task, and a client never reads a status that is     *)
(* earlier than one it has read.                                           *)
THEOREM TreatmentsAreSafe ==
    ServicesSpec => [](Treat!TreatmentTypeOK /\ Treat!SolvedHonestly) /\ Treat!FetchesForward
<1>1. ServicesInit => TreatInv
  BY WorkStarts
<1>2. TreatInv /\ [ServicesNext]_servicevars => TreatInv' /\ [TreatForward]_treatmentvars
  BY StepOfWork, TreatStep, JobsInputs
<1>3. TreatInv => Treat!TreatmentTypeOK /\ Treat!SolvedHonestly
  BY TreatTypes, TreatHonest, JobsInputs
<1> QED BY <1>1, <1>2, <1>3, PTL
        DEF ServicesSpec, Treat!FetchesForward, TreatForward, Treat!tvars, treatmentvars

(* The event bus (bus.py:155-207): for any events, handlers and losses of  *)
(* the link, a handler sees an event at most once by each way and twice    *)
(* only after the wait for the broker was given up, and the counters tell  *)
(* how the publishes ended and what the handlers saw.                      *)
THEOREM BusIsAccounted ==
    ServicesSpec => [](Bus!BusTypeOK /\ Bus!BusAccounts)
<1>1. ServicesInit => BusInv
  BY WorkStarts
<1>2. BusInv /\ [ServicesNext]_servicevars => BusInv'
  BY StepOfWork, StepBus, JobsInputs
<1>3. BusInv => Bus!BusTypeOK /\ Bus!BusAccounts
  BY BusTypesHold, BusHonest, JobsInputs
<1> QED BY <1>1, <1>2, <1>3, PTL DEF ServicesSpec

LEMMA StateInputs == SomeDrills /\ SomeNetwork /\ SomeWindow
BY ServicesAssumption, InputsAssumption DEF SomeDrills, SomeNetwork, SomeWindow

LEMMA StateStarts == ServicesInit => DrillInv /\ StoreTypeOK /\ LoadInv /\ TrackerInv
BY InitDrill, InitTwin, InitTracker, StateInputs DEF ServicesInit

\* A step of Services as training, the network store and the tracker see it.
LEMMA StepOfState ==
    ASSUME [ServicesNext]_servicevars
    PROVE  /\ [Drill!TrainingNext]_drillvars
           /\ [Net!TwinNext]_netvars
           /\ [Quality!TrackerNext]_qualityvars
BY DEF ServicesNext, servicevars, appvars, ApiStep, AuditStep, JobsStep, TreatmentStep, BusStep,
       TrainingStep, EdgeStep, TwinStep, TrackerStep, RoStep

(* Training (training.py:624-744, main.py:2207-2354): for any requests and *)
(* captures, every record's score is that of its own actions, which are    *)
(* the first of its session's; between two resets a record stays as it was *)
(* written, a sandbox only grows, and a session's later record never       *)
(* scores less.                                                            *)
THEOREM TrainingIsSafe ==
    ServicesSpec => [](Drill!TrainingTypeOK /\ Drill!RecordsTrue) /\ Drill!RecordsKept
<1>1. ServicesInit => DrillInv
  BY StateStarts
<1>2. DrillInv /\ [ServicesNext]_servicevars => DrillInv' /\ [Kept]_drillvars
  BY StepOfState, DrillStep, StateInputs
<1>3. DrillInv => Drill!TrainingTypeOK /\ Drill!RecordsTrue
  BY DrillTypes, DrillTrue
<1> QED BY <1>1, <1>2, <1>3, PTL
        DEF ServicesSpec, Drill!RecordsKept, Kept, Drill!trainingvars, drillvars

(* The network store (network_store.py:127-165, network_twin.py:46-50):    *)
(* for any file and any number of processes that load it into each other,  *)
(* the table is whole once no load is under way and no connection broke,   *)
(* and what a process holds in memory is whole or nothing.                 *)
THEOREM TwinIsWhole ==
    ServicesSpec => [](Net!TwinTypeOK /\ Net!TwinWhole)
<1>1. ServicesInit => StoreTypeOK /\ LoadInv
  BY StateStarts
<1>2. (StoreTypeOK /\ LoadInv) /\ [ServicesNext]_servicevars => (StoreTypeOK /\ LoadInv)'
  BY StepOfState, StepTwin, StateInputs
<1>3. StoreTypeOK /\ LoadInv => Net!TwinTypeOK /\ Net!TwinWhole
  BY TwinHonest, StateInputs DEF StoreTypeOK
<1> QED BY <1>1, <1>2, <1>3, PTL DEF ServicesSpec

(* The alert tracker (false_alarm.py:70-75): for any window and order of   *)
(* alerts and outcomes, the index never names an entry that has left the   *)
(* window, names the newest of its identifier, and names one for every     *)
(* identifier of the window that was raised once.                          *)
THEOREM TrackerIsTrue ==
    ServicesSpec => []Quality!TrackerTrue
<1>1. ServicesInit => TrackerInv
  BY StateStarts
<1>2. TrackerInv /\ [ServicesNext]_servicevars => TrackerInv'
  BY StepOfState, StepTracker, StateInputs
<1>3. TrackerInv => Quality!TrackerTrue
  BY TrackerHonest, StateInputs
<1> QED BY <1>1, <1>2, <1>3, PTL DEF ServicesSpec
=============================================================================
