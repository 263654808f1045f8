------------------------------- MODULE Training -------------------------------
(***************************************************************************)
(* Operator training (watertwin-api app/training.py, main.py:2207-2331):   *)
(* a drill is injected into a session, a sandbox captures the operator's   *)
(* actions, a submit scores them into a record.  Requests run on threads   *)
(* of their own; the store's lock covers each of its methods, the audit    *)
(* event and the answer come after it, and an engineer's reset may come    *)
(* in between (main.py:2336-2354).                                         *)
(***************************************************************************)
EXTENDS Integers, Sequences, FiniteSets, SequencesExt

CONSTANTS
    Requests,      \* requests in flight
    Drills,        \* the scenario identifiers clients name
    Captures,      \* actions clients send: [kind, credits]
    MaxSessions, MaxActions, MaxRecords, MaxResets  \* bounds

VARIABLES sessions, sandboxes, records, trainingTrail, requests, opened, resets

trainingvars == <<sessions, sandboxes, records, trainingTrail, requests, opened, resets>>

\* The rubric of each drill: what is looked for, with its weight in tenths.
Rubrics ==
    [pumpDegradation |-> [diagnoseVibration |-> 20, efficiencyLoss |-> 10,
                          planMaintenance |-> 20, advisoryOnly |-> 10],
     leak |-> [detectLeak |-> 20, localise |-> 15, dispatchInspection |-> 20, advisoryOnly |-> 10],
     outage |-> [confirmGenerator |-> 15, loadShed |-> 15, protectCritical |-> 20,
                 advisoryOnly |-> 10],
     stormPowerLoss |-> [powerResponse |-> 15, protectMembranes |-> 20, sustainCritical |-> 15,
                         advisoryOnly |-> 10]]
\* What each injector puts before the operator: the assets read and the one
\* the drill is about.
Injected ==
    [pumpDegradation |-> [read |-> {"AST-HPP-01"}, affected |-> "AST-HPP-01"],
     leak |-> [read |-> {"NODE-J-D2", "AST-BOOST-01", "MTR-PRODUCT-01"}, affected |-> "NODE-J-D2"],
     outage |-> [read |-> {"BUS-MV-01", "GEN-001", "RO-TRAIN-001"}, affected |-> "BUS-MV-01"],
     stormPowerLoss |-> [read |-> {"MET-01", "BUS-MV-01", "AST-INTAKE-01", "GEN-001",
                                   "RO-TRAIN-001"}, affected |-> "RO-TRAIN-001"]]
ActionKinds == {"diagnosis", "action", "approval", "note"}

---------------------------------------------------------------------------
\* score_actions: an item is credited by an action's key or its words, both
\* the action's credits here.  The weights of some items add up to the number
\* of tenths that they have.
Heaviest == 20
Tenths(rubric, keys) == {tenth \in keys \X (1..Heaviest) : tenth[2] <= rubric[tenth[1]]}
WeightOf(rubric, keys) == Cardinality(Tenths(rubric, keys))
Matched(rubric, actions) ==
    {k \in DOMAIN rubric : \E i \in DOMAIN actions : k \in actions[i].credits}
\* In tenths of a per cent, rounded as round(x, 1) does.
Percentages == 0..1000
Percentage(awarded, all) == IF all > 0 THEN (2000 * awarded + all) \div (2 * all) ELSE 0
BandFor(percentage) ==
    IF percentage >= 900 THEN "Exemplary"
    ELSE IF percentage >= 700 THEN "Proficient"
    ELSE IF percentage >= 450 THEN "Developing" ELSE "Needs Review"
ScoreActions(drill, actions) ==
    LET rubric == Rubrics[drill]
        percentage == Percentage(WeightOf(rubric, Matched(rubric, actions)),
                                 WeightOf(rubric, DOMAIN rubric))
    IN [percentage |-> percentage, band |-> BandFor(percentage), passed |-> percentage >= 700]

---------------------------------------------------------------------------
(* TrainingStore's methods, each under the lock.                           *)
Known(s) == s \in DOMAIN sessions
With(store, s, value) == [t \in DOMAIN store \cup {s} |-> IF t = s THEN value ELSE store[t]]
OpenSession(s, drill) ==
    /\ sessions' = With(sessions, s, [drill |-> drill, status |-> "in_progress", actions |-> <<>>])
    /\ sandboxes' = With(sandboxes, s, <<>>)
\* The sandbox appends, the session takes a copy of the list; a session that
\* was scored is captured into all the same.
RecordAction(s, action) ==
    LET all == Append(sandboxes[s], action)
    IN /\ sandboxes' = [sandboxes EXCEPT ![s] = all]
       /\ sessions' = [sessions EXCEPT ![s].actions = all]
BuildRecord(s) ==
    [session |-> s, drill |-> sessions[s].drill, actions |-> sessions[s].actions,
     score |-> ScoreActions(sessions[s].drill, sessions[s].actions)]
\* A record of the session as it is, each time it is asked for.
ScoreSession(s) ==
    /\ records' = Append(records, BuildRecord(s))
    /\ sessions' = [sessions EXCEPT ![s].status = "scored"]

---------------------------------------------------------------------------
Free == [op |-> "free", on |-> 0, answer |-> "none"]
Request(r, op, on) == requests' = [requests EXCEPT ![r] = [op |-> op, on |-> on, answer |-> "none"]]
Answer(r, answer) == requests' = [requests EXCEPT ![r] = [Free EXCEPT !.answer = answer]]
Audit(kind, subject) == trainingTrail' = Append(trainingTrail, [kind |-> kind, subject |-> subject])

\* training_start_session: inject and open, then audit and answer.
StartSession(r, drill) ==
    /\ requests[r].op = "free"
    /\ IF drill \notin DOMAIN Rubrics
       THEN Answer(r, "unknown scenario") /\ UNCHANGED <<sessions, sandboxes, opened>>
       ELSE /\ opened < MaxSessions /\ opened' = opened + 1
            /\ OpenSession(opened', drill)
            /\ Request(r, "started", opened')
    /\ UNCHANGED <<records, trainingTrail, resets>>

\* training_capture_action.
CaptureAction(r, s, action) ==
    /\ requests[r].op = "free"
    /\ IF action.kind \notin ActionKinds
       THEN Answer(r, "unknown kind") /\ UNCHANGED <<sessions, sandboxes>>
       ELSE IF ~Known(s)
       THEN Answer(r, "unknown session") /\ UNCHANGED <<sessions, sandboxes>>
       ELSE /\ Len(sandboxes[s]) < MaxActions
            /\ RecordAction(s, action)
            /\ Request(r, "captured", s)
    /\ UNCHANGED <<records, trainingTrail, opened, resets>>

\* training_submit_session.
SubmitSession(r, s) ==
    /\ requests[r].op = "free"
    /\ IF ~Known(s)
       THEN Answer(r, "unknown session") /\ UNCHANGED <<sessions, records>>
       ELSE /\ Len(records) < MaxRecords
            /\ ScoreSession(s)
            /\ Request(r, "scored", s)
    /\ UNCHANGED <<sandboxes, trainingTrail, opened, resets>>

\* The second half of each handler: the audit event, then the answer, which
\* for a captured action needs a session that a reset may have removed.
Finish(r) ==
    /\ requests[r].op \in {"started", "captured", "scored"}
    /\ Audit(requests[r].op, requests[r].on)
    /\ Answer(r, IF requests[r].op = "captured" /\ ~Known(requests[r].on) THEN "error" ELSE "ok")
    /\ UNCHANGED <<sessions, sandboxes, records, opened, resets>>

ResetTraining ==
    /\ resets < MaxResets /\ resets' = resets + 1
    /\ sessions' = <<>> /\ sandboxes' = <<>> /\ records' = <<>> /\ trainingTrail' = <<>>
    /\ UNCHANGED <<requests, opened>>

TrainingInit ==
    /\ sessions = <<>> /\ sandboxes = <<>> /\ records = <<>> /\ trainingTrail = <<>>
    /\ requests = [r \in Requests |-> Free]
    /\ opened = 0 /\ resets = 0
TrainingNext ==
    \/ \E r \in Requests :
           \/ \E drill \in Drills : StartSession(r, drill)
           \/ \E s \in 1..MaxSessions :
                  SubmitSession(r, s) \/ \E action \in Captures : CaptureAction(r, s, action)
           \/ Finish(r)
    \/ ResetTraining

TrainingTypeOK ==
    /\ DOMAIN sessions = DOMAIN sandboxes /\ DOMAIN sessions \subseteq 1..opened
    /\ opened <= MaxSessions /\ resets <= MaxResets
    /\ \A s \in DOMAIN sessions : sessions[s].status \in {"in_progress", "scored"}
    /\ \A r \in Requests : requests[r].op \in {"free", "started", "captured", "scored"}

---------------------------------------------------------------------------
(* A record says what it was scored on: its score is that of its own       *)
(* actions, which are the session's first actions though the session goes  *)
(* on after it; a pass is a band of Proficient or better; and a session    *)
(* counts as scored exactly when a record of it exists (training.py:624-   *)
(* 690, 715-744).                                                          *)
RecordsTrue ==
    /\ \A i \in DOMAIN records :
           LET record == records[i]
           IN /\ record.score = ScoreActions(record.drill, record.actions)
              /\ record.score.passed <=> record.score.band \in {"Exemplary", "Proficient"}
              /\ record.score.percentage \in Percentages
              /\ Known(record.session) /\ IsPrefix(record.actions, sandboxes[record.session])
    /\ \A s \in DOMAIN sessions :
           /\ sessions[s].actions = sandboxes[s]
           /\ (sessions[s].status = "scored") <=> \E i \in DOMAIN records : records[i].session = s
           /\ Injected[sessions[s].drill].affected \in Injected[sessions[s].drill].read

(* Nothing but a reset changes a record or takes an action back, and a     *)
(* later record of the same session never scores lower.                    *)
RecordsKept ==
    [][resets' = resets =>
          /\ \A i \in DOMAIN records : i \in DOMAIN records' /\ records'[i] = records[i]
          /\ \A s \in DOMAIN sandboxes : IsPrefix(sandboxes[s], sandboxes'[s])
          /\ \A i \in DOMAIN records, j \in DOMAIN records' :
                records[i].session = records'[j].session /\ i < j =>
                    records[i].score.percentage <= records'[j].score.percentage]_trainingvars
=============================================================================
