----------------------------- MODULE Collector -----------------------------
(***************************************************************************)
(* The collection loop of the edge gateway (collector.py): read, check,    *)
(* stamp, buffer, push; and the API's view of the newest readings that the *)
(* pushes feed (main.py of watertwin-api).                                 *)
(*                                                                         *)
(* The loop is one thread.  A push may time out: the server thread still   *)
(* serves the request later, possibly after the rows were pushed again and *)
(* others after them.  Provenance, quality flags other than "not a finite  *)
(* number", and the health snapshot are left out.                          *)
(***************************************************************************)
EXTENDS EdgeBuffer, Sequences

CONSTANTS
    Signals,        \* readings per poll, one per signal
    MaxReadings,    \* bound: readings collected
    Now,            \* wall-clock readings; the clock may step backwards
    MaxBoots,       \* bound: starts of the process
    MaxLate,        \* bound: abandoned requests the server still serves
    Endpoint        \* the route of the API that INGEST_PATH names:
                    \* "gateway" takes these pushes, "batch" demands a batch_id

ASSUME CollectorAssumption ==
    /\ Signals \in Nat \ {0} /\ Now \subseteq Nat \ {0} /\ MaxBoots \in Nat \ {0}
    /\ Endpoint \in {"gateway", "batch"}

VARIABLES
    loop,       \* what the loop does next
    sent,       \* the rows of the push in progress
    last,       \* MonotonicClock._last, 0 for none
    source,     \* the resolved source: "none", "real" or "synthetic"
    late,       \* abandoned pushes the server has yet to serve
    accepted,   \* history: rows the API accepted
    view        \* API memory: the row shown for each signal, 0 for none

edgeVars == <<rows, outbox, key, boot, loop, sent, last, source>>
vars == <<edgeVars, late, accepted, view>>

SignalOf(i) == ((i - 1) % Signals) + 1

TypeOK ==
    /\ rows \in Seq(Row)
    /\ outbox \subseteq DOMAIN rows
    /\ boot \in 1 .. MaxBoots
    /\ loop \in {"collect", "trim", "flush", "waiting",
                "answered", "refused", "failed", "down"}
    /\ sent \subseteq DOMAIN rows
    /\ (sent # {}) = (loop \in {"waiting", "answered", "refused", "failed"})
    /\ last \in Nat
    /\ source \in {"none", "real", "synthetic"}
    /\ late \subseteq SUBSET DOMAIN rows
    /\ accepted \subseteq DOMAIN rows
    /\ \A s \in 1 .. Signals : view[s] # 0 => view[s] \in accepted /\ SignalOf(view[s]) = s

Init ==
    /\ rows = <<>> /\ outbox = {}
    /\ key \in {"configured", "ephemeral"}
    /\ boot = 1
    /\ loop = "collect" /\ sent = {}
    /\ last = 0 /\ source = "none"
    /\ late = {} /\ accepted = {}
    /\ view = [s \in 1 .. Signals |-> 0]

-----------------------------------------------------------------------------
(* Seeded fault: an equal reading of the clock is taken as it is.          *)
LaxStamp(now, prev) == IF now < prev THEN prev + 1 ELSE now

(* MonotonicClock.stamp: a clock that did not advance is nudged past the   *)
(* last stamp.                                                             *)
Stamp(now, prev) == IF now <= prev THEN prev + 1 ELSE now

(* The stamps of one poll: each reading is stamped after the one before it.*)
StampRange == {n + k : n \in Now \cup {last}, k \in 0 .. Signals}

Stamped(clock, stamps) ==
    \A k \in 1 .. Signals : stamps[k] = Stamp(clock[k], IF k = 1 THEN last ELSE stamps[k - 1])

(* The source a cycle ends up reading.  A real one must not have been given*)
(* up: once resolved to synthetic, which never fails, nothing resolves     *)
(* again.                                                                  *)
ReadsFrom(s) == s = "synthetic" \/ source # "synthetic"

(* collect_once up to the commit of append_many.                           *)
Collect(s) ==
    /\ loop = "collect"
    /\ ReadsFrom(s)
    /\ Len(rows) + Signals <= MaxReadings
    /\ \E clock \in [1 .. Signals -> Now], stamps \in [1 .. Signals -> StampRange] :
        /\ Stamped(clock, stamps)
        /\ last' = stamps[Signals]
        /\ \E values \in [1 .. Signals -> {"finite", "nonfinite"}] :
            rows' = rows \o [k \in 1 .. Signals |->
                               [stamp |-> stamps[k], value |-> values[k], boot |-> boot]]
    /\ outbox' = outbox \cup (DOMAIN rows' \ DOMAIN rows)
    /\ source' = s
    /\ loop' = "trim"
    /\ UNCHANGED <<key, boot, sent, late, accepted, view>>

(* Nothing to buffer: the real source failed, was resolved again and failed*)
(* again, or it had no readings.                                           *)
CollectNothing(s) ==
    /\ loop = "collect"
    /\ ReadsFrom(s)
    /\ source' = s
    /\ loop' = "flush"
    /\ UNCHANGED <<rows, outbox, key, boot, sent, last, late, accepted, view>>

(* The rows past the cap go in a transaction of their own.                 *)
Trim ==
    /\ loop = "trim"
    /\ outbox' = outbox \ Overflow
    /\ loop' = "flush"
    /\ UNCHANGED <<rows, key, boot, sent, last, source, late, accepted, view>>

-----------------------------------------------------------------------------
(* flush_once up to the post.  Rows at the head that cannot be decrypted   *)
(* are deleted.  A value that is not a finite number cannot be written as  *)
(* JSON: the client refuses the whole push (httpx, external).              *)
Flush ==
    /\ loop = "flush"
    /\ outbox' = outbox \ {i \in Pending : ~Readable(i)}
    /\ LET batch == {i \in Pending : Readable(i)}
       IN IF batch # {} /\ \A i \in batch : rows[i].value = "finite"
            THEN loop' = "waiting" /\ sent' = batch
            ELSE loop' = "collect" /\ sent' = {}
    /\ UNCHANGED <<rows, key, boot, last, source, late, accepted, view>>

(* Seeded fault: the newest row of the push, whatever signal it is of.     *)
NewestOfAll(batch, s) == {i \in batch : \A j \in batch : j <= i}

NewestOf(batch, s) == {i \in batch : SignalOf(i) = s /\ \A j \in batch : SignalOf(j) = s => j <= i}

(* ingest_gateway_telemetry: under its lock, each reading of the push      *)
(* replaces the one shown for its signal, so the last one stays.           *)
Accept(batch) ==
    /\ accepted' = accepted \cup batch
    /\ view' = [s \in 1 .. Signals |->
                  IF NewestOf(batch, s) = {} THEN view[s] ELSE CHOOSE i \in NewestOf(batch, s) : TRUE]

Serve ==
    /\ loop = "waiting"
    /\ IF Endpoint = "gateway"
         THEN Accept(sent) /\ loop' = "answered"
         ELSE loop' = "refused" /\ UNCHANGED <<accepted, view>>
    /\ UNCHANGED <<rows, outbox, key, boot, sent, last, source, late>>

(* The server gets to a request whose client has left.                     *)
ServeLate(batch) ==
    /\ batch \in late
    /\ late' = late \ {batch}
    /\ IF Endpoint = "gateway" THEN Accept(batch) ELSE UNCHANGED <<accepted, view>>
    /\ UNCHANGED edgeVars

(* Seeded fault: the rows are deleted whatever the answer was.             *)
AckAlways == outbox' = outbox \ sent

(* Seeded fault: a confirmed push is not acknowledged.                     *)
NeverAck == UNCHANGED outbox

(* Only a 2xx acknowledges the rows.                                       *)
AckConfirmed == outbox' = IF loop = "answered" THEN outbox \ sent ELSE outbox

EndCycle ==
    /\ loop \in {"answered", "refused", "failed"}
    /\ AckConfirmed
    /\ loop' = "collect" /\ sent' = {}
    /\ UNCHANGED <<rows, key, boot, last, source, late, accepted, view>>

-----------------------------------------------------------------------------
(* A client that leaves before the answer may leave a request behind.      *)
Abandon ==
    \/ UNCHANGED late
    \/ loop = "waiting" /\ Cardinality(late) < MaxLate /\ late' = late \cup {sent}

(* No connection, a timeout or a lost answer: ForwardResult(ok=False).     *)
PushFails ==
    /\ loop \in {"waiting", "answered"}
    /\ Abandon
    /\ loop' = "failed"
    /\ UNCHANGED <<rows, outbox, key, boot, sent, last, source, accepted, view>>

Crash ==
    /\ loop # "down"
    /\ boot < MaxBoots
    /\ Abandon
    /\ loop' = "down" /\ sent' = {}
    /\ UNCHANGED <<rows, outbox, key, boot, last, source, accepted, view>>

Restart ==
    /\ loop = "down"
    /\ boot' = boot + 1
    /\ loop' = "collect"
    /\ last' = 0 /\ source' = "none"
    /\ UNCHANGED <<rows, outbox, key, sent, late, accepted, view>>

(* The API restarts: the view is gone, requests and answers under way too. *)
ApiRestart ==
    /\ view' = [s \in 1 .. Signals |-> 0]
    /\ late' = {}
    /\ loop' = IF loop \in {"waiting", "answered"} THEN "failed" ELSE loop
    /\ UNCHANGED <<rows, outbox, key, boot, sent, last, source, accepted>>

-----------------------------------------------------------------------------
Cycle ==
    \/ \E s \in {"real", "synthetic"} : Collect(s) \/ CollectNothing(s)
    \/ Trim \/ Flush \/ EndCycle

Fault == PushFails \/ Crash \/ ApiRestart

Next == Cycle \/ Serve \/ Restart \/ Fault \/ \E batch \in late : ServeLate(batch)

Spec == Init /\ [][Next]_vars

(* run_forever never ends, the server serves, the runtime restarts the     *)
(* container.                                                              *)
FairSpec == Spec /\ WF_vars(Cycle) /\ WF_vars(Serve) /\ WF_vars(Restart)

-----------------------------------------------------------------------------
(* Rows reach the API oldest first and without gaps: whatever timed out,   *)
(* was served late or pushed again, no row still in the buffer was passed  *)
(* over by a newer one.                                                    *)
NoGaps ==
    \A i \in accepted, j \in outbox : j < i => j \in accepted

(* A row leaves the buffer for one of three reasons only: the API accepted *)
(* it, it cannot be decrypted, or as many newer rows as the cap wait.      *)
LeavesForCause ==
    [][\A i \in outbox \ outbox' :
         \/ i \in accepted
         \/ ~Readable(i)
         \/ MaxRows > 0 /\ Cardinality({j \in outbox : j > i}) >= MaxRows]_vars

(* The cap holds up to one poll per start of the process: a crash between  *)
(* the commit of the rows and the trim leaves a surplus, trimmed later.    *)
BufferBounded ==
    MaxRows > 0 => Cardinality(outbox) <= MaxRows + boot * Signals

(* Between two starts, stamps strictly increase in the order of collection,*)
(* although the wall clock may stand still or step backwards.              *)
StampsFollowCollection ==
    \A i, j \in DOMAIN rows :
        i < j /\ rows[i].boot = rows[j].boot => rows[i].stamp < rows[j].stamp

(* The view goes back to an older reading only when the server gets to a   *)
(* request whose client has left (or starts afresh).                       *)
ViewNewest ==
    [][\A s \in 1 .. Signals :
         view'[s] < view[s] => ApiRestart \/ \E batch \in late : ServeLate(batch)]_vars

(* Once faults cease, every buffered row leaves the buffer, unless a       *)
(* reading that is not a finite number is buffered.                        *)
Blocked == \E i \in outbox : rows[i].value = "nonfinite"

BufferDrains ==
    <>[][~Fault]_vars =>
        \A i \in 1 .. MaxReadings : i \in outbox ~> i \notin outbox \/ Blocked
=============================================================================
