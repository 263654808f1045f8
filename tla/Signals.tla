-------------------------------- MODULE Signals --------------------------------
(***************************************************************************)
(* What happens to a reading before it is buffered at the edge: a source   *)
(* is chosen and read (packages/ot_ingestion), raw values are put on the   *)
(* tag map, converted and given a quality flag (edge-gateway quality.py,   *)
(* conversions.py), and the health of the source and of the push is kept   *)
(* (health.py).  The buffer itself is EdgeBuffer's; here it is a number.   *)
(* Values are in thousandths of their unit.                                *)
(***************************************************************************)
EXTENDS Integers, Sequences, FiniteSets, FiniteSetsExt, SequencesExt, TLC

CONSTANTS
    Configs,       \* the configurations a gateway is started with (OT_*)
    DeviceReads,   \* source kind -> what a read of the device or server finds
    Ranges,        \* metric -> [lo, hi]
    FrozenLimit, Deadband, BufferCap,
    MaxReads, MaxPushes    \* bounds

VARIABLES config, resolution, monitor, health, flagged, depth, pushed, history, pushes
signalvars == <<config, resolution, monitor, health, flagged, depth, pushed, history, pushes>>

SourceKinds == {"synthetic", "opcua", "modbus", "historian"}
Number(v) == [is |-> "number", v |-> v]
NonFinite == [is |-> "nan", v |-> 0]
Text == [is |-> "text", v |-> 0]

\* SelectSeq in closed form: the elements that pass, in their order.
Passing(s, Test(_)) == {i \in DOMAIN s : Test(s[i])}
Nth(S, k) == CHOOSE i \in S : Cardinality({j \in S : j <= i}) = k
Filter(s, Test(_)) ==
    LET kept == Passing(s, Test)
    IN [k \in 1..Cardinality(kept) |-> s[Nth(kept, k)]]

---------------------------------------------------------------------------
(* ot_ingestion: the tag map and its use.                                  *)
RequiredFields == {"asset_id", "metric", "unit"}
\* A document is refused as a whole for one bad entry.
ValidTagMap(doc) ==
    /\ doc.provenance \in {"measured", "synthetic", "simulated", "calculated"}
    /\ DOMAIN doc.tags # {}
    /\ \A t \in DOMAIN doc.tags : RequiredFields \subseteq DOMAIN doc.tags[t]
\* A scale or an offset that is not given is 1 or 0.
FactorOf(entry, field, default) == IF field \in DOMAIN entry THEN entry[field] ELSE default
Mapped(raw) ==
    LET entry == config.tagMap.tags[raw.tag]
    IN [asset |-> entry.asset_id, metric |-> entry.metric, unit |-> entry.unit, stale |-> raw.stale,
        value |-> Number(raw.value.v * FactorOf(entry, "scale", 1) + FactorOf(entry, "offset", 0))]
Rejection(raw) ==
    CASE raw.tag \notin DOMAIN config.tagMap.tags -> "unmapped tag"
      [] raw.value.is = "text" -> "non-numeric value"
      [] raw.value.is = "nan" -> "non-finite value"
      [] OTHER -> "none"
Normalize(raws) ==
    LET kept == Filter(raws, LAMBDA r : Rejection(r) = "none")
    IN [i \in DOMAIN kept |-> Mapped(kept[i])]

\* A Modbus read takes the first word or bit of each register it asks for,
\* and one error fails the batch.
ModbusValue(register) ==
    IF register.kind \in {"coil", "discrete"}
    THEN IF register.words # <<>> /\ Head(register.words) # 0 THEN 1 ELSE 0
    ELSE Head(register.words)
ModbusFails(registers) ==
    \E r \in Range(registers) : r.error \/ (r.kind \in {"holding", "input"} /\ r.words = <<>>)
ModbusRead(registers) ==
    [i \in DOMAIN registers |-> [tag |-> registers[i].tag, value |-> Number(ModbusValue(registers[i])),
                                 stale |-> FALSE]]
\* A historian's rows: by tag or customer_tag, a row without either is left
\* out; SQL runs only what starts as a SELECT.
HistorianRows(rows) ==
    LET named == Filter(rows, LAMBDA r : {r.tag, r.customer_tag} # {"none"})
    IN [i \in DOMAIN named |->
           [tag |-> IF named[i].tag # "none" THEN named[i].tag ELSE named[i].customer_tag,
            value |-> named[i].value, stale |-> named[i].stale]]
HistorianBuilds ==
    /\ config.access \in {"csv", "rest", "sql"}
    /\ config.access = "sql" => config.query \in {"select", "with"}
Builds == /\ ValidTagMap(config.tagMap)
          /\ config.requested = "historian" => HistorianBuilds
ReadsFail(found) == config.requested = "modbus" /\ ModbusFails(found)
RawOf(found) == CASE config.requested = "modbus" -> ModbusRead(found)
                  [] config.requested = "historian" -> HistorianRows(found)
                  [] OTHER -> found

\* resolve_source: the requested source when it can be built and probed, the
\* simulated plant, which always can, in its place otherwise.
Resolved(available) ==
    IF config.requested = "synthetic"
       \/ (config.requested \in SourceKinds /\ Builds /\ available)
    THEN [active |-> config.requested, fallback |-> FALSE]
    ELSE [active |-> "synthetic", fallback |-> TRUE]
Unresolved == [active |-> "none", fallback |-> FALSE]
SyntheticRead == <<[asset |-> "AST-CF-01", metric |-> "dp_bar", unit |-> "bar", stale |-> FALSE,
                    value |-> Number(570)]>>

---------------------------------------------------------------------------
(* conversions.py: canonical = raw * mul / div + off, in thousandths.      *)
Conversions ==
    [degf |-> [to |-> "degC", mul |-> 5, div |-> 9, off |-> -17778],
     f |-> [to |-> "degC", mul |-> 5, div |-> 9, off |-> -17778],
     fahrenheit |-> [to |-> "degC", mul |-> 5, div |-> 9, off |-> -17778],
     k |-> [to |-> "degC", mul |-> 1, div |-> 1, off |-> -273150],
     kelvin |-> [to |-> "degC", mul |-> 1, div |-> 1, off |-> -273150],
     kpa |-> [to |-> "bar", mul |-> 1, div |-> 100, off |-> 0],
     pa |-> [to |-> "bar", mul |-> 1, div |-> 100000, off |-> 0],
     mbar |-> [to |-> "bar", mul |-> 1, div |-> 1000, off |-> 0],
     psi |-> [to |-> "bar", mul |-> 689476, div |-> 10000000, off |-> 0],
     lmin |-> [to |-> "m3/h", mul |-> 6, div |-> 100, off |-> 0],
     lpm |-> [to |-> "m3/h", mul |-> 6, div |-> 100, off |-> 0]]
ToCanonical(reading) ==
    IF reading.unit \notin DOMAIN Conversions THEN reading
    ELSE LET c == Conversions[reading.unit]
         IN [reading EXCEPT !.unit = c.to, !.value.v = (@ * c.mul) \div c.div + c.off]

---------------------------------------------------------------------------
(* QualityMonitor.evaluate.                                                *)
NoState == [last |-> NonFinite, repeats |-> 0]
Key(reading) == <<reading.asset, reading.metric>>
StateOf(m, key) == IF key \in DOMAIN m THEN m[key] ELSE NoState
\* Seeded fault: the count of repeats is never started again.
RememberAlways(state, v) == [last |-> Number(v), repeats |-> state.repeats + 1]
Remember(state, v) ==
    [last |-> Number(v),
     repeats |-> IF state.last = Number(v) THEN state.repeats + 1 ELSE 1]
OutOfRange(reading) ==
    /\ reading.metric \in DOMAIN Ranges
    /\ ~(Ranges[reading.metric].lo <= reading.value.v /\ reading.value.v <= Ranges[reading.metric].hi)
Distance(a, b) == IF a > b THEN a - b ELSE b - a
Barely(state, v) ==
    /\ state.last.is = "number" /\ v # state.last.v
    /\ Deadband > 0 /\ Distance(v, state.last.v) <= Deadband
Flag(reading, state) ==
    CASE reading.value.is = "nan" -> "non_finite"
      [] OutOfRange(reading) -> "out_of_range"
      [] reading.stale -> "stale"
      [] Remember(state, reading.value.v).repeats >= FrozenLimit -> "frozen"
      [] Barely(state, reading.value.v) -> "deadband"
      [] OTHER -> "good"
\* The batch in order: each reading's flag with the state the ones before it
\* left; a value that is no number leaves none.
Learn(m, reading) ==
    IF reading.value.is = "nan" THEN m
    ELSE [key \in DOMAIN m \cup {Key(reading)} |->
              IF key = Key(reading) THEN Remember(StateOf(m, key), reading.value.v) ELSE m[key]]
\* The memory after the first n readings of a batch.
Learned(m, readings) ==
    LET learned[n \in 0..Len(readings)] ==
          IF n = 0 THEN m ELSE Learn(learned[n - 1], readings[n])
    IN learned
Flags(m, readings) ==
    [i \in DOMAIN readings |->
        [of |-> readings[i],
         flag |-> Flag(readings[i], StateOf(Learned(m, readings)[i - 1], Key(readings[i])))]]

---------------------------------------------------------------------------
(* SourceHealth.                                                           *)
ReadSucceeded(h) == [h EXCEPT !.readFailures = 0, !.reads = @ + 1]
ReadFailed(h) == [h EXCEPT !.readFailures = @ + 1]
Status(h, r) ==
    IF h.readFailures > 0 /\ ~r.fallback THEN "down"
    ELSE IF r.fallback \/ h.pushFailures > 0 THEN "degraded" ELSE "healthy"
Snapshot == [status |-> Status(health, resolution), active |-> resolution.active,
             fallback |-> resolution.fallback, depth |-> depth]

(* collect_once, after the source was read.                                *)
Buffer(readings, h) ==
    LET canonical == [i \in DOMAIN readings |-> ToCanonical(readings[i])]
    IN /\ monitor' = Learned(monitor, canonical)[Len(canonical)] /\ flagged' = Flags(monitor, canonical)
       /\ history' = history \o canonical
       /\ depth' = Min({BufferCap, depth + Len(readings)})
       /\ health' = ReadSucceeded(h)
\* What a source returns: the simulated plant's telemetry, or the tag map's
\* view of what the real one was read to hold.
Batches(r) ==
    IF r.active = "synthetic" THEN {SyntheticRead}
    ELSE {Normalize(RawOf(found)) : found \in {d \in DeviceReads[r.active] : ~ReadsFail(d)}}
Ensured(available) == IF resolution = Unresolved THEN Resolved(available) ELSE resolution

Collect ==
    /\ health.reads < MaxReads
    /\ \E available \in BOOLEAN :
           /\ resolution' = Ensured(available)
           /\ \E readings \in Batches(resolution') : Buffer(readings, health)
    /\ UNCHANGED <<config, pushed, pushes>>
\* The read fails, the source is resolved again and read again.
CollectAgain ==
    /\ health.reads < MaxReads
    /\ \E available, again \in BOOLEAN :
           /\ Ensured(available).active # "synthetic"
           /\ resolution' = Resolved(again)
           /\ \E readings \in Batches(resolution') : Buffer(readings, ReadFailed(health))
    /\ UNCHANGED <<config, pushed, pushes>>
\* Both reads fail: nothing is buffered.
CollectNothing ==
    /\ health.readFailures < MaxReads
    /\ \E available \in BOOLEAN : Ensured(available).active # "synthetic"
    /\ resolution' = Resolved(TRUE)
    /\ health' = ReadFailed(ReadFailed(health))
    /\ UNCHANGED <<config, monitor, flagged, depth, pushed, history, pushes>>

\* flush_once: the push takes the health of now, whatever its rows came from.
Push(ok) ==
    /\ resolution # Unresolved /\ depth > 0 /\ pushes < MaxPushes
    /\ pushed' = Snapshot /\ pushes' = pushes + 1
    /\ IF ok THEN \E left \in 0..(depth - 1) : depth' = left
             ELSE depth' = depth
    /\ health' = [health EXCEPT !.pushFailures = IF ok THEN 0 ELSE @ + 1]
    /\ UNCHANGED <<config, resolution, monitor, flagged, history>>

SignalsInit ==
    /\ config \in Configs /\ resolution = Unresolved /\ monitor = <<>> /\ flagged = <<>> /\ history = <<>>
    /\ health = [readFailures |-> 0, pushFailures |-> 0, reads |-> 0]
    /\ depth = 0 /\ pushes = 0
    /\ pushed = [status |-> "healthy", active |-> config.requested, fallback |-> FALSE, depth |-> 0]
SignalsNext ==
    \/ Collect \/ CollectAgain \/ CollectNothing
    \/ \E ok \in BOOLEAN : Push(ok)

SignalsTypeOK ==
    /\ resolution.active \in SourceKinds \cup {"none"} /\ resolution.fallback \in BOOLEAN
    /\ depth \in 0..BufferCap
    /\ \A i \in DOMAIN flagged :
           flagged[i].flag \in {"non_finite", "out_of_range", "stale", "frozen", "deadband", "good"}

---------------------------------------------------------------------------
(* The monitor keeps one value and one counter per signal, over every       *)
(* batch: with them each reading of the last batch is frozen only when its  *)
(* signal has stood still for FrozenLimit readings, and good only when it   *)
(* has not and really moved by more than the deadband since the reading     *)
(* before, whichever readings of other signals came between                 *)
(* (quality.py:103-162).                                                    *)
Past(readings, n, key) == {k \in 1..n : Key(readings[k]) = key /\ readings[k].value.is = "number"}
Still(readings, past) ==
    {k \in past : \A later \in past : later >= k => readings[later].value = readings[k].value}
FlagTrue(readings, n, flag) ==
    LET past == Past(readings, n, Key(readings[n]))
        still == Cardinality(Still(readings, past))
        before == {k \in past : k < n /\ \A j \in past : j > k => j >= n}
    IN /\ flag = "frozen" => still >= FrozenLimit
       /\ flag = "good" =>
              /\ still < FrozenLimit
              /\ \A k \in before :
                     \/ readings[k].value = readings[n].value
                     \/ Distance(readings[k].value.v, readings[n].value.v) > Deadband
FlagsTellHistory ==
    \A i \in DOMAIN flagged :
        LET n == Len(history) - Len(flagged) + i
        IN flagged[i].of = history[n] /\ FlagTrue(history, n, flagged[i].flag)

(* A push never calls a gateway healthy that reads the simulated plant for  *)
(* a real one, or whose last push failed or last read failed: the flag goes *)
(* with the source the gateway reads now (health.py:95-101,                 *)
(* collector.py:139-144).                                                   *)
HealthHonest ==
    /\ pushed.status = "healthy" => pushed.active = config.requested
    /\ pushed.fallback <=> pushed.active # config.requested
    /\ pushed.status = "down" => pushed.active = config.requested
(* And once it reads the simulated plant it stays there: that source cannot *)
(* fail, so nothing resolves again (collector.py:77-96).                    *)
FallbackStays == [][resolution.fallback => resolution'.fallback]_signalvars
=============================================================================
