----------------------------- MODULE ModelQuality ------------------------------
(***************************************************************************)
(* How the platform judges its analytical models: back-tests, confidence    *)
(* calibration, drift, condition scores and the tracking of false alarms    *)
(* (packages/watertwin_models, watertwin_engineering/condition,             *)
(* watertwin-api models/base.py and model_registry.py).  Scores and shares  *)
(* are in thousandths.  The population stability index itself, a sum of     *)
(* logarithms, is a given number; what it compares is defined here.         *)
(***************************************************************************)
EXTENDS Integers, Sequences, FiniteSets, FiniteSetsExt, SequencesExt, Functions, TLC

CONSTANTS
    Alerts,          \* identifiers alerts are raised under
    Window,          \* alerts the tracker keeps
    MaxAlerts        \* bound

VARIABLES window, index, entries, recorded
trackervars == <<window, index, entries, recorded>>

Share(n, d) == IF d = 0 THEN 0 ELSE (2000 * n + d) \div (2 * d)
Clamp(v, low, high) == Max({low, Min({high, v})})
CountIf(s, Test(_)) == Cardinality({i \in DOMAIN s : Test(s[i])})

---------------------------------------------------------------------------
(* run_backtest: a sample is [label, score, t].                             *)
Alert(sample, threshold) == sample.score >= threshold
Confusion(samples, threshold) ==
    [tp |-> CountIf(samples, LAMBDA s : s.label /\ Alert(s, threshold)),
     fn |-> CountIf(samples, LAMBDA s : s.label /\ ~Alert(s, threshold)),
     fp |-> CountIf(samples, LAMBDA s : ~s.label /\ Alert(s, threshold)),
     tn |-> CountIf(samples, LAMBDA s : ~s.label /\ ~Alert(s, threshold))]
Metrics(samples, threshold) ==
    LET c == Confusion(samples, threshold)
    IN [precision |-> Share(c.tp, c.tp + c.fp), recall |-> Share(c.tp, c.tp + c.fn),
        accuracy |-> Share(c.tp + c.tn, Len(samples)), falseAlarmRate |-> Share(c.fp, c.fp + c.tn)]
\* Event onsets, and how long before each the earliest alarm of its window
\* came: the walk back from the onset stops at the first sample out of it.
Onsets(history) ==
    {i \in DOMAIN history : history[i].label /\ (i = 1 \/ ~history[i - 1].label)}
Lead(history, onset, threshold, span) ==
    LET Near(j) == history[onset].t - history[j].t <= span
        reached == {j \in 1..(onset - 1) : \A k \in j..(onset - 1) : Near(k)}
        alarms == {j \in reached : Alert(history[j], threshold)}
    IN IF alarms = {} THEN -1 ELSE history[onset].t - history[Min(alarms)].t
Leads(history, threshold, span) ==
    {i \in Onsets(history) : Lead(history, i, threshold, span) >= 0}

---------------------------------------------------------------------------
(* Confidence calibration by equal-width bins of [0, 1].                    *)
BinOf(p, bins) == Min({bins - 1, (p * bins) \div 1000})
InBin(pairs, b, bins) == SelectSeq(pairs, LAMBDA x : BinOf(x.p, bins) = b)
Positives(pairs) == CountIf(pairs, LAMBDA x : x.label)
\* ConfidenceCalibrator.fit: a bin without samples keeps its centre.
Fit(pairs, bins) ==
    [b \in 0..(bins - 1) |->
        LET own == InBin(pairs, b, bins)
        IN IF own = <<>> THEN ((2 * b + 1) * 1000) \div (2 * bins)
           ELSE Share(Positives(own), Len(own))]
\* calibrate: the number of edges at or below the score names the bin.
Calibrate(fit, bins, p) ==
    IF fit = <<>> THEN p ELSE fit[Cardinality({i \in 1..(bins - 1) : i * 1000 <= p * bins})]
\* condition/calibration: the mean confidence of a bin against its share.
MeanOf(pairs) == FoldLeft(LAMBDA sum, x : sum + x.p, 0, pairs) \div Len(pairs)
Gap(pairs) == LET d == MeanOf(pairs) - Share(Positives(pairs), Len(pairs)) IN IF d < 0 THEN -d ELSE d
LargestGap(pairs, bins) ==
    Max({0} \cup {Gap(InBin(pairs, b, bins)) : b \in {BinOf(pairs[i].p, bins) : i \in DOMAIN pairs}})
\* reliability_curve: the bins that hold a sample.
ReliabilityCurve(pairs, bins) ==
    [b \in {BinOf(pairs[i].p, bins) : i \in DOMAIN pairs} |->
        LET own == InBin(pairs, b, bins)
        IN [count |-> Len(own), predicted |-> MeanOf(own), observed |-> Share(Positives(own), Len(own))]]
\* In millionths; the squares of at most a few samples.
Brier(pairs) ==
    FoldLeft(LAMBDA sum, x : sum + (x.p - (IF x.label THEN 1000 ELSE 0)) ^ 2, 0, pairs) \div Len(pairs)

---------------------------------------------------------------------------
(* Drift.  The interior quantiles of the baseline, times bins; a value goes  *)
(* to the first bin whose edge it does not exceed.  watertwin_models keeps   *)
(* equal edges, condition/drift one of them.                                 *)
Edges(baseline, bins) ==
    LET sorted == SortSeq(baseline, <)
        last == Len(sorted) - 1
    IN [i \in 1..(bins - 1) |->
           LET low == (i * last) \div bins
               rest == (i * last) % bins
           IN sorted[low + 1] * (bins - rest) + sorted[Min({low + 1, last}) + 1] * rest]
DistinctEdges(baseline, bins) ==
    SetToSortSeq(Range(Edges(baseline, bins)), <)
EdgesBelow(edges, v, bins) == Cardinality({i \in DOMAIN edges : v * bins > edges[i]})
Distribution(values, edges, bins) ==
    [b \in 0..Len(edges) |-> CountIf(values, LAMBDA v : EdgesBelow(edges, v, bins) = b)]
\* FeatureDriftMonitor.check over the index of each feature that has values.
DriftStatus(psi, warn, alert) ==
    LET worst == Max({0} \cup Range(psi))
    IN IF worst >= alert THEN "drift" ELSE IF worst >= warn THEN "watch" ELSE "stable"
DrivenBy(order, psi) ==
    LET worst == Max({0} \cup Range(psi))
        worstOnes == SelectSeq(order, LAMBDA f : f \in DOMAIN psi /\ psi[f] = worst)
    IN IF worst = 0 THEN "none" ELSE Head(worstOnes)
\* monitor_drift flags each feature by itself.
Drifted(psi, threshold) == {f \in DOMAIN psi : psi[f] >= threshold}

(* model_registry: in hundredths of a per cent of the clean-membrane value,  *)
(* "none" when a metric could not be evaluated or has no base.               *)
RelPct(value, reference) ==
    IF "none" \in {value.is, reference.is} \/ reference.v = 0 THEN [is |-> "none", v |-> 0]
    ELSE LET d == (value.v - reference.v) * 10000
             r == IF reference.v < 0 THEN -reference.v ELSE reference.v
         IN [is |-> "some", v |-> d \div r]
RegistryStatus(drifts) ==
    LET known == {i \in DOMAIN drifts : drifts[i].is = "some"}
        worst == Max({0} \cup {IF drifts[i].v < 0 THEN -drifts[i].v ELSE drifts[i].v : i \in known})
    IN IF known = {} THEN "unknown"
       ELSE IF worst >= 3000 THEN "drifting" ELSE IF worst >= 1000 THEN "watch" ELSE "stable"

---------------------------------------------------------------------------
(* ThresholdConditionModel and ModelSpec.                                    *)
Severity(value, warnAt, alarmAt) ==
    Clamp(IF alarmAt > warnAt THEN (1000 * (value - warnAt)) \div (alarmAt - warnAt)
          ELSE (1000 * (warnAt - value)) \div (warnAt - alarmAt), 0, 1000)
Band(severity, half) == <<Clamp(severity - half, 0, 1000), Clamp(severity + half, 0, 1000)>>
\* ModelSpec.validate, the parts of a contract being there or not.
Parts == {"model_id", "version", "description", "equation_source", "feature_spec", "assumptions",
          "valid_range", "uncertainty_method", "failure_modes", "explainability_outputs"}
ValidSpec(spec) == Parts \subseteq spec.parts /\ IsInjective(spec.features)
InRange(bounds, features) ==
    \A f \in DOMAIN bounds \cap DOMAIN features :
        bounds[f][1] <= features[f] /\ features[f] <= bounds[f][2]

---------------------------------------------------------------------------
(* FalseAlarmTracker: the last Window alerts, and an index from identifier   *)
(* to the entry a verdict is written into.  An identifier may come again.    *)
Verdicts == {"pending", "true", "false"}
Record(id, verdict) ==
    /\ Len(entries) < MaxAlerts
    /\ entries' = Append(entries, [id |-> id, verdict |-> verdict])
    /\ LET e == Len(entries')
           full == Len(window) = Window
           left == IF full THEN [i \in DOMAIN index \ {entries[Head(window)].id} |-> index[i]] ELSE index
       IN /\ window' = Append(IF full THEN Tail(window) ELSE window, e)
          /\ index' = [i \in DOMAIN left \cup {id} |-> IF i = id THEN e ELSE left[i]]
    /\ recorded' = [recorded EXCEPT ![id] = @ + 1]
Resolve(id, verdict) ==
    /\ id \in DOMAIN index
    /\ entries' = [entries EXCEPT ![index[id]].verdict = verdict]
    /\ UNCHANGED <<window, index, recorded>>
TrackerInit ==
    /\ window = <<>> /\ index = <<>> /\ entries = <<>> /\ recorded = [a \in Alerts |-> 0]
TrackerNext ==
    \E id \in Alerts : \/ \E v \in Verdicts : Record(id, v)
                       \/ \E v \in Verdicts \ {"pending"} : Resolve(id, v)
WithVerdict(v) == CountIf(window, LAMBDA e : entries[e].verdict = v)
FalseAlarmRate == Share(WithVerdict("false"), WithVerdict("false") + WithVerdict("true"))

(* The index never names an entry that has left the window, and a verdict    *)
(* goes to the newest alert of its identifier; an alert whose identifier was *)
(* raised once can be resolved as long as it counts.  (One raised twice may  *)
(* not: when the older one leaves, the newer loses its index entry,          *)
(* false_alarm.py:70-75.)                                                    *)
TrackerTrue ==
    /\ \A id \in DOMAIN index :
           /\ \E i \in DOMAIN window : window[i] = index[id]
           /\ entries[index[id]].id = id
           /\ \A i \in DOMAIN window : entries[window[i]].id = id => window[i] <= index[id]
    /\ \A i \in DOMAIN window : recorded[entries[window[i]].id] = 1 => entries[window[i]].id \in DOMAIN index
    /\ Len(window) = IF Len(entries) < Window THEN Len(entries) ELSE Window

---------------------------------------------------------------------------
(* The harnesses against what they claim to measure, over bounded inputs:    *)
(* every sample is counted once, a lead is that of the first alarm in the    *)
(* window, a calibrated score is the observed share of the very bin it was   *)
(* fitted in, bins partition a sample, a sample has not drifted from itself  *)
(* and the worst feature decides the status.                                 *)
SomeSamples == [1..3 -> [label : BOOLEAN, score : {400, 600}, t : {0}]]
Timed(samples) == [i \in DOMAIN samples |-> [samples[i] EXCEPT !.t = i]]
SomePairs == [1..2 -> [p : {0, 333, 334, 500, 999, 1000}, label : BOOLEAN]]
ModelQualitySound ==
    /\ \A s \in SomeSamples :
           LET c == Confusion(s, 500)
               h == Timed(s)
           IN /\ c.tp + c.fp + c.tn + c.fn = Len(s)
              /\ \A i \in Onsets(h), span \in 0..2 :
                     Lead(h, i, 500, span) =
                         Max({-1} \cup {d \in 1..span : i - d >= 1 /\ h[i - d].score >= 500})
    /\ \A pairs \in SomePairs, bins \in {1, 2, 3, 10} : \A i \in DOMAIN pairs :
           LET own == InBin(pairs, BinOf(pairs[i].p, bins), bins)
           IN Calibrate(Fit(pairs, bins), bins, pairs[i].p) = Share(Positives(own), Len(own))
    /\ \A values \in [1..3 -> 0..2], bins \in {2, 3, 4} :
           LET d == Distribution(values, Edges(values, bins), bins)
           IN FoldFunctionOnSet(+, 0, d, DOMAIN d) = Len(values)
    /\ \A psi \in [{"a", "b"} -> {0, 99, 100, 250}] :
           /\ DriftStatus(psi, 100, 250) = "drift" <=> Drifted(psi, 250) # {}
           /\ DriftStatus(psi, 100, 250) = "stable" <=> Drifted(psi, 100) = {}
    /\ \A v, w \in 0..6, half \in {0, 300} :
           /\ v <= w => Severity(v, 2, 5) <= Severity(w, 2, 5) /\ Severity(v, 5, 2) >= Severity(w, 5, 2)
           /\ Band(Severity(v, 2, 5), half)[1] <= Severity(v, 2, 5)
=============================================================================
