---------------------------- MODULE ConditionModels -----------------------------
(***************************************************************************)
(* The three condition models of the API (models/pump_condition.py,         *)
(* models/cartridge_filter.py, models/membrane_fouling.py) on top of        *)
(* Equipment and of the membrane engine (membrane.py): the inputs they      *)
(* complete from a baseline, the indices and probabilities they observe,    *)
(* and the alerts their thresholds raise.  Readings are in tenths, shares   *)
(* and probabilities in thousandths, health in hundredths of a point, rises *)
(* of the membrane signals in thousandths of a per cent.                    *)
(***************************************************************************)
EXTENDS Equipment

\* 1 / (1 + exp(-z)), z in hundredths: the line through its whole values.
LogisticPoints == <<500, 731, 881, 953, 982, 993, 998>>
HalfLogistic(z) ==
    LET k == z \div 100
        rest == z % 100
    IN IF k >= 6 THEN 998 ELSE LogisticPoints[k + 1]
           + (rest * (LogisticPoints[k + 2] - LogisticPoints[k + 1])) \div 100
Logistic(z) == IF z >= 0 THEN HalfLogistic(z) ELSE 1000 - HalfLogistic(-z)
Blend(w, p, q) == Within((w * p + (10 - w) * q) \div 10, 0, 1000)
Unhealth(health) == 1000 - Shown(health)
Over(f, g) == [k \in DOMAIN f \cup DOMAIN g |-> IF k \in DOMAIN f THEN f[k] ELSE g[k]]

\* evaluate_thresholds: those whose metric was observed and lies on or past them.
Above(metric, v) == [metric |-> metric, direction |-> "above", value |-> v]
Below(metric, v) == [metric |-> metric, direction |-> "below", value |-> v]
Crossed(threshold, observed) ==
    /\ threshold.metric \in DOMAIN observed
    /\ IF threshold.direction = "above" THEN observed[threshold.metric] >= threshold.value
                                        ELSE observed[threshold.metric] <= threshold.value
EvaluateThresholds(thresholds, observed) ==
    {th.metric : th \in {t \in Range(thresholds) : Crossed(t, observed)}}

---------------------------------------------------------------------------
(* High-pressure pump.                                                      *)
PumpBaseline ==
    [flow |-> 5000, bep |-> 5000, pressure |-> 620, max_pressure |-> 700, vibration |-> 22, bearing_temp |-> 680,
     seal_leakage |-> 10, curve_deviation |-> 0, temp |-> 340, temp_limit |-> 450, npsh_a |-> 60, npsh_r |-> 30]
NpshMarginRule == 5
NpshMargin(x) == IF "npsh_margin" \in DOMAIN x THEN x["npsh_margin"] ELSE x["npsh_a"] - x["npsh_r"]
PumpTelemetry(x) ==
    [value |-> [vibration |-> x["vibration"], bearing_temp |-> x["bearing_temp"], seal_leakage |-> x["seal_leakage"],
                efficiency_drift |-> x["curve_deviation"], current_imbalance |-> At(x, "current_imbalance", 0),
                winding_temp |-> At(x, "winding_temp", 0)],
     limit |-> [vibration |-> At(x, "vibration_limit", 45), bearing_temp |-> At(x, "bearing_temp_limit", 900),
                seal_leakage |-> At(x, "seal_leakage_limit", 50)]]
EnvelopeKeys == {"flow", "bep", "pressure", "max_pressure", "temp", "temp_limit", "npsh_a", "npsh_r"}
EnvelopeSample(x) == [k \in EnvelopeKeys |-> x[k]]
CavitationProbability(x) ==
    Blend(6, Logistic(((NpshMarginRule - NpshMargin(x)) * 1000) \div 60),
          OperatingEnvelope(<<EnvelopeSample(x)>>)["cavitation"] \div 10)
PumpHealth(x) == ComponentHealth("pump", PumpTelemetry(x))
PumpRisk(x) == Blend(6, Unhealth(PumpHealth(x)), CavitationProbability(x))
\* From the readings sent, not from the baseline that completes them.
PumpConfidence(sent) ==
    550 + 100 * Cardinality({"vibration", "bearing_temp", "npsh_a", "npsh_r"} \cap DOMAIN sent)
PumpThresholds ==
    <<Above("vibration", 45), Above("bearing_temp", 900), Above("seal_leakage", 50),
      Below("npsh_margin", NpshMarginRule), Above("cavitation_probability", 500), Below("pump_health", 6000)>>
AssessPump(sent) ==
    LET x == Over(sent, PumpBaseline)
        observed == [vibration |-> x["vibration"], bearing_temp |-> x["bearing_temp"],
                     seal_leakage |-> x["seal_leakage"], npsh_margin |-> NpshMargin(x),
                     cavitation_probability |-> CavitationProbability(x), pump_health |-> 10 * Shown(PumpHealth(x))]
    IN [band |-> HealthBand(PumpHealth(x)), alerts |-> EvaluateThresholds(PumpThresholds, observed),
        confidence |-> PumpConfidence(sent), risk |-> PumpRisk(x),
        causes |-> RankedCauses([curve_deviation |-> x["curve_deviation"] \div 10,
                                 sensor_consistency |-> At(x, "sensor_consistency", 100)])]

---------------------------------------------------------------------------
(* Cartridge filter.                                                        *)
ChangeOut == 25
FilterBaseline == [dp |-> 3, clean_dp |-> 3, turbidity |-> 2, particles |-> 500, sdi |-> 30, age |-> 30]
FilterTelemetry(x) == [value |-> [normalized_dp |-> NormalizedDp([value |-> x])], limit |-> [k \in {} |-> 0]]
FilterHealth(x) == ComponentHealth("filter", FilterTelemetry(x))
\* colloidal_fouling_index.
Loading(x) == (5 * Within((1000 * At(x, "sdi", 0)) \div 65, 0, 1000)
               + 3 * Within((1000 * At(x, "turbidity", 0)) \div 50, 0, 1000)
               + 2 * Within(At(x, "particles", 0) \div 5, 0, 1000)) \div 10
ReplacementDue(x) == Blend(8, Logistic((NormalizedDp([value |-> x]) - ChangeOut) * 25), Loading(x))
\* Five days up to now at a decline per day, cut at a perfect score.
DeclineTrend(score, decline) == [i \in 1..5 |-> Min({10000, score + decline * (5 - i)})]
FilterAsset(x) ==
    [trend |-> DeclineTrend(10 * Shown(FilterHealth(x)), 30 + (600 * Loading(x)) \div 1000), threshold |-> 4500,
     duty |-> At(x, "duty", 65), age |-> At(x, "age", 45), interval |-> 90, peers |-> 100]
FilterRisk(x) == Blend(5, Unhealth(FilterHealth(x)), ReplacementDue(x))
FilterThresholds == <<Above("normalized_dp", ChangeOut), Above("sdi", 50),
                      Above("replacement_due_probability", 500), Below("filter_health", 6000)>>
AssessFilter(sent) ==
    LET x == Over(sent, FilterBaseline)
        observed == [normalized_dp |-> NormalizedDp([value |-> x]), sdi |-> At(x, "sdi", 0),
                     replacement_due_probability |-> ReplacementDue(x), filter_health |-> 10 * Shown(FilterHealth(x))]
    IN [band |-> HealthBand(FilterHealth(x)), alerts |-> EvaluateThresholds(FilterThresholds, observed), risk |-> FilterRisk(x),
        days |-> RemainingDays(FilterAsset(x)), lower |-> LowerDays(FilterAsset(x)), upper |-> UpperDays(FilterAsset(x))]

---------------------------------------------------------------------------
(* Membrane: m is [flow, salt, dp, fouling, age], the rises of the three     *)
(* normalized signals, which the water-quality engine computes.             *)
CipDpRise == 15000
CipSaltRise == 10000
Rounded(rise) == ((rise + 5) \div 10) * 10
Penalty(rate, rise, cap) == IF rise > 50 THEN Min({cap, (rate * rise) \div 100}) ELSE 0
MembranePenalties(m) == <<Penalty(15, m.flow, 4000), Penalty(12, m.salt, 4000), Penalty(8, m.dp, 3000)>>
MembraneHealth(m) == Within(10000 - Total(MembranePenalties(m)), 0, 10000)
CleaningRequired(m) == m.dp >= CipDpRise \/ m.salt >= CipSaltRise
MembraneAsset(m) ==
    [trend |-> DeclineTrend(MembraneHealth(m), 10 + (200 * m.fouling) \div 1000), threshold |-> 4000,
     duty |-> 70, age |-> m.age, interval |-> 180, peers |-> 100]
\* The worst of the four severities names the vessel; scaling wins a tie.
UnderperformingVessel(severity, stage) ==
    LET worst == Max({severity[k] : k \in DOMAIN severity})
    IN IF worst < 350 THEN "none"
       ELSE IF severity["scaling"] < worst THEN "stage 1 lead"
       ELSE IF stage = "ro_stage_1" THEN "stage 1 tail" ELSE "stage 2 tail"
\* The logistic has a scale of 4 per cent and sees the rounded rise.
Breakthrough(m) == Logistic((Rounded(m.salt) - CipSaltRise) \div 40)
MembraneRisk(m) == Blend(5, Unhealth(MembraneHealth(m)), Breakthrough(m))
MembraneThresholds ==
    <<Above("dp_rise", CipDpRise), Above("salt_rise", CipSaltRise), Above("flow_decline", 10000),
      Above("breakthrough_probability", 500), Below("membrane_health", 6000)>>
AssessMembrane(m) ==
    LET observed == [dp_rise |-> Rounded(m.dp), salt_rise |-> Rounded(m.salt), flow_decline |-> Rounded(m.flow),
                     breakthrough_probability |-> Breakthrough(m), membrane_health |-> 10 * Shown(MembraneHealth(m))]
        given == {i \in 1..3 : MembranePenalties(m)[i] > 0}
    IN [cleaning |-> CleaningRequired(m), alerts |-> EvaluateThresholds(MembraneThresholds, observed), risk |-> MembraneRisk(m),
        confidence |-> 600 + 100 * Cardinality(given), days |-> RemainingDays(MembraneAsset(m))]

---------------------------------------------------------------------------
(* The models agree with the rules they reuse.                             *)

\* The cavitation alert of the blended probability is that of the suction
\* margin, unless a margin is sent that is not the one of the two heads; and
\* worse readings or less suction head never lower the risk.
PumpAgrees(sent) ==
    LET r == AssessPump(sent)
    IN /\ "npsh_margin" \notin DOMAIN sent =>
              ("cavitation_probability" \in r.alerts <=> "npsh_margin" \in r.alerts)
       /\ 0 <= r.risk /\ r.risk <= 1000 /\ r.confidence <= 1000
PumpWorsens(s, t) ==
    LET x == Over(s, PumpBaseline)
        y == Over(t, PumpBaseline)
    IN /\ Worse("pump", PumpTelemetry(x), PumpTelemetry(y))
       /\ NpshMargin(y) <= NpshMargin(x) /\ y["npsh_a"] - y["npsh_r"] <= x["npsh_a"] - x["npsh_r"]
       => PumpRisk(x) <= PumpRisk(y)

\* A filter that is due by its pressure and its fouling index is announced; a
\* dirtier one never has the smaller risk nor, as long as neither trend is cut
\* at a perfect score, the longer life (cut, it may: a new filter under a heavy
\* load is given more days than under a light one).
Uncut(trend) == trend[1] < 10000
Dirtier(x, y) ==
    /\ NormalizedDp([value |-> x]) <= NormalizedDp([value |-> y])
    /\ \A k \in {"sdi", "turbidity", "particles"} : At(x, k, 0) <= At(y, k, 0)
FilterAgrees(sent) ==
    LET x == Over(sent, FilterBaseline)
    IN /\ NormalizedDp([value |-> x]) >= ChangeOut /\ At(x, "sdi", 0) >= 65 =>
              "replacement_due_probability" \in AssessFilter(sent).alerts
       /\ LifeBand(FilterAsset(x))
FilterWorsens(s, t) ==
    LET x == Over(s, FilterBaseline)
        y == Over(t, FilterBaseline)
    IN Dirtier(x, y) =>
           /\ FilterRisk(x) <= FilterRisk(y)
           /\ /\ At(x, "duty", 65) <= At(y, "duty", 65) /\ At(x, "age", 45) <= At(y, "age", 45)
              /\ Uncut(FilterAsset(x).trend) /\ Uncut(FilterAsset(y).trend)
              => RemainingDays(FilterAsset(y)) <= RemainingDays(FilterAsset(x))

\* Cleaning is required exactly when a rise alert says so, but for a rise that
\* the rounding lifts to its threshold; the breakthrough alert is the alert of
\* the salt passage; larger rises never lower the risk, nor does age lengthen
\* the life.
Lifted(rise, threshold) == rise < threshold /\ Rounded(rise) >= threshold
MembraneAgrees(m) ==
    LET r == AssessMembrane(m)
        rises == {"dp_rise", "salt_rise"} \cap r.alerts
    IN /\ r.cleaning => rises # {}
       /\ rises # {} => r.cleaning \/ Lifted(m.dp, CipDpRise) \/ Lifted(m.salt, CipSaltRise)
       /\ "salt_rise" \in r.alerts <=> "breakthrough_probability" \in r.alerts
       /\ r.confidence <= 900
MembraneWorsens(m, n) ==
    m.flow <= n.flow /\ m.salt <= n.salt /\ m.dp <= n.dp /\ m.age <= n.age =>
        /\ MembraneRisk(m) <= MembraneRisk(n)
        /\ RemainingDays(MembraneAsset([m EXCEPT !.age = n.age])) <= RemainingDays(MembraneAsset(m))

PumpInputs == {[vibration |-> v, npsh_a |-> a, bearing_temp |-> b] : v \in {22, 45, 80}, a \in {30, 35, 36, 60}, b \in {680, 990}}
FilterInputs == {[normalized_dp |-> dp, sdi |-> sdi] : dp \in {10, 16, 24, 25, 40}, sdi \in {0, 30, 65}}
MembraneInputs ==
    [flow : {0, 20000}, salt : {0, 9994, 10000, 30000}, dp : {0, 14994, 14996, 15000}, fouling : {500}, age : {120, 170}]
ConditionModelsSound ==
    /\ \A s, t \in PumpInputs : PumpAgrees(s) /\ PumpWorsens(s, t)
    /\ \A s, t \in FilterInputs : FilterAgrees(s) /\ FilterWorsens(s, t)
    /\ \A m, n \in MembraneInputs : MembraneAgrees(m) /\ MembraneWorsens(m, n)
=============================================================================
