------------------------------- MODULE Equipment --------------------------------
(***************************************************************************)
(* Component health, operating envelope, remaining life, failure hazard,    *)
(* root causes and the maintenance ranking                                  *)
(* (watertwin_engineering/equipment.py and root_cause.py, put together by   *)
(* watertwin-api predictive_maintenance.py).  Readings are in tenths,       *)
(* points of health and factors in hundredths, days in tenths; divisions    *)
(* round down where the code keeps a float.                                 *)
(***************************************************************************)
EXTENDS Integers, Sequences, FiniteSets, FiniteSetsExt, SequencesExt, Functions

Within(v, low, high) == Max({low, Min({high, v})})
At(f, key, default) == IF key \in DOMAIN f THEN f[key] ELSE default
Totals(s) ==
    LET sum[n \in 0..Len(s)] == IF n = 0 THEN 0 ELSE sum[n - 1] + s[n]
    IN sum
Total(s) == Totals(s)[Len(s)]

---------------------------------------------------------------------------
(* Visible penalties.  A rise costs its rate per unit, an excess its rate    *)
(* per multiple of the limit; both are capped.                              *)
Rise(metric, rate, cap) == [kind |-> "rise", metric |-> metric, limit |-> 0, rate |-> rate, cap |-> cap]
Excess(metric, limit, rate, cap) ==
    [kind |-> "excess", metric |-> metric, limit |-> limit, rate |-> rate, cap |-> cap]
Motor == <<Rise("current_imbalance", 220, 2200), Rise("voltage_imbalance", 300, 1800),
           Excess("winding_temp", 1550, 20000, 3000), Excess("vibration", 45, 4500, 2800)>>
Bearing == <<Excess("bearing_temp", 900, 22000, 3500), Excess("vibration", 45, 5500, 3500)>>
Seal == <<Excess("seal_leakage", 50, 3000, 4500)>>
Vfd == <<Rise("vfd_fault_count", 800, 3000), Excess("thd", 50, 2500, 2000)>>
Filter == <<Rise("dp_rise", 3200, 5500)>>
Valve == <<Rise("position_error", 300, 3500), Rise("travel_deviation", 200, 2500)>>
Erd == <<Rise("efficiency_drop", 400, 5000)>>
\* A pump's vibration counts twice, as a motor's and as a bearing's.
Pump == Motor \o Bearing \o Seal \o <<Rise("efficiency_drift", 200, 2500)>>
Penalties == [motor |-> Motor, bearing |-> Bearing, seal |-> Seal, vfd |-> Vfd,
              filter |-> Filter, valve |-> Valve, erd |-> Erd, pump |-> Pump]

\* A missing reading is nominal; an efficiency of 0 is taken for a missing one.
NormalizedDp(t) ==
    IF "normalized_dp" \in DOMAIN t.value THEN t.value["normalized_dp"]
    ELSE LET clean == At(t.value, "clean_dp", 3)
         IN IF clean > 0 THEN (10 * At(t.value, "dp", 0)) \div clean ELSE 10
EfficiencyDrop(t) ==
    LET now == At(t.value, "transfer_efficiency", 0)
    IN IF now > 0 THEN At(t.limit, "transfer_efficiency", 960) - now ELSE 0
Reading(t, metric) ==
    IF metric = "dp_rise" THEN NormalizedDp(t) - 10
    ELSE IF metric = "efficiency_drop" THEN EfficiencyDrop(t)
    ELSE At(t.value, metric, 0)
Delta(t, p) ==
    LET v == Reading(t, p.metric)
        limit == At(t.limit, p.metric, p.limit)
        raw == IF p.kind = "rise" THEN (p.rate * v) \div 10
               ELSE IF limit <= 0 THEN 0 ELSE (p.rate * (v - limit)) \div limit
    IN Within(raw, 0, p.cap)
\* Penalties under a twentieth of a point count for nothing.
Material(d) == IF d >= 5 THEN d ELSE 0
Contributions(type, t) == [i \in DOMAIN Penalties[type] |-> Material(Delta(t, Penalties[type][i]))]
ComponentHealth(type, t) == Within(10000 - Total(Contributions(type, t)), 0, 10000)
\* The score shown is in tenths; the band is that of the score before rounding.
Shown(health) == (health + 5) \div 10
Bands == <<"Critical", "HighRisk", "Degraded", "Monitor", "Healthy">>
BandIndex(health) == 1 + Cardinality({b \in {4000, 6000, 7500, 9000} : health >= b})
HealthBand(health) == Bands[BandIndex(health)]

---------------------------------------------------------------------------
(* operating_envelope_score: a sample counts in every regime it is in.       *)
Regimes == {"at_bep", "low_flow", "high_pressure", "excess_temperature", "cavitation"}
InRegime(s, regime) ==
    LET Has(k) == k \in DOMAIN s
        flows == Has("flow") /\ At(s, "bep", 0) # 0
    IN CASE regime = "at_bep" -> /\ flows
                                 /\ 100 * (s.flow - s.bep) <= At(s, "tolerance", 10) * s.bep
                                 /\ 100 * (s.bep - s.flow) <= At(s, "tolerance", 10) * s.bep
         [] regime = "low_flow" -> flows /\ 100 * s.flow < At(s, "low", 70) * s.bep
         [] regime = "high_pressure" -> Has("pressure") /\ At(s, "max_pressure", 0) # 0 /\ s.pressure > s.max_pressure
         [] regime = "excess_temperature" -> Has("temp") /\ Has("temp_limit") /\ s.temp > s.temp_limit
         [] regime = "cavitation" -> \/ At(s, "cavitation_risk", 0) # 0
                                     \/ Has("npsh_a") /\ Has("npsh_r") /\ s.npsh_a <= s.npsh_r + 5
OperatingEnvelope(history) ==
    [r \in Regimes |-> (10000 * Cardinality({i \in DOMAIN history : InRegime(history[i], r)})) \div Len(history)]

---------------------------------------------------------------------------
(* remaining_useful_life_days.  The least-squares slope is SlopeNum / SlopeDen. *)
FailureThreshold == 3000
SlopeNum(trend) ==
    LET n == Len(trend)
        xy == Total([i \in DOMAIN trend |-> i * trend[i]])
    IN n * xy - ((n * (n + 1)) \div 2) * Total(trend)
SlopeDen(n) == (n * n * (n * n - 1)) \div 12
\* An asset is [trend, threshold, duty, age, interval, peers], all but age and
\* interval (days) in hundredths.
HorizonCap(a) == 10 * (3 * a.interval + 365)
BaseDays(a) ==
    LET n == Len(a.trend)
        headroom == Max({0, a.trend[n] - a.threshold})
    IN IF n >= 2 /\ SlopeNum(a.trend) < 0 THEN (10 * headroom * SlopeDen(n)) \div (-SlopeNum(a.trend))
       ELSE HorizonCap(a)
DutyFactor(a) == Within(100 - (60 * a.duty) \div 100, 25, 100)
AgeFactor(a) == Within(100 - (50 * a.age) \div a.interval, 20, 100)
RemainingDays(a) ==
    Min({HorizonCap(a), (((((BaseDays(a) * DutyFactor(a)) \div 100) * AgeFactor(a)) \div 100) * a.peers) \div 100})
Spread(a) == Within(25 + a.duty \div 2 + (IF Len(a.trend) >= 5 THEN 15 ELSE 30), 20, 90)
LowerDays(a) == (RemainingDays(a) * (100 - Spread(a))) \div 100
UpperDays(a) == (RemainingDays(a) * (100 + Spread(a))) \div 100

---------------------------------------------------------------------------
(* failure_probability: 1 - exp(- hazard * days) at each horizon, which      *)
(* grows with the exponent; the model keeps the exponent, in ten-thousandths. *)
HorizonDays == [h24 |-> 1, d7 |-> 7, d30 |-> 30, d90 |-> 90]
BaseHazard == <<7000, 3500, 1500, 600, 200>>
Hazard(band, anomaly, days) == BaseHazard[band] + 25 * anomaly + 150000 \div (days + 10)
FailureExponents(band, anomaly, days) ==
    [h \in DOMAIN HorizonDays |-> HorizonDays[h] * Hazard(band, anomaly, days)]

\* maintenance_priority of a probability in hundredths.
RankScore(p, a) ==
    LET exposure == (p * (a.consequence + a.impact) * a.weight) \div 100
    IN (exposure * (IF a.spares THEN 85 ELSE 115)) \div (100 * (1 + a.redundancy))

(* root_cause_rank: scores in tenths, a share of their sum each.             *)
Causes == <<"membrane_fouling", "pump_efficiency_loss", "feed_salinity_rise", "valve_restriction", "sensor_error">>
CauseScore(cause, x) ==
    LET Of(k) == Max({0, At(x, k, 0)})
        drop == Max({0, -At(x, "production", 0)})
    IN CASE cause = "membrane_fouling" -> 5 + 8 * Of("power") + 12 * drop + 6 * Of("dp_rise") + 5 * Of("salt_passage")
         [] cause = "pump_efficiency_loss" -> 5 + 10 * Of("power") + 12 * Of("curve_deviation")
         [] cause = "feed_salinity_rise" -> 5 + 5 * Of("power") + 6 * drop + 10 * Of("salinity_rise")
         [] cause = "valve_restriction" -> 5 + 4 * Of("power") + 20 * Of("valve_error")
         [] cause = "sensor_error" -> 10 + 2 * Max({0, 100 - At(x, "sensor_consistency", 100)})
Probability(cause, x) ==
    (10000 * CauseScore(cause, x)) \div Total([i \in DOMAIN Causes |-> CauseScore(Causes[i], x)])
\* Most probable first, equals in the order of Causes.
RankedCauses(x) ==
    LET place(c) == CHOOSE i \in DOMAIN Causes : Causes[i] = c
    IN SortSeq(Causes, LAMBDA c, d : \/ Probability(c, x) > Probability(d, x)
                                     \/ Probability(c, x) = Probability(d, x) /\ place(c) < place(d))

---------------------------------------------------------------------------
(* predictive_maintenance: the parts put together for one asset.             *)
Exponent30(a) ==
    FailureExponents(BandIndex(ComponentHealth(a.type, a.telemetry)), a.anomaly, RemainingDays(a)).d30
TimeToIntervention(a) == Min({(LowerDays(a) * 70) \div 100, RemainingDays(a) \div 2})
Pdm(a, probability) ==
    [rank |-> RankScore(probability, a), days |-> RemainingDays(a), lower |-> LowerDays(a), upper |-> UpperDays(a),
     intervene |-> TimeToIntervention(a), causes |-> RankedCauses(a.symptoms),
     envelope |-> OperatingEnvelope(a.history)]
ComputeRanking(pdms) == SortSeq(pdms, LAMBDA p, q : p.rank > q.rank)

---------------------------------------------------------------------------
(* What the docstrings promise of the composed chain, input by input.       *)

\* A reading that gets worse never improves the score or its band.
Worse(type, t, u) ==
    /\ t.limit = u.limit
    /\ \A p \in Range(Penalties[type]) : Reading(t, p.metric) <= Reading(u, p.metric)
HealthFalls(type, t, u) ==
    Worse(type, t, u) =>
        /\ ComponentHealth(type, u) <= ComponentHealth(type, t)
        /\ BandIndex(ComponentHealth(type, u)) <= BandIndex(ComponentHealth(type, t))

\* The band of days holds the estimate, which is within the horizon, and the
\* intervention comes before it; a harder duty or an older service never
\* lengthens life.
LifeBand(a) ==
    /\ LowerDays(a) <= RemainingDays(a) /\ RemainingDays(a) <= UpperDays(a)
    /\ RemainingDays(a) <= HorizonCap(a) /\ TimeToIntervention(a) <= LowerDays(a)
UseShortens(a, duty, age) ==
    a.duty <= duty /\ a.age <= age =>
        RemainingDays([a EXCEPT !.duty = duty, !.age = age]) <= RemainingDays(a)

\* An asset that reads worse, is more anomalous and has less life left is never
\* given the smaller failure exponent.
WearShows(a, b) ==
    /\ a.type = b.type /\ Worse(a.type, a.telemetry, b.telemetry)
    /\ a.anomaly <= b.anomaly /\ RemainingDays(b) <= RemainingDays(a)
    => Exponent30(a) <= Exponent30(b)

\* Unless a sample widens its tolerance or its low-flow limit past each other,
\* no sample counts both as at its best point and as low in flow.
RegimesExclude(history) ==
    (\A i \in DOMAIN history : At(history[i], "tolerance", 10) + At(history[i], "low", 70) <= 100) =>
        OperatingEnvelope(history)["at_bep"] + OperatingEnvelope(history)["low_flow"] <= 10000

\* The causes share the whole but for what rounding loses, and a sign of one
\* cause only that grows never moves that cause down nor another one up.
SignOf == [dp_rise |-> "membrane_fouling", salt_passage |-> "membrane_fouling",
           curve_deviation |-> "pump_efficiency_loss", salinity_rise |-> "feed_salinity_rise",
           valve_error |-> "valve_restriction"]
CausesShare(x) ==
    LET total == Total([i \in DOMAIN Causes |-> Probability(Causes[i], x)])
    IN 9996 <= total /\ total <= 10000
EvidenceMoves(x, sign, v) ==
    LET y == [s \in DOMAIN x \cup {sign} |-> IF s = sign THEN v ELSE x[s]]
    IN At(x, sign, 0) <= v =>
           \A cause \in Range(Causes) :
               IF cause = SignOf[sign] THEN Probability(cause, x) <= Probability(cause, y)
               ELSE Probability(cause, y) <= Probability(cause, x)

\* A likelier failure never ranks lower, nor does an asset with less redundancy
\* or no spares.
RankGrows(p, q, a) ==
    /\ p <= q => RankScore(p, a) <= RankScore(q, a)
    /\ RankScore(p, [a EXCEPT !.redundancy = @ + 1]) <= RankScore(p, a)
    /\ RankScore(p, a) <= RankScore(p, [a EXCEPT !.spares = FALSE])

---------------------------------------------------------------------------
(* Bounded inputs.                                                         *)
Nominal == [vibration |-> 40, seal_leakage |-> 40, current_imbalance |-> 0]
Telemetry(metric, v) == [value |-> [m \in DOMAIN Nominal \cup {metric} |-> IF m = metric THEN v ELSE Nominal[m]],
                         limit |-> [m \in {} |-> 0]]
Metrics(type) == {p.metric : p \in Range(Penalties[type])} \cup {"normalized_dp", "transfer_efficiency"}
Values == {0, 1, 40, 46, 52, 900, 960, 1550, 1600, 3000}
Trends == {<<9000>>, <<8000, 8000>>, <<8000, 7400>>, <<7400, 7100, 6900, 6600, 6300>>, <<6000, 2000>>}
Assets == [type : {"pump"}, telemetry : {Telemetry("vibration", v) : v \in {40, 46, 90}}, anomaly : {0, 61},
           trend : Trends, threshold : {FailureThreshold}, duty : {0, 82, 100}, age : {0, 220, 900}, interval : {90, 365}, peers : {90, 110}]
Samples == {[flow |-> flow, bep |-> 10, npsh_a |-> npsh, npsh_r |-> 30] : flow \in 0..12, npsh \in {30, 35, 36}}
Symptoms == {[power |-> power, dp_rise |-> dp, valve_error |-> valve, production |-> -6] :
                power \in {0, 3, 12}, dp \in {0, 3, 12}, valve \in {0, 3, 12}}
Exposures == [consequence : {85}, impact : {90}, weight : {120}, spares : BOOLEAN, redundancy : 0..2]
MaintenanceSound ==
    /\ \A type \in DOMAIN Penalties : \A m \in Metrics(type), v, w \in Values :
           HealthFalls(type, Telemetry(m, v), Telemetry(m, w))
    /\ \A a \in Assets :
           /\ LifeBand(a)
           /\ \A duty \in {82, 100}, age \in {220, 900} : UseShortens(a, duty, age)
           /\ \A v \in {40, 46, 90}, anomaly \in {0, 100} :
                  WearShows(a, [a EXCEPT !.telemetry = Telemetry("vibration", v), !.anomaly = anomaly])
    /\ \A first, second \in Samples : RegimesExclude(<<first, second>>)
    /\ \A x \in Symptoms : /\ CausesShare(x)
                            /\ \A sign \in DOMAIN SignOf, v \in {5, 20} : EvidenceMoves(x, sign, v)
    /\ \A p, q \in {0, 40, 97}, a \in Exposures : RankGrows(p, q, a)

\* And the order the causes are listed in follows, which is a sort.
CausesRanked ==
    \A x \in Symptoms :
        LET Place(c, y) == CHOOSE i \in 1..5 : RankedCauses(y)[i] = c
        IN /\ Place("membrane_fouling", [x EXCEPT !.dp_rise = @ + 5]) <= Place("membrane_fouling", x)
           /\ Place("valve_restriction", [x EXCEPT !.valve_error = @ + 5]) <= Place("valve_restriction", x)
=============================================================================
