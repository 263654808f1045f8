----------------------------- MODULE WaterQuality -----------------------------
(***************************************************************************)
(* The water-quality engine of the API (app/water_quality.py): from one    *)
(* fouling level it derives the composition at six places, and from that   *)
(* samples, stage compliance, a contaminant matrix, removal, scaling risk, *)
(* forecasts and the alerts that become recommendation cards.              *)
(*                                                                         *)
(* Fouling is in per cent; concentrations and risks are in ten-thousandths *)
(* of their unit, probabilities and confidences in thousandths.  The       *)
(* chemistry that does not depend on fouling (pKa, solubility products,    *)
(* temperature) is the number it comes to.                                 *)
(***************************************************************************)
EXTENDS RoReference

Levels == 0..100
Intake ==
    [turbidity |-> 22000, particles |-> 35000000, sdi |-> 56000, uv254 |-> 850, toc |-> 16000, boron |-> 50000,
     silica |-> 18000, calcium |-> 4600000, magnesium |-> 14000000, sulfate |-> 30500000, alkalinity |-> 1400000,
     bromide |-> 670000, chlorine |-> 0, orp |-> 3200000, atp |-> 3200000, chlorophyll |-> 32000, tds |-> 450000000]
Limit == [turbidity |-> 3000, sdi |-> 40000, boron |-> 10000, tds |-> 5000000, toc |-> 20000]
Ions == {"silica", "calcium", "magnesium", "sulfate", "alkalinity", "bromide"}
Locations == {"intake", "post_pretreatment", "ro_feed", "permeate", "finished", "brine"}

---------------------------------------------------------------------------
(* Composition.                                                            *)
Passes == [turbidity |-> 1000, particles |-> 1800, sdi |-> 5200, uv254 |-> 7000, toc |-> 8000, atp |-> 4500, chlorophyll |-> 2500]
\* The share that survives a pretreatment that breaks through.
Retention(v, f) == AtMost(Unit, (Passes[v] * (40 + f)) \div 40)

Plant(f) ==
    [feed |-> 500, area |-> 37000, pressure |-> 60000, tds |-> 45000, kelvin |-> 299,
     drop |-> 1000 + 18 * f, b |-> 1500 + 45 * f, erd |-> 95]
RoState(f) ==
    LET r == Solved(Plant(f))
    IN [recovery |-> r, passage |-> SaltPassage(Plant(f), r), ndp |-> DrivingPressure(Plant(f), r),
        concentrate |-> ConcentrateTds(Plant(f), r)]
Dp(f) == 1000 + 18 * f      \* mbar, normalised: the flow is the reference flow
\* De-rating by age: rejection is 0.8836 on a new membrane at the feed's pH.
BoronRejection(f) == (8836 * AtLeast(800, 1000 - 2 * f)) \div 1000

Raw == Intake
Pretreated(f) ==
    [v \in DOMAIN Raw |->
        CASE v \in DOMAIN Passes -> Part(Raw[v], Retention(v, f), Unit)
          [] v = "chlorine" -> 0
          [] v = "orp" -> 1800000
          [] OTHER -> Raw[v]]
PermeateOf(f, ro) ==
    [v \in Ions \cup {"tds", "boron", "turbidity", "toc", "uv254"} |->
        CASE v \in Ions \cup {"tds"} -> Part(Raw[v], ro.passage, 10 * Unit)
          [] v = "boron" -> Part(Raw[v], Unit - BoronRejection(f), Unit)
          [] v = "turbidity" -> 500
          [] OTHER -> Raw[v] \div 20]
FinishedOf(permeate) ==
    [v \in DOMAIN permeate \cup {"chlorine"} |->
        CASE v = "chlorine" -> 6000
          [] v = "calcium" -> 400000
          [] v = "alkalinity" -> 600000
          [] v = "tds" -> permeate["tds"] + 1200000
          [] OTHER -> permeate[v]]
BrineOf(ro) ==
    [v \in Ions \cup {"tds", "boron"} |->
        IF v = "tds" THEN ro.concentrate * Unit ELSE Part(Raw[v], ro.concentrate, 45000)]
\* The water of the plant at one fouling level.
Water(f) ==
    LET ro == RoState(f)
        permeate == PermeateOf(f, ro)
    IN [fouling |-> f, ro |-> ro,
        at |-> [loc \in Locations |->
                 CASE loc = "intake" -> Raw
                   [] loc \in {"post_pretreatment", "ro_feed"} -> Pretreated(f)
                   [] loc = "permeate" -> permeate
                   [] loc = "finished" -> FinishedOf(permeate)
                   [] loc = "brine" -> BrineOf(ro)]]
CleanPressure == RoState(0).ndp
Clamped(f) == AtMost(100, AtLeast(0, f))
\* What compliance reads: with the conductivity that goes with the salinity.
CompositionAt(f, loc) ==
    LET values == IF loc \in Locations THEN Water(Clamped(f)).at[loc] ELSE <<>>
    IN IF "tds" \in DOMAIN values
       THEN [v \in DOMAIN values \cup {"conductivity"} |->
                IF v = "conductivity" THEN (values["tds"] \div 64) * 100 ELSE values[v]]
       ELSE values

---------------------------------------------------------------------------
(* Samples, stages, matrix and removal.                                    *)
SamplingPoints ==
    [p \in 1..20 |->
        CASE p \in 1..3 -> "intake" [] p \in 4..6 -> "post_pretreatment" [] p \in 7..9 -> "ro_feed"
          [] p \in {10, 13, 15, 16} -> "permeate" [] p \in {11, 12, 14, 20} -> "brine" [] OTHER -> "finished"]
Sample(p, w) ==
    LET loc == SamplingPoints[p]
    IN [measurements |-> w.at[loc],
        qc |-> IF loc = "ro_feed" /\ w.at[loc]["sdi"] > Limit["sdi"] THEN "warn" ELSE "passed",
        limit |-> IF loc \in {"permeate", "finished"} THEN {Limit["boron"]} ELSE {}]
StageCompliance(w, loc) ==
    [v \in DOMAIN Limit \cap DOMAIN w.at[loc] |-> w.at[loc][v] <= Limit[v]]

Tracked == {"boron", "tds", "toc", "turbidity"} \cup Ions
\* Per ten thousand of the intake.
Ratio(x, y) == IF y > 200000 THEN x \div (y \div Unit) ELSE (x * Unit) \div y
RemovalPct(intake, finished) == IF intake <= 0 THEN 0 ELSE Unit - Ratio(finished, intake)
MatrixRow(v, w) ==
    [removal |-> RemovalPct(Raw[v], w.at["finished"][v]), limit |-> IF v \in DOMAIN Limit THEN {Limit[v]} ELSE {}]
Removal(v, w) ==
    LET current == MatrixRow(v, w).removal
    IN [current |-> current, predicted |-> AtLeast(0, current - 4 * w.fouling), confidence |-> 700 - 2 * w.fouling]

---------------------------------------------------------------------------
(* Scaling risk in the concentrate.  Saturations are in ten-thousandths.   *)
ProbabilityFromRatio(ratio, warn, critical) ==
    IF ratio <= warn THEN AtLeast(0, (400 * ratio) \div warn)
    ELSE IF ratio >= critical THEN 1000
    ELSE 400 + (600 * (ratio - warn)) \div (critical - warn)
\* How much saltier the concentrate is than the feed, and its square.
Factor(w) == (w.ro.concentrate * 1000) \div 4500
Saturation(salt, w) ==
    CASE salt \in {"CaSO4", "BaSO4", "SrSO4"} ->
            LET base == CASE salt = "CaSO4" -> 7254 [] salt = "BaSO4" -> 26760 [] OTHER -> 5267
            IN Part(Part(base, Factor(w), Unit), Factor(w), Unit)
      [] salt = "SiO2" -> Part(146, Factor(w), Unit)
      [] salt = "CaCO3" -> 7750     \* an index, not a ratio; its logarithm of Factor is 0 on this plant
Salts == <<"CaCO3", "CaSO4", "BaSO4", "SrSO4", "SiO2">>
ScalingRisk(salt, w) ==
    LET s == Saturation(salt, w)
    IN CASE salt = "CaCO3" -> IF s > 0 THEN AtMost(1000, (s * 1000) \div 25000) ELSE 0
         [] salt = "SiO2" -> AtLeast(0, AtMost(1000, ((s - 6000) * 1000) \div 6000))
         [] OTHER -> ProbabilityFromRatio(s, 8000, 15000)
\* The first of the likeliest.
Dominant(w) ==
    Salts[Min({i \in DOMAIN Salts : \A j \in DOMAIN Salts : ScalingRisk(Salts[j], w) <= ScalingRisk(Salts[i], w)})]

---------------------------------------------------------------------------
(* Forecasts.                                                              *)
Horizons == <<1, 8, 24, 168>>    \* hours: 1h, shift, 24h, 7d
Confidence(h) == AtLeast(300, 850 - 6 * h)
\* "rel" is the relative uncertainty in per cent.
Forecast(current, rate, rel, h) ==
    LET predicted == current + (rate * h) \div 10
        spread == Part(Part(predicted, rel, 100), 48 + h, 48)
    IN [predicted |-> predicted, lower |-> predicted - spread, upper |-> predicted + spread, confidence |-> Confidence(h)]
\* Rates are per ten hours.
Salinity(w, h) == Forecast(w.at["permeate"]["tds"], 5000 + 900 * w.fouling, 8, h)
Boron(w, h) == Forecast(w.at["permeate"]["boron"], 80 + 4 * w.fouling, 8, h)
TimeToCritical(w) == 200 * (1000 - ScalingRisk(Dominant(w), w)) + 4000   \* thousandths of an hour

Capped(x, cap) == AtMost(Unit, Part(Unit, x, cap))
ColloidalIndex(w) ==
    LET feed == w.at["ro_feed"]
    IN (5 * Capped(feed["sdi"] \div 100, 650) + 3 * Capped(feed["turbidity"] \div 100, 500)
            + 2 * Capped(feed["particles"] \div 10000, 5000)) \div 10
FoulingRisk(w) ==
    LET feed == w.at["ro_feed"]
    IN AtLeast(0, AtMost(Unit, (4 * ColloidalIndex(w) + 3 * Capped(Dp(w.fouling), 2000)
                                + 2 * Capped(feed["atp"] \div 1000, 4000) + Capped(feed["uv254"], 1000)) \div 10))
Fouling(w, h) == Forecast(FoulingRisk(w), 100 + 4 * w.fouling, 15, h)

---------------------------------------------------------------------------
(* Alerts; each becomes a pending card under an id made from its code.     *)
SalinityAlert(w) == Salinity(w, 24).predicted > Limit["tds"]
BoronAlert(w) == Boron(w, 24).predicted > Limit["boron"]
Breakthrough(w) == w.at["ro_feed"]["sdi"] > Limit["sdi"] \/ Dp(w.fouling) > 1500
WaterAlerts(w) ==
    {<<"scaling", salt>> : salt \in {s \in ToSet(Salts) : ScalingRisk(s, w) >= 500}}
        \cup (IF SalinityAlert(w) THEN {<<"permeate", "salinity">>} ELSE {})
        \cup (IF BoronAlert(w) THEN {<<"permeate", "boron">>} ELSE {})
        \cup (IF Breakthrough(w) THEN {<<"pretreatment", "breakthrough">>} ELSE {})
CardOf(alert) == [id |-> <<"rec-wq", alert>>, status |-> "pending"]
\* Passage at the reference driving pressure, one degree above the reference.
NormalizedPassage(w) ==
    (Part(w.ro.passage, AtLeast(w.ro.ndp, 1000), AtLeast(CleanPressure, 1000)) * 97) \div 100
Snapshot(fouling) ==
    LET w == Water(Clamped(fouling))
    IN [alerts |-> WaterAlerts(w), cards |-> {CardOf(a) : a \in WaterAlerts(w)},
        passage |-> w.ro.passage, normalized |-> NormalizedPassage(w), dp |-> Dp(w.fouling)]

---------------------------------------------------------------------------
(* Checked for every per cent of fouling.                                  *)

\* Worse fouling never silences an alert, and what is measured gets worse
\* with it: a card put for a light case is still due in a heavier one.
AlertsGrow(w, worse) ==
    /\ WaterAlerts(w) \subseteq WaterAlerts(worse)
    /\ NormalizedPassage(w) <= NormalizedPassage(worse)
    /\ FoulingRisk(w) <= FoulingRisk(worse)
    /\ \A v \in {"boron", "tds"} : Removal(v, worse).predicted <= Removal(v, w).predicted

\* The four views agree: a sample flagged at the RO feed or a permeate stage
\* that breaks a limit never comes without its alert, one alert one card.
ViewsAgree(w) ==
    LET breaks(loc) == {v \in DOMAIN StageCompliance(w, loc) : ~StageCompliance(w, loc)[v]}
        s == Snapshot(w.fouling)
    IN /\ \A p \in 1..20 : Sample(p, w).qc = "warn" =>
             "sdi" \in breaks(SamplingPoints[p]) /\ <<"pretreatment", "breakthrough">> \in s.alerts
       /\ "boron" \in breaks("permeate") => <<"permeate", "boron">> \in s.alerts
       /\ "tds" \in breaks("permeate") => <<"permeate", "salinity">> \in s.alerts
       /\ Cardinality(s.cards) = Cardinality(s.alerts)
       /\ ScalingRisk(Dominant(w), w) >= 500 <=> \E a \in s.alerts : a[1] = "scaling"

\* A forecast lies within its bounds; further out the bounds are wider and
\* the confidence is no greater; removal and risks stay within their range.
BoundsHold(w) ==
    /\ \A i \in 1..3 :
          \A pair \in {<<Salinity(w, Horizons[i]), Salinity(w, Horizons[i + 1])>>,
                       <<Boron(w, Horizons[i]), Boron(w, Horizons[i + 1])>>,
                       <<Fouling(w, Horizons[i]), Fouling(w, Horizons[i + 1])>>} :
             /\ pair[1].lower <= pair[1].predicted /\ pair[1].predicted <= pair[1].upper
             /\ pair[1].upper - pair[1].lower <= pair[2].upper - pair[2].lower
             /\ pair[2].confidence <= pair[1].confidence
    /\ \A v \in Tracked : Removal(v, w).current \in 0..Unit
    /\ FoulingRisk(w) \in 0..Unit /\ TimeToCritical(w) \in 4000..204000
    /\ \A s \in ToSet(Salts) : ScalingRisk(s, w) \in 0..1000

\* The risk map neither jumps nor falls as the saturation grows.
RiskContinuous ==
    \A r \in 0..2000 :
        ProbabilityFromRatio(10 * r + 10, 8000, 15000) - ProbabilityFromRatio(10 * r, 8000, 15000) \in 0..1

WaterQualitySound ==
    /\ RiskContinuous
    /\ \A f \in Levels :
          LET w == Water(f)
          IN ViewsAgree(w) /\ BoundsHold(w) /\ (f < 100 => AlertsGrow(w, Water(f + 1)))
=============================================================================
