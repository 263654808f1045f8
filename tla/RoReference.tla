------------------------------ MODULE RoReference ------------------------------
(***************************************************************************)
(* The analytical reverse-osmosis reference of watertwin_engineering       *)
(* (calculations.py): recovery is found by a damped fixed-point iteration, *)
(* and the flows, the salinities and the energy follow from it.  One step  *)
(* is one round of the loop.                                               *)
(*                                                                         *)
(* Recoveries and fractions are in ten-thousandths, pressures in mbar,     *)
(* salinities in mg/L; the loop's threshold of 1e-6 is one unit here.      *)
(***************************************************************************)
EXTENDS Integers, FiniteSets, FiniteSetsExt, SequencesExt

CONSTANTS
    Cases,     \* the plants it is asked about
    Rounds     \* of the loop: 100 in the code

(* A case: feed [m3/h], area [m2], pressure [mbar], tds [mg/L], kelvin,    *)
(* drop [mbar], b (salt transport, 10^-4 LMH), erd (per cent).             *)
VARIABLES case, round, recovery, phase
rovars == <<case, round, recovery, phase>>

Unit == 10000
AtMost(x, y) == IF x < y THEN x ELSE y
AtLeast(x, y) == IF x > y THEN x ELSE y
\* x * n / d with n and d at most 10^5, without leaving 32 bits.
Part(x, n, d) == (x \div d) * n + ((x % d) * n) \div d

\* van 't Hoff's law for NaCl.
Osmotic(tds, kelvin) == ((tds \div 100) * kelvin * 2845) \div Unit
Beta == 110   \* per cent
WallOsmotic(c) == (Osmotic(c.tds, c.kelvin) * Beta) \div 100
\* Half of 1 + 1/(1 - r).
MeanFactor(r) == (Unit * (2 * Unit - r)) \div (2 * (Unit - r))
DrivingPressure(c, r) ==
    AtLeast(c.pressure - (c.drop \div 2) - ((WallOsmotic(c) * (2 * Unit - r)) \div (2 * (Unit - r))), 0)
\* The permeate as a share of the feed, at 3 LMH per bar; nothing caps it.
Permeate(c, r) == (DrivingPressure(c, r) * ((30 * c.area) \div c.feed)) \div 1000
\* The loop's min(0.95, ...).
MaxRecovery == 9500
NewRecovery(c, r) == AtMost(MaxRecovery, Permeate(c, r))
Met(c, r) == NewRecovery(c, r) - r \in -1..1
Damped(c, r) == (r + NewRecovery(c, r)) \div 2

\* The whole loop: what Iterate and Stop do below, by the rounds left.
LoopFrom(c) ==
    LET from[left \in 0..Rounds] ==
          [r \in 0..MaxRecovery |-> IF left = 0 THEN r
                                    ELSE IF Met(c, r) THEN NewRecovery(c, r)
                                    ELSE from[left - 1][Damped(c, r)]]
    IN from
Solved(c) == LoopFrom(c)[Rounds][4000]

Concentrate(c, r) == Unit - Permeate(c, r)
\* Permeate over feed salinity, in hundred-thousandths, at most 1.
SaltPassage(c, r) ==
    IF Permeate(c, r) = 0 THEN 10 * Unit
    ELSE AtMost(10 * Unit,
                (((((36667 * c.b) \div 100000) * (MeanFactor(r) \div 10)) \div 100) * ((30 * c.area) \div c.feed))
                    \div Permeate(c, r))
\* From the salt balance; where no concentrate is left it is the feed.
ConcentrateTds(c, r) ==
    IF Concentrate(c, r) <= 0 THEN c.tds
    ELSE Part(c.tds, Unit - (SaltPassage(c, r) * Permeate(c, r)) \div (10 * Unit), Concentrate(c, r))
\* Of the feed power, in hundredths of a kWh per m3 of permeate; -1 stands for infinity.
SpecificEnergy(c, r) ==
    IF r <= 0 THEN -1
    ELSE LET back == (((Unit - r) * (AtLeast(c.pressure - c.drop, 0) \div 100)) \div 100) * c.erd
             net == AtLeast(Unit * (c.pressure \div 100) - back, 0)
         IN ((net \div 36) * 100) \div (8 * r)

---------------------------------------------------------------------------
RoInit ==
    /\ case \in Cases
    /\ round = 1 /\ recovery = 4000 /\ phase = "iterating"

Iterate ==
    /\ phase = "iterating" /\ round <= Rounds /\ ~Met(case, recovery)
    /\ recovery' = Damped(case, recovery)
    /\ round' = round + 1
    /\ UNCHANGED <<case, phase>>

Stop ==
    /\ phase = "iterating" /\ round <= Rounds /\ Met(case, recovery)
    /\ recovery' = NewRecovery(case, recovery)
    /\ phase' = "returned"
    /\ UNCHANGED <<case, round>>

\* The loop is left without having closed; nothing is said of it.
RunOut ==
    /\ phase = "iterating" /\ round > Rounds
    /\ phase' = "returned"
    /\ UNCHANGED <<case, round, recovery>>

RoNext == Iterate \/ Stop \/ RunOut
RoSpec == RoInit /\ [][RoNext]_rovars

---------------------------------------------------------------------------
RoTypeOK ==
    /\ case \in Cases /\ round \in 1..Rounds + 1
    /\ recovery \in 0..MaxRecovery /\ phase \in {"iterating", "returned"}

\* "A fixed-point iteration closes the coupling between recovery (which
\* raises the concentrate-side osmotic pressure) and water flux": the
\* recovery that is returned is the one the returned flows have, within half
\* a per cent, unless it is the cap, and no more water leaves than enters.
CouplingClosed ==
    phase = "returned" =>
        /\ recovery < MaxRecovery => Permeate(case, recovery) - recovery \in -50..50
        /\ Concentrate(case, recovery) > 0

\* What does hold: a recovery that met the threshold closes the coupling.
ClosedWhenMet == round <= Rounds => CouplingClosed

\* The returned reference is physical: the permeate is fresher and the
\* concentrate saltier than the feed, and the salt is neither made nor lost.
ReferencePhysical ==
    phase = "returned" /\ Concentrate(case, recovery) > 0 =>
        /\ SaltPassage(case, recovery) < 10 * Unit
        /\ ConcentrateTds(case, recovery) > case.tds
        /\ LET salt == Part(case.tds, SaltPassage(case, recovery), 10 * Unit) * Permeate(case, recovery)
                       + ConcentrateTds(case, recovery) * Concentrate(case, recovery)
           IN salt \div Unit - case.tds \in -10..10
        /\ SpecificEnergy(case, recovery) > 0

\* The loop, damped and cut off as it is, returns what the expression says that
\* the water-quality model takes for its plant.
ReturnsSolved == phase = "returned" => recovery = Solved(case)
=============================================================================
