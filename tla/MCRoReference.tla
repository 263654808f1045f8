---------------------------- MODULE MCRoReference ----------------------------
(* RoReference on the clean plant of the water-quality engine.               *)
EXTENDS RoReference

\* watertwin-api/app/water_quality.py: the clean plant.
PlantCases ==
    {[feed |-> 500, area |-> 37000, pressure |-> 60000, tds |-> 45000, kelvin |-> 299, drop |-> 1000, b |-> 1500, erd |-> 95]}
=============================================================================
