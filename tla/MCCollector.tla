---------------------------- MODULE MCCollector ----------------------------
(* Collector on small instances.                                           *)
EXTENDS Collector

WallClock == 1 .. 2
=============================================================================
