------------------------- MODULE MCConfigLifecycle -------------------------
(* ConfigLifecycle on small instances.                                     *)
EXTENDS ConfigLifecycle, TLC

Symmetry == Permutations(Request) \cup Permutations(Payload)
=============================================================================
