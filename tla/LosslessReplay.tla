--------------------------- MODULE LosslessReplay ---------------------------
(***************************************************************************)
(* What store and forward promises, without gateways, wires or processes:  *)
(* batches are issued in order, each is recorded exactly once and in that  *)
(* order, and none is forgotten before it is recorded.                     *)
(***************************************************************************)
EXTENDS Naturals, Sequences, Functions

CONSTANT Batch   \* the batch numbers, in the order they are handed over

VARIABLES
    issued,     \* every batch ever handed over for delivery
    kept,       \* the batches the sender still keeps
    recorded    \* the batches recorded, in order

absVars == <<issued, kept, recorded>>

AbsInit == issued = {} /\ kept = {} /\ recorded = <<>>

Issue(b) ==
    /\ \A x \in issued : x < b
    /\ issued' = issued \cup {b}
    /\ kept' = kept \cup {b}
    /\ UNCHANGED recorded

(* Record the oldest batch not recorded yet.                               *)
Record(b) ==
    /\ b \in kept
    /\ b \notin Range(recorded)
    /\ \A x \in issued : x < b => x \in Range(recorded)
    /\ recorded' = Append(recorded, b)
    /\ UNCHANGED <<issued, kept>>

Forget(b) ==
    /\ b \in kept
    /\ b \in Range(recorded)
    /\ kept' = kept \ {b}
    /\ UNCHANGED <<issued, recorded>>

AbsNext == \E b \in Batch : Issue(b) \/ Record(b) \/ Forget(b)

AbsSpec == AbsInit /\ [][AbsNext]_absVars
=============================================================================
