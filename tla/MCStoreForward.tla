--------------------------- MODULE MCStoreForward ---------------------------
(* StoreForward on small instances.                                        *)
EXTENDS StoreForward, TLC

(* The slots are interchangeable, and so are the processes.                *)
Symmetry == Permutations(Conn) \cup Permutations(Api)
=============================================================================
