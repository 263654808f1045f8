---------------------------- MODULE MCWorkOrders ----------------------------
(* WorkOrders on a small instance; operators are interchangeable.          *)
EXTENDS WorkOrders, TLC

OperatorSymmetry == Permutations(Operators)
=============================================================================
