---------------------------- MODULE ServiceAnalysis ----------------------------
(***************************************************************************)
(* The analyses of Services that take an input and keep nothing: the       *)
(* condition models of the equipment and the decisions of the              *)
(* configuration.                                                          *)
(***************************************************************************)
Condition == INSTANCE ConditionModels
Gate == INSTANCE Gatekeeping
=============================================================================
