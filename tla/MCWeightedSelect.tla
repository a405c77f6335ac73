-------------------------- MODULE MCWeightedSelect --------------------------
(* Small pools for WeightedSelect: members without stake, ties in the       *)
(* running sums, and more seats than members.                               *)
EXTENDS WeightedSelect

MCStakes == 0..2
=============================================================================
