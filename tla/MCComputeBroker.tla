-------------------------- MODULE MCComputeBroker --------------------------
(***************************************************************************)
(* ComputeBroker for TLC: requests and tasks are interchangeable.          *)
(***************************************************************************)
EXTENDS ComputeBroker, TLC

BrokerSymmetry == Permutations(Slots) \cup Permutations(Tasks)
=============================================================================
