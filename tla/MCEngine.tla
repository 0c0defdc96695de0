------------------------------ MODULE MCEngine ------------------------------
(* Symmetry sets for the instances of Engine in engine_*.cfg. *)
EXTENDS EngineProps, TLC

Symmetry == Permutations(Session) \cup Permutations(OrderId)
=============================================================================
