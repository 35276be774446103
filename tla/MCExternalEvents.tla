-------------------------- MODULE MCExternalEvents --------------------------
(* Instances of ExternalEvents, with AbuseLimits, for TLC.                  *)
EXTENDS ExternalEvents, TLC

OneOfEach == [w \in Windows |-> 1]

Symmetry == Permutations(Handlers)
=============================================================================
