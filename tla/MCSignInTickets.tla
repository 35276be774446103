-------------------------- MODULE MCSignInTickets --------------------------
(* Instances of SignInTickets for TLC.                                      *)
EXTENDS SignInTickets, TLC

Symmetry == Permutations(Codes) \cup Permutations(Handlers)
=============================================================================
