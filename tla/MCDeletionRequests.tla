------------------------- MODULE MCDeletionRequests -------------------------
(* Instances of DeletionRequests for TLC.                                   *)
EXTENDS DeletionRequests, TLC

CONSTANTS u1, e1

(* One address is registered, any other is not.                             *)
OwnerOfEmail == [e \in Emails |-> IF e = e1 THEN u1 ELSE None]

Symmetry == Permutations(DeletionRequests) \cup Permutations(Handlers)
=============================================================================
