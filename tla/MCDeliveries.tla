---------------------------- MODULE MCDeliveries ----------------------------
(* Instances of Deliveries for TLC.                                         *)
EXTENDS Deliveries

(* A message that must not be sent later, though its purpose says it may,   *)
(* and one that may.                                                        *)
TwoKinds ==
  {[template |-> "password_reset", purpose |-> "GENERAL"],
   [template |-> NoTemplate, purpose |-> "GENERAL"]}
=============================================================================
