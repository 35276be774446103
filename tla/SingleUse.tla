----------------------------- MODULE SingleUse -----------------------------
(***************************************************************************)
(* What a one-time ticket promises: once issued it buys at most one grant,  *)
(* however often and by however many requests it is presented.              *)
(***************************************************************************)
EXTENDS Naturals

CONSTANT Tickets

VARIABLES
  issued,  \* tickets handed out
  grants   \* how often each has been honoured

vars == <<issued, grants>>

Init == issued = {} /\ grants = [t \in Tickets |-> 0]

Issue(t) ==
  /\ t \notin issued
  /\ issued' = issued \cup {t}
  /\ UNCHANGED grants

Grant(t) ==
  /\ t \in issued /\ grants[t] = 0
  /\ grants' = [grants EXCEPT ![t] = 1]
  /\ UNCHANGED issued

Next == \E t \in Tickets : Issue(t) \/ Grant(t)

Spec == Init /\ [][Next]_vars

=============================================================================
