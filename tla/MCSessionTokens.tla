-------------------------- MODULE MCSessionTokens --------------------------
(* Instances of SessionTokens for TLC.                                      *)
EXTENDS SessionTokens, TLC

CONSTANTS s1, s2, ip1, ip2

(* The first session comes from one address, any other from a second.       *)
IpOfSession == [s \in Sessions |-> IF s = s1 THEN ip1 ELSE ip2]

(* Sessions differ in their address and are not interchangeable.            *)
Symmetry == Permutations(Tokens \ LegacyTokens) \cup Permutations(OAuthFamilies)
              \cup Permutations(Requests)
=============================================================================
