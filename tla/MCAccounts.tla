----------------------------- MODULE MCAccounts -----------------------------
(* Instances of Accounts for TLC: a user with a password and a verified     *)
(* address, one who came by two identities, and a free id; two providers,   *)
(* one switched on and one not tested yet, and a free row; three roles.     *)
EXTENDS Accounts, TLC

CONSTANTS h1, h2, p1, p2, u1, u2, u3, a1, a2, n1, g1, g2, f1, r1, r2, r3, i1, c1, c2, c3, t1

StartUsers ==
  [u \in Users |->
     CASE u = u1 -> [NoUser EXCEPT !.status = "ACTIVE", !.password = TRUE,
                                   !.address["email"] = a1, !.verified["email"] = TRUE]
       [] u = u2 -> [NoUser EXCEPT !.status = "ACTIVE"]
       [] OTHER -> NoUser]

StartOwners == [i \in Identities |-> IF i = g2 THEN None ELSE u2]

Provider == [i \in Identities |-> IF i = f1 THEN "facebook" ELSE "google"]

Name == [c \in Configs |-> IF c = c3 THEN "facebook" ELSE "google"]

StartConfigs ==
  [c \in Configs |->
     CASE c = c1 -> [NoConfig EXCEPT !.state = "there", !.complete = TRUE, !.tested = TRUE, !.asked = TRUE,
                                     !.status = "ACTIVE", !.wanted = "ACTIVE"]
       [] c = c3 -> [NoConfig EXCEPT !.state = "there", !.complete = TRUE]
       [] OTHER -> NoConfig]

AllItems == (1 .. MaxTokens) \cup Identities \cup Configs \cup Tests \cup Roles \cup Invitations

Symmetry == Permutations(Handlers) \cup Permutations(Permissions)

(* What a behaviour mixes                                                   *)
Mixes ==
  {{"profile", "verify", "expiry"}, {"register", "verify"}, {"verify", "admin"}, {"reset", "erase"},
   {"otp", "expiry"}, {"identity", "unlink"}, {"link", "unlink"}, {"identity", "profile"},
   {"identity", "verify"}, {"erase", "verify"}, {"erase", "identity"}, {"erase", "link"},
   {"roles", "admin"}, {"roles", "erase"}, {"roles", "permissions"}, {"invite", "register"},
   {"invite", "permissions"}, {"providers", "link"}}
=============================================================================
