-------------------------- MODULE LinkedIdentities --------------------------
(***************************************************************************)
(* The accounts at identity providers that users sign in with.  Signing in *)
(* with an identity nobody has links it to the account that verified the   *)
(* e-mail address the provider vouches for, or to a new account; a user    *)
(* links further ones and unlinks them, and Facebook, administrators and   *)
(* data deletion take them away.  The pair of provider and account is      *)
(* unique in the database.                                                 *)
(*                                                                         *)
(* A sign-in with an identity that is linked changes nothing here.  How    *)
(* the callbacks of social sign-in are kept apart is in SignInTickets.  A  *)
(* user who links an identity goes to the provider and back, through a row *)
(* of SocialProviders.                                                     *)
(***************************************************************************)
EXTENDS SocialProviders

CONSTANTS
  Identities,      \* accounts at identity providers
  ProviderOf       \* the provider of each

ASSUME IdentitiesAssumption == Identities \subseteq Items /\ IsFiniteSet(Identities)

VARIABLES
  owner,   \* OAuthAccount: whose each identity is
  auto     \* history: identities linked without being asked, to which address

identityVars == <<owner, auto>>

IdentitiesAreTyped ==
  /\ owner \in [Identities -> Users \cup {None}]
  /\ auto \in [Identities -> Addresses \cup {None}]

IdentitiesInit(table) ==
  /\ owner = table
  /\ auto = [i \in Identities |-> None]

SameIdentities == UNCHANGED identityVars

IdentitiesOf(u) == {i \in Identities : owner[i] = u}

CanSignIn(u) == users[u].password \/ IdentitiesOf(u) # {}

(* History: another than the user, or another unlinking at the same time,   *)
(* takes a sign-in method away.                                             *)
Strip(us) == history' = [history EXCEPT !.stripped = @ \cup us]

----------------------------------------------------------------------------
(* Signing in: loginOrLink, oidcLoginOrCreate *)

(* What a callback or an ID token is verified to: the identity has an       *)
(* address the provider vouches for, another one, or none.  An organisation *)
(* may claim that an address is verified and name none.                     *)
Profiles == [to : Emails \cup {None}, vouched : BOOLEAN]

(* The identity is nobody's.  seen: 1 for a claim to be verified            *)
SignInWithIdentity(h, i, profile) ==
  /\ Begin(h, "identity") /\ owner[i] = None
  /\ Wait(h, [Idle EXCEPT !.at = IF profile.vouched /\ profile.to # None THEN "match" ELSE "create",
                          !.to = profile.to, !.item = i, !.seen = IF profile.vouched THEN 1 ELSE 0])
  /\ SameRows /\ SameIdentities /\ UNCHANGED <<duty, crashes>>

(* Variant: verified or not                                                 *)
MatchAnyEmail(h) ==
  /\ At(h, "match")
  /\ LET u == UserOf(handler[h].to) IN
     IF u # None THEN Wait(h, [handler[h] EXCEPT !.at = "conflict", !.user = u])
     ELSE Goto(h, "create")
  /\ SameRows /\ SameIdentities /\ SameRequests

(* The account with that address, verified                                  *)
MatchEmail(h) ==
  /\ At(h, "match")
  /\ LET u == UserOf(handler[h].to) IN
     IF u # None /\ HasVerified(u, handler[h].to)
     THEN Wait(h, [handler[h] EXCEPT !.at = "conflict", !.user = u])
     ELSE Goto(h, "create")
  /\ SameRows /\ SameIdentities /\ SameRequests

(* No other identity of the provider may be linked to it.                   *)
RefuseConflict(h) ==
  /\ At(h, "conflict")
  /\ IF \E i \in IdentitiesOf(handler[h].user) \ {handler[h].item} :
          ProviderOf[i] = ProviderOf[handler[h].item]
     THEN Finish(h) ELSE Goto(h, "autolink")
  /\ SameRows /\ SameIdentities /\ SameRequests

(* Variant: the address is marked verified, vouched for or not              *)
CreateMarkedVerified(h) ==
  /\ At(h, "create")
  /\ LET a == handler[h].to  vouched == handler[h].seen = 1 IN
     /\ a = None \/ UserOf(a) = None
     /\ \E u \in Users :
          /\ Create(u, [NoUser EXCEPT !.status = "ACTIVE", !.address["email"] = a,
                                      !.verified["email"] = a # None])
          /\ IF vouched /\ a # None THEN Prove(u, a) ELSE UNCHANGED history
          /\ Wait(h, [handler[h] EXCEPT !.at = "link", !.user = u])
  /\ SameIdentities /\ SameRequests

(* Or registration is closed, the address is taken, or there is none and    *)
(* the user is asked for one.  oidcLoginOrCreate marks an address verified  *)
(* that is not there, loginOrLink does not.                                 *)
CreateFromProfile(h) ==
  /\ At(h, "create")
  /\ LET a == handler[h].to  vouched == handler[h].seen = 1 IN
     \/ /\ a = None \/ UserOf(a) = None
        /\ \E u \in Users, marked \in {vouched, vouched /\ a # None} :
             /\ Create(u, [NoUser EXCEPT !.status = "ACTIVE", !.address["email"] = a,
                                         !.verified["email"] = marked])
             /\ IF vouched /\ a # None THEN Prove(u, a) ELSE UNCHANGED history
             /\ Wait(h, [handler[h] EXCEPT !.at = "link", !.user = u])
     \/ Finish(h) /\ SameRows
  /\ SameIdentities /\ SameRequests

(* oAuthAccount.create: refused when the identity is somebody's by now      *)
CreateLink(h, linkedTo) ==
  /\ LET i == handler[h].item IN
     IF owner[i] # None THEN UNCHANGED identityVars
     ELSE /\ owner' = [owner EXCEPT ![i] = handler[h].user]
          /\ auto' = [auto EXCEPT ![i] = linkedTo]
  /\ Finish(h)
  /\ SameRows /\ SameRequests

LinkIdentity(h) == At(h, "link") /\ CreateLink(h, None)
AutoLinkIdentity(h) == At(h, "autolink") /\ CreateLink(h, handler[h].to)

----------------------------------------------------------------------------
(* Linking a further identity *)

LinkIdentityToExistingUser(h, u, i) ==
  /\ Begin(h, "identity") /\ Authenticatable(u)
  /\ owner[i] = None
  /\ Wait(h, [Idle EXCEPT !.at = "link", !.user = u, !.item = i])
  /\ SameRows /\ SameIdentities /\ UNCHANGED <<duty, crashes>>

(* getStartRedirect with linkUserId: who the user is goes to the provider   *)
(* and back in the signed state.  i: the identity he will choose there.     *)
StartLink(h, u, i) ==
  /\ Begin(h, "link") /\ Authenticatable(u)
  /\ EnsureConfig(ProviderOf[i])
  /\ IF ConfigOf(ProviderOf[i]) = None THEN UNCHANGED handler
     ELSE Wait(h, [Idle EXCEPT !.at = "at_provider", !.user = u, !.item = i])
  /\ SameRows /\ SameIdentities /\ UNCHANGED <<duty, crashes, tests>>

(* handleCallback: the provider must be on and tested by now, whatever has  *)
(* become of the account.                                                   *)
LinkIdentityToUser(h) ==
  /\ At(h, "at_provider")
  /\ LET i == handler[h].item IN
     /\ EnsureConfig(ProviderOf[i])
     /\ IF Offered(ProviderOf[i]) /\ owner[i] = None THEN Goto(h, "link") ELSE Finish(h)
  /\ SameRows /\ SameIdentities /\ SameRequests /\ UNCHANGED tests

----------------------------------------------------------------------------
(* Unlinking *)

(* unlinkIdentity: findFirst                                                *)
UnlinkIdentity(h, u, i) ==
  /\ Begin(h, "unlink") /\ Authenticatable(u)
  /\ owner[i] = u
  /\ Wait(h, [Idle EXCEPT !.at = "count", !.user = u, !.item = i])
  /\ SameRows /\ SameIdentities /\ UNCHANGED <<duty, crashes>>

(* handleFacebookDeauthorizeCallback: the same for whoever has the identity *)
HandleDeauthorizeCallback(h, i) ==
  /\ Begin(h, "unlink") /\ owner[i] # None
  /\ Wait(h, [Idle EXCEPT !.at = "count", !.user = owner[i], !.item = i])
  /\ SameRows /\ SameIdentities /\ UNCHANGED <<duty, crashes>>

(* Variant: nothing is counted                                              *)
CountAnyMethods(h) ==
  /\ At(h, "count")
  /\ Goto(h, "unlink")
  /\ SameRows /\ SameIdentities /\ SameRequests

(* The last method of the account is not unlinked; Facebook's is marked.    *)
CountIdentities(h) ==
  /\ At(h, "count")
  /\ LET u == handler[h].user IN
     IF users[u].password \/ Cardinality(IdentitiesOf(u)) > 1
     THEN /\ Goto(h, "unlink")
          /\ IF \E g \in Handlers \ {h} : handler[g].user = u /\ At(g, "unlink")
             THEN Strip({u}) ELSE UNCHANGED history
     ELSE Finish(h) /\ UNCHANGED history
  /\ SameIdentities /\ SameRequests /\ UNCHANGED users

(* oAuthAccount.delete by id; one that is gone is an error.                 *)
DeleteIdentity(h) ==
  /\ At(h, "unlink")
  /\ LET i == handler[h].item IN
     owner' = IF owner[i] = handler[h].user THEN [owner EXCEPT ![i] = None] ELSE owner
  /\ Finish(h)
  /\ SameRows /\ SameRequests /\ UNCHANGED auto

(* unlinkOAuthAccount of an administrator and disconnectProviderData of a   *)
(* deletion ask nothing.                                                    *)
UnlinkOAuthAccount(h, i) ==
  /\ Begin(h, "unlink") /\ owner[i] # None
  /\ owner' = [owner EXCEPT ![i] = None]
  /\ Strip({owner[i]})
  /\ UNCHANGED <<users, handler, duty, crashes, auto>>

(* setPasswordForCurrentUser                                                *)
SetPassword(h, u) ==
  /\ Begin(h, "unlink") /\ Authenticatable(u)
  /\ ~users[u].password
  /\ Wait(h, [Idle EXCEPT !.at = "password", !.user = u])
  /\ SameRows /\ SameIdentities /\ UNCHANGED <<duty, crashes>>

WritePassword(h) ==
  /\ At(h, "password")
  /\ users' = [users EXCEPT ![handler[h].user].password = TRUE]
  /\ Finish(h)
  /\ SameIdentities /\ SameRequests /\ UNCHANGED history

IdentitiesNext ==
  \E h \in Handlers :
    \/ /\ MayBegin(h, "identity")
       /\ \E i \in Identities :
            \/ \E profile \in Profiles : SignInWithIdentity(h, i, profile)
            \/ \E u \in Users : LinkIdentityToExistingUser(h, u, i)
    \/ /\ MayBegin(h, "unlink")
       /\ \/ \E i \in Identities : HandleDeauthorizeCallback(h, i) \/ UnlinkOAuthAccount(h, i)
          \/ \E u \in Users, i \in Identities : UnlinkIdentity(h, u, i)
          \/ \E u \in Users : SetPassword(h, u)
    \/ /\ handler[h] # Idle
       /\ \/ MatchEmail(h) \/ RefuseConflict(h) \/ CreateFromProfile(h)
          \/ LinkIdentity(h) \/ AutoLinkIdentity(h)
          \/ CountIdentities(h) \/ DeleteIdentity(h) \/ WritePassword(h)

(* What asks for a provider's row as well                                   *)
LinkingNext ==
  \E h \in Handlers :
    (\E u \in Users, i \in Identities : StartLink(h, u, i)) \/ LinkIdentityToUser(h)

----------------------------------------------------------------------------
(* Properties *)

(* An identity linked without being asked belongs to an account that has    *)
(* shown the provider's address to be its own, at whatever moment the       *)
(* address is changed, unless it was marked verified for another one.       *)
AutoLinkedMeansProved ==
  \A i \in Identities :
    owner[i] # None /\ auto[i] # None =>
      \/ <<owner[i], auto[i]>> \in history.proved
      \/ <<owner[i], "email">> \in history.overwritten

(* An identity goes to another account only after it was unlinked, and an   *)
(* account that can be signed in to stays so: unlinking its last method is  *)
(* refused, unless two unlinkings overlap or others than the user take it.  *)
IdentitiesStay ==
  [][/\ \A i \in Identities : owner[i] # None => owner'[i] \in {owner[i], None}
     /\ \A u \in Users : CanSignIn(u) => CanSignIn(u)' \/ u \in history.stripped']_<<users, owner, history>>
=============================================================================
