------------------------------ MODULE Accounts ------------------------------
(***************************************************************************)
(* Accounts as a whole: codes and tokens, linked identities with their     *)
(* providers and the administrators' changes, on the same user rows, with  *)
(* the erasure that takes all of it away and requests that die half-way.   *)
(***************************************************************************)
EXTENDS VerificationCodes, LinkedIdentities, AdminAccess

CONSTANTS
  UsersAtStart,    \* the user rows a behaviour begins with
  OwnersAtStart,   \* whose the identities are
  ConfigsAtStart,  \* the providers' rows
  RolesAtStart,    \* the seeded roles
  SuperRole,       \* the seeded role of super administrators
  SuperAtStart     \* who has it

(* The rows are ones the program wrote: an identity is somebody's who is     *)
(* there, no provider is on that did not pass a test, and the seed was run  *)
(* with the first super administrator and the permissions of his role.      *)
ASSUME StartAssumption ==
  /\ UsersAtStart \in [Users -> UserRow]
  /\ \A u \in Users : UsersAtStart[u].status = "none" => UsersAtStart[u] = NoUser
  /\ OwnersAtStart \in [Identities -> Users \cup {None}]
  /\ \A i \in Identities : OwnersAtStart[i] # None => UsersAtStart[OwnersAtStart[i]].status # "none"
  /\ ConfigsAtStart \in [Configs -> Config]
  /\ \A c \in Configs : ConfigsAtStart[c].state = "there" =>
       /\ ConfigsAtStart[c].tested => ConfigsAtStart[c].asked
       /\ ConfigsAtStart[c].status = "ACTIVE" => ConfigsAtStart[c].tested /\ ConfigsAtStart[c].wanted = "ACTIVE"
  /\ RolesAtStart \subseteq Roles /\ SuperRole \in RolesAtStart /\ Permissions # {}
  /\ SuperAtStart \subseteq Users /\ SuperAtStart # {}

vars == <<rowVars, codeVars, providerVars, identityVars, adminVars>>

TypeOK == RowsAreTyped /\ CodesAreTyped /\ ProvidersAreTyped /\ IdentitiesAreTyped /\ AdminIsTyped

Init ==
  /\ RowsInit(UsersAtStart)
  /\ CodesInit
  /\ ProvidersInit(ConfigsAtStart)
  /\ IdentitiesInit(OwnersAtStart)
  /\ AdminInit(RolesAtStart, SuperRole, SuperAtStart)

SameOthers == SameCodes /\ SameProviders /\ SameIdentities /\ SameAdmin

----------------------------------------------------------------------------
(* revokeAndAnonymizeAccount of a deletion *)

EraseAccount(h, u) ==
  /\ Begin(h, "erase") /\ users[u].status # "none"
  /\ Wait(h, [Idle EXCEPT !.at = "erase", !.user = u])
  /\ SameRows /\ SameOthers /\ UNCHANGED <<duty, crashes>>

(* Variant: the links that verify addresses stay as well                    *)
DeleteResets(u) ==
  tokens' = [t \in DOMAIN tokens |->
               IF tokens[t].user = u /\ tokens[t].kind = "reset"
               THEN [tokens[t] EXCEPT !.deleted = TRUE] ELSE tokens[t]]

(* One transaction; codes for telephone numbers stay.                       *)
DeleteTokens(u) ==
  tokens' = [t \in DOMAIN tokens |->
               IF tokens[t].user = u /\ tokens[t].kind \in {"email", "reset"}
               THEN [tokens[t] EXCEPT !.deleted = TRUE] ELSE tokens[t]]

EraseLinks(h) ==
  /\ At(h, "erase")
  /\ LET u == handler[h].user IN
     /\ DeleteTokens(u)
     /\ owner' = [i \in Identities |-> IF owner[i] = u THEN None ELSE owner[i]]
     /\ userRoles' = userRoles \ ({u} \X Roles)
     /\ slack' = (slack \/ u \in SuperAdmins)
     /\ Strip({u})
  /\ Wait(h, [handler[h] EXCEPT !.at = "anonymize", !.seen = Len(tokens)])
  /\ SameOtp /\ SameProviders /\ SameInvitations /\ SameRequests /\ UNCHANGED <<users, auto, roles>>

(* What was added since the transaction stays; seen: the tokens there were. *)
AddedMeanwhile(h, u) ==
  \/ IdentitiesOf(u) # {}
  \/ \E t \in (handler[h].seen + 1) .. Len(tokens) :
       tokens[t].user = u /\ tokens[t].kind \in {"email", "reset"} /\ Open(t)

EraseRow(h) ==
  /\ At(h, "anonymize")
  /\ LET u == handler[h].user IN
     /\ users' = [users EXCEPT ![u] = ErasedUser]
     /\ history' = [history EXCEPT !.erased = @ \cup {u}, !.stripped = @ \cup {u},
                                   !.revived = IF OthersWith(h, u) \/ AddedMeanwhile(h, u)
                                                THEN @ \cup {u} ELSE @]
  /\ Finish(h)
  /\ SameOthers /\ SameRequests

----------------------------------------------------------------------------

Die(h) ==
  /\ Crash(h)
  /\ LeaveToken(h) /\ LeaveAdmin(h)
  /\ SameOtp /\ SameProviders /\ SameIdentities /\ UNCHANGED <<roles, userRoles>>

ProfilesNext ==
  \E h \in Handlers :
    \/ \E u \in Users, a \in Addresses : UpdateCurrentUserProfile(h, u, a) \/ UpdateMyAccount(h, u, a)
    \/ WriteProfile(h)

Next ==
  \/ ProfilesNext /\ SameOthers
  \/ CodesNext /\ SameProviders /\ SameIdentities /\ SameAdmin
  \/ ProvidersNext /\ SameCodes /\ SameIdentities /\ SameAdmin
  \/ IdentitiesNext /\ SameCodes /\ SameProviders /\ SameAdmin
  \/ LinkingNext /\ SameCodes /\ SameAdmin
  \/ AdminNext /\ SameCodes /\ SameProviders /\ SameIdentities
  \/ \E h \in Handlers :
       (\E u \in Users : EraseAccount(h, u)) \/ EraseLinks(h) \/ EraseRow(h) \/ Die(h)

Spec == Init /\ [][Next]_vars

----------------------------------------------------------------------------
(* Properties *)

(* An account that was erased has no address, no password and no identity   *)
(* any more and nobody signs in to it, unless a request that had it before  *)
(* wrote to it meanwhile or an administrator makes it active: its links are *)
(* gone, and no request finds it by an address.                             *)
ErasedStaysErased ==
  \A u \in history.erased \ history.revived :
    /\ [users[u] EXCEPT !.status = "DELETED"] = ErasedUser
    /\ ~Authenticatable(u) /\ IdentitiesOf(u) = {}
=============================================================================
