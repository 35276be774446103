--------------------------- MODULE Accounts_proofs ---------------------------
(***************************************************************************)
(* Accounts as a whole, for any number of accounts, rows and requests,     *)
(* whatever overlaps or dies: a provider that is on passed its own test    *)
(* and was switched on; an invitation ends once; an address that counts as *)
(* verified was proved, and so was the one an identity was linked by; a    *)
(* super administrator remains; identities keep their owner and accounts a *)
(* way to sign in; an erased account stays empty; links and codes take     *)
(* effect once.                                                            *)
(*                                                                         *)
(* Each part has an invariant of its tables and of what the requests that  *)
(* work on them know.  The steps of the other parts are told apart by      *)
(* where a request waits, before and after.                                *)
(***************************************************************************)
EXTENDS Accounts, FiniteSetTheorems, SequenceTheorems, TLAPS

----------------------------------------------------------------------------
(* Requests in flight *)

Fields == {"at", "user", "to", "item", "seen"}

HandlersAreRecords ==
  DOMAIN handler = Handlers /\ \A h \in Handlers : DOMAIN handler[h] = Fields

TestPlaces == {"passed", "refused", "record_success", "record_failure"}
ProviderPlaces == {"update_provider", "switch_on", "switch_off", "test_provider"} \cup TestPlaces
InvitePlaces == {"resend", "revoke", "invited", "account", "enrol", "accepted"}

OthersStay(h) == \A g \in Handlers \ {h} : handler'[g] = handler[g]

(* A step of h that has to do with neither providers nor invitations        *)
Elsewhere(h) ==
  /\ HandlersAreRecords' /\ OthersStay(h)
  /\ handler'[h] = handler[h] \/ handler'[h].at \notin ProviderPlaces \cup InvitePlaces

InviteStep(h) ==
  \/ \E i \in Invitations :
       \/ \E a \in Emails, r \in Roles : CreateAdminInvitation(h, i, a, r)
       \/ \E place \in {"resend", "revoke"} : TakeInvitation(h, i, place)
       \/ AcceptAdminInvitation(h, i)
  \/ ResendInvitation(h) \/ RevokeInvitation(h) \/ FindInvited(h) \/ WriteInvited(h)
  \/ EnrolInvited(h) \/ MarkAccepted(h)

LEMMA IdleIsARecord ==
  DOMAIN Idle = Fields /\ Idle.at = "idle" /\ Idle.to = None /\ Idle.item = None /\ Idle.seen = 0
  BY DEF Idle, Fields

(* The four ways a request moves                                            *)
LEMMA Waits ==
  ASSUME HandlersAreRecords, NEW h \in Handlers, NEW x, DOMAIN x = Fields, Wait(h, x)
  PROVE  HandlersAreRecords' /\ OthersStay(h) /\ handler'[h] = x
  BY DEF HandlersAreRecords, OthersStay, Wait

LEMMA Goes ==
  ASSUME HandlersAreRecords, NEW h \in Handlers, NEW place, Goto(h, place)
  PROVE  /\ HandlersAreRecords' /\ OthersStay(h)
         /\ handler'[h] = [handler[h] EXCEPT !.at = place] /\ handler'[h].at = place
         /\ \A f \in Fields \ {"at"} : handler'[h][f] = handler[h][f]
  BY DEF HandlersAreRecords, OthersStay, Goto, Fields

LEMMA Finishes ==
  ASSUME HandlersAreRecords, NEW h \in Handlers, Finish(h)
  PROVE  HandlersAreRecords' /\ OthersStay(h) /\ handler'[h] = Idle
  BY IdleIsARecord DEF HandlersAreRecords, OthersStay, Finish

LEMMA Stays ==
  ASSUME HandlersAreRecords, NEW h \in Handlers, UNCHANGED handler
  PROVE  HandlersAreRecords' /\ OthersStay(h) /\ handler'[h] = handler[h] /\ Elsewhere(h)
  BY DEF HandlersAreRecords, OthersStay, Elsewhere

LEMMA WaitsElsewhere ==
  ASSUME HandlersAreRecords, NEW h \in Handlers, NEW x, DOMAIN x = Fields, Wait(h, x),
         x.at \notin ProviderPlaces \cup InvitePlaces
  PROVE  Elsewhere(h)
  BY Waits DEF Elsewhere

LEMMA GoesElsewhere ==
  ASSUME HandlersAreRecords, NEW h \in Handlers, NEW place, Goto(h, place),
         place \notin ProviderPlaces \cup InvitePlaces
  PROVE  Elsewhere(h)
  BY Goes DEF Elsewhere

LEMMA FinishesElsewhere ==
  ASSUME HandlersAreRecords, NEW h \in Handlers, Finish(h)
  PROVE  Elsewhere(h)
  BY Finishes, IdleIsARecord DEF Elsewhere, ProviderPlaces, InvitePlaces, TestPlaces

LEMMA ProfilesMoveElsewhere ==
  ASSUME HandlersAreRecords, ProfilesNext
  PROVE  \E h \in Handlers : Elsewhere(h)
  <1> USE DEF ProviderPlaces, InvitePlaces, TestPlaces
  <1>1. PICK h \in Handlers :
          \/ \E u \in Users, a \in Addresses : UpdateCurrentUserProfile(h, u, a) \/ UpdateMyAccount(h, u, a)
          \/ WriteProfile(h)
    BY DEF ProfilesNext
  <1>2. ASSUME NEW u \in Users, NEW a \in Addresses, UpdateCurrentUserProfile(h, u, a) PROVE Elsewhere(h)
    <2>1. DOMAIN [Idle EXCEPT !.at = "profile", !.user = u, !.to = a] = Fields
          /\ [Idle EXCEPT !.at = "profile", !.user = u, !.to = a].at = "profile"
      BY DEF Idle, Fields
    <2>2. QED
      BY <1>2, <2>1, WaitsElsewhere DEF UpdateCurrentUserProfile
  <1>3. ASSUME NEW u \in Users, NEW a \in Addresses, UpdateMyAccount(h, u, a) PROVE Elsewhere(h)
    BY <1>3, Stays DEF UpdateMyAccount
  <1>4. ASSUME WriteProfile(h) PROVE Elsewhere(h)
    BY <1>4, FinishesElsewhere DEF WriteProfile
  <1>5. QED
    BY <1>1, <1>2, <1>3, <1>4

LEMMA CodesMoveElsewhere ==
  ASSUME HandlersAreRecords, CodesNext
  PROVE  (\E h \in Handlers : Elsewhere(h)) \/ UNCHANGED handler
  <1> USE DEF ProviderPlaces, InvitePlaces, TestPlaces, Fields
  <1>1. SUFFICES ASSUME handler' # handler PROVE \E h \in Handlers : Elsewhere(h)
    OBVIOUS
  <1>2. PICK h \in Handlers :
       \/ \E a \in Addresses : RegisterUser(h, a)
       \/ (\E a \in Addresses : ForgotPassword(h, a)) \/ \E t \in DOMAIN tokens : ResetPassword(h, t)
       \/ \E u \in Users, a \in Addresses : RequestEmailVerification(h, u, a) \/ RequestPhoneChange(h, u, a)
       \/ \E t \in DOMAIN tokens : ConfirmEmailVerification(h, t)
       \/ \E u \in Users, right \in BOOLEAN : ConfirmPhoneChange(h, u, right)
       \/ \E a \in Addresses : RequestLoginOtp(h, a) \/ \E right \in BOOLEAN : VerifyLoginOtp(h, a, right)
       \/ CreateUser(h) \/ SendEmailLink(h) \/ SendPhoneCode(h) \/ SendResetLink(h)
       \/ CountAttempt(h) \/ ApplyAddress(h) \/ MarkUsed(h)
       \/ CommitReset(h) \/ StoreOtp(h) \/ CoolDown(h) \/ DropOtp(h) \/ CountWrongOtp(h)
       \/ UseOtp(h) \/ SignInWithOtp(h)
    BY <1>1 DEF CodesNext, TokenExpires, CooldownEnds, OtpExpires
  <1>3. ASSUME NEW a \in Addresses, RegisterUser(h, a) PROVE Elsewhere(h)
    BY <1>3, WaitsElsewhere DEF RegisterUser, Idle
  <1>4. ASSUME NEW a \in Addresses, ForgotPassword(h, a) PROVE Elsewhere(h)
    BY <1>4, WaitsElsewhere DEF ForgotPassword, Idle
  <1>5. ASSUME NEW t \in DOMAIN tokens, ResetPassword(h, t) PROVE Elsewhere(h)
    BY <1>5, WaitsElsewhere DEF ResetPassword, Idle
  <1>6. ASSUME NEW u \in Users, NEW a \in Addresses, RequestEmailVerification(h, u, a) \/ RequestPhoneChange(h, u, a)
        PROVE  Elsewhere(h)
    BY <1>6, WaitsElsewhere DEF RequestEmailVerification, RequestPhoneChange, RequestVerification, Idle
  <1>7. ASSUME NEW t \in DOMAIN tokens, ConfirmEmailVerification(h, t) PROVE Elsewhere(h)
    BY <1>7, WaitsElsewhere DEF ConfirmEmailVerification, Idle
  <1>8. ASSUME NEW u \in Users, NEW right \in BOOLEAN, ConfirmPhoneChange(h, u, right) PROVE Elsewhere(h)
    BY <1>8, WaitsElsewhere DEF ConfirmPhoneChange, Idle
  <1>9. ASSUME NEW a \in Addresses, RequestLoginOtp(h, a) PROVE Elsewhere(h)
    BY <1>9, WaitsElsewhere DEF RequestLoginOtp, Idle
  <1>10. ASSUME NEW a \in Addresses, NEW right \in BOOLEAN, VerifyLoginOtp(h, a, right) PROVE Elsewhere(h)
    BY <1>10, WaitsElsewhere DEF VerifyLoginOtp, Idle
  <1>11. ASSUME CreateUser(h) PROVE Elsewhere(h)
    BY <1>11, WaitsElsewhere, FinishesElsewhere DEF CreateUser, Idle
  <1>12. ASSUME \/ SendEmailLink(h) \/ SendPhoneCode(h) \/ SendResetLink(h) \/ CountAttempt(h) \/ MarkUsed(h)
               \/ CommitReset(h) \/ CoolDown(h) \/ DropOtp(h) \/ CountWrongOtp(h) \/ SignInWithOtp(h)
        PROVE  Elsewhere(h)
    BY <1>12, FinishesElsewhere DEF SendEmailLink, SendPhoneCode, SendResetLink, CreateToken, CountAttempt,
       MarkUsed, CommitReset, CoolDown, DropOtp, CountWrongOtp, SignInWithOtp
  <1>13. ASSUME ApplyAddress(h) \/ StoreOtp(h) \/ UseOtp(h) PROVE Elsewhere(h)
    BY <1>13, GoesElsewhere, FinishesElsewhere DEF ApplyAddress, StoreOtp, UseOtp
  <1>14. QED
    BY <1>2, <1>3, <1>4, <1>5, <1>6, <1>7, <1>8, <1>9, <1>10, <1>11, <1>12, <1>13

LEMMA IdentitiesMoveElsewhere ==
  ASSUME HandlersAreRecords, IdentitiesNext
  PROVE  \E h \in Handlers : Elsewhere(h)
  <1> USE DEF ProviderPlaces, InvitePlaces, TestPlaces, Fields
  <1>1. PICK h \in Handlers :
       \/ \E i \in Identities :
            \/ \E profile \in Profiles : SignInWithIdentity(h, i, profile)
            \/ \E u \in Users : LinkIdentityToExistingUser(h, u, i)
       \/ \E i \in Identities : HandleDeauthorizeCallback(h, i) \/ UnlinkOAuthAccount(h, i)
       \/ \E u \in Users, i \in Identities : UnlinkIdentity(h, u, i)
       \/ \E u \in Users : SetPassword(h, u)
       \/ MatchEmail(h) \/ RefuseConflict(h) \/ CreateFromProfile(h)
       \/ LinkIdentity(h) \/ AutoLinkIdentity(h)
       \/ CountIdentities(h) \/ DeleteIdentity(h) \/ WritePassword(h)
    BY DEF IdentitiesNext
  <1>2. DOMAIN handler[h] = Fields
    BY DEF HandlersAreRecords
  <1>3. ASSUME NEW i \in Identities, NEW profile \in Profiles, SignInWithIdentity(h, i, profile) PROVE Elsewhere(h)
    BY <1>3, WaitsElsewhere DEF SignInWithIdentity, Idle
  <1>4. ASSUME NEW i \in Identities, NEW u \in Users, LinkIdentityToExistingUser(h, u, i) \/ UnlinkIdentity(h, u, i)
        PROVE  Elsewhere(h)
    BY <1>4, WaitsElsewhere DEF LinkIdentityToExistingUser, UnlinkIdentity, Idle
  <1>5. ASSUME NEW i \in Identities, HandleDeauthorizeCallback(h, i) PROVE Elsewhere(h)
    BY <1>5, WaitsElsewhere DEF HandleDeauthorizeCallback, Idle
  <1>6. ASSUME NEW i \in Identities, UnlinkOAuthAccount(h, i) PROVE Elsewhere(h)
    BY <1>6, Stays DEF UnlinkOAuthAccount
  <1>7. ASSUME NEW u \in Users, SetPassword(h, u) PROVE Elsewhere(h)
    BY <1>7, WaitsElsewhere DEF SetPassword, Idle
  <1>8. ASSUME MatchEmail(h) PROVE Elsewhere(h)
    BY <1>2, <1>8, WaitsElsewhere, GoesElsewhere DEF MatchEmail
  <1>9. ASSUME CreateFromProfile(h) PROVE Elsewhere(h)
    BY <1>2, <1>9, WaitsElsewhere, FinishesElsewhere DEF CreateFromProfile
  <1>10. ASSUME RefuseConflict(h) \/ CountIdentities(h) PROVE Elsewhere(h)
    BY <1>10, GoesElsewhere, FinishesElsewhere DEF RefuseConflict, CountIdentities
  <1>11. ASSUME LinkIdentity(h) \/ AutoLinkIdentity(h) \/ DeleteIdentity(h) \/ WritePassword(h)
         PROVE  Elsewhere(h)
    BY <1>11, FinishesElsewhere DEF LinkIdentity, AutoLinkIdentity, CreateLink, DeleteIdentity, WritePassword
  <1>12. QED
    BY <1>1, <1>3, <1>4, <1>5, <1>6, <1>7, <1>8, <1>9, <1>10, <1>11

LEMMA AdministratorsMoveElsewhere ==
  ASSUME HandlersAreRecords, AdminNext
  PROVE  \/ \E h \in Handlers : Elsewhere(h) /\ SameInvitations
         \/ \E h \in Handlers : InviteStep(h)
         \/ \E i \in Invitations : InvitationExpires(i)
  <1> USE DEF ProviderPlaces, InvitePlaces, TestPlaces, Fields
  <1>1. SUFFICES ASSUME ~ \E i \in Invitations : InvitationExpires(i)
                 PROVE  \E h \in Handlers : (Elsewhere(h) /\ SameInvitations) \/ InviteStep(h)
    OBVIOUS
  <1>2. PICK h \in Handlers :
       \/ \E u \in Users, s \in Statuses : CloseUser(h, u, s) \/ ReopenUser(h, u, s)
       \/ \E u \in Users, r \in Roles :
            \/ AssignRoleToUser(h, u, r) \/ RemoveRoleFromUser(h, u, r)
            \/ \E actor \in Users : AssignExistingUserAdmin(h, actor, u, r)
       \/ \E r \in Roles, granted \in SUBSET Permissions :
            CreateRole(h, r, granted) \/ \E patch \in BOOLEAN : ReplacePermissions(h, r, granted, patch)
       \/ \E r \in Roles : DeleteRole(h, r) \/ RemovePermissionFromRole(h, r)
       \/ \E r \in Roles, super \in BOOLEAN : RenameRole(h, r, super)
       \/ \E r \in Roles, p \in Permissions : AddPermission(h, r, p)
       \/ WriteStatus(h) \/ DeleteUserRole(h) \/ DeleteSystemRoles(h) \/ GrantRole(h)
       \/ (\E p \in Permissions : DeletePermission(h, p)) \/ CommitDeleteRole(h)
       \/ InviteStep(h)
    BY <1>1 DEF AdminNext, InviteStep, Statuses
  <1>3. ASSUME NEW u \in Users, NEW s \in Statuses, CloseUser(h, u, s) PROVE Elsewhere(h) /\ SameInvitations
    BY <1>3, WaitsElsewhere DEF CloseUser, SameAdmin, adminVars, SameInvitations, Idle
  <1>4. ASSUME NEW u \in Users, NEW s \in Statuses, ReopenUser(h, u, s) PROVE Elsewhere(h) /\ SameInvitations
    BY <1>4, Stays DEF ReopenUser, SameAdmin, adminVars, SameInvitations
  <1>5. ASSUME NEW u \in Users, NEW r \in Roles, AssignRoleToUser(h, u, r) PROVE Elsewhere(h) /\ SameInvitations
    BY <1>5, Stays DEF AssignRoleToUser
  <1>6. ASSUME NEW u \in Users, NEW r \in Roles, RemoveRoleFromUser(h, u, r) PROVE Elsewhere(h) /\ SameInvitations
    BY <1>6, WaitsElsewhere DEF RemoveRoleFromUser, Idle
  <1>7. ASSUME NEW u \in Users, NEW r \in Roles, NEW actor \in Users, AssignExistingUserAdmin(h, actor, u, r)
        PROVE  Elsewhere(h) /\ SameInvitations
    BY <1>7, WaitsElsewhere DEF AssignExistingUserAdmin, Idle
  <1>8. ASSUME NEW r \in Roles, NEW granted \in SUBSET Permissions, NEW patch \in BOOLEAN,
               CreateRole(h, r, granted) \/ ReplacePermissions(h, r, granted, patch)
        PROVE  Elsewhere(h) /\ SameInvitations
    BY <1>8, Stays DEF CreateRole, ReplacePermissions
  <1>9. ASSUME NEW r \in Roles, DeleteRole(h, r) \/ RemovePermissionFromRole(h, r)
        PROVE  Elsewhere(h) /\ SameInvitations
    BY <1>9, WaitsElsewhere DEF DeleteRole, RemovePermissionFromRole, SameAdmin, adminVars, SameInvitations, Idle
  <1>10. ASSUME NEW r \in Roles, NEW super \in BOOLEAN, RenameRole(h, r, super)
         PROVE  Elsewhere(h) /\ SameInvitations
    BY <1>10, Stays DEF RenameRole
  <1>11. ASSUME NEW r \in Roles, NEW p \in Permissions, AddPermission(h, r, p)
         PROVE  Elsewhere(h) /\ SameInvitations
    BY <1>11, Stays DEF AddPermission
  <1>12. ASSUME NEW p \in Permissions, DeletePermission(h, p) PROVE Elsewhere(h) /\ SameInvitations
    BY <1>12, FinishesElsewhere DEF DeletePermission
  <1>13. ASSUME WriteStatus(h) \/ DeleteUserRole(h) \/ GrantRole(h) \/ CommitDeleteRole(h)
         PROVE  Elsewhere(h) /\ SameInvitations
    BY <1>13, FinishesElsewhere
    DEF WriteStatus, DeleteUserRole, GrantRole, CommitDeleteRole, SameAdmin, adminVars, SameInvitations
  <1>14. ASSUME DeleteSystemRoles(h) PROVE Elsewhere(h) /\ SameInvitations
    BY <1>14, GoesElsewhere DEF DeleteSystemRoles
  <1>15. QED
    BY <1>2, <1>3, <1>4, <1>5, <1>6, <1>7, <1>8, <1>9, <1>10, <1>11, <1>12, <1>13, <1>14

----------------------------------------------------------------------------
(* Invitations *)

(* A request that has an invitation found it pending, and it is so still    *)
(* unless another had it as well.                                           *)
HoldersFoundItPending ==
  \A h \in Handlers : handler[h].at \in InvitePlaces =>
    LET i == handler[h].item IN
    /\ i \in Invitations /\ invitation[i].status # "none"
    /\ invitation[i].shared \/ invitation[i].status = "PENDING"

PendingHasNotEnded ==
  \A i \in Invitations :
    invitation[i].shared
      \/ (invitation[i].status \in {"none", "PENDING"} => invitation[i].uses = 0 /\ ~invitation[i].revoked)

HasInvitation(h, i) == handler[h].at \in InvitePlaces /\ handler[h].item = i

OneHolder ==
  \A i \in Invitations :
    invitation[i].shared \/ \A g, h \in Handlers : HasInvitation(g, i) /\ HasInvitation(h, i) => g = h

InvitationInv ==
  /\ invitation \in [Invitations -> Invitation]
  /\ HoldersFoundItPending /\ PendingHasNotEnded /\ OneHolder
  /\ InvitationsEndOnce

LEMMA InvitationsStay ==
  ASSUME InvitationInv, NEW h \in Handlers, OthersStay(h),
         handler'[h] = handler[h] \/ handler'[h].at \notin InvitePlaces, SameInvitations
  PROVE  InvitationInv'
  <1> USE DEF InvitationInv, SameInvitations, OthersStay
  <1>1. HoldersFoundItPending'
    BY DEF HoldersFoundItPending
  <1>2. PendingHasNotEnded' /\ InvitationsEndOnce'
    BY DEF PendingHasNotEnded, InvitationsEndOnce
  <1>3. OneHolder'
    BY DEF OneHolder, HasInvitation
  <1>4. QED
    BY <1>1, <1>2, <1>3

(* A step of the request that has invitation i, which may change            *)
LEMMA HoldersStep ==
  ASSUME InvitationInv, NEW h \in Handlers, OthersStay(h), NEW i \in Invitations, NEW row \in Invitation,
         invitation' = [invitation EXCEPT ![i] = row],
         handler'[h].at \in InvitePlaces => handler'[h].item = i /\ row.status = "PENDING" /\ HasInvitation(h, i),
         HasInvitation(h, i), invitation[i].status # "none" => row.status # "none",
         invitation[i].shared => row.shared,
         row.shared \/ (row.status \in {"none", "PENDING"} => row.uses = 0 /\ ~row.revoked),
         row.shared \/ row.uses + (IF row.revoked THEN 1 ELSE 0) <= 1
  PROVE  InvitationInv'
  <1> USE DEF InvitationInv, OthersStay
  <1>1. invitation' \in [Invitations -> Invitation]
    OBVIOUS
  <1>2. PendingHasNotEnded' /\ InvitationsEndOnce'
    BY DEF PendingHasNotEnded, InvitationsEndOnce
  <1>3. OneHolder'
    BY DEF OneHolder, HasInvitation
  <1>4. HoldersFoundItPending'
    BY DEF HoldersFoundItPending, OneHolder, HasInvitation
  <1>5. QED
    BY <1>1, <1>2, <1>3, <1>4

(* The next step of a request that has the invitation                       *)
LEMMA HoldersMove ==
  ASSUME InvitationInv, NEW h \in Handlers, OthersStay(h), SameInvitations, handler[h].at \in InvitePlaces,
         handler'[h].at \in InvitePlaces => handler'[h].item = handler[h].item
  PROVE  InvitationInv'
  <1> USE DEF InvitationInv, SameInvitations, OthersStay
  <1>1. HoldersFoundItPending'
    BY DEF HoldersFoundItPending
  <1>2. PendingHasNotEnded' /\ InvitationsEndOnce'
    BY DEF PendingHasNotEnded, InvitationsEndOnce
  <1>3. OneHolder'
    BY DEF OneHolder, HasInvitation
  <1>4. QED
    BY <1>1, <1>2, <1>3

(* A request takes a pending invitation, which is shared if another has it. *)
LEMMA Takes ==
  ASSUME InvitationInv, NEW h \in Handlers, OthersStay(h), NEW i \in Invitations, Share(h, i),
         invitation[i].status = "PENDING", handler'[h].item = i
  PROVE  InvitationInv'
  <1> USE DEF InvitationInv, OthersStay, Share
  <1>1. PICK row \in Invitation :
          /\ invitation' = [invitation EXCEPT ![i] = row]
          /\ row.shared = (invitation[i].shared \/ OthersHold(h, i))
          /\ row.status = "PENDING" /\ row.uses = invitation[i].uses /\ row.revoked = invitation[i].revoked
    <2>1. invitation[i] \in Invitation /\ OthersHold(h, i) \in BOOLEAN
      BY DEF OthersHold
    <2>2. [invitation[i] EXCEPT !.shared = @ \/ OthersHold(h, i)] \in Invitation
      BY <2>1 DEF Invitation
    <2>3. invitation' = [invitation EXCEPT ![i] = [invitation[i] EXCEPT !.shared = @ \/ OthersHold(h, i)]]
      OBVIOUS
    <2>4. QED
      BY <2>1, <2>2, <2>3 DEF Invitation
  <1>2. invitation' \in [Invitations -> Invitation]
    BY <1>1
  <1>3. PendingHasNotEnded' /\ InvitationsEndOnce'
    BY <1>1 DEF PendingHasNotEnded, InvitationsEndOnce
  <1>4. row.shared \/ \A g \in Handlers \ {h} : handler[g].item # i
    BY <1>1 DEF OthersHold
  <1>5. HoldersFoundItPending'
    BY <1>1 DEF HoldersFoundItPending
  <1>6. OneHolder'
    BY <1>1, <1>4 DEF OneHolder, HasInvitation
  <1>7. QED
    BY <1>2, <1>3, <1>5, <1>6

LEMMA InviteStepsKeepIt ==
  ASSUME InvitationInv, HandlersAreRecords, NEW h \in Handlers, InviteStep(h)
  PROVE  InvitationInv' /\ HandlersAreRecords'
  <1> USE DEF InvitePlaces, Fields
  <1>0. DOMAIN handler[h] = Fields
    BY DEF HandlersAreRecords
  <1>1. ASSUME NEW i \in Invitations, NEW a \in Emails, NEW r \in Roles, CreateAdminInvitation(h, i, a, r)
        PROVE  InvitationInv' /\ HandlersAreRecords'
    <2>1. UNCHANGED handler /\ HandlersAreRecords'
      BY <1>1, Stays DEF CreateAdminInvitation
    <2>2. PICK row \in Invitation :
            /\ invitation' = [invitation EXCEPT ![i] = row]
            /\ row.status = "PENDING" /\ row.uses = 0 /\ ~row.revoked
      <3> DEFINE x == [NoInvitation EXCEPT !.status = "PENDING", !.to = a, !.role = r, !.live = TRUE]
      <3>1. x \in Invitation /\ x.status = "PENDING" /\ x.uses = 0 /\ ~x.revoked
        BY DEF NoInvitation, Invitation
      <3>2. invitation' = [invitation EXCEPT ![i] = x]
        BY <1>1 DEF CreateAdminInvitation
      <3>3. QED
        BY <3>1, <3>2
    <2>3. invitation[i].status = "none"
      BY <1>1 DEF CreateAdminInvitation
    <2>4. invitation' \in [Invitations -> Invitation] /\ PendingHasNotEnded' /\ InvitationsEndOnce'
      BY <2>2 DEF InvitationInv, PendingHasNotEnded, InvitationsEndOnce
    <2>5. HoldersFoundItPending'
      BY <2>1, <2>2, <2>3 DEF InvitationInv, HoldersFoundItPending
    <2>6. OneHolder'
      BY <2>1, <2>2, <2>3 DEF InvitationInv, OneHolder, HasInvitation, HoldersFoundItPending
    <2>7. QED
      BY <2>1, <2>4, <2>5, <2>6 DEF InvitationInv
  <1>2. ASSUME NEW i \in Invitations, NEW place \in {"resend", "revoke"}, TakeInvitation(h, i, place)
        PROVE  InvitationInv' /\ HandlersAreRecords'
    <2>1. HandlersAreRecords' /\ OthersStay(h) /\ handler'[h].item = i
      <3> DEFINE x == [Idle EXCEPT !.at = place, !.item = i]
      <3>1. DOMAIN x = Fields /\ x.item = i
        BY DEF Idle
      <3>2. Wait(h, x)
        BY <1>2 DEF TakeInvitation
      <3> HIDE DEF x
      <3>3. QED
        BY <3>1, <3>2, Waits
    <2>2. QED
      BY <1>2, <2>1, Takes DEF TakeInvitation
  <1>3. ASSUME NEW i \in Invitations, AcceptAdminInvitation(h, i) PROVE InvitationInv' /\ HandlersAreRecords'
    <2>1. HandlersAreRecords' /\ OthersStay(h) /\ handler'[h].item = i
      <3> DEFINE x == [Idle EXCEPT !.at = "invited", !.item = i, !.to = invitation[i].to,
                                  !.seen = IF Exists(invitation[i].role) THEN 1 ELSE 0]
      <3>1. DOMAIN x = Fields /\ x.item = i
        BY DEF Idle
      <3>2. Wait(h, x)
        BY <1>3 DEF AcceptAdminInvitation
      <3> HIDE DEF x
      <3>3. QED
        BY <3>1, <3>2, Waits
    <2>2. QED
      BY <1>3, <2>1, Takes DEF AcceptAdminInvitation
  <1>4. ASSUME ResendInvitation(h) \/ RevokeInvitation(h) \/ MarkAccepted(h)
        PROVE  InvitationInv' /\ HandlersAreRecords'
    <2> DEFINE i == handler[h].item
    <2>1. HandlersAreRecords' /\ OthersStay(h) /\ handler'[h].at = "idle"
      BY <1>4, Finishes, IdleIsARecord DEF ResendInvitation, RevokeInvitation, MarkAccepted
    <2>2. i \in Invitations /\ invitation[i] \in Invitation
          /\ (invitation[i].shared \/ invitation[i].status = "PENDING") /\ HasInvitation(h, i)
      BY <1>4 DEF ResendInvitation, RevokeInvitation, MarkAccepted, At, InvitationInv, HoldersFoundItPending, HasInvitation
    <2>3. invitation[i].shared \/ (invitation[i].uses = 0 /\ ~invitation[i].revoked)
      BY <2>2 DEF InvitationInv, PendingHasNotEnded
    <2>4. CASE ResendInvitation(h)
      <3>1. PICK row \in Invitation :
              /\ invitation' = [invitation EXCEPT ![i] = row]
              /\ row.shared = invitation[i].shared /\ row.status = invitation[i].status
              /\ row.uses = invitation[i].uses /\ row.revoked = invitation[i].revoked
        <4> DEFINE x == [invitation[i] EXCEPT !.live = TRUE]
        <4>1. x \in Invitation
          BY <2>2 DEF Invitation
        <4>2. invitation' = [invitation EXCEPT ![i] = x]
          BY <2>4 DEF ResendInvitation
        <4>3. QED
          BY <2>2, <4>1, <4>2 DEF Invitation
      <3>2. QED
        <4>1. /\ invitation[i].status # "none" => row.status # "none"
              /\ row.shared \/ (row.status \in {"none", "PENDING"} => row.uses = 0 /\ ~row.revoked)
              /\ row.shared \/ row.uses + (IF row.revoked THEN 1 ELSE 0) <= 1
          BY <2>2, <2>3, <3>1
        <4>2. handler'[h].at \notin InvitePlaces
          BY <2>1
        <4> HIDE DEF i, InvitePlaces
        <4>3. QED
          BY <2>1, <2>2, <3>1, <4>1, <4>2, HoldersStep
    <2>5. CASE RevokeInvitation(h)
      <3>1. PICK row \in Invitation :
              /\ invitation' = [invitation EXCEPT ![i] = row]
              /\ row.shared = invitation[i].shared /\ row.status = "REVOKED"
              /\ row.uses = invitation[i].uses /\ row.revoked
        <4> DEFINE x == [invitation[i] EXCEPT !.status = "REVOKED", !.revoked = TRUE]
        <4>1. x \in Invitation
          BY <2>2 DEF Invitation
        <4>2. invitation' = [invitation EXCEPT ![i] = x]
          BY <2>5 DEF RevokeInvitation
        <4>3. QED
          BY <2>2, <4>1, <4>2 DEF Invitation
      <3>2. QED
        <4>1. /\ invitation[i].status # "none" => row.status # "none"
              /\ row.shared \/ (row.status \in {"none", "PENDING"} => row.uses = 0 /\ ~row.revoked)
              /\ row.shared \/ row.uses + (IF row.revoked THEN 1 ELSE 0) <= 1
          BY <2>2, <2>3, <3>1
        <4>2. handler'[h].at \notin InvitePlaces
          BY <2>1
        <4> HIDE DEF i, InvitePlaces
        <4>3. QED
          BY <2>1, <2>2, <3>1, <4>1, <4>2, HoldersStep
    <2>6. CASE MarkAccepted(h)
      <3>1. PICK row \in Invitation :
              /\ invitation' = [invitation EXCEPT ![i] = row]
              /\ row.shared = invitation[i].shared /\ row.status = "ACCEPTED"
              /\ row.uses = invitation[i].uses + 1 /\ row.revoked = invitation[i].revoked
        <4> DEFINE x == [invitation[i] EXCEPT !.status = "ACCEPTED", !.uses = @ + 1]
        <4> DEFINE n == invitation[i].uses + 1
        <4>1. n \in Nat
          BY <2>2 DEF Invitation
        <4>2. x = [invitation[i] EXCEPT !.status = "ACCEPTED", !.uses = n]
          OBVIOUS
        <4> HIDE DEF n
        <4>3. x \in Invitation
          BY <2>2, <4>1, <4>2 DEF Invitation
        <4> USE DEF n
        <4>4. invitation' = [invitation EXCEPT ![i] = x]
          BY <2>2, <2>6 DEF MarkAccepted, InvitationInv
        <4>5. QED
          BY <2>2, <4>3, <4>4 DEF Invitation
      <3>2. QED
        <4>1. /\ invitation[i].status # "none" => row.status # "none"
              /\ row.shared \/ (row.status \in {"none", "PENDING"} => row.uses = 0 /\ ~row.revoked)
              /\ row.shared \/ row.uses + (IF row.revoked THEN 1 ELSE 0) <= 1
          BY <2>2, <2>3, <3>1
        <4>2. handler'[h].at \notin InvitePlaces
          BY <2>1
        <4> HIDE DEF i, InvitePlaces
        <4>3. QED
          BY <2>1, <2>2, <3>1, <4>1, <4>2, HoldersStep
    <2>7. QED
      BY <1>4, <2>4, <2>5, <2>6
  <1>5. ASSUME FindInvited(h) \/ WriteInvited(h) \/ EnrolInvited(h)
        PROVE  InvitationInv' /\ HandlersAreRecords'
    <2>1. /\ HandlersAreRecords' /\ OthersStay(h)
          /\ handler'[h].at \in InvitePlaces => handler'[h].item = handler[h].item
      <3>1. CASE FindInvited(h)
        <4> DEFINE x == [handler[h] EXCEPT !.at = "account", !.user = UserOf(handler[h].to)]
        <4>1. DOMAIN x = Fields /\ x.item = handler[h].item
          BY <1>0
        <4>2. Wait(h, x)
          BY <3>1 DEF FindInvited
        <4> HIDE DEF x
        <4>3. QED
          BY <4>1, <4>2, Waits
      <3>2. CASE WriteInvited(h)
        <4>1. ASSUME NEW v \in Users, Wait(h, [handler[h] EXCEPT !.at = "enrol", !.user = v])
              PROVE  HandlersAreRecords' /\ OthersStay(h) /\ handler'[h].item = handler[h].item
          <5> DEFINE x == [handler[h] EXCEPT !.at = "enrol", !.user = v]
          <5>1. DOMAIN x = Fields /\ x.item = handler[h].item
            BY <1>0
          <5>2. Wait(h, x)
            BY <4>1
          <5> HIDE DEF x
          <5>3. QED
            BY <5>1, <5>2, Waits
        <4>2. ASSUME Goto(h, "enrol")
              PROVE  HandlersAreRecords' /\ OthersStay(h) /\ handler'[h].item = handler[h].item
          BY <4>2, Goes
        <4>3. ASSUME Finish(h)
              PROVE  HandlersAreRecords' /\ OthersStay(h) /\ handler'[h].at \notin InvitePlaces
          BY <4>3, Finishes, IdleIsARecord
        <4> HIDE DEF InvitePlaces, Fields
        <4>4. QED
          BY <3>2, <4>1, <4>2, <4>3, Zenon DEF WriteInvited
      <3>3. CASE EnrolInvited(h)
        BY <3>3, Goes, Finishes, IdleIsARecord DEF EnrolInvited
      <3>4. QED
        BY <1>5, <3>1, <3>2, <3>3
    <2>2. SameInvitations /\ handler[h].at \in InvitePlaces
      BY <1>5 DEF FindInvited, WriteInvited, EnrolInvited, SameAdmin, adminVars, SameInvitations, At
    <2>3. QED
      BY <2>1, <2>2, HoldersMove
  <1>6. QED
    BY <1>1, <1>2, <1>3, <1>4, <1>5 DEF InviteStep

LEMMA ExpiryKeepsInvitations ==
  ASSUME InvitationInv, NEW i \in Invitations, InvitationExpires(i)
  PROVE  InvitationInv' /\ UNCHANGED handler
  <1> USE DEF InvitationInv
  <1>1. PICK row \in Invitation :
          /\ invitation' = [invitation EXCEPT ![i] = row]
          /\ row.shared = invitation[i].shared /\ row.status = invitation[i].status
          /\ row.uses = invitation[i].uses /\ row.revoked = invitation[i].revoked
    <2> DEFINE x == [invitation[i] EXCEPT !.live = FALSE]
    <2>1. x \in Invitation
      BY DEF Invitation
    <2>2. invitation' = [invitation EXCEPT ![i] = x]
      BY DEF InvitationExpires
    <2>3. QED
      BY <2>1, <2>2 DEF Invitation
  <1>2. UNCHANGED handler
    BY DEF InvitationExpires
  <1>3. invitation' \in [Invitations -> Invitation] /\ PendingHasNotEnded' /\ InvitationsEndOnce'
    BY <1>1 DEF PendingHasNotEnded, InvitationsEndOnce
  <1>4. HoldersFoundItPending' /\ OneHolder'
    BY <1>1, <1>2 DEF HoldersFoundItPending, OneHolder, HasInvitation
  <1>5. QED
    BY <1>2, <1>3, <1>4

(* A request that dies leaves its invitation marked as shared.              *)
LEMMA DeathKeepsInvitations ==
  ASSUME InvitationInv, HandlersAreRecords, NEW h \in Handlers, Finish(h), LeaveAdmin(h)
  PROVE  InvitationInv'
  <1> USE DEF InvitationInv, InvitePlaces
  <1>1. OthersStay(h) /\ handler'[h].at = "idle"
    BY Finishes, IdleIsARecord
  <1>2. CASE handler[h].item \in Invitations
    <2> DEFINE i == handler[h].item
    <2>1. PICK row \in Invitation :
            /\ invitation' = [invitation EXCEPT ![i] = row]
            /\ row.shared /\ row.status = invitation[i].status
      <3> DEFINE x == [invitation[i] EXCEPT !.shared = TRUE]
      <3>1. x \in Invitation
        BY <1>2 DEF Invitation
      <3>2. invitation' = [invitation EXCEPT ![i] = x]
        BY <1>2 DEF LeaveAdmin
      <3>3. QED
        BY <1>2, <3>1, <3>2 DEF Invitation
    <2>2. invitation' \in [Invitations -> Invitation] /\ PendingHasNotEnded' /\ InvitationsEndOnce'
      BY <1>2, <2>1 DEF PendingHasNotEnded, InvitationsEndOnce
    <2>3. HoldersFoundItPending' /\ OneHolder'
      BY <1>1, <1>2, <2>1 DEF HoldersFoundItPending, OneHolder, HasInvitation, OthersStay
    <2>4. QED
      BY <2>2, <2>3
  <1>3. CASE handler[h].item \notin Invitations
    BY <1>1, <1>3, InvitationsStay DEF LeaveAdmin, SameInvitations
  <1>4. QED
    BY <1>2, <1>3

----------------------------------------------------------------------------
(* Providers *)

Known(c) == c \in Configs /\ configs[c].state # "none"
Wished(c) == configs[c].wanted = "ACTIVE" \/ configs[c].stale

RowsAreSound ==
  \A c \in Configs : There(c) =>
    /\ configs[c].tested => configs[c].asked
    /\ configs[c].status = "ACTIVE" => configs[c].tested /\ Wished(c)

TestsAreAsked ==
  \A t \in Tests :
    IF tests[t].state = "none" THEN tests[t].outcomes = 0
    ELSE /\ Known(tests[t].config)
         /\ There(tests[t].config) => configs[tests[t].config].asked

HasTest(h, t) == handler[h].at \in TestPlaces /\ handler[h].to = t

(* What a request remembers: the row it works on is not another's, for ids  *)
(* are not used again, and what it will write of it may be written.         *)
Knows(h) ==
  LET c == handler[h].item  t == handler[h].to IN
  /\ handler[h].at \in {"update_provider", "switch_on", "switch_off", "test_provider"} => Known(c)
  /\ At(h, "update_provider") /\ handler[h].seen = 1 /\ There(c) => configs[c].tested /\ Wished(c)
  /\ At(h, "switch_on") /\ There(c) => configs[c].tested
  /\ handler[h].at \in TestPlaces =>
       t \in Tests /\ tests[t].state # "none" /\ (tests[t].shared \/ tests[t].outcomes = 0)
  /\ handler[h].at \in {"refused", "record_success", "record_failure"} => c = tests[t].config
  /\ handler[h].at \in {"record_success", "record_failure"} => tests[t].state = "gone"

RequestsKnow == \A h \in Handlers : Knows(h)

OneOutcome ==
  \A t \in Tests :
    \/ tests[t].shared
    \/ /\ tests[t].outcomes <= 1
       /\ tests[t].state = "pending" => tests[t].outcomes = 0
       /\ \A g, h \in Handlers : HasTest(g, t) /\ HasTest(h, t) => g = h

ProvidersTyped == configs \in [Configs -> Config] /\ tests \in [Tests -> Test]

ProviderInv == ProvidersTyped /\ RowsAreSound /\ TestsAreAsked /\ RequestsKnow /\ OneOutcome

(* What a step of h may do to rows and tests that others remember           *)
ConfigsGrow ==
  \A c \in Configs : configs[c].state # "none" =>
    /\ configs'[c].state # "none"
    /\ configs'[c].state = "there" =>
         /\ There(c)
         /\ configs[c].tested => configs'[c].tested
         /\ configs[c].asked => configs'[c].asked

WishesStay(h) ==
  \A g \in Handlers \ {h} : At(g, "update_provider") /\ handler[g].seen = 1 =>
    (There(handler[g].item)' /\ Wished(handler[g].item) => Wished(handler[g].item)')

TestsGrow(h) ==
  \A t \in Tests :
    /\ tests[t].shared => tests'[t].shared
    /\ tests[t].state # "none" => tests'[t].state # "none" /\ tests'[t].config = tests[t].config
    /\ tests[t].state = "gone" => tests'[t].state = "gone"
    /\ tests'[t].outcomes = tests[t].outcomes \/ HasTest(h, t)

LEMMA OthersKnow ==
  ASSUME ProviderInv, NEW h \in Handlers, OthersStay(h), ConfigsGrow, WishesStay(h), TestsGrow(h),
         NEW g \in Handlers, g # h
  PROVE  Knows(g)'
  <1> USE DEF OthersStay
  <1> DEFINE c == handler[g].item
  <1> DEFINE t == handler[g].to
  <1>1. handler'[g] = handler[g]
    OBVIOUS
  <1>2. Knows(g)
    BY DEF ProviderInv, RequestsKnow
  <1>3. Known(c) => Known(c)' /\ (There(c)' => There(c) /\ (configs[c].tested => configs'[c].tested))
    BY DEF ConfigsGrow, Known, There
  <1>4. At(g, "update_provider") /\ handler[g].seen = 1 => (There(c)' /\ Wished(c) => Wished(c)')
    BY DEF WishesStay
  <1>5. handler[g].at \in TestPlaces =>
          /\ t \in Tests /\ tests'[t].state # "none" /\ tests'[t].config = tests[t].config
          /\ tests[t].state = "gone" => tests'[t].state = "gone"
          /\ tests'[t].shared \/ tests'[t].outcomes = 0
    BY <1>2 DEF Knows, TestsGrow, ProviderInv, OneOutcome, HasTest
  <1>6. QED
    BY <1>1, <1>2, <1>3, <1>4, <1>5 DEF Knows, At, TestPlaces

LEMMA AskedStays ==
  ASSUME ProviderInv, NEW h \in Handlers, ConfigsGrow, TestsGrow(h), NEW t \in Tests, tests[t].state # "none"
  PROVE  /\ tests'[t].state # "none" /\ Known(tests[t].config)' /\ tests'[t].config = tests[t].config
         /\ configs'[tests'[t].config].state = "there" => configs'[tests'[t].config].asked
  <1> DEFINE c == tests[t].config
  <1>1. tests'[t].state # "none" /\ tests'[t].config = c
    BY DEF TestsGrow
  <1>2. c \in Configs /\ configs[c].state # "none" /\ (configs[c].state = "there" => configs[c].asked)
    BY DEF ProviderInv, TestsAreAsked, Known, There
  <1>3. configs'[c].state # "none" /\ (configs'[c].state = "there" => configs'[c].asked)
    BY <1>2 DEF ConfigsGrow, There
  <1>4. QED
    BY <1>1, <1>2, <1>3 DEF Known, There

LEMMA NobodyElseStarts ==
  ASSUME ProviderInv, NEW h \in Handlers, OthersStay(h), UNCHANGED tests,
         \A t \in Tests : HasTest(h, t)' => HasTest(h, t)
  PROVE  OneOutcome'
  BY DEF ProviderInv, OneOutcome, HasTest, OthersStay

(* Steps that leave the tests as they are                                   *)
LEMMA TestsStay ==
  ASSUME ProviderInv, NEW h \in Handlers, OthersStay(h), UNCHANGED tests,
         configs' \in [Configs -> Config], ConfigsGrow, WishesStay(h), RowsAreSound', Knows(h)',
         \A t \in Tests : HasTest(h, t)' => HasTest(h, t)
  PROVE  ProviderInv'
  <1>1. TestsGrow(h)
    BY DEF TestsGrow
  <1>2. TestsAreAsked'
    BY <1>1, AskedStays DEF TestsAreAsked, ProviderInv, Known, There
  <1>3. RequestsKnow'
    BY <1>1, OthersKnow DEF RequestsKnow
  <1>4. OneOutcome'
    BY NobodyElseStarts
  <1>5. QED
    BY <1>2, <1>3, <1>4 DEF ProviderInv, ProvidersTyped

LEMMA ProvidersStay ==
  ASSUME ProviderInv, NEW h \in Handlers, OthersStay(h), SameProviders,
         handler'[h] = handler[h] \/ handler'[h].at \notin ProviderPlaces
  PROVE  ProviderInv'
  <1> USE DEF SameProviders, providerVars
  <1>1. ConfigsGrow /\ WishesStay(h)
    BY DEF ConfigsGrow, WishesStay, OthersStay, There, Wished
  <1>2. RowsAreSound' /\ configs' \in [Configs -> Config]
    BY DEF ProviderInv, ProvidersTyped, RowsAreSound, There, Wished
  <1>3. Knows(h)' /\ \A t \in Tests : HasTest(h, t)' => HasTest(h, t)
    <2>1. CASE handler'[h] = handler[h]
      BY <2>1 DEF ProviderInv, RequestsKnow, Knows, Known, There, Wished, At, HasTest
    <2>2. CASE handler'[h].at \notin ProviderPlaces
      BY <2>2 DEF Knows, At, HasTest, ProviderPlaces, TestPlaces
    <2>3. QED
      BY <2>1, <2>2
  <1>4. QED
    BY <1>1, <1>2, <1>3, TestsStay

(* A row is made where there was none.                                      *)
LEMMA ConfigIsThere ==
  ASSUME NEW p, ConfigOf(p) # None
  PROVE  ConfigOf(p) \in Configs /\ There(ConfigOf(p))
  BY DEF ConfigOf

LEMMA NewRow ==
  ASSUME ProviderInv, NEW c \in Configs, NEW complete \in BOOLEAN, NewConfig(c, complete)
  PROVE  /\ configs' \in [Configs -> Config] /\ ConfigsGrow /\ RowsAreSound'
         /\ \A b \in Configs : configs[b].state # "none" => configs'[b] = configs[b]
  <1> DEFINE x == [NoConfig EXCEPT !.state = "there", !.complete = complete]
  <1>1. x \in Config /\ x.state = "there" /\ ~x.tested /\ x.status = "INACTIVE"
    BY DEF NoConfig, Config
  <1>2. configs' = [configs EXCEPT ![c] = x] /\ configs[c].state = "none"
    BY DEF NewConfig
  <1> HIDE DEF x
  <1>3. configs' \in [Configs -> Config]
    BY <1>1, <1>2 DEF ProviderInv, ProvidersTyped
  <1>4. \A b \in Configs : configs'[b] = IF b = c THEN x ELSE configs[b]
    BY <1>2 DEF ProviderInv, ProvidersTyped
  <1>5. RowsAreSound'
    BY <1>1, <1>4 DEF ProviderInv, RowsAreSound, There, Wished
  <1>6. ConfigsGrow
    BY <1>2, <1>4 DEF ConfigsGrow, There
  <1>7. QED
    BY <1>2, <1>3, <1>4, <1>5, <1>6

LEMMA EnsuredRow ==
  ASSUME ProviderInv, NEW p, EnsureConfig(p)
  PROVE  /\ configs' \in [Configs -> Config] /\ ConfigsGrow /\ RowsAreSound'
         /\ \A b \in Configs : configs[b].state # "none" => configs'[b] = configs[b]
  <1>1. CASE UNCHANGED configs
    BY <1>1 DEF ProviderInv, ProvidersTyped, RowsAreSound, ConfigsGrow, There, Wished
  <1>2. CASE \E c \in Configs : NewConfig(c, FALSE)
    BY <1>2, NewRow
  <1>3. QED
    BY <1>1, <1>2 DEF EnsureConfig

LEMMA SameRowsSameWishes ==
  ASSUME ProviderInv, NEW h \in Handlers, OthersStay(h),
         \A b \in Configs : configs[b].state # "none" => configs'[b] = configs[b]
  PROVE  WishesStay(h)
  <1>1. SUFFICES ASSUME NEW g \in Handlers \ {h}, At(g, "update_provider")
                 PROVE  There(handler[g].item)' /\ Wished(handler[g].item) => Wished(handler[g].item)'
    BY DEF WishesStay
  <1>2. Known(handler[g].item) /\ handler'[g] = handler[g]
    BY <1>1 DEF ProviderInv, RequestsKnow, Knows, At, OthersStay
  <1>3. QED
    BY <1>2 DEF Known, Wished

(* A step that makes a row at most and has nothing to remember              *)
LEMMA EnsuringKeepsProviders ==
  ASSUME ProviderInv, NEW h \in Handlers, OthersStay(h), UNCHANGED tests,
         configs' \in [Configs -> Config], ConfigsGrow, RowsAreSound',
         \A b \in Configs : configs[b].state # "none" => configs'[b] = configs[b],
         handler'[h] = handler[h] \/ handler'[h].at \notin ProviderPlaces
  PROVE  ProviderInv'
  <1>1. WishesStay(h)
    BY SameRowsSameWishes
  <1>2. CASE handler'[h] = handler[h]
    <2> DEFINE c == handler[h].item
    <2>1. Knows(h)
      BY DEF ProviderInv, RequestsKnow
    <2>2. Known(c) => configs'[c] = configs[c]
      BY DEF Known
    <2>3. Knows(h)'
      BY <1>2, <2>1, <2>2 DEF Knows, Known, There, Wished, At, TestPlaces
    <2>4. QED
      BY <1>1, <1>2, <2>3, TestsStay DEF HasTest
  <1>3. CASE handler'[h].at \notin ProviderPlaces
    <2>1. Knows(h)' /\ \A t \in Tests : ~HasTest(h, t)'
      BY <1>3 DEF Knows, At, HasTest, ProviderPlaces, TestPlaces
    <2>2. QED
      BY <1>1, <2>1, TestsStay
  <1>4. QED
    BY <1>2, <1>3

(* Steps that change one row                                                *)
LEMMA RowChanges ==
  ASSUME ProviderInv, NEW h \in Handlers, OthersStay(h), UNCHANGED tests, NEW c \in Configs, NEW row \in Config,
         configs' = [configs EXCEPT ![c] = row],
         row.state # "none",
         row.state = "there" =>
           /\ There(c) /\ (configs[c].tested => row.tested) /\ (configs[c].asked => row.asked)
           /\ row.tested => row.asked
           /\ row.status = "ACTIVE" => row.tested /\ (row.wanted = "ACTIVE" \/ row.stale),
         (row.wanted = configs[c].wanted /\ row.stale = configs[c].stale) \/ row.state = "deleted"
           \/ row.wanted = "ACTIVE"
           \/ \A g \in Handlers \ {h} : At(g, "update_provider") /\ handler[g].item = c /\ handler[g].seen = 1 => row.stale,
         handler'[h].at \notin ProviderPlaces
  PROVE  ProviderInv'
  <1>1. configs' \in [Configs -> Config] /\ \A b \in Configs : configs'[b] = IF b = c THEN row ELSE configs[b]
    BY DEF ProviderInv, ProvidersTyped
  <1>2. ConfigsGrow
    BY <1>1 DEF ConfigsGrow, There
  <1>3. RowsAreSound'
    BY <1>1 DEF RowsAreSound, ProviderInv, There, Wished
  <1>4. WishesStay(h)
    <2>1. SUFFICES ASSUME NEW g \in Handlers \ {h}, At(g, "update_provider"), handler[g].seen = 1,
                          There(handler[g].item)', Wished(handler[g].item)
                   PROVE  Wished(handler[g].item)'
      BY DEF WishesStay
    <2>2. Known(handler[g].item) /\ handler'[g] = handler[g]
      BY <2>1 DEF ProviderInv, RequestsKnow, Knows, At, OthersStay
    <2>3. QED
      BY <1>1, <2>1, <2>2 DEF Known, Wished, There
  <1>5. Knows(h)' /\ \A t \in Tests : ~HasTest(h, t)'
    BY DEF Knows, At, HasTest, ProviderPlaces, TestPlaces
  <1>6. QED
    BY <1>1, <1>2, <1>3, <1>4, <1>5, TestsStay

(* Steps that change one test that was begun                                *)
LEMMA TestChanges ==
  ASSUME ProviderInv, NEW h \in Handlers, OthersStay(h),
         configs' \in [Configs -> Config], ConfigsGrow, RowsAreSound', WishesStay(h),
         NEW t \in Tests, NEW row \in Test, tests' = [tests EXCEPT ![t] = row],
         tests[t].state # "none", row.state # "none", row.config = tests[t].config,
         tests[t].state = "gone" => row.state = "gone",
         tests[t].shared => row.shared,
         row.outcomes = tests[t].outcomes \/ HasTest(h, t),
         row.shared \/ /\ row.outcomes <= 1
                       /\ row.state = "pending" => row.outcomes = 0
                       /\ HasTest(h, t)' => HasTest(h, t) \/ \A g \in Handlers \ {h} : ~HasTest(g, t),
         Knows(h)', \A s \in Tests \ {t} : ~HasTest(h, s)'
  PROVE  ProviderInv'
  <1>1. tests' \in [Tests -> Test] /\ \A s \in Tests : tests'[s] = IF s = t THEN row ELSE tests[s]
    BY DEF ProviderInv, ProvidersTyped
  <1>2. TestsGrow(h)
    BY <1>1 DEF TestsGrow
  <1>3. TestsAreAsked'
    <2>1. SUFFICES ASSUME NEW s \in Tests
                   PROVE  IF tests'[s].state = "none" THEN tests'[s].outcomes = 0
                          ELSE /\ Known(tests[s].config)'
                               /\ configs'[tests'[s].config].state = "there" => configs'[tests'[s].config].asked
      BY DEF TestsAreAsked, There
    <2>2. CASE tests[s].state # "none"
      BY <1>2, <2>2, AskedStays
    <2>3. CASE tests[s].state = "none"
      BY <1>1, <2>3 DEF ProviderInv, TestsAreAsked
    <2>4. QED
      BY <2>2, <2>3
  <1>4. RequestsKnow'
    BY <1>2, OthersKnow DEF RequestsKnow
  <1>5. OneOutcome'
    <2>1. SUFFICES ASSUME NEW s \in Tests, ~tests'[s].shared
                   PROVE  /\ tests'[s].outcomes <= 1
                          /\ tests'[s].state = "pending" => tests'[s].outcomes = 0
                          /\ \A f, g \in Handlers : HasTest(f, s)' /\ HasTest(g, s)' => f = g
      BY DEF OneOutcome
    <2>2. ~tests[s].shared /\ \A f, g \in Handlers : HasTest(f, s) /\ HasTest(g, s) => f = g
      BY <1>2, <2>1 DEF ProviderInv, OneOutcome, TestsGrow
    <2>3. \A g \in Handlers \ {h} : HasTest(g, s)' => HasTest(g, s)
      BY DEF HasTest, OthersStay
    <2>4. CASE s = t
      <3>1. HasTest(h, t)' => HasTest(h, t) \/ \A g \in Handlers \ {h} : ~HasTest(g, t)
        BY <1>1, <2>1, <2>4
      <3>2. QED
        BY <1>1, <2>1, <2>2, <2>3, <2>4, <3>1
    <2>5. CASE s # t
      <3>1. ~HasTest(h, s)'
        BY <2>5
      <3>2. tests[s].outcomes <= 1 /\ (tests[s].state = "pending" => tests[s].outcomes = 0)
        BY <2>2 DEF ProviderInv, OneOutcome
      <3>3. QED
        BY <1>1, <2>2, <2>3, <2>5, <3>1, <3>2
    <2>6. QED
      BY <2>4, <2>5
  <1>6. QED
    BY <1>1, <1>3, <1>4, <1>5 DEF ProviderInv, ProvidersTyped

LEMMA CreateTestKeepsProviders ==
  ASSUME ProviderInv, HandlersAreRecords, NEW h \in Handlers, CreateTest(h)
  PROVE  ProviderInv'
  <1> DEFINE c == handler[h].item
  <1>1. OthersStay(h) /\ handler'[h] = Idle /\ handler'[h].at \notin ProviderPlaces
    BY Finishes, IdleIsARecord DEF CreateTest, ProviderPlaces, TestPlaces
  <1>2. CASE SameProviders
    BY <1>1, <1>2, ProvidersStay
  <1>3. ASSUME There(c), NEW t \in Tests, tests[t].state = "none",
               tests' = [tests EXCEPT ![t].state = "pending", ![t].config = c],
               configs' = [configs EXCEPT ![c].asked = TRUE]
        PROVE  ProviderInv'
    <2>1. c \in Configs /\ Known(c)
      BY DEF ProviderInv, RequestsKnow, Knows, CreateTest, At, Known
    <2> DEFINE row == [configs[c] EXCEPT !.asked = TRUE]
    <2> DEFINE test == [tests[t] EXCEPT !.state = "pending", !.config = c]
    <2>2. configs' = [configs EXCEPT ![c] = row] /\ tests' = [tests EXCEPT ![t] = test]
      BY <1>3 DEF ProviderInv, ProvidersTyped
    <2>3. /\ row \in Config /\ row.asked
          /\ row.state = configs[c].state /\ row.tested = configs[c].tested /\ row.status = configs[c].status
          /\ row.wanted = configs[c].wanted /\ row.stale = configs[c].stale
      <3>1. configs[c] \in Config
        BY <2>1 DEF ProviderInv, ProvidersTyped
      <3>2. QED
        BY <3>1 DEF Config
    <2>4. /\ test \in Test /\ test.state = "pending" /\ test.config = c
          /\ test.outcomes = tests[t].outcomes /\ test.shared = tests[t].shared
      BY <2>1 DEF ProviderInv, ProvidersTyped, Test
    <2> HIDE DEF c, row, test
    <2>5. /\ configs' \in [Configs -> Config] /\ tests' \in [Tests -> Test]
          /\ \A b \in Configs : configs'[b] = IF b = c THEN row ELSE configs[b]
          /\ \A s \in Tests : tests'[s] = IF s = t THEN test ELSE tests[s]
      BY <2>2, <2>3, <2>4 DEF ProviderInv, ProvidersTyped
    <2>6. RowsAreSound'
      BY <2>3, <2>5 DEF ProviderInv, RowsAreSound, There, Wished
    <2>7. ConfigsGrow /\ TestsGrow(h)
      BY <1>3, <2>3, <2>4, <2>5 DEF ConfigsGrow, TestsGrow, There
    <2>8. WishesStay(h)
      <3>1. SUFFICES ASSUME NEW g \in Handlers \ {h}, At(g, "update_provider"), Wished(handler[g].item)
                     PROVE  Wished(handler[g].item)'
        BY DEF WishesStay
      <3>2. Known(handler[g].item) /\ handler'[g] = handler[g]
        BY <1>1, <3>1 DEF ProviderInv, RequestsKnow, Knows, At, OthersStay
      <3>3. QED
        BY <2>3, <2>5, <3>1, <3>2 DEF Known, Wished
    <2>9. TestsAreAsked'
      <3>1. SUFFICES ASSUME NEW s \in Tests
                     PROVE  IF tests'[s].state = "none" THEN tests'[s].outcomes = 0
                            ELSE /\ Known(tests[s].config)'
                                 /\ configs'[tests'[s].config].state = "there" => configs'[tests'[s].config].asked
        BY DEF TestsAreAsked, There
      <3>2. CASE s = t
        BY <2>1, <2>3, <2>4, <2>5, <3>2 DEF Known
      <3>3. CASE tests[s].state # "none"
        BY <2>7, <3>3, AskedStays
      <3>4. CASE s # t /\ tests[s].state = "none"
        BY <2>5, <3>4 DEF ProviderInv, TestsAreAsked
      <3>5. QED
        BY <3>2, <3>3, <3>4
    <2>10. RequestsKnow'
      <3>1. Knows(h)'
        BY <1>1 DEF Knows, At, ProviderPlaces, TestPlaces
      <3>2. QED
        BY <1>1, <2>7, <2>8, <3>1, OthersKnow DEF RequestsKnow
    <2>11. OneOutcome'
      <3>1. tests[t].outcomes = 0
        BY <1>3 DEF ProviderInv, TestsAreAsked
      <3>2. \A g \in Handlers : \A s \in Tests : HasTest(g, s)' => HasTest(g, s) /\ s # t
        BY <1>1, <1>3 DEF HasTest, OthersStay, ProviderInv, RequestsKnow, Knows, ProviderPlaces
      <3>3. QED
        BY <2>4, <2>5, <3>1, <3>2 DEF ProviderInv, OneOutcome
    <2>12. QED
      BY <2>5, <2>6, <2>9, <2>10, <2>11 DEF ProviderInv, ProvidersTyped
  <1>4. QED
    BY <1>2, <1>3 DEF CreateTest

(* Administrators' steps on a row                                           *)
Settings(o, complete, status) == [o EXCEPT !.complete = complete, !.status = status]
Switched(o, status, stale) == [o EXCEPT !.status = status, !.wanted = status, !.stale = stale]

LEMMA SettingsOfARow ==
  ASSUME NEW o \in Config, NEW complete \in BOOLEAN, NEW status \in {"ACTIVE", "INACTIVE"}
  PROVE  /\ Settings(o, complete, status) \in Config
         /\ Settings(o, complete, status).asked = o.asked
         /\ Settings(o, complete, status).state = o.state
         /\ Settings(o, complete, status).tested = o.tested
         /\ Settings(o, complete, status).wanted = o.wanted
         /\ Settings(o, complete, status).stale = o.stale
         /\ Settings(o, complete, status).status = status
  BY DEF Config, Settings

LEMMA StatusOfARow ==
  ASSUME NEW o \in Config, NEW stale \in BOOLEAN, NEW status \in {"ACTIVE", "INACTIVE"}
  PROVE  /\ Switched(o, status, stale) \in Config
         /\ Switched(o, status, stale).asked = o.asked
         /\ Switched(o, status, stale).state = o.state
         /\ Switched(o, status, stale).tested = o.tested
         /\ Switched(o, status, stale).wanted = status
         /\ Switched(o, status, stale).stale = stale
         /\ Switched(o, status, stale).status = status
  BY DEF Config, Switched

LEMMA CommitUpdateKeepsProviders ==
  ASSUME ProviderInv, HandlersAreRecords, NEW h \in Handlers, CommitUpdate(h)
  PROVE  ProviderInv'
  <1> DEFINE c == handler[h].item
  <1>1. OthersStay(h) /\ handler'[h].at \notin ProviderPlaces /\ UNCHANGED tests
    BY Finishes, IdleIsARecord DEF CommitUpdate, ProviderPlaces, TestPlaces
  <1>2. CASE There(c)
    <2>1. Knows(h) /\ At(h, "update_provider") /\ Known(c)
      BY DEF ProviderInv, RequestsKnow, Knows, CommitUpdate, At
    <2>2. PICK complete \in BOOLEAN :
            configs' = [configs EXCEPT ![c].complete = complete,
                                       ![c].status = IF handler[h].seen = 1 THEN "ACTIVE" ELSE "INACTIVE"]
      BY <1>2 DEF CommitUpdate
    <2> DEFINE row == [configs[c] EXCEPT !.complete = complete,
                                         !.status = IF handler[h].seen = 1 THEN "ACTIVE" ELSE "INACTIVE"]
    <2>3. configs' = [configs EXCEPT ![c] = row]
      BY <2>1, <2>2 DEF ProviderInv, ProvidersTyped, Known
    <2>4. /\ row \in Config /\ row.asked = configs[c].asked
          /\ row.state = configs[c].state /\ row.tested = configs[c].tested
          /\ row.wanted = configs[c].wanted /\ row.stale = configs[c].stale
          /\ row.status = "ACTIVE" => handler[h].seen = 1
      <3>1. configs[c] \in Config
        BY <2>1 DEF ProviderInv, ProvidersTyped, Known
      <3> DEFINE status == IF handler[h].seen = 1 THEN "ACTIVE" ELSE "INACTIVE"
      <3>2. status \in {"ACTIVE", "INACTIVE"} /\ (status = "ACTIVE" => handler[h].seen = 1)
        OBVIOUS
      <3>3. row = Settings(configs[c], complete, status)
        BY DEF Settings
      <3> HIDE DEF c, row, status
      <3>4. QED
        BY <3>1, <3>2, <3>3, SettingsOfARow
    <2>5. row.status = "ACTIVE" => configs[c].tested /\ Wished(c)
      BY <1>2, <2>1, <2>4 DEF Knows
    <2>6. configs[c].tested => configs[c].asked
      BY <1>2, <2>1 DEF ProviderInv, RowsAreSound, Known
    <2> HIDE DEF c, row
    <2>7. QED
      BY <1>1, <1>2, <2>1, <2>3, <2>4, <2>5, <2>6, RowChanges DEF Known, There, Wished
  <1>3. CASE ~There(c)
    BY <1>1, <1>3, ProvidersStay DEF CommitUpdate, SameProviders, providerVars
  <1>4. QED
    BY <1>2, <1>3

LEMMA CommitStatusKeepsProviders ==
  ASSUME ProviderInv, HandlersAreRecords, NEW h \in Handlers, CommitStatus(h)
  PROVE  ProviderInv'
  <1> DEFINE c == handler[h].item
  <1> DEFINE on == At(h, "switch_on")
  <1>1. OthersStay(h) /\ handler'[h].at \notin ProviderPlaces /\ UNCHANGED tests
    BY Finishes, IdleIsARecord DEF CommitStatus, ProviderPlaces, TestPlaces
  <1>2. CASE There(c)
    <2>1. Knows(h) /\ Known(c)
      BY DEF ProviderInv, RequestsKnow, Knows, CommitStatus, At
    <2> DEFINE status == IF on THEN "ACTIVE" ELSE "INACTIVE"
    <2> DEFINE others == {g \in Handlers \ {h} : At(g, "update_provider") /\ handler[g].item = c}
    <2> DEFINE stale == \E g \in others : (handler[g].seen = 1) # on
    <2> DEFINE row == [configs[c] EXCEPT !.status = status, !.wanted = status, !.stale = stale]
    <2>2. configs' = [configs EXCEPT ![c].status = status, ![c].wanted = status, ![c].stale = stale]
      BY <1>2 DEF CommitStatus
    <2>3. configs' = [configs EXCEPT ![c] = row]
      BY <2>1, <2>2 DEF ProviderInv, ProvidersTyped, Known
    <2>4. stale \in BOOLEAN /\ status \in {"ACTIVE", "INACTIVE"}
      OBVIOUS
    <2> HIDE DEF stale, status
    <2>5. /\ row \in Config /\ row.asked = configs[c].asked
          /\ row.state = configs[c].state /\ row.tested = configs[c].tested
          /\ row.wanted = status /\ row.stale = stale /\ row.status = status
      <3>1. configs[c] \in Config
        BY <2>1 DEF ProviderInv, ProvidersTyped, Known
      <3>2. row = Switched(configs[c], status, stale)
        BY DEF Switched
      <3> HIDE DEF c, row
      <3>3. QED
        BY <2>4, <3>1, <3>2, StatusOfARow
    <2> USE DEF stale, status
    <2>6. row.status = "ACTIVE" => configs[c].tested /\ row.wanted = "ACTIVE"
      BY <1>2, <2>1, <2>5 DEF Knows
    <2>7. \/ row.wanted = "ACTIVE"
          \/ \A g \in Handlers \ {h} :
               At(g, "update_provider") /\ handler[g].item = c /\ handler[g].seen = 1 => row.stale
      BY <2>5
    <2>8. configs[c].tested => configs[c].asked
      BY <1>2, <2>1 DEF ProviderInv, RowsAreSound, Known
    <2> HIDE DEF c, row, stale, status, others
    <2>9. QED
      BY <1>1, <1>2, <2>1, <2>3, <2>5, <2>6, <2>7, <2>8, RowChanges DEF Known, There
  <1>3. CASE ~There(c)
    BY <1>1, <1>3, ProvidersStay DEF CommitStatus, SameProviders, providerVars
  <1>4. QED
    BY <1>2, <1>3

LEMMA DeletionKeepsProviders ==
  ASSUME ProviderInv, HandlersAreRecords, NEW h \in Handlers, NEW c \in Configs, DeleteSocialProvider(h, c)
  PROVE  ProviderInv'
  <1> DEFINE row == [NoConfig EXCEPT !.state = "deleted"]
  <1>1. row \in Config /\ row.state = "deleted"
    BY DEF NoConfig, Config
  <1>2. configs' = [configs EXCEPT ![c] = row] /\ UNCHANGED <<tests, handler>> /\ handler[h] = Idle
    BY DEF DeleteSocialProvider, Begin, MayBegin
  <1>3. OthersStay(h) /\ handler'[h].at \notin ProviderPlaces
    BY <1>2, IdleIsARecord DEF OthersStay, ProviderPlaces, TestPlaces
  <1> HIDE DEF row
  <1>4. QED
    BY <1>1, <1>2, <1>3, RowChanges

(* A request reads a row and remembers it.                                  *)
Reading(place, c) == [Idle EXCEPT !.at = place, !.item = c]

LEMMA Remembers ==
  ASSUME HandlersAreRecords, NEW h \in Handlers, NEW c, NEW place, Wait(h, Reading(place, c))
  PROVE  /\ HandlersAreRecords' /\ OthersStay(h)
         /\ handler'[h].at = place /\ handler'[h].item = c /\ handler'[h].seen = 0
  <1> DEFINE x == Reading(place, c)
  <1>1. DOMAIN x = Fields /\ x.at = place /\ x.item = c /\ x.seen = 0
    BY DEF Idle, Fields, Reading
  <1> HIDE DEF x
  <1>2. Wait(h, x)
    BY DEF x
  <1>3. QED
    BY <1>1, <1>2, Waits

LEMMA ReadKeepsProviders ==
  ASSUME ProviderInv, NEW h \in Handlers, OthersStay(h), SameProviders,
         handler'[h].at \in {"update_provider", "switch_on", "switch_off", "test_provider"},
         handler'[h].item \in Configs, There(handler'[h].item),
         handler'[h].at = "switch_on" => configs[handler'[h].item].tested,
         handler'[h].at = "update_provider" /\ handler'[h].seen = 1 => configs[handler'[h].item].status = "ACTIVE"
  PROVE  ProviderInv'
  <1>1. ConfigsGrow /\ WishesStay(h) /\ RowsAreSound' /\ configs' \in [Configs -> Config] /\ UNCHANGED tests
    BY DEF ConfigsGrow, WishesStay, OthersStay, There, Wished, ProviderInv, ProvidersTyped, RowsAreSound,
           SameProviders, providerVars
  <1>2. Knows(h)'
    BY DEF Knows, Known, There, Wished, At, TestPlaces, ProviderInv, RowsAreSound, SameProviders, providerVars
  <1>3. \A t \in Tests : ~HasTest(h, t)'
    BY DEF HasTest, TestPlaces
  <1>4. QED
    BY <1>1, <1>2, <1>3, TestsStay

LEMMA ReadsKeepProviders ==
  ASSUME ProviderInv, HandlersAreRecords, NEW h \in Handlers, NEW c \in Configs,
         \/ UpdateSocialProvider(h, c) \/ TestProvider(h, c)
         \/ \E status \in {"ACTIVE", "INACTIVE"} : UpdateSocialProviderStatus(h, c, status)
  PROVE  ProviderInv' /\ HandlersAreRecords' /\ OthersStay(h) /\ handler'[h].at \in ProviderPlaces
  <1> USE DEF ProviderPlaces
  <1>1. There(c) /\ SameProviders
    BY DEF UpdateSocialProvider, TestProvider, UpdateSocialProviderStatus
  <1>2. CASE UpdateSocialProvider(h, c)
    <2> DEFINE seen == IF configs[c].status = "ACTIVE" THEN 1 ELSE 0
    <2> DEFINE x == [Idle EXCEPT !.at = "update_provider", !.item = c, !.seen = seen]
    <2>1. Wait(h, x) /\ (seen = 1 => configs[c].status = "ACTIVE")
      BY <1>2 DEF UpdateSocialProvider
    <2> HIDE DEF seen
    <2>2. DOMAIN x = Fields /\ x.at = "update_provider" /\ x.item = c /\ x.seen = seen
      BY DEF Idle, Fields
    <2> HIDE DEF x
    <2>3. HandlersAreRecords' /\ OthersStay(h) /\ handler'[h] = x
      BY <2>1, <2>2, Waits
    <2>4. QED
      BY <1>1, <2>1, <2>2, <2>3, ReadKeepsProviders
  <1>3. CASE TestProvider(h, c)
    <2>1. Wait(h, Reading("test_provider", c))
      BY <1>3 DEF TestProvider, Reading
    <2>2. /\ HandlersAreRecords' /\ OthersStay(h)
          /\ handler'[h].at = "test_provider" /\ handler'[h].item = c
      BY <2>1, Remembers
    <2>3. QED
      BY <1>1, <2>2, ReadKeepsProviders
  <1>4. ASSUME NEW status \in {"ACTIVE", "INACTIVE"}, UpdateSocialProviderStatus(h, c, status)
        PROVE  ProviderInv' /\ HandlersAreRecords' /\ OthersStay(h) /\ handler'[h].at \in ProviderPlaces
    <2> DEFINE place == IF status = "ACTIVE" THEN "switch_on" ELSE "switch_off"
    <2>1. Wait(h, Reading(place, c))
      BY <1>4 DEF UpdateSocialProviderStatus, Reading
    <2>2. place \in {"switch_on", "switch_off"} /\ (place = "switch_on" => configs[c].tested)
      BY <1>4 DEF UpdateSocialProviderStatus, PublicLoginReady
    <2> HIDE DEF place
    <2>3. HandlersAreRecords' /\ OthersStay(h) /\ handler'[h].at = place /\ handler'[h].item = c
      BY <2>1, Remembers
    <2>4. QED
      BY <1>1, <2>2, <2>3, ReadKeepsProviders
  <1>5. QED
    BY <1>2, <1>3, <1>4

(* Rows made by an administrator, or because a sign-in names the provider   *)
LEMMA MakingKeepsProviders ==
  ASSUME ProviderInv, NEW h \in Handlers,
         \/ \E c \in Configs, complete \in BOOLEAN : CreateSocialProvider(h, c, complete)
         \/ \E p : NameProvider(h, p)
  PROVE  ProviderInv'
  <1>1. UNCHANGED <<handler, tests>> /\ OthersStay(h)
    BY DEF CreateSocialProvider, NameProvider, OthersStay
  <1>2. /\ configs' \in [Configs -> Config] /\ ConfigsGrow /\ RowsAreSound'
        /\ \A b \in Configs : configs[b].state # "none" => configs'[b] = configs[b]
    BY NewRow, EnsuredRow DEF CreateSocialProvider, NameProvider
  <1>3. QED
    BY <1>1, <1>2, EnsuringKeepsProviders

----------------------------------------------------------------------------
(* Tests *)

(* A callback reads the state of a test.                                    *)
Asking(place, t, c, seen) == [Idle EXCEPT !.at = place, !.to = t, !.item = c, !.seen = seen]

LEMMA AskingIsARecord ==
  ASSUME NEW place, NEW t, NEW c, NEW seen
  PROVE  /\ DOMAIN Asking(place, t, c, seen) = Fields
         /\ Asking(place, t, c, seen).at = place /\ Asking(place, t, c, seen).to = t
         /\ Asking(place, t, c, seen).item = c /\ Asking(place, t, c, seen).seen = seen
  BY DEF Asking, Idle, Fields

LEMMA CallbackKeepsProviders ==
  ASSUME ProviderInv, NEW h \in Handlers, OthersStay(h), NEW t \in Tests, ReadTest(h, t),
         configs' \in [Configs -> Config], ConfigsGrow, RowsAreSound', WishesStay(h),
         handler'[h].at \in {"passed", "refused"}, handler'[h].to = t,
         handler'[h].at = "refused" => handler'[h].item = tests[t].config
  PROVE  ProviderInv'
  <1>1. PICK row \in Test :
          /\ tests' = [tests EXCEPT ![t] = row]
          /\ row.shared = (tests[t].shared \/ \E g \in Handlers \ {h} : handler[g].to = t)
          /\ row.state = "pending" /\ row.config = tests[t].config /\ row.outcomes = tests[t].outcomes
    <2> DEFINE also == \E g \in Handlers \ {h} : handler[g].to = t
    <2> DEFINE x == [tests[t] EXCEPT !.shared = @ \/ also]
    <2>1. tests[t] \in Test /\ tests[t].state = "pending" /\ also \in BOOLEAN
      BY DEF ProviderInv, ProvidersTyped, ReadTest
    <2>2. tests' = [tests EXCEPT ![t] = x]
      BY DEF ReadTest
    <2> HIDE DEF also
    <2>3. /\ x \in Test /\ x.shared = (tests[t].shared \/ also)
          /\ x.state = "pending" /\ x.config = tests[t].config /\ x.outcomes = tests[t].outcomes
      BY <2>1 DEF Test
    <2>4. QED
      BY <2>2, <2>3 DEF also
  <1>2. tests[t].state = "pending" /\ tests'[t] = row
    BY <1>1 DEF ReadTest, ProviderInv, ProvidersTyped
  <1>3. row.shared \/ /\ row.outcomes = 0 /\ \A g \in Handlers \ {h} : ~HasTest(g, t)
    BY <1>1, <1>2 DEF ProviderInv, OneOutcome, HasTest
  <1>4. Knows(h)' /\ \A s \in Tests \ {t} : ~HasTest(h, s)'
    BY <1>1, <1>2, <1>3 DEF Knows, At, HasTest, TestPlaces
  <1>5. /\ tests[t].state # "none" /\ row.state # "none" /\ row.config = tests[t].config
        /\ tests[t].state = "gone" => row.state = "gone"
        /\ tests[t].shared => row.shared
        /\ row.outcomes = tests[t].outcomes \/ HasTest(h, t)
    BY <1>1, <1>2
  <1>6. row.shared \/ /\ row.outcomes <= 1
                      /\ row.state = "pending" => row.outcomes = 0
                      /\ HasTest(h, t)' => HasTest(h, t) \/ \A g \in Handlers \ {h} : ~HasTest(g, t)
    BY <1>3
  <1>7. QED
    BY <1>1, <1>4, <1>5, <1>6, TestChanges

LEMMA CallbacksKeepProviders ==
  ASSUME ProviderInv, HandlersAreRecords, NEW h \in Handlers, NEW t \in Tests,
         TestCallback(h, t) \/ RefusedCallback(h, t)
  PROVE  ProviderInv' /\ HandlersAreRecords' /\ OthersStay(h) /\ handler'[h].at \in TestPlaces
  <1>1. CASE TestCallback(h, t)
    <2> DEFINE p == NameOf[tests[t].config]
    <2> DEFINE c == ConfigOf(p)
    <2> DEFINE seen == IF c # None /\ CanTest(c) THEN 1 ELSE 0
    <2>1. EnsureConfig(p) /\ ReadTest(h, t) /\ Wait(h, Asking("passed", t, c, seen))
      BY <1>1 DEF TestCallback, Asking
    <2> HIDE DEF p, c, seen
    <2>2. HandlersAreRecords' /\ OthersStay(h) /\ handler'[h].at = "passed" /\ handler'[h].to = t
      BY <2>1, AskingIsARecord, Waits
    <2>3. /\ configs' \in [Configs -> Config] /\ ConfigsGrow /\ RowsAreSound'
          /\ \A b \in Configs : configs[b].state # "none" => configs'[b] = configs[b]
      BY <2>1, EnsuredRow
    <2>4. QED
      BY <2>1, <2>2, <2>3, SameRowsSameWishes, CallbackKeepsProviders DEF TestPlaces
  <1>2. CASE RefusedCallback(h, t)
    <2> DEFINE c == tests[t].config
    <2> DEFINE x == [Idle EXCEPT !.at = "refused", !.to = t, !.item = c]
    <2>1. UNCHANGED configs /\ ReadTest(h, t) /\ Wait(h, x)
      BY <1>2 DEF RefusedCallback
    <2> HIDE DEF c
    <2>5. DOMAIN x = Fields /\ x.at = "refused" /\ x.to = t /\ x.item = c
      BY DEF Idle, Fields
    <2> HIDE DEF x
    <2>2. HandlersAreRecords' /\ OthersStay(h) /\ handler'[h].at = "refused" /\ handler'[h].to = t
          /\ handler'[h].item = c
      BY <2>1, <2>5, Waits
    <2>3. ConfigsGrow /\ RowsAreSound' /\ configs' \in [Configs -> Config]
      BY <2>1 DEF ConfigsGrow, There, Wished, ProviderInv, ProvidersTyped, RowsAreSound
    <2>4. WishesStay(h)
      BY <2>1, <2>2, SameRowsSameWishes
    <2>6. QED
      BY <2>1, <2>2, <2>3, <2>4, CallbackKeepsProviders DEF TestPlaces, c
  <1>3. QED
    BY <1>1, <1>2

(* The state is deleted by a request that has it.                           *)
LEMMA ConsumingKeepsProviders ==
  ASSUME ProviderInv, HandlersAreRecords, NEW h \in Handlers, ConsumeTest(h) \/ ConsumeRefused(h)
  PROVE  ProviderInv' /\ HandlersAreRecords' /\ OthersStay(h)
         /\ handler'[h].at \in TestPlaces \cup {"idle"}
  <1>0. PICK t : t = handler[h].to
    OBVIOUS
  <1>1. /\ handler[h].at \in TestPlaces /\ HasTest(h, t) /\ UNCHANGED configs
        /\ tests' = [tests EXCEPT ![t].state = "gone"]
    BY <1>0 DEF ConsumeTest, ConsumeRefused, At, TestPlaces, HasTest
  <1>2. /\ t \in Tests /\ tests[t].state # "none" /\ (tests[t].shared \/ tests[t].outcomes = 0)
    BY <1>0, <1>1 DEF ProviderInv, RequestsKnow, Knows
  <1>3. /\ HandlersAreRecords' /\ OthersStay(h)
        /\ \/ handler'[h] = Idle
           \/ /\ handler'[h].at \in {"record_success", "record_failure"}
              /\ handler'[h].to = t /\ handler'[h].item = handler[h].item
              /\ handler[h].item = tests[t].config
    <2>1. CASE ConsumeTest(h)
      BY <1>0, <2>1, Goes, Finishes DEF ConsumeTest, Fields
    <2>2. CASE ConsumeRefused(h)
      <3>1. handler[h].item = tests[t].config
        BY <1>0, <2>2 DEF ConsumeRefused, At, ProviderInv, RequestsKnow, Knows
      <3>2. QED
        BY <1>0, <2>2, <3>1, Goes DEF ConsumeRefused, Fields
    <2>3. QED
      BY <2>1, <2>2
  <1>4. PICK row \in Test :
          /\ tests' = [tests EXCEPT ![t] = row]
          /\ row.state = "gone" /\ row.config = tests[t].config
          /\ row.outcomes = tests[t].outcomes /\ row.shared = tests[t].shared
    <2> DEFINE x == [tests[t] EXCEPT !.state = "gone"]
    <2>1. tests[t] \in Test /\ tests' = [tests EXCEPT ![t] = x]
      BY <1>1, <1>2 DEF ProviderInv, ProvidersTyped
    <2>2. /\ x \in Test /\ x.state = "gone" /\ x.config = tests[t].config
          /\ x.outcomes = tests[t].outcomes /\ x.shared = tests[t].shared
      BY <2>1 DEF Test
    <2>3. QED
      BY <2>1, <2>2
  <1>5. ConfigsGrow /\ RowsAreSound' /\ configs' \in [Configs -> Config]
    BY <1>1 DEF ConfigsGrow, There, Wished, ProviderInv, ProvidersTyped, RowsAreSound
  <1>6. WishesStay(h)
    BY <1>1, <1>3, SameRowsSameWishes
  <1>7. tests'[t] = row
    BY <1>2, <1>4 DEF ProviderInv, ProvidersTyped
  <1>8. Knows(h)' /\ \A s \in Tests \ {t} : ~HasTest(h, s)'
    BY <1>2, <1>3, <1>4, <1>7, IdleIsARecord DEF Knows, At, HasTest, TestPlaces
  <1>9. /\ tests[t].state # "none" /\ row.state # "none" /\ row.config = tests[t].config
        /\ tests[t].state = "gone" => row.state = "gone"
        /\ tests[t].shared => row.shared
        /\ row.outcomes = tests[t].outcomes \/ HasTest(h, t)
    BY <1>2, <1>4
  <1>10. row.shared \/ /\ row.outcomes <= 1
                       /\ row.state = "pending" => row.outcomes = 0
                       /\ HasTest(h, t)' => HasTest(h, t) \/ \A g \in Handlers \ {h} : ~HasTest(g, t)
    BY <1>1, <1>2, <1>4
  <1>11. t \in Tests /\ OthersStay(h) /\ tests' = [tests EXCEPT ![t] = row]
    BY <1>2, <1>3, <1>4
  <1>12. ProviderInv'
    BY <1>5, <1>6, <1>8, <1>9, <1>10, <1>11, TestChanges
  <1>13. handler'[h].at \in TestPlaces \cup {"idle"}
    <2>1. CASE handler'[h] = Idle
      BY <2>1, IdleIsARecord
    <2>2. CASE handler'[h].at \in {"record_success", "record_failure"}
      BY <2>2 DEF TestPlaces
    <2>3. QED
      BY <1>3, <2>1, <2>2
  <1>14. QED
    BY <1>3, <1>12, <1>13

LEMMA OutcomeKeepsProviders ==
  ASSUME ProviderInv, HandlersAreRecords, NEW h \in Handlers, RecordTest(h) \/ RecordTestFailure(h)
  PROVE  ProviderInv' /\ HandlersAreRecords' /\ OthersStay(h) /\ handler'[h] = Idle
  <1>t. PICK t : t = handler[h].to
    OBVIOUS
  <1>c. PICK c : c = handler[h].item
    OBVIOUS
  <1>o. PICK success \in BOOLEAN : RecordOutcome(h, success)
    BY DEF RecordTest, RecordTestFailure
  <1>1. t = handler[h].to /\ c = handler[h].item /\ RecordOutcome(h, success)
    BY <1>t, <1>c, <1>o
  <1>2. handler[h].at \in {"record_success", "record_failure"}
    BY DEF RecordTest, RecordTestFailure, At
  <1>3. /\ t \in Tests /\ tests[t].state = "gone" /\ (tests[t].shared \/ tests[t].outcomes = 0)
        /\ c = tests[t].config /\ HasTest(h, t)
    BY <1>1, <1>2 DEF ProviderInv, RequestsKnow, Knows, TestPlaces, HasTest
  <1>4. HandlersAreRecords' /\ OthersStay(h) /\ handler'[h] = Idle /\ handler'[h].at \notin ProviderPlaces
    BY <1>1, Finishes, IdleIsARecord DEF RecordOutcome, ProviderPlaces, TestPlaces
  <1>5. CASE There(c)
    <2>1. c \in Configs /\ configs[c].asked
      BY <1>3, <1>5 DEF ProviderInv, TestsAreAsked, Known
    <2>2. PICK settings \in Config :
            /\ configs' = [configs EXCEPT ![c] = settings]
            /\ settings.tested = (configs[c].tested \/ success)
            /\ settings.state = configs[c].state /\ settings.asked = configs[c].asked
            /\ settings.status = configs[c].status /\ settings.wanted = configs[c].wanted
            /\ settings.stale = configs[c].stale
      <3> DEFINE x == [configs[c] EXCEPT !.tested = @ \/ success]
      <3>1. configs[c] \in Config /\ configs' = [configs EXCEPT ![c] = x]
        BY <1>1, <1>5, <2>1 DEF RecordOutcome, ProviderInv, ProvidersTyped
      <3>2. /\ x \in Config /\ x.tested = (configs[c].tested \/ success)
            /\ x.state = configs[c].state /\ x.asked = configs[c].asked /\ x.status = configs[c].status
            /\ x.wanted = configs[c].wanted /\ x.stale = configs[c].stale
        BY <3>1 DEF Config
      <3>3. QED
        BY <3>1, <3>2
    <2>3. PICK row \in Test :
            /\ tests' = [tests EXCEPT ![t] = row]
            /\ row.outcomes = tests[t].outcomes + 1 /\ row.outcomes \in Nat /\ tests[t].outcomes \in Nat
            /\ row.state = "gone" /\ row.config = tests[t].config /\ row.shared = tests[t].shared
      <3> DEFINE x == [tests[t] EXCEPT !.outcomes = @ + 1]
      <3>1. tests[t] \in Test /\ tests' = [tests EXCEPT ![t] = x]
        BY <1>1, <1>3, <1>5 DEF RecordOutcome, ProviderInv, ProvidersTyped
      <3>2. /\ x \in Test /\ x.outcomes = tests[t].outcomes + 1 /\ x.outcomes \in Nat /\ tests[t].outcomes \in Nat
            /\ x.state = "gone" /\ x.config = tests[t].config /\ x.shared = tests[t].shared
        BY <1>3, <3>1 DEF Test
      <3>3. QED
        BY <3>1, <3>2
    <2>4. /\ configs' \in [Configs -> Config]
          /\ \A b \in Configs : configs'[b] = IF b = c THEN settings ELSE configs[b]
      BY <2>1, <2>2 DEF ProviderInv, ProvidersTyped
    <2>5. RowsAreSound' /\ ConfigsGrow
      BY <2>1, <2>2, <2>4 DEF ProviderInv, RowsAreSound, ConfigsGrow, There, Wished
    <2>6. WishesStay(h)
      <3>1. SUFFICES ASSUME NEW g \in Handlers \ {h}, At(g, "update_provider"), Wished(handler[g].item)
                     PROVE  Wished(handler[g].item)'
        BY DEF WishesStay
      <3>2. Known(handler[g].item) /\ handler'[g] = handler[g]
        BY <1>4, <3>1 DEF ProviderInv, RequestsKnow, Knows, At, OthersStay
      <3>3. QED
        BY <2>2, <2>4, <3>1, <3>2 DEF Known, Wished
    <2>7. Knows(h)' /\ \A s \in Tests : ~HasTest(h, s)'
      BY <1>4 DEF Knows, At, HasTest, ProviderPlaces, TestPlaces
    <2>8. /\ tests[t].state # "none" /\ row.state # "none" /\ row.config = tests[t].config
          /\ tests[t].state = "gone" => row.state = "gone"
          /\ tests[t].shared => row.shared
          /\ row.outcomes = tests[t].outcomes \/ HasTest(h, t)
      BY <1>3, <2>3
    <2>9. row.shared \/ /\ row.outcomes <= 1
                        /\ row.state = "pending" => row.outcomes = 0
                        /\ HasTest(h, t)' => HasTest(h, t) \/ \A g \in Handlers \ {h} : ~HasTest(g, t)
      BY <1>3, <2>3
    <2>10. t \in Tests /\ OthersStay(h) /\ tests' = [tests EXCEPT ![t] = row]
      BY <1>3, <1>4, <2>3
    <2>11. ProviderInv'
      BY <2>4, <2>5, <2>6, <2>7, <2>8, <2>9, <2>10, TestChanges
    <2>12. QED
      BY <1>4, <2>11
  <1>6. CASE ~There(c)
    BY <1>1, <1>4, <1>6, ProvidersStay DEF RecordOutcome
  <1>7. QED
    BY <1>5, <1>6

LEMMA ExpiryKeepsProviders ==
  ASSUME ProviderInv, NEW t \in Tests, TestExpires(t)
  PROVE  ProviderInv' /\ UNCHANGED handler
  <1>1. UNCHANGED <<handler, configs>> /\ tests[t].state = "pending"
    BY DEF TestExpires
  <1>2. PICK row \in Test :
          /\ tests' = [tests EXCEPT ![t] = row]
          /\ row.state = "gone" /\ row.config = tests[t].config
          /\ row.outcomes = tests[t].outcomes /\ row.shared = tests[t].shared
    <2> DEFINE x == [tests[t] EXCEPT !.state = "gone"]
    <2>1. tests[t] \in Test /\ tests' = [tests EXCEPT ![t] = x]
      BY DEF TestExpires, ProviderInv, ProvidersTyped
    <2>2. /\ x \in Test /\ x.state = "gone" /\ x.config = tests[t].config
          /\ x.outcomes = tests[t].outcomes /\ x.shared = tests[t].shared
      BY <2>1 DEF Test
    <2>3. QED
      BY <2>1, <2>2
  <1>3. tests' \in [Tests -> Test] /\ \A s \in Tests : tests'[s] = IF s = t THEN row ELSE tests[s]
    BY <1>2 DEF ProviderInv, ProvidersTyped
  <1>4. TestsAreAsked' /\ RowsAreSound' /\ configs' \in [Configs -> Config]
    BY <1>1, <1>2, <1>3
    DEF ProviderInv, ProvidersTyped, TestsAreAsked, RowsAreSound, Known, There, Wished
  <1>5. RequestsKnow'
    <2>1. SUFFICES ASSUME NEW h \in Handlers PROVE Knows(h)'
      BY DEF RequestsKnow
    <2>2. Knows(h)
      BY DEF ProviderInv, RequestsKnow
    <2>3. QED
      BY <1>1, <1>2, <1>3, <2>2 DEF Knows, Known, There, Wished, At, TestPlaces
  <1>6. OneOutcome'
    BY <1>1, <1>2, <1>3 DEF ProviderInv, OneOutcome, HasTest
  <1>7. QED
    BY <1>1, <1>3, <1>4, <1>5, <1>6 DEF ProviderInv, ProvidersTyped

----------------------------------------------------------------------------
(* Each part's steps and what the other parts remember                      *)

AwayFromInvitations(h) == OthersStay(h) /\ (handler'[h] = handler[h] \/ handler'[h].at \notin InvitePlaces)
AwayFromProviders(h) == OthersStay(h) /\ (handler'[h] = handler[h] \/ handler'[h].at \notin ProviderPlaces)

LEMMA ElsewhereIsAway ==
  ASSUME NEW h \in Handlers, Elsewhere(h)
  PROVE  HandlersAreRecords' /\ AwayFromInvitations(h) /\ AwayFromProviders(h)
  BY DEF Elsewhere, AwayFromInvitations, AwayFromProviders

LEMMA PlacesDiffer ==
  InvitePlaces \cap ProviderPlaces = {} /\ "idle" \notin InvitePlaces \cup ProviderPlaces
  BY DEF InvitePlaces, ProviderPlaces, TestPlaces

LEMMA NothingMoves ==
  ASSUME UNCHANGED handler
  PROVE  /\ HandlersAreRecords => HandlersAreRecords'
         /\ InvitationInv /\ SameInvitations => InvitationInv'
         /\ ProviderInv /\ SameProviders => ProviderInv'
  <1>1. HandlersAreRecords => HandlersAreRecords'
    BY DEF HandlersAreRecords
  <1>2. InvitationInv /\ SameInvitations => InvitationInv'
    BY DEF InvitationInv, SameInvitations, HoldersFoundItPending, PendingHasNotEnded, OneHolder, HasInvitation,
           InvitationsEndOnce
  <1>3. ProviderInv /\ SameProviders => ProviderInv'
    BY DEF ProviderInv, SameProviders, providerVars, ProvidersTyped, RowsAreSound, TestsAreAsked, RequestsKnow,
           OneOutcome, Knows, Known, There, Wished, At, HasTest
  <1>4. QED
    BY <1>1, <1>2, <1>3

LEMMA ProviderStepsKeepProviders ==
  ASSUME ProviderInv, HandlersAreRecords, ProvidersNext
  PROVE  /\ ProviderInv' /\ HandlersAreRecords'
         /\ UNCHANGED handler \/ \E h \in Handlers : AwayFromInvitations(h)
  <1>1. ASSUME NEW t \in Tests, TestExpires(t)
        PROVE  ProviderInv' /\ HandlersAreRecords' /\ UNCHANGED handler
    BY <1>1, ExpiryKeepsProviders, NothingMoves
  <1>2. ASSUME NEW h \in Handlers, NEW c \in Configs, NEW complete \in BOOLEAN, CreateSocialProvider(h, c, complete)
        PROVE  ProviderInv' /\ HandlersAreRecords' /\ UNCHANGED handler
    BY <1>2, MakingKeepsProviders, NothingMoves DEF CreateSocialProvider
  <1>3. ASSUME NEW h \in Handlers, NEW c \in Configs, NameProvider(h, NameOf[c])
        PROVE  ProviderInv' /\ HandlersAreRecords' /\ UNCHANGED handler
    BY <1>3, MakingKeepsProviders, NothingMoves DEF NameProvider
  <1>4. ASSUME NEW h \in Handlers, NEW c \in Configs, DeleteSocialProvider(h, c)
        PROVE  ProviderInv' /\ HandlersAreRecords' /\ UNCHANGED handler
    BY <1>4, DeletionKeepsProviders, NothingMoves DEF DeleteSocialProvider
  <1>5. ASSUME NEW h \in Handlers, NEW c \in Configs,
               \/ UpdateSocialProvider(h, c) \/ TestProvider(h, c)
               \/ \E status \in {"ACTIVE", "INACTIVE"} : UpdateSocialProviderStatus(h, c, status)
        PROVE  ProviderInv' /\ HandlersAreRecords' /\ AwayFromInvitations(h)
    BY <1>5, ReadsKeepProviders, PlacesDiffer DEF AwayFromInvitations
  <1>6. ASSUME NEW h \in Handlers, NEW t \in Tests, TestCallback(h, t) \/ RefusedCallback(h, t)
        PROVE  ProviderInv' /\ HandlersAreRecords' /\ AwayFromInvitations(h)
    BY <1>6, CallbacksKeepProviders, PlacesDiffer DEF AwayFromInvitations, ProviderPlaces
  <1>7. ASSUME NEW h \in Handlers, CommitUpdate(h) \/ CommitStatus(h) \/ CreateTest(h)
        PROVE  ProviderInv' /\ HandlersAreRecords' /\ AwayFromInvitations(h)
    <2>1. ProviderInv'
      BY <1>7, CommitUpdateKeepsProviders, CommitStatusKeepsProviders, CreateTestKeepsProviders
    <2>2. HandlersAreRecords' /\ OthersStay(h) /\ handler'[h].at = "idle"
      BY <1>7, Finishes, IdleIsARecord DEF CommitUpdate, CommitStatus, CreateTest
    <2>3. QED
      BY <2>1, <2>2, PlacesDiffer DEF AwayFromInvitations
  <1>8. ASSUME NEW h \in Handlers, ConsumeTest(h) \/ ConsumeRefused(h)
        PROVE  ProviderInv' /\ HandlersAreRecords' /\ AwayFromInvitations(h)
    BY <1>8, ConsumingKeepsProviders, PlacesDiffer DEF AwayFromInvitations, ProviderPlaces
  <1>9. ASSUME NEW h \in Handlers, RecordTest(h) \/ RecordTestFailure(h)
        PROVE  ProviderInv' /\ HandlersAreRecords' /\ AwayFromInvitations(h)
    BY <1>9, OutcomeKeepsProviders, PlacesDiffer, IdleIsARecord DEF AwayFromInvitations
  <1>10. QED
    BY <1>1, <1>2, <1>3, <1>4, <1>5, <1>6, <1>7, <1>8, <1>9 DEF ProvidersNext

(* Linking makes a provider's row at most.                                  *)
LEMMA LinkingKeepsProviders ==
  ASSUME ProviderInv, HandlersAreRecords, LinkingNext
  PROVE  ProviderInv' /\ HandlersAreRecords' /\ \E h \in Handlers : AwayFromInvitations(h)
  <1>1. PICK h \in Handlers : (\E u \in Users, i \in Identities : StartLink(h, u, i)) \/ LinkIdentityToUser(h)
    BY DEF LinkingNext
  <1>2. UNCHANGED tests /\ \E p : EnsureConfig(p)
    <2>1. ASSUME NEW u \in Users, NEW i \in Identities, StartLink(h, u, i)
          PROVE  UNCHANGED tests /\ EnsureConfig(ProviderOf[i])
      BY <2>1 DEF StartLink
    <2>2. ASSUME LinkIdentityToUser(h)
          PROVE  UNCHANGED tests /\ EnsureConfig(ProviderOf[handler[h].item])
      BY <2>2 DEF LinkIdentityToUser
    <2>3. QED
      BY <1>1, <2>1, <2>2
  <1>3. Elsewhere(h)
    <2>1. ASSUME NEW u \in Users, NEW i \in Identities, StartLink(h, u, i) PROVE Elsewhere(h)
      <3> DEFINE x == [Idle EXCEPT !.at = "at_provider", !.user = u, !.item = i]
      <3>1. UNCHANGED handler \/ Wait(h, x)
        BY <2>1 DEF StartLink
      <3>2. DOMAIN x = Fields /\ x.at = "at_provider"
        BY DEF Idle, Fields
      <3> HIDE DEF x
      <3>3. QED
        BY <3>1, <3>2, Stays, WaitsElsewhere DEF ProviderPlaces, InvitePlaces, TestPlaces
    <2>2. ASSUME LinkIdentityToUser(h) PROVE Elsewhere(h)
      BY <2>2, GoesElsewhere, FinishesElsewhere
      DEF LinkIdentityToUser, ProviderPlaces, InvitePlaces, TestPlaces
    <2>3. QED
      BY <1>1, <2>1, <2>2
  <1>4. /\ configs' \in [Configs -> Config] /\ ConfigsGrow /\ RowsAreSound'
        /\ \A b \in Configs : configs[b].state # "none" => configs'[b] = configs[b]
    BY <1>2, EnsuredRow
  <1>5. HandlersAreRecords' /\ AwayFromInvitations(h) /\ AwayFromProviders(h)
    BY <1>3, ElsewhereIsAway
  <1>6. ProviderInv'
    BY <1>2, <1>4, <1>5, EnsuringKeepsProviders DEF AwayFromProviders
  <1>7. QED
    BY <1>5, <1>6

(* An invitation's steps have nothing to do with providers.                 *)
LEMMA InviteStepsAreAway ==
  ASSUME HandlersAreRecords, NEW h \in Handlers, InviteStep(h)
  PROVE  AwayFromProviders(h)
  <1> USE DEF AwayFromProviders, Fields
  <1>0. DOMAIN handler[h] = Fields
    BY DEF HandlersAreRecords
  <1>p. \A place \in InvitePlaces \cup {"idle"} : place \notin ProviderPlaces
    BY PlacesDiffer
  <1>1. ASSUME NEW x, DOMAIN x = Fields, Wait(h, x), x.at \in InvitePlaces
        PROVE  AwayFromProviders(h)
    BY <1>1, <1>p, Waits
  <1>2. ASSUME NEW place \in InvitePlaces, Goto(h, place)
        PROVE  AwayFromProviders(h)
    BY <1>2, <1>p, Goes
  <1>3. ASSUME Finish(h)
        PROVE  AwayFromProviders(h)
    <2>1. handler'[h].at = "idle" /\ OthersStay(h)
      BY <1>3, Finishes, IdleIsARecord
    <2>2. QED
      BY <2>1, <1>p
  <1>4. ASSUME NEW i \in Invitations, NEW a \in Emails, NEW r \in Roles, CreateAdminInvitation(h, i, a, r)
        PROVE  AwayFromProviders(h)
    BY <1>4, Stays DEF CreateAdminInvitation
  <1>5. ASSUME NEW i \in Invitations, NEW place \in {"resend", "revoke"}, TakeInvitation(h, i, place)
        PROVE  AwayFromProviders(h)
    <2> DEFINE x == [Idle EXCEPT !.at = place, !.item = i]
    <2>1. DOMAIN x = Fields /\ x.at \in InvitePlaces
      BY DEF Idle, InvitePlaces
    <2>2. Wait(h, x)
      BY <1>5 DEF TakeInvitation
    <2> HIDE DEF x
    <2>3. QED
      BY <1>1, <2>1, <2>2
  <1>6. ASSUME NEW i \in Invitations, AcceptAdminInvitation(h, i)
        PROVE  AwayFromProviders(h)
    <2> DEFINE x == [Idle EXCEPT !.at = "invited", !.item = i, !.to = invitation[i].to,
                                !.seen = IF Exists(invitation[i].role) THEN 1 ELSE 0]
    <2>1. DOMAIN x = Fields /\ x.at \in InvitePlaces
      BY DEF Idle, InvitePlaces
    <2>2. Wait(h, x)
      BY <1>6 DEF AcceptAdminInvitation
    <2> HIDE DEF x
    <2>3. QED
      BY <1>1, <2>1, <2>2
  <1>7. ASSUME ResendInvitation(h) \/ RevokeInvitation(h) \/ MarkAccepted(h)
        PROVE  AwayFromProviders(h)
    BY <1>3, <1>7 DEF ResendInvitation, RevokeInvitation, MarkAccepted
  <1>8. ASSUME FindInvited(h)
        PROVE  AwayFromProviders(h)
    <2> DEFINE x == [handler[h] EXCEPT !.at = "account", !.user = UserOf(handler[h].to)]
    <2>1. DOMAIN x = Fields /\ x.at \in InvitePlaces
      BY <1>0 DEF InvitePlaces
    <2>2. Wait(h, x)
      BY <1>8 DEF FindInvited
    <2> HIDE DEF x
    <2>3. QED
      BY <1>1, <2>1, <2>2
  <1>9. ASSUME WriteInvited(h)
        PROVE  AwayFromProviders(h)
    <2>1. ASSUME NEW v \in Users, Wait(h, [handler[h] EXCEPT !.at = "enrol", !.user = v])
          PROVE  AwayFromProviders(h)
      <3> DEFINE x == [handler[h] EXCEPT !.at = "enrol", !.user = v]
      <3>1. DOMAIN x = Fields /\ x.at \in InvitePlaces
        BY <1>0 DEF InvitePlaces
      <3>2. Wait(h, x)
        BY <2>1
      <3> HIDE DEF x
      <3>3. QED
        BY <1>1, <3>1, <3>2
    <2>2. Goto(h, "enrol") => AwayFromProviders(h)
      BY <1>2 DEF InvitePlaces
    <2> HIDE DEF AwayFromProviders, Fields
    <2>3. QED
      BY <1>3, <1>9, <2>1, <2>2, Zenon DEF WriteInvited
  <1>10. ASSUME EnrolInvited(h)
         PROVE  AwayFromProviders(h)
    <2>1. Goto(h, "accepted") => AwayFromProviders(h)
      BY <1>2 DEF InvitePlaces
    <2>2. QED
      BY <1>3, <1>10, <2>1 DEF EnrolInvited
  <1>11. QED
    BY <1>4, <1>5, <1>6, <1>7, <1>8, <1>9, <1>10 DEF InviteStep

----------------------------------------------------------------------------
(* The whole *)

IInv == HandlersAreRecords /\ ProviderInv /\ InvitationInv

LEMMA InitEstablishesIInv ==
  ASSUME Init
  PROVE  IInv
  <1>1. HandlersAreRecords /\ \A h \in Handlers : handler[h] = Idle
    BY IdleIsARecord DEF Init, RowsInit, HandlersAreRecords
  <1>2. \A h \in Handlers : handler[h].at \notin InvitePlaces \cup ProviderPlaces
    BY <1>1, IdleIsARecord, PlacesDiffer
  <1>3. configs \in [Configs -> Config] /\ RowsAreSound
    BY StartAssumption DEF Init, ProvidersInit, RowsAreSound, There, Wished
  <1>4. NoTest \in Test /\ NoTest.state = "none" /\ NoTest.outcomes = 0
    BY DEF NoTest, Test
  <1>5. tests = [t \in Tests |-> NoTest]
    BY DEF Init, ProvidersInit
  <1>6. tests \in [Tests -> Test] /\ TestsAreAsked
    BY <1>4, <1>5 DEF TestsAreAsked
  <1>7. RequestsKnow
    BY <1>2 DEF RequestsKnow, Knows, At, ProviderPlaces, TestPlaces
  <1>8. OneOutcome
    BY <1>2, <1>4, <1>5 DEF OneOutcome, HasTest, ProviderPlaces
  <1>9. NoInvitation \in Invitation /\ NoInvitation.status = "none" /\ NoInvitation.uses = 0 /\ ~NoInvitation.revoked
    BY DEF NoInvitation, Invitation
  <1>10. invitation = [i \in Invitations |-> NoInvitation]
    BY DEF Init, AdminInit
  <1>11. invitation \in [Invitations -> Invitation] /\ PendingHasNotEnded /\ InvitationsEndOnce
    BY <1>9, <1>10 DEF PendingHasNotEnded, InvitationsEndOnce
  <1>12. HoldersFoundItPending /\ OneHolder
    BY <1>2 DEF HoldersFoundItPending, OneHolder, HasInvitation
  <1>13. QED
    BY <1>1, <1>3, <1>6, <1>7, <1>8, <1>11, <1>12 DEF IInv, ProviderInv, ProvidersTyped, InvitationInv

(* Steps that have to do with neither providers nor invitations             *)
LEMMA ElsewhereKeepsIInv ==
  ASSUME IInv, SameProviders, SameInvitations, NEW h \in Handlers, Elsewhere(h)
  PROVE  IInv'
  BY ElsewhereIsAway, ProvidersStay, InvitationsStay DEF IInv, AwayFromProviders, AwayFromInvitations

(* Erasure and death                                                        *)
LEMMA EraseAccountKeepsIInv ==
  ASSUME IInv, NEW h \in Handlers, NEW u \in Users, EraseAccount(h, u)
  PROVE  IInv'
  <1> DEFINE x == [Idle EXCEPT !.at = "erase", !.user = u]
  <1>1. Wait(h, x) /\ SameProviders
    BY DEF EraseAccount, SameOthers
  <1>2. SameInvitations
    BY DEF EraseAccount, SameOthers, SameAdmin, adminVars, SameInvitations
  <1>3. DOMAIN x = Fields /\ x.at = "erase"
    BY DEF Idle, Fields
  <1> HIDE DEF x
  <1>4. Elsewhere(h)
    BY <1>1, <1>3, WaitsElsewhere DEF IInv, ProviderPlaces, InvitePlaces, TestPlaces
  <1>5. QED
    BY <1>1, <1>2, <1>4, ElsewhereKeepsIInv

LEMMA EraseLinksKeepsIInv ==
  ASSUME IInv, NEW h \in Handlers, EraseLinks(h)
  PROVE  IInv'
  <1> DEFINE x == [handler[h] EXCEPT !.at = "anonymize", !.seen = Len(tokens)]
  <1>1. Wait(h, x) /\ SameProviders /\ SameInvitations
    BY DEF EraseLinks
  <1>2. DOMAIN x = Fields /\ x.at = "anonymize"
    BY DEF IInv, HandlersAreRecords, Fields
  <1> HIDE DEF x
  <1>3. Elsewhere(h)
    BY <1>1, <1>2, WaitsElsewhere DEF IInv, ProviderPlaces, InvitePlaces, TestPlaces
  <1>4. QED
    BY <1>1, <1>3, ElsewhereKeepsIInv

LEMMA EraseRowKeepsIInv ==
  ASSUME IInv, NEW h \in Handlers, EraseRow(h)
  PROVE  IInv'
  <1>1. Finish(h) /\ SameOthers
    BY DEF EraseRow
  <1>2. Elsewhere(h)
    BY <1>1, FinishesElsewhere DEF IInv
  <1>3. QED
    BY <1>1, <1>2, ElsewhereKeepsIInv DEF SameOthers, SameAdmin, adminVars, SameInvitations

LEMMA DeathKeepsIInv ==
  ASSUME IInv, NEW h \in Handlers, Die(h)
  PROVE  IInv'
  <1>1. Finish(h) /\ LeaveAdmin(h) /\ SameProviders
    BY DEF Die, Crash
  <1>2. InvitationInv'
    BY <1>1, DeathKeepsInvitations DEF IInv
  <1>3. HandlersAreRecords' /\ AwayFromProviders(h)
    BY <1>1, FinishesElsewhere, ElsewhereIsAway DEF IInv
  <1>4. ProviderInv'
    BY <1>1, <1>3, ProvidersStay DEF IInv, AwayFromProviders
  <1>5. QED
    BY <1>2, <1>3, <1>4 DEF IInv

LEMMA NextKeepsIInv ==
  ASSUME IInv, [Next]_vars
  PROVE  IInv'
  <1> USE DEF IInv
  <1>1. ASSUME SameProviders, SameInvitations, UNCHANGED handler
        PROVE  IInv'
    BY <1>1, NothingMoves
  <1>2. ASSUME SameProviders, SameInvitations, NEW h \in Handlers, Elsewhere(h)
        PROVE  IInv'
    BY <1>2, ElsewhereKeepsIInv
  <1>3. SameAdmin => SameInvitations
    BY DEF SameAdmin, adminVars, SameInvitations
  <1>4. CASE ProfilesNext /\ SameOthers
    BY <1>2, <1>3, <1>4, ProfilesMoveElsewhere DEF SameOthers
  <1>5. CASE CodesNext /\ SameProviders /\ SameIdentities /\ SameAdmin
    BY <1>1, <1>2, <1>3, <1>5, CodesMoveElsewhere
  <1>6. CASE ProvidersNext /\ SameCodes /\ SameIdentities /\ SameAdmin
    <2>1. ProviderInv' /\ HandlersAreRecords'
      BY <1>6, ProviderStepsKeepProviders
    <2>2. InvitationInv'
      BY <1>3, <1>6, ProviderStepsKeepProviders, NothingMoves, InvitationsStay DEF AwayFromInvitations
    <2>3. QED
      BY <2>1, <2>2
  <1>7. CASE IdentitiesNext /\ SameCodes /\ SameProviders /\ SameAdmin
    BY <1>2, <1>3, <1>7, IdentitiesMoveElsewhere
  <1>8. CASE LinkingNext /\ SameCodes /\ SameAdmin
    BY <1>3, <1>8, LinkingKeepsProviders, InvitationsStay DEF AwayFromInvitations
  <1>9. CASE AdminNext /\ SameCodes /\ SameProviders /\ SameIdentities
    <2>1. ASSUME NEW h \in Handlers, InviteStep(h)
          PROVE  IInv'
      <3>1. InvitationInv' /\ HandlersAreRecords'
        BY <2>1, InviteStepsKeepIt
      <3>2. AwayFromProviders(h)
        BY <2>1, InviteStepsAreAway
      <3>3. ProviderInv'
        BY <1>9, <3>2, ProvidersStay DEF AwayFromProviders
      <3>4. QED
        BY <3>1, <3>3
    <2>2. ASSUME NEW i \in Invitations, InvitationExpires(i)
          PROVE  IInv'
      BY <1>9, <2>2, ExpiryKeepsInvitations, NothingMoves
    <2>3. QED
      BY <1>2, <1>9, <2>1, <2>2, AdministratorsMoveElsewhere
  <1>10. CASE \E h \in Handlers :
               (\E u \in Users : EraseAccount(h, u)) \/ EraseLinks(h) \/ EraseRow(h) \/ Die(h)
    BY <1>10, EraseAccountKeepsIInv, EraseLinksKeepsIInv, EraseRowKeepsIInv, DeathKeepsIInv
  <1>11. CASE UNCHANGED vars
    BY <1>1, <1>11 DEF vars, rowVars, adminVars, SameProviders, SameInvitations
  <1>12. QED
    BY <1>4, <1>5, <1>6, <1>7, <1>8, <1>9, <1>10, <1>11 DEF Next

LEMMA AlwaysIInv == Spec => []IInv
  <1>1. Init => IInv
    BY InitEstablishesIInv
  <1>2. IInv /\ [Next]_vars => IInv'
    BY NextKeepsIInv
  <1>3. QED
    BY <1>1, <1>2, PTL DEF Spec

(* In SocialProviders.tla: a provider that is on passed a test of its own   *)
(* row, however tests, changes of the row and its deletion overlap; and a   *)
(* test has one outcome.                                                    *)
THEOREM ProvidersAlwaysPassTheirOwnTest == Spec => []ProvidersPassTheirOwnTest
  <1>1. IInv => ProvidersPassTheirOwnTest
    BY DEF IInv, ProviderInv, ProvidersTyped, Test, RowsAreSound, OneOutcome, ProvidersPassTheirOwnTest
  <1>2. QED
    BY <1>1, AlwaysIInv, PTL

(* In SocialProviders.tla: an update of a provider's settings does not      *)
(* switch on what was switched off before it began.                         *)
THEOREM SwitchedOffAlwaysStaysOff == Spec => []SwitchedOffStaysOff
  <1>1. IInv => SwitchedOffStaysOff
    BY DEF IInv, ProviderInv, RowsAreSound, Wished, SwitchedOffStaysOff
  <1>2. QED
    BY <1>1, AlwaysIInv, PTL

(* In AdminAccess.tla: an invitation ends once, by one acceptance or one    *)
(* revocation, unless two requests have it at one time or one dies with it. *)
THEOREM InvitationsAlwaysEndOnce == Spec => []InvitationsEndOnce
  <1>1. IInv => InvitationsEndOnce
    BY DEF IInv, InvitationInv
  <1>2. QED
    BY <1>1, AlwaysIInv, PTL

----------------------------------------------------------------------------
(* What requests have in hand *)

TokenPlaces == {"confirm", "miss", "mark", "reset", "otp_drop", "otp_use", "otp_count", "otp_login"}

RolePlaces == {"remove", "reassign", "regrant", "delete", "ungrant"}

IdentityPlaces == {"match", "conflict", "autolink", "create", "link", "at_provider", "count", "unlink"}

UserPlaces ==
  TokenPlaces \cup
  {"email_token", "phone_token", "reset_token", "otp_store", "profile", "conflict", "autolink",
   "link", "at_provider", "count", "unlink", "password", "SUSPENDED", "DELETED",
   "enrol", "accepted", "erase", "anonymize"}

EmailPlaces == {"match", "conflict", "autolink", "invited", "account"}

AddressPlaces ==
  {"register", "email_token", "phone_token", "confirm", "otp_store", "otp_cool",
   "otp_drop", "otp_use", "otp_count", "otp_login", "profile"}

KindsAt(place) ==
  CASE place \in {"confirm", "mark"} -> {"email", "phone"}
    [] place = "miss" -> {"phone"}
    [] place = "reset" -> {"reset"}
    [] OTHER -> {"login"}

(* A row of a user is there, be it erased.                                  *)
Present(u) == u \in Users /\ users[u].status # "none"

(* The user is known to have the address, or was written over.              *)
Vouched(u, a) == <<u, a>> \in history.proved \/ <<u, "email">> \in history.overwritten

(* What a request w has at each place: a user that is there, an address,    *)
(* an identity, a role; the token it read with its user and its address;    *)
(* and, where it is to link an identity unasked, a user whose address that  *)
(* is.                                                                      *)
HoldsUser(w) ==
  /\ w.at \in UserPlaces => Present(w.user)
  /\ w.at = "account" => w.user = None \/ Present(w.user)
  /\ w.at \in {"remove", "reassign", "regrant"} => w.user \in Users

HoldsAddress(w) ==
  /\ w.at \in EmailPlaces => w.to \in Emails
  /\ w.at \in AddressPlaces => w.to \in Addresses
  /\ w.at = "create" => w.to \in Emails \cup {None}
  /\ w.at = "reset_token" => w.to = None

HoldsItem(w) ==
  /\ w.at \in IdentityPlaces => w.item \in Identities
  /\ w.at \in RolePlaces => w.item \in Roles

HoldsToken(w) ==
  w.at \in TokenPlaces =>
    /\ w.item \in DOMAIN tokens /\ tokens[w.item].kind \in KindsAt(w.at)
    /\ tokens[w.item].user = w.user
    /\ w.at # "reset" => tokens[w.item].to = w.to
    /\ w.at = "otp_count" => w.seen \in Nat

Holds(w) ==
  /\ HoldsUser(w) /\ HoldsAddress(w) /\ HoldsItem(w) /\ HoldsToken(w)
  /\ w.at \in {"conflict", "autolink"} => Vouched(w.user, w.to)
  /\ w.at = "anonymize" => w.seen \in Nat /\ w.seen <= Len(tokens)

RequestsHold == \A h \in Handlers : Holds(handler[h])

RowsSound ==
  /\ users \in [Users -> UserRow] /\ history \in History
  /\ \A u \in Users : users[u].status = "none" => users[u] = NoUser

TokensSound ==
  /\ tokens \in Seq(Token)
  /\ \A t \in DOMAIN tokens :
       Present(tokens[t].user) /\ (tokens[t].kind # "reset" => tokens[t].to \in Addresses)

(* The record of a login code names a code that was sent there.             *)
OtpsSound ==
  /\ otp \in [Addresses -> [token : Nat, attempts : Nat]]
  /\ \A a \in Addresses : otp[a] # NoCode =>
       /\ otp[a].token \in DOMAIN tokens
       /\ tokens[otp[a].token].kind = "login" /\ tokens[otp[a].token].to = a

OwnersSound ==
  /\ owner \in [Identities -> Users \cup {None}] /\ auto \in [Identities -> Addresses \cup {None}]
  /\ \A i \in Identities : owner[i] # None => Present(owner[i])

InvitationsSound ==
  \A i \in Invitations :
    invitation[i].status # "none" => invitation[i].to \in Emails /\ invitation[i].role \in Roles

SoundInv ==
  /\ RowsSound /\ TokensSound /\ OtpsSound /\ OwnersSound /\ InvitationsSound /\ RequestsHold
  /\ VerifiedMeansProved /\ AutoLinkedMeansProved

(* What no step takes away: a token k that becomes x keeps its kind, its    *)
(* user and its address, and stays closed when it is.                       *)
Closed(k) == ~k.live \/ k.used \/ k.deleted

Ages(k, x) ==
  /\ x.kind = k.kind /\ x.user = k.user /\ x.to = k.to
  /\ k.deleted => x.deleted
  /\ Closed(k) => Closed(x)

TokensGrow ==
  /\ Len(tokens) <= Len(tokens')
  /\ \A t \in DOMAIN tokens : Ages(tokens[t], tokens'[t])

HistoryGrows ==
  /\ history.proved \subseteq history'.proved /\ history.overwritten \subseteq history'.overwritten
  /\ history.stripped \subseteq history'.stripped
  /\ history.erased \subseteq history'.erased /\ history.revived \subseteq history'.revived
  /\ \A u \in history'.erased \ history.erased : \E h \in Handlers : EraseRow(h) /\ u = handler[h].user

UsersStay == \A u \in Users : Present(u) => Present(u)'

(* A request keeps what it has, and one that moves has what it needs.       *)
LEMMA HeldStays ==
  ASSUME SoundInv, TokensSound', TokensGrow, HistoryGrows, UsersStay, NEW h \in Handlers, NEW w, Holds(w),
         handler'[h] = w
  PROVE  Holds(handler[h])'
  <1>1. HoldsUser(handler[h])'
    BY DEF Holds, HoldsUser, UsersStay, Present
  <1>2. HoldsAddress(handler[h])' /\ HoldsItem(handler[h])'
    BY DEF Holds, HoldsAddress, HoldsItem
  <1>3. DOMAIN tokens \subseteq DOMAIN tokens' /\ Len(tokens) \in Nat /\ Len(tokens') \in Nat
    BY DEF SoundInv, TokensSound, TokensGrow
  <1>4. HoldsToken(handler[h])'
    BY <1>3 DEF Holds, HoldsToken, TokensGrow, Ages
  <1>5. w.at \in {"conflict", "autolink"} => Vouched(w.user, w.to)'
    BY DEF Holds, Vouched, HistoryGrows
  <1>6. w.at = "anonymize" => w.seen \in Nat /\ w.seen <= Len(tokens')
    BY <1>3 DEF Holds, TokensGrow
  <1>7. QED
    BY <1>1, <1>2, <1>4, <1>5, <1>6 DEF Holds, Vouched

(* At these places a request does an erased account no harm.                *)
Harmless ==
  {"erase", "anonymize", "SUSPENDED", "DELETED", "otp_drop", "otp_use", "otp_count", "otp_login",
   "remove", "reassign", "regrant"}

Links(u) == {t \in DOMAIN tokens : tokens[t].user = u /\ tokens[t].kind \in {"email", "reset"}}

(* A request comes upon a user who can sign in, whose address or identity   *)
(* it has, whose link somebody opens or whose row it makes.                 *)
Reachable(u) ==
  \/ users[u].status = "none" \/ Authenticatable(u)
  \/ \E a \in Addresses : UserOf(a) = u
  \/ IdentitiesOf(u) # {}
  \/ \E t \in Links(u) : Open(t)

(* w: where h goes next                                                     *)
Reached(h, w) ==
  \/ w.user = None \/ w.at \in Harmless \/ Reachable(w.user)
  \/ w.user = handler[h].user /\ handler[h].at \notin Harmless

Moves(h, places) ==
  /\ OthersStay(h)
  /\ \/ handler'[h] = handler[h]
     \/ /\ handler'[h].at \in places /\ Reached(h, handler'[h])
        /\ Holds(handler'[h]) \/ Holds(handler[h])'

LEMMA MovesHold ==
  ASSUME SoundInv, TokensSound', TokensGrow, HistoryGrows, UsersStay,
         UNCHANGED handler \/ \E h \in Handlers : \E places : Moves(h, places)
  PROVE  RequestsHold'
  <1>1. \A g \in Handlers : Holds(handler[g])
    BY DEF SoundInv, RequestsHold
  <1>2. ASSUME NEW g \in Handlers PROVE Holds(handler[g])' \/ \E w : Holds(w) /\ handler'[g] = w
    BY <1>1 DEF Moves, OthersStay
  <1>3. QED
    BY <1>2, HeldStays DEF RequestsHold

(* At these places a request needs nothing.                                 *)
LEMMA HoldsNothing ==
  ASSUME NEW w, w.at \in ProviderPlaces \cup {"idle", "resend", "revoke"}
  PROVE  Holds(w)
  BY DEF Holds, HoldsUser, HoldsAddress, HoldsItem, HoldsToken, ProviderPlaces, TestPlaces, UserPlaces,
     EmailPlaces, AddressPlaces, IdentityPlaces, RolePlaces, TokenPlaces

(* The three ways to move                                                   *)
LEMMA WaitMoves ==
  ASSUME HandlersAreRecords, NEW h \in Handlers, NEW x, DOMAIN x = Fields, Wait(h, x),
         NEW places, x.at \in places, Holds(x), Reached(h, x)
  PROVE  Moves(h, places)
  BY Waits DEF Moves

LEMMA FinishMoves ==
  ASSUME HandlersAreRecords, NEW h \in Handlers, Finish(h), NEW places, "idle" \in places
  PROVE  Moves(h, places)
  <1>1. Idle.user = None
    BY DEF Idle
  <1>2. QED
    BY <1>1, Finishes, IdleIsARecord, HoldsNothing DEF Moves, Reached

LEMMA StayMoves ==
  ASSUME HandlersAreRecords, NEW h \in Handlers, UNCHANGED handler, NEW places
  PROVE  Moves(h, places)
  BY DEF Moves, OthersStay

(* A request that goes on with what it has                                  *)
LEMMA GotoMoves ==
  ASSUME HandlersAreRecords, NEW h \in Handlers, NEW place, Goto(h, place), NEW places, place \in places,
         Holds([handler[h] EXCEPT !.at = place]), place \in Harmless \/ handler[h].at \notin Harmless
  PROVE  Moves(h, places)
  <1>1. handler'[h].user = handler[h].user /\ handler'[h].at = place
    BY Goes DEF Fields
  <1>2. QED
    BY <1>1, Goes DEF Moves, Reached

LEMMA GoneOn ==
  ASSUME HandlersAreRecords, NEW h \in Handlers, NEW place, NEW x, x = [handler[h] EXCEPT !.at = place]
  PROVE  /\ x.at = place /\ x.user = handler[h].user /\ x.to = handler[h].to
         /\ x.item = handler[h].item /\ x.seen = handler[h].seen
  BY DEF HandlersAreRecords, Fields

ProfilePlaces == {"idle", "profile"}
CodePlaces ==
  {"idle", "register", "email_token", "phone_token", "reset_token", "otp_store", "otp_cool"} \cup TokenPlaces
SigningPlaces == {"idle", "match", "create", "conflict", "autolink", "link", "count", "password"}
LinkPlaces == {"idle", "at_provider", "link"}
AdminPlaces == {"idle", "SUSPENDED", "DELETED"} \cup RolePlaces \cup InvitePlaces
ErasePlaces == {"idle", "erase", "anonymize"}

LEMMA UserOfFinds ==
  ASSUME SoundInv, NEW a \in Addresses, UserOf(a) # None
  PROVE  Present(UserOf(a)) /\ users[UserOf(a)].address[ChannelOf(a)] = a
  <1> DEFINE u == UserOf(a)
  <1>1. u \in Users /\ users[u].address[ChannelOf(a)] = a
    BY DEF UserOf
  <1>2. a # None /\ ChannelOf(a) \in Channels
    BY AccountsAssumption DEF Addresses, ChannelOf, Channels
  <1>3. users[u] # NoUser
    BY <1>1, <1>2 DEF NoUser
  <1>4. QED
    BY <1>1, <1>3 DEF SoundInv, RowsSound, Present

(* What comes in with a user that is there, an address or a token           *)
LEMMA AuthenticatableIsPresent ==
  ASSUME NEW u \in Users, Authenticatable(u)
  PROVE  Present(u) /\ Reachable(u)
  BY DEF Authenticatable, Present, Reachable

LEMMA ProfilesMove ==
  ASSUME HandlersAreRecords, SoundInv, ProfilesNext
  PROVE  \E h \in Handlers : Moves(h, ProfilePlaces)
  <1>1. PICK h \in Handlers :
          \/ \E u \in Users, a \in Addresses : UpdateCurrentUserProfile(h, u, a) \/ UpdateMyAccount(h, u, a)
          \/ WriteProfile(h)
    BY DEF ProfilesNext
  <1>2. ASSUME NEW u \in Users, NEW a \in Addresses, UpdateCurrentUserProfile(h, u, a)
        PROVE  Moves(h, ProfilePlaces)
    <2> DEFINE x == [Idle EXCEPT !.at = "profile", !.user = u, !.to = a]
    <2>1. DOMAIN x = Fields /\ x.at = "profile" /\ x.user = u /\ x.to = a
      BY DEF Idle, Fields
    <2>2. Wait(h, x) /\ Present(u) /\ Reachable(u)
      BY <1>2, AuthenticatableIsPresent DEF UpdateCurrentUserProfile
    <2> HIDE DEF x
    <2>3. Holds(x)
      BY <2>1, <2>2 DEF Holds, HoldsUser, HoldsAddress, HoldsItem, HoldsToken, UserPlaces, EmailPlaces,
         AddressPlaces, IdentityPlaces, RolePlaces, TokenPlaces
    <2>4. QED
      BY <2>1, <2>2, <2>3, WaitMoves DEF ProfilePlaces, Reached
  <1>3. ASSUME NEW u \in Users, NEW a \in Addresses, UpdateMyAccount(h, u, a) PROVE Moves(h, ProfilePlaces)
    BY <1>3, StayMoves DEF UpdateMyAccount
  <1>4. ASSUME WriteProfile(h) PROVE Moves(h, ProfilePlaces)
    BY <1>4, FinishMoves DEF WriteProfile, ProfilePlaces
  <1>5. QED
    BY <1>1, <1>2, <1>3, <1>4

(* A request with a user and an address, with a token, with an identity     *)
LEMMA HoldsUserAndAddress ==
  ASSUME NEW w, Present(w.user), w.to \in Addresses,
         w.at \in {"profile", "email_token", "phone_token", "otp_store", "otp_cool"}
  PROVE  Holds(w)
  BY DEF Holds, HoldsUser, HoldsAddress, HoldsItem, HoldsToken, UserPlaces, EmailPlaces, AddressPlaces,
     IdentityPlaces, RolePlaces, TokenPlaces

LEMMA HoldsOnlyAddress ==
  ASSUME NEW w, w.to \in Addresses, w.at \in {"register", "otp_cool"}
  PROVE  Holds(w)
  BY DEF Holds, HoldsUser, HoldsAddress, HoldsItem, HoldsToken, UserPlaces, EmailPlaces, AddressPlaces,
     IdentityPlaces, RolePlaces, TokenPlaces

LEMMA HoldsOnlyUser ==
  ASSUME NEW w, Present(w.user), w.at = "reset_token" => w.to = None,
         w.at \in {"reset_token", "password", "SUSPENDED", "DELETED", "erase", "enrol", "accepted"}
  PROVE  Holds(w)
  BY DEF Holds, HoldsUser, HoldsAddress, HoldsItem, HoldsToken, UserPlaces, EmailPlaces, AddressPlaces,
     IdentityPlaces, RolePlaces, TokenPlaces

LEMMA HoldsATokenOf ==
  ASSUME SoundInv, NEW w, w.at \in TokenPlaces, w.item \in DOMAIN tokens, w.user = tokens[w.item].user,
         tokens[w.item].kind \in KindsAt(w.at), w.at # "reset" => w.to = tokens[w.item].to,
         w.at = "otp_count" => w.seen \in Nat
  PROVE  Holds(w)
  <1>1. Present(w.user)
    BY DEF SoundInv, TokensSound
  <1>2. w.at # "reset" => w.to \in Addresses
    BY DEF SoundInv, TokensSound, KindsAt, TokenPlaces
  <1>3. QED
    BY <1>1, <1>2 DEF Holds, HoldsUser, HoldsAddress, HoldsItem, HoldsToken, UserPlaces, EmailPlaces,
       AddressPlaces, IdentityPlaces, RolePlaces, TokenPlaces

LEMMA HoldsAnIdentity ==
  ASSUME NEW w, Present(w.user), w.item \in Identities,
         w.at \in {"link", "at_provider", "count", "unlink"}
  PROVE  Holds(w)
  BY DEF Holds, HoldsUser, HoldsAddress, HoldsItem, HoldsToken, UserPlaces, EmailPlaces, AddressPlaces,
     IdentityPlaces, RolePlaces, TokenPlaces

LEMMA HoldsARole ==
  ASSUME NEW w, w.at \in RolePlaces, w.item \in Roles, w.at \in {"delete", "ungrant"} \/ w.user \in Users
  PROVE  Holds(w)
  BY DEF Holds, HoldsUser, HoldsAddress, HoldsItem, HoldsToken, UserPlaces, EmailPlaces, AddressPlaces,
     IdentityPlaces, RolePlaces, TokenPlaces

LEMMA CodeRequestsMove ==
  ASSUME HandlersAreRecords, SoundInv, NEW h \in Handlers,
         \/ \E a \in Addresses : RegisterUser(h, a) \/ ForgotPassword(h, a) \/ RequestLoginOtp(h, a)
         \/ \E t \in DOMAIN tokens : ResetPassword(h, t) \/ ConfirmEmailVerification(h, t)
         \/ \E u \in Users, a \in Addresses : RequestEmailVerification(h, u, a) \/ RequestPhoneChange(h, u, a)
         \/ \E u \in Users, right \in BOOLEAN : ConfirmPhoneChange(h, u, right)
         \/ \E a \in Addresses, right \in BOOLEAN : VerifyLoginOtp(h, a, right)
  PROVE  Moves(h, CodePlaces)
  <1> USE DEF Fields, CodePlaces, Reached
  <1>1. ASSUME NEW a \in Addresses, RegisterUser(h, a) PROVE Moves(h, CodePlaces)
    <2> DEFINE x == [Idle EXCEPT !.at = "register", !.to = a]
    <2>1. DOMAIN x = Fields /\ x.at = "register" /\ x.user = None /\ x.to = a
      BY DEF Idle
    <2>2. Wait(h, x)
      BY <1>1 DEF RegisterUser
    <2> HIDE DEF x
    <2>3. QED
      BY <2>1, <2>2, HoldsOnlyAddress, WaitMoves
  <1>2. ASSUME NEW a \in Addresses, ForgotPassword(h, a) PROVE Moves(h, CodePlaces)
    <2> DEFINE x == [Idle EXCEPT !.at = "reset_token", !.user = UserOf(a)]
    <2>1. DOMAIN x = Fields /\ x.at = "reset_token" /\ x.user = UserOf(a) /\ x.to = None
      BY DEF Idle
    <2>2. Wait(h, x) /\ Present(UserOf(a)) /\ Reachable(UserOf(a))
      BY <1>2, UserOfFinds DEF ForgotPassword, Reachable
    <2> HIDE DEF x
    <2>3. QED
      BY <2>1, <2>2, HoldsOnlyUser, WaitMoves
  <1>3. ASSUME NEW u \in Users, NEW a \in Addresses,
               RequestEmailVerification(h, u, a) \/ RequestPhoneChange(h, u, a)
        PROVE  Moves(h, CodePlaces)
    <2>1. PICK place \in {"email_token", "phone_token"} : RequestVerification(h, u, a, place)
      BY <1>3 DEF RequestEmailVerification, RequestPhoneChange
    <2> DEFINE x == [Idle EXCEPT !.at = place, !.user = u, !.to = a]
    <2>2. DOMAIN x = Fields /\ x.at = place /\ x.user = u /\ x.to = a
      BY DEF Idle
    <2>3. Wait(h, x) /\ Present(u) /\ Reachable(u)
      BY <2>1, AuthenticatableIsPresent DEF RequestVerification
    <2> HIDE DEF x
    <2>4. QED
      BY <2>1, <2>2, <2>3, HoldsUserAndAddress, WaitMoves
  <1>4. ASSUME NEW t \in DOMAIN tokens, ResetPassword(h, t) PROVE Moves(h, CodePlaces)
    <2> DEFINE x == [Idle EXCEPT !.at = "reset", !.user = tokens[t].user, !.item = t]
    <2>1. DOMAIN x = Fields /\ x.at = "reset" /\ x.user = tokens[t].user /\ x.item = t
      BY DEF Idle
    <2>2. Wait(h, x) /\ tokens[t].kind = "reset" /\ Reachable(tokens[t].user)
      BY <1>4 DEF ResetPassword, Reachable, Links
    <2> HIDE DEF x
    <2>3. Holds(x)
      BY <2>1, <2>2, HoldsATokenOf DEF TokenPlaces, KindsAt
    <2>4. QED
      BY <2>1, <2>2, <2>3, WaitMoves DEF TokenPlaces
  <1>5. ASSUME NEW t \in DOMAIN tokens, ConfirmEmailVerification(h, t) PROVE Moves(h, CodePlaces)
    <2> DEFINE x == [Idle EXCEPT !.at = "confirm", !.user = tokens[t].user, !.to = tokens[t].to, !.item = t]
    <2>1. DOMAIN x = Fields /\ x.at = "confirm" /\ x.user = tokens[t].user /\ x.item = t /\ x.to = tokens[t].to
      BY DEF Idle
    <2>2. Wait(h, x) /\ tokens[t].kind = "email" /\ Reachable(tokens[t].user)
      BY <1>5 DEF ConfirmEmailVerification, Reachable, Links
    <2> HIDE DEF x
    <2>3. Holds(x)
      BY <2>1, <2>2, HoldsATokenOf DEF TokenPlaces, KindsAt
    <2>4. QED
      BY <2>1, <2>2, <2>3, WaitMoves DEF TokenPlaces
  <1>6. ASSUME NEW u \in Users, NEW right \in BOOLEAN, ConfirmPhoneChange(h, u, right)
        PROVE  Moves(h, CodePlaces)
    <2> DEFINE place == IF right THEN "confirm" ELSE "miss"
    <2>1. PICK t \in Newest(u) : Wait(h, [Idle EXCEPT !.at = place, !.user = u, !.to = tokens[t].to, !.item = t])
      BY <1>6 DEF ConfirmPhoneChange
    <2> DEFINE x == [Idle EXCEPT !.at = place, !.user = u, !.to = tokens[t].to, !.item = t]
    <2>2. Wait(h, x) /\ DOMAIN x = Fields /\ x.at = place /\ x.user = u /\ x.item = t /\ x.to = tokens[t].to
      BY <2>1 DEF Idle
    <2>3. t \in DOMAIN tokens /\ tokens[t].kind = "phone" /\ tokens[t].user = u /\ Reachable(u)
      BY <1>6, AuthenticatableIsPresent DEF Newest, ConfirmPhoneChange
    <2> HIDE DEF x
    <2>4. Holds(x)
      BY <2>2, <2>3, HoldsATokenOf DEF TokenPlaces, KindsAt
    <2>5. QED
      BY <2>2, <2>3, <2>4, WaitMoves DEF TokenPlaces
  <1>7. ASSUME NEW a \in Addresses, RequestLoginOtp(h, a) PROVE Moves(h, CodePlaces)
    <2> DEFINE u == UserOf(a)
    <2> DEFINE x == [Idle EXCEPT !.at = "otp_store", !.user = u, !.to = a]
    <2> DEFINE y == [Idle EXCEPT !.at = "otp_cool", !.to = a]
    <2>1. /\ DOMAIN x = Fields /\ x.at = "otp_store" /\ x.user = u /\ x.to = a
          /\ DOMAIN y = Fields /\ y.at = "otp_cool" /\ y.to = a /\ y.user = None
      BY DEF Idle
    <2>2. (Wait(h, x) /\ u # None) \/ Wait(h, y)
      BY <1>7 DEF RequestLoginOtp
    <2>3. u # None => Present(u) /\ Reachable(u)
      BY UserOfFinds DEF Reachable
    <2> HIDE DEF x, y, u
    <2>4. Holds(y) /\ (u # None => Holds(x))
      BY <2>1, <2>3, HoldsUserAndAddress, HoldsOnlyAddress
    <2>5. QED
      BY <2>1, <2>2, <2>3, <2>4, WaitMoves
  <1>8. ASSUME NEW a \in Addresses, NEW right \in BOOLEAN, VerifyLoginOtp(h, a, right)
        PROVE  Moves(h, CodePlaces)
    <2> DEFINE t == otp[a].token
    <2>1. PICK place \in {"otp_drop", "otp_use", "otp_count"} :
            Wait(h, [at |-> place, user |-> tokens[t].user, to |-> a, item |-> t, seen |-> otp[a].attempts])
      BY <1>8 DEF VerifyLoginOtp
    <2> DEFINE x == [at |-> place, user |-> tokens[t].user, to |-> a, item |-> t, seen |-> otp[a].attempts]
    <2>2. /\ DOMAIN x = Fields /\ x.at = place /\ x.user = tokens[t].user /\ x.item = t /\ x.to = a
          /\ x.seen = otp[a].attempts
      OBVIOUS
    <2>3. otp[a] # NoCode
      BY <1>8 DEF VerifyLoginOtp
    <2>4. t \in DOMAIN tokens /\ tokens[t].kind = "login" /\ tokens[t].to = a /\ otp[a].attempts \in Nat
      BY <2>3 DEF SoundInv, OtpsSound
    <2> HIDE DEF x
    <2>5. Holds(x)
      BY <2>2, <2>4, HoldsATokenOf DEF TokenPlaces, KindsAt
    <2>6. QED
      BY <2>1, <2>2, <2>5, WaitMoves DEF TokenPlaces, Harmless, x
  <1>9. QED
    BY <1>1, <1>2, <1>3, <1>4, <1>5, <1>6, <1>7, <1>8

LEMMA CodeStepsMove ==
  ASSUME HandlersAreRecords, SoundInv, NEW h \in Handlers,
         \/ SendEmailLink(h) \/ SendPhoneCode(h) \/ SendResetLink(h)
         \/ CountAttempt(h) \/ ApplyAddress(h) \/ MarkUsed(h)
         \/ CommitReset(h) \/ StoreOtp(h) \/ CoolDown(h) \/ DropOtp(h) \/ CountWrongOtp(h)
         \/ UseOtp(h) \/ SignInWithOtp(h)
  PROVE  Moves(h, CodePlaces)
  <1>1. Holds(handler[h]) /\ {"idle", "mark", "otp_cool", "otp_login"} \subseteq CodePlaces
    BY DEF SoundInv, RequestsHold, CodePlaces, TokenPlaces
  <1>2. ASSUME Finish(h) PROVE Moves(h, CodePlaces)
    BY <1>1, <1>2, FinishMoves
  <1>3. CASE ApplyAddress(h)
    <2>1. ASSUME Goto(h, "mark"), At(h, "confirm") PROVE Moves(h, CodePlaces)
      <3> DEFINE x == [handler[h] EXCEPT !.at = "mark"]
      <3>1. x.at = "mark" /\ x.user = handler[h].user /\ x.to = handler[h].to /\ x.item = handler[h].item
        BY GoneOn
      <3> HIDE DEF x
      <3>2. Holds(x)
        BY <1>1, <2>1, <3>1, HoldsATokenOf DEF At, Holds, HoldsToken, TokenPlaces, KindsAt
      <3>3. QED
        BY <1>1, <2>1, <3>2, GotoMoves DEF x, At, Harmless
    <2>2. QED
      BY <1>2, <1>3, <2>1 DEF ApplyAddress
  <1>4. CASE StoreOtp(h)
    <2>1. Goto(h, "otp_cool") /\ At(h, "otp_store")
      BY <1>4 DEF StoreOtp
    <2>2. handler[h].to \in Addresses
      BY <1>1, <2>1 DEF At, Holds, HoldsAddress, AddressPlaces
    <2> DEFINE x == [handler[h] EXCEPT !.at = "otp_cool"]
    <2>3. x.at = "otp_cool" /\ x.to = handler[h].to
      BY GoneOn
    <2> HIDE DEF x
    <2>4. Holds(x)
      BY <2>2, <2>3, HoldsOnlyAddress
    <2>5. QED
      BY <1>1, <2>1, <2>4, GotoMoves DEF x, At, Harmless
  <1>5. CASE UseOtp(h)
    <2>1. Goto(h, "otp_login") /\ At(h, "otp_use")
      BY <1>5 DEF UseOtp
    <2> DEFINE x == [handler[h] EXCEPT !.at = "otp_login"]
    <2>2. x.at = "otp_login" /\ x.user = handler[h].user /\ x.to = handler[h].to /\ x.item = handler[h].item
      BY GoneOn
    <2> HIDE DEF x
    <2>3. Holds(x)
      BY <1>1, <2>1, <2>2, HoldsATokenOf DEF At, Holds, HoldsToken, TokenPlaces, KindsAt
    <2>4. QED
      BY <1>1, <2>1, <2>3, GotoMoves DEF x, Harmless
  <1>6. CASE \/ SendEmailLink(h) \/ SendPhoneCode(h) \/ SendResetLink(h)
             \/ CountAttempt(h) \/ MarkUsed(h)
             \/ CommitReset(h) \/ CoolDown(h) \/ DropOtp(h) \/ CountWrongOtp(h) \/ SignInWithOtp(h)
    <2>1. Finish(h)
      BY <1>6 DEF SendEmailLink, SendPhoneCode, SendResetLink, CreateToken, CountAttempt, MarkUsed, CommitReset,
         CoolDown, DropOtp, CountWrongOtp, SignInWithOtp
    <2>2. QED
      BY <1>2, <2>1
  <1>7. QED
    BY <1>3, <1>4, <1>5, <1>6

LEMMA CreatedIsPresent ==
  ASSUME SoundInv, NEW u \in Users, NEW row \in UserRow, row.status # "none", Create(u, row)
  PROVE  Present(u)'
  BY DEF SoundInv, RowsSound, Create, Present

(* A request that goes on with what is there after its step                 *)
LEMMA WaitMovesLater ==
  ASSUME HandlersAreRecords, NEW h \in Handlers, NEW x, DOMAIN x = Fields, Wait(h, x),
         NEW places, x.at \in places, Holds(handler[h])', Reached(h, x)
  PROVE  Moves(h, places)
  BY Waits DEF Moves

LEMMA HoldsLater ==
  ASSUME NEW h \in Handlers, Present(handler[h].user)',
         \/ handler'[h].at = "email_token" /\ handler'[h].to \in Addresses
         \/ handler'[h].at = "link" /\ handler'[h].item \in Identities
         \/ handler'[h].at = "enrol"
  PROVE  Holds(handler[h])'
  BY DEF Holds, HoldsUser, HoldsAddress, HoldsItem, HoldsToken, UserPlaces, EmailPlaces, AddressPlaces,
     IdentityPlaces, RolePlaces, TokenPlaces

(* The new row of somebody who registers, signs in or is invited            *)
LEMMA NewRows ==
  /\ \A a \in Addresses :
       /\ [NoUser EXCEPT !.status = "PENDING_VERIFICATION", !.password = TRUE, !.address[ChannelOf(a)] = a] \in UserRow
       /\ [NoUser EXCEPT !.status = "PENDING_VERIFICATION", !.password = TRUE, !.address[ChannelOf(a)] = a].status
             = "PENDING_VERIFICATION"
  /\ \A a \in Emails \cup {None}, marked \in BOOLEAN :
       /\ [NoUser EXCEPT !.status = "ACTIVE", !.address["email"] = a, !.verified["email"] = marked] \in UserRow
       /\ [NoUser EXCEPT !.status = "ACTIVE", !.address["email"] = a, !.verified["email"] = marked].status = "ACTIVE"
  /\ \A a \in Emails :
       /\ [NoUser EXCEPT !.status = "ACTIVE", !.password = TRUE, !.address["email"] = a,
                        !.verified["email"] = TRUE] \in UserRow
       /\ [NoUser EXCEPT !.status = "ACTIVE", !.password = TRUE, !.address["email"] = a,
                        !.verified["email"] = TRUE].status = "ACTIVE"
  BY Zenon DEF NoUser, UserRow, Statuses, Channels, ChannelOf, Addresses

LEMMA CreateUserMoves ==
  ASSUME HandlersAreRecords, SoundInv, NEW h \in Handlers, CreateUser(h)
  PROVE  Moves(h, CodePlaces)
  <1> DEFINE a == handler[h].to
  <1>1. {"idle", "email_token"} \subseteq CodePlaces
    BY DEF CodePlaces
  <1>2. a \in Addresses
    BY DEF CreateUser, At, SoundInv, RequestsHold, Holds, HoldsAddress, AddressPlaces
  <1>3. ASSUME NEW u \in Users, a \in Emails,
               Create(u, [NoUser EXCEPT !.status = "PENDING_VERIFICATION", !.password = TRUE,
                                        !.address[ChannelOf(a)] = a]),
               Wait(h, [Idle EXCEPT !.at = "email_token", !.user = u, !.to = a])
        PROVE  Moves(h, CodePlaces)
    <2> DEFINE x == [Idle EXCEPT !.at = "email_token", !.user = u, !.to = a]
    <2> DEFINE row == [NoUser EXCEPT !.status = "PENDING_VERIFICATION", !.password = TRUE,
                                     !.address[ChannelOf(a)] = a]
    <2>1. DOMAIN x = Fields /\ x.at = "email_token" /\ x.user = u /\ x.to = a
      BY DEF Idle, Fields
    <2>2. row \in UserRow /\ row.status = "PENDING_VERIFICATION"
      BY <1>2, NewRows
    <2>3. Wait(h, x) /\ Create(u, row)
      BY <1>3
    <2> HIDE DEF x, row, a
    <2>4. Present(u)'
      BY <2>2, <2>3, CreatedIsPresent
    <2>5. handler'[h] = x
      BY <2>1, <2>3, Waits
    <2>6. Holds(handler[h])'
      BY <1>2, <2>1, <2>4, <2>5, HoldsLater
    <2>7. Reached(h, x)
      BY <2>1, <2>3 DEF Create, Reached, Reachable
    <2>8. QED
      BY <1>1, <2>1, <2>3, <2>6, <2>7, WaitMovesLater
  <1>4. Finish(h) => Moves(h, CodePlaces)
    BY <1>1, FinishMoves
  <1>5. QED
    BY <1>3, <1>4 DEF CreateUser

LEMMA CodesMove ==
  ASSUME HandlersAreRecords, SoundInv, CodesNext
  PROVE  (\E h \in Handlers : Moves(h, CodePlaces)) \/ UNCHANGED handler
  <1>1. SUFFICES ASSUME handler' # handler PROVE \E h \in Handlers : Moves(h, CodePlaces)
    OBVIOUS
  <1>2. PICK h \in Handlers :
       \/ \E a \in Addresses : RegisterUser(h, a)
       \/ (\E a \in Addresses : ForgotPassword(h, a)) \/ \E t \in DOMAIN tokens : ResetPassword(h, t)
       \/ \E u \in Users, a \in Addresses : RequestEmailVerification(h, u, a) \/ RequestPhoneChange(h, u, a)
       \/ \E t \in DOMAIN tokens : ConfirmEmailVerification(h, t)
       \/ \E u \in Users, right \in BOOLEAN : ConfirmPhoneChange(h, u, right)
       \/ \E a \in Addresses : RequestLoginOtp(h, a) \/ \E right \in BOOLEAN : VerifyLoginOtp(h, a, right)
       \/ CreateUser(h) \/ SendEmailLink(h) \/ SendPhoneCode(h) \/ SendResetLink(h)
       \/ CountAttempt(h) \/ ApplyAddress(h) \/ MarkUsed(h)
       \/ CommitReset(h) \/ StoreOtp(h) \/ CoolDown(h) \/ DropOtp(h) \/ CountWrongOtp(h)
       \/ UseOtp(h) \/ SignInWithOtp(h)
    BY <1>1 DEF CodesNext, TokenExpires, CooldownEnds, OtpExpires
  <1>3. CASE \/ \E a \in Addresses : RegisterUser(h, a)
             \/ (\E a \in Addresses : ForgotPassword(h, a)) \/ \E t \in DOMAIN tokens : ResetPassword(h, t)
             \/ \E u \in Users, a \in Addresses : RequestEmailVerification(h, u, a) \/ RequestPhoneChange(h, u, a)
             \/ \E t \in DOMAIN tokens : ConfirmEmailVerification(h, t)
             \/ \E u \in Users, right \in BOOLEAN : ConfirmPhoneChange(h, u, right)
             \/ \E a \in Addresses : RequestLoginOtp(h, a) \/ \E right \in BOOLEAN : VerifyLoginOtp(h, a, right)
    BY <1>3, CodeRequestsMove
  <1>4. CASE CreateUser(h)
    BY <1>4, CreateUserMoves
  <1>5. CASE \/ SendEmailLink(h) \/ SendPhoneCode(h) \/ SendResetLink(h)
             \/ CountAttempt(h) \/ ApplyAddress(h) \/ MarkUsed(h)
             \/ CommitReset(h) \/ StoreOtp(h) \/ CoolDown(h) \/ DropOtp(h) \/ CountWrongOtp(h)
             \/ UseOtp(h) \/ SignInWithOtp(h)
    BY <1>5, CodeStepsMove
  <1>6. QED
    BY <1>2, <1>3, <1>4, <1>5

(* A request that asks about a provider or tests it                         *)
AskingPlaces == {"idle"} \cup ProviderPlaces

LEMMA ProvidersMove ==
  ASSUME HandlersAreRecords, ProvidersNext
  PROVE  (\E h \in Handlers : Moves(h, AskingPlaces)) \/ UNCHANGED handler
  <1> USE DEF ProviderPlaces, TestPlaces
  <1>1. SUFFICES ASSUME handler' # handler PROVE \E h \in Handlers : Moves(h, AskingPlaces)
    OBVIOUS
  <1>2. PICK h \in Handlers :
          \/ \E c \in Configs :
               \/ \E complete \in BOOLEAN : CreateSocialProvider(h, c, complete)
               \/ UpdateSocialProvider(h, c) \/ DeleteSocialProvider(h, c) \/ TestProvider(h, c)
               \/ \E status \in {"ACTIVE", "INACTIVE"} : UpdateSocialProviderStatus(h, c, status)
               \/ NameProvider(h, NameOf[c])
          \/ \E t \in Tests : TestCallback(h, t) \/ RefusedCallback(h, t)
          \/ CommitUpdate(h) \/ CommitStatus(h) \/ CreateTest(h)
          \/ ConsumeTest(h) \/ ConsumeRefused(h) \/ RecordTest(h) \/ RecordTestFailure(h)
    BY <1>1 DEF ProvidersNext, TestExpires
  <1>3. ASSUME NEW x, DOMAIN x = Fields, Wait(h, x), x.at \in ProviderPlaces, x.user = None
        PROVE  Moves(h, AskingPlaces)
    BY <1>3, WaitMoves, HoldsNothing DEF AskingPlaces, Reached
  <1>4. ASSUME Finish(h) PROVE Moves(h, AskingPlaces)
    BY <1>4, FinishMoves DEF AskingPlaces
  <1>5. ASSUME NEW place \in ProviderPlaces, Goto(h, place), At(h, "passed") \/ At(h, "refused")
        PROVE  Moves(h, AskingPlaces)
    <2>1. handler'[h].at = place /\ handler'[h].user = handler[h].user /\ OthersStay(h)
      BY <1>5, Goes DEF Fields
    <2>2. QED
      BY <1>5, <2>1, HoldsNothing DEF Moves, AskingPlaces, Reached, Harmless, At
  <1>6. ASSUME NEW c \in Configs, UpdateSocialProvider(h, c) PROVE Moves(h, AskingPlaces)
    <2> DEFINE x == [Idle EXCEPT !.at = "update_provider", !.item = c,
                                 !.seen = IF configs[c].status = "ACTIVE" THEN 1 ELSE 0]
    <2>1. DOMAIN x = Fields /\ x.at \in ProviderPlaces /\ x.user = None
      BY DEF Idle, Fields
    <2>2. Wait(h, x)
      BY <1>6 DEF UpdateSocialProvider
    <2> HIDE DEF x
    <2>3. QED
      BY <1>3, <2>1, <2>2
  <1>7. ASSUME NEW c \in Configs, TestProvider(h, c) PROVE Moves(h, AskingPlaces)
    <2> DEFINE x == [Idle EXCEPT !.at = "test_provider", !.item = c]
    <2>1. DOMAIN x = Fields /\ x.at \in ProviderPlaces /\ x.user = None
      BY DEF Idle, Fields
    <2>2. Wait(h, x)
      BY <1>7 DEF TestProvider
    <2> HIDE DEF x
    <2>3. QED
      BY <1>3, <2>1, <2>2
  <1>8. ASSUME NEW c \in Configs, NEW status \in {"ACTIVE", "INACTIVE"}, UpdateSocialProviderStatus(h, c, status)
        PROVE  Moves(h, AskingPlaces)
    <2> DEFINE x == [Idle EXCEPT !.at = IF status = "ACTIVE" THEN "switch_on" ELSE "switch_off", !.item = c]
    <2>1. DOMAIN x = Fields /\ x.at \in ProviderPlaces /\ x.user = None
      BY DEF Idle, Fields
    <2>2. Wait(h, x)
      BY <1>8 DEF UpdateSocialProviderStatus
    <2> HIDE DEF x
    <2>3. QED
      BY <1>3, <2>1, <2>2
  <1>9. ASSUME NEW t \in Tests, TestCallback(h, t) PROVE Moves(h, AskingPlaces)
    <2> DEFINE c == ConfigOf(NameOf[tests[t].config])
    <2> DEFINE x == [Idle EXCEPT !.at = "passed", !.to = t, !.item = c,
                                 !.seen = IF c # None /\ CanTest(c) THEN 1 ELSE 0]
    <2>1. DOMAIN x = Fields /\ x.at \in ProviderPlaces /\ x.user = None
      BY DEF Idle, Fields
    <2>2. Wait(h, x)
      BY <1>9 DEF TestCallback
    <2> HIDE DEF x
    <2>3. QED
      BY <1>3, <2>1, <2>2
  <1>10. ASSUME NEW t \in Tests, RefusedCallback(h, t) PROVE Moves(h, AskingPlaces)
    <2> DEFINE x == [Idle EXCEPT !.at = "refused", !.to = t, !.item = tests[t].config]
    <2>1. DOMAIN x = Fields /\ x.at \in ProviderPlaces /\ x.user = None
      BY DEF Idle, Fields
    <2>2. Wait(h, x)
      BY <1>10 DEF RefusedCallback
    <2> HIDE DEF x
    <2>3. QED
      BY <1>3, <2>1, <2>2
  <1>11. CASE \/ CommitUpdate(h) \/ CommitStatus(h) \/ CreateTest(h) \/ RecordTest(h) \/ RecordTestFailure(h)
    <2>1. Finish(h)
      BY <1>11 DEF CommitUpdate, CommitStatus, CreateTest, RecordTest, RecordTestFailure, RecordOutcome
    <2>2. QED
      BY <1>4, <2>1
  <1>12. CASE ConsumeTest(h) \/ ConsumeRefused(h)
    <2>1. /\ Finish(h) \/ Goto(h, "record_success") \/ Goto(h, "record_failure")
          /\ At(h, "passed") \/ At(h, "refused")
      BY <1>12 DEF ConsumeTest, ConsumeRefused
    <2>2. QED
      BY <1>4, <1>5, <2>1
  <1>13. CASE \E c \in Configs :
               \/ \E complete \in BOOLEAN : CreateSocialProvider(h, c, complete)
               \/ DeleteSocialProvider(h, c) \/ NameProvider(h, NameOf[c])
    BY <1>1, <1>13 DEF CreateSocialProvider, DeleteSocialProvider, NameProvider
  <1>14. QED
    BY <1>2, <1>6, <1>7, <1>8, <1>9, <1>10, <1>11, <1>12, <1>13

LEMMA MatchIsVouched ==
  ASSUME SoundInv, NEW a \in Emails, UserOf(a) # None, HasVerified(UserOf(a), a)
  PROVE  Vouched(UserOf(a), a)
  <1> DEFINE u == UserOf(a)
  <1>1. u \in Users
    BY UserOfFinds DEF Addresses, Present
  <1>2. ChannelOf(a) = "email" /\ "email" \in Channels /\ a # None
    BY AccountsAssumption DEF ChannelOf, Channels
  <1>3. users[u].verified["email"] /\ users[u].address["email"] = a
    BY <1>2 DEF HasVerified
  <1> HIDE DEF u
  <1>4. <<u, a>> \in history.proved \/ <<u, "email">> \in history.overwritten
    BY <1>1, <1>2, <1>3 DEF SoundInv, VerifiedMeansProved
  <1>5. QED
    BY <1>4 DEF Vouched, u

LEMMA HoldsAProfile ==
  ASSUME NEW w, w.item \in Identities, w.to \in Emails \cup {None},
         w.at = "create" \/ (w.at = "match" /\ w.to # None)
  PROVE  Holds(w)
  BY DEF Holds, HoldsUser, HoldsAddress, HoldsItem, HoldsToken, UserPlaces, EmailPlaces, AddressPlaces,
     IdentityPlaces, RolePlaces, TokenPlaces

LEMMA HoldsAMatch ==
  ASSUME NEW w, w.item \in Identities, w.to \in Emails, Present(w.user), Vouched(w.user, w.to),
         w.at \in {"conflict", "autolink"}
  PROVE  Holds(w)
  BY DEF Holds, HoldsUser, HoldsAddress, HoldsItem, HoldsToken, UserPlaces, EmailPlaces, AddressPlaces,
     IdentityPlaces, RolePlaces, TokenPlaces

LEMMA IdentityRequestsMove ==
  ASSUME HandlersAreRecords, SoundInv, NEW h \in Handlers, NEW i \in Identities,
         \/ \E profile \in Profiles : SignInWithIdentity(h, i, profile)
         \/ \E u \in Users : LinkIdentityToExistingUser(h, u, i) \/ UnlinkIdentity(h, u, i)
         \/ HandleDeauthorizeCallback(h, i)
  PROVE  Moves(h, SigningPlaces)
  <1> USE DEF Fields, Reached
  <1>1. {"match", "create", "link", "count"} \subseteq SigningPlaces
    BY DEF SigningPlaces
  <1>2. ASSUME NEW profile \in Profiles, SignInWithIdentity(h, i, profile) PROVE Moves(h, SigningPlaces)
    <2> DEFINE place == IF profile.vouched /\ profile.to # None THEN "match" ELSE "create"
    <2> DEFINE x == [Idle EXCEPT !.at = place, !.to = profile.to, !.item = i,
                                 !.seen = IF profile.vouched THEN 1 ELSE 0]
    <2>1. DOMAIN x = Fields /\ x.at = place /\ x.user = None /\ x.to = profile.to /\ x.item = i
      BY DEF Idle
    <2>2. Wait(h, x)
      BY <1>2 DEF SignInWithIdentity
    <2>3. profile.to \in Emails \cup {None}
      BY DEF Profiles
    <2> HIDE DEF x
    <2>4. Holds(x) /\ x.at \in SigningPlaces
      BY <1>1, <2>1, <2>3, HoldsAProfile
    <2>5. QED
      BY <2>1, <2>2, <2>4, WaitMoves
  <1>3. ASSUME NEW u \in Users, LinkIdentityToExistingUser(h, u, i) PROVE Moves(h, SigningPlaces)
    <2> DEFINE x == [Idle EXCEPT !.at = "link", !.user = u, !.item = i]
    <2>1. DOMAIN x = Fields /\ x.at = "link" /\ x.user = u /\ x.item = i
      BY DEF Idle
    <2>2. Wait(h, x) /\ Present(u) /\ Reachable(u)
      BY <1>3, AuthenticatableIsPresent DEF LinkIdentityToExistingUser
    <2> HIDE DEF x
    <2>3. QED
      BY <1>1, <2>1, <2>2, HoldsAnIdentity, WaitMoves
  <1>4. ASSUME NEW u \in Users, UnlinkIdentity(h, u, i) PROVE Moves(h, SigningPlaces)
    <2> DEFINE x == [Idle EXCEPT !.at = "count", !.user = u, !.item = i]
    <2>1. DOMAIN x = Fields /\ x.at = "count" /\ x.user = u /\ x.item = i
      BY DEF Idle
    <2>2. Wait(h, x) /\ Present(u) /\ Reachable(u)
      BY <1>4, AuthenticatableIsPresent DEF UnlinkIdentity
    <2> HIDE DEF x
    <2>3. QED
      BY <1>1, <2>1, <2>2, HoldsAnIdentity, WaitMoves
  <1>5. ASSUME HandleDeauthorizeCallback(h, i) PROVE Moves(h, SigningPlaces)
    <2> DEFINE x == [Idle EXCEPT !.at = "count", !.user = owner[i], !.item = i]
    <2>1. DOMAIN x = Fields /\ x.at = "count" /\ x.user = owner[i] /\ x.item = i
      BY DEF Idle
    <2>2. Wait(h, x) /\ Present(owner[i]) /\ Reachable(owner[i])
      BY <1>5 DEF HandleDeauthorizeCallback, SoundInv, OwnersSound, Reachable, IdentitiesOf
    <2> HIDE DEF x
    <2>3. QED
      BY <1>1, <2>1, <2>2, HoldsAnIdentity, WaitMoves
  <1>6. QED
    BY <1>2, <1>3, <1>4, <1>5

LEMMA SetPasswordMoves ==
  ASSUME HandlersAreRecords, NEW h \in Handlers, NEW u \in Users, SetPassword(h, u)
  PROVE  Moves(h, SigningPlaces)
  <1> DEFINE x == [Idle EXCEPT !.at = "password", !.user = u]
  <1>1. DOMAIN x = Fields /\ x.at = "password" /\ x.user = u
    BY DEF Idle, Fields
  <1>2. Wait(h, x) /\ Present(u) /\ Reachable(u)
    BY AuthenticatableIsPresent DEF SetPassword
  <1> HIDE DEF x
  <1>3. "password" \in SigningPlaces
    BY DEF SigningPlaces
  <1>4. QED
    BY <1>1, <1>2, <1>3, HoldsOnlyUser, WaitMoves DEF Reached

LEMMA SignInStepsMove ==
  ASSUME HandlersAreRecords, SoundInv, NEW h \in Handlers, MatchEmail(h) \/ RefuseConflict(h)
  PROVE  Moves(h, SigningPlaces)
  <1>1. Holds(handler[h]) /\ {"idle", "create", "conflict", "autolink"} \subseteq SigningPlaces
    BY DEF SoundInv, RequestsHold, SigningPlaces
  <1>2. CASE MatchEmail(h)
    <2> DEFINE u == UserOf(handler[h].to)
    <2> DEFINE x == [handler[h] EXCEPT !.at = "conflict", !.user = u]
    <2> DEFINE y == [handler[h] EXCEPT !.at = "create"]
    <2>1. handler[h].to \in Emails /\ handler[h].item \in Identities
      BY <1>1, <1>2 DEF MatchEmail, At, Holds, HoldsAddress, HoldsItem, EmailPlaces, IdentityPlaces
    <2>2. /\ DOMAIN x = Fields /\ x.at = "conflict" /\ x.user = u
          /\ x.to = handler[h].to /\ x.item = handler[h].item
      BY DEF HandlersAreRecords, Fields
    <2>3. y.at = "create" /\ y.to = handler[h].to /\ y.item = handler[h].item
      BY GoneOn
    <2>4. \/ Wait(h, x) /\ u # None /\ HasVerified(u, handler[h].to)
          \/ Goto(h, "create")
      BY <1>2 DEF MatchEmail
    <2> HIDE DEF x, y
    <2>5. u # None /\ HasVerified(u, handler[h].to) => Holds(x) /\ Reached(h, x)
      <3>1. u # None /\ HasVerified(u, handler[h].to) => Holds(x)
        BY <2>1, <2>2, MatchIsVouched, UserOfFinds, HoldsAMatch DEF Addresses
      <3>2. Reached(h, x)
        BY <2>1, <2>2 DEF Reached, Reachable, Addresses
      <3>3. QED
        BY <3>1, <3>2
    <2>6. Holds(y)
      BY <2>1, <2>3, HoldsAProfile
    <2>7. Wait(h, x) /\ Holds(x) /\ Reached(h, x) => Moves(h, SigningPlaces)
      BY <1>1, <2>2, WaitMoves
    <2>8. Goto(h, "create") => Moves(h, SigningPlaces)
      BY <1>1, <1>2, <2>6, GotoMoves DEF y, MatchEmail, At, Harmless
    <2>9. QED
      BY <2>4, <2>5, <2>7, <2>8
  <1>3. CASE RefuseConflict(h)
    <2> DEFINE x == [handler[h] EXCEPT !.at = "autolink"]
    <2>1. x.at = "autolink" /\ x.user = handler[h].user /\ x.to = handler[h].to /\ x.item = handler[h].item
      BY GoneOn
    <2>2. Goto(h, "autolink") \/ Finish(h)
      BY <1>3 DEF RefuseConflict
    <2> HIDE DEF x
    <2>3. Holds(x)
      BY <1>1, <1>3, <2>1, HoldsAMatch DEF RefuseConflict, At, Holds, HoldsUser, HoldsAddress, HoldsItem,
         EmailPlaces, IdentityPlaces, UserPlaces
    <2>4. QED
      BY <1>1, <1>3, <2>2, <2>3, GotoMoves, FinishMoves DEF x, RefuseConflict, At, Harmless
  <1>4. QED
    BY <1>2, <1>3

LEMMA CreateFromProfileMoves ==
  ASSUME HandlersAreRecords, SoundInv, NEW h \in Handlers, CreateFromProfile(h)
  PROVE  Moves(h, SigningPlaces)
  <1> DEFINE a == handler[h].to
  <1>1. {"idle", "link"} \subseteq SigningPlaces
    BY DEF SigningPlaces
  <1>2. a \in Emails \cup {None} /\ handler[h].item \in Identities
    BY DEF CreateFromProfile, At, SoundInv, RequestsHold, Holds, HoldsAddress, HoldsItem, IdentityPlaces
  <1>3. ASSUME NEW u \in Users, NEW marked \in BOOLEAN,
               Create(u, [NoUser EXCEPT !.status = "ACTIVE", !.address["email"] = a, !.verified["email"] = marked]),
               Wait(h, [handler[h] EXCEPT !.at = "link", !.user = u])
        PROVE  Moves(h, SigningPlaces)
    <2> DEFINE x == [handler[h] EXCEPT !.at = "link", !.user = u]
    <2> DEFINE row == [NoUser EXCEPT !.status = "ACTIVE", !.address["email"] = a, !.verified["email"] = marked]
    <2>1. DOMAIN x = Fields /\ x.at = "link" /\ x.user = u /\ x.item = handler[h].item
      BY DEF HandlersAreRecords, Fields
    <2>2. row \in UserRow /\ row.status = "ACTIVE"
      BY <1>2, NewRows
    <2>3. Wait(h, x) /\ Create(u, row)
      BY <1>3
    <2> HIDE DEF x, row, a
    <2>4. Present(u)'
      BY <2>2, <2>3, CreatedIsPresent
    <2>5. handler'[h] = x
      BY <2>1, <2>3, Waits
    <2>6. Holds(handler[h])'
      BY <1>2, <2>1, <2>4, <2>5, HoldsLater
    <2>7. Reached(h, x)
      BY <2>1, <2>3 DEF Create, Reached, Reachable
    <2>8. QED
      BY <1>1, <2>1, <2>3, <2>6, <2>7, WaitMovesLater
  <1>4. Finish(h) => Moves(h, SigningPlaces)
    BY <1>1, FinishMoves
  <1>5. QED
    BY <1>3, <1>4 DEF CreateFromProfile

LEMMA IdentitiesMove ==
  ASSUME HandlersAreRecords, SoundInv, IdentitiesNext
  PROVE  \E h \in Handlers : Moves(h, SigningPlaces) \/ (CountIdentities(h) /\ Moves(h, {"idle", "unlink"}))
  <1>1. PICK h \in Handlers :
       \/ \E i \in Identities :
            \/ \E profile \in Profiles : SignInWithIdentity(h, i, profile)
            \/ \E u \in Users : LinkIdentityToExistingUser(h, u, i) \/ UnlinkIdentity(h, u, i)
            \/ HandleDeauthorizeCallback(h, i)
       \/ \E i \in Identities : UnlinkOAuthAccount(h, i)
       \/ \E u \in Users : SetPassword(h, u)
       \/ MatchEmail(h) \/ RefuseConflict(h) \/ CreateFromProfile(h)
       \/ LinkIdentity(h) \/ AutoLinkIdentity(h)
       \/ CountIdentities(h) \/ DeleteIdentity(h) \/ WritePassword(h)
    BY DEF IdentitiesNext
  <1>2. Holds(handler[h]) /\ "idle" \in SigningPlaces
    BY DEF SoundInv, RequestsHold, SigningPlaces
  <1>3. CASE \E i \in Identities : UnlinkOAuthAccount(h, i)
    BY <1>3, StayMoves DEF UnlinkOAuthAccount
  <1>4. CASE LinkIdentity(h) \/ AutoLinkIdentity(h) \/ DeleteIdentity(h) \/ WritePassword(h)
    <2>1. Finish(h)
      BY <1>4 DEF LinkIdentity, AutoLinkIdentity, CreateLink, DeleteIdentity, WritePassword
    <2>2. QED
      BY <1>2, <2>1, FinishMoves
  <1>5. CASE CountIdentities(h)
    <2> DEFINE x == [handler[h] EXCEPT !.at = "unlink"]
    <2>1. x.at = "unlink" /\ x.user = handler[h].user /\ x.item = handler[h].item
      BY GoneOn
    <2>2. At(h, "count") /\ (Goto(h, "unlink") \/ Finish(h))
      BY <1>5 DEF CountIdentities
    <2> HIDE DEF x
    <2>3. Holds(x)
      BY <1>2, <2>1, <2>2, HoldsAnIdentity DEF At, Holds, HoldsUser, HoldsItem, IdentityPlaces, UserPlaces
    <2>4. Moves(h, {"idle", "unlink"})
      BY <2>2, <2>3, GotoMoves, FinishMoves DEF x, At, Harmless
    <2>5. QED
      BY <1>5, <2>4
  <1>6. CASE \E i \in Identities :
               \/ \E profile \in Profiles : SignInWithIdentity(h, i, profile)
               \/ \E u \in Users : LinkIdentityToExistingUser(h, u, i) \/ UnlinkIdentity(h, u, i)
               \/ HandleDeauthorizeCallback(h, i)
    BY <1>6, IdentityRequestsMove
  <1>7. CASE \E u \in Users : SetPassword(h, u)
    BY <1>7, SetPasswordMoves
  <1>8. CASE MatchEmail(h) \/ RefuseConflict(h)
    BY <1>8, SignInStepsMove
  <1>9. CASE CreateFromProfile(h)
    BY <1>9, CreateFromProfileMoves
  <1>10. QED
    BY <1>1, <1>3, <1>4, <1>5, <1>6, <1>7, <1>8, <1>9

LEMMA LinkingMoves ==
  ASSUME HandlersAreRecords, SoundInv, LinkingNext
  PROVE  \E h \in Handlers : Moves(h, LinkPlaces)
  <1>1. PICK h \in Handlers : (\E u \in Users, i \in Identities : StartLink(h, u, i)) \/ LinkIdentityToUser(h)
    BY DEF LinkingNext
  <1>2. Holds(handler[h]) /\ {"idle", "link", "at_provider"} \subseteq LinkPlaces
    BY DEF SoundInv, RequestsHold, LinkPlaces
  <1>3. ASSUME NEW u \in Users, NEW i \in Identities, StartLink(h, u, i) PROVE Moves(h, LinkPlaces)
    <2> DEFINE x == [Idle EXCEPT !.at = "at_provider", !.user = u, !.item = i]
    <2>1. DOMAIN x = Fields /\ x.at = "at_provider" /\ x.user = u /\ x.item = i
      BY DEF Idle, Fields
    <2>2. (Wait(h, x) \/ UNCHANGED handler) /\ Present(u) /\ Reachable(u)
      BY <1>3, AuthenticatableIsPresent DEF StartLink
    <2> HIDE DEF x
    <2>3. QED
      BY <1>2, <2>1, <2>2, HoldsAnIdentity, WaitMoves, StayMoves DEF Reached
  <1>4. CASE LinkIdentityToUser(h)
    <2> DEFINE x == [handler[h] EXCEPT !.at = "link"]
    <2>1. x.at = "link" /\ x.user = handler[h].user /\ x.item = handler[h].item
      BY GoneOn
    <2>2. At(h, "at_provider") /\ (Goto(h, "link") \/ Finish(h))
      BY <1>4 DEF LinkIdentityToUser
    <2> HIDE DEF x
    <2>3. Holds(x)
      BY <1>2, <2>1, <2>2, HoldsAnIdentity DEF At, Holds, HoldsUser, HoldsItem, IdentityPlaces, UserPlaces
    <2>4. QED
      BY <1>2, <2>2, <2>3, GotoMoves, FinishMoves DEF x, At, Harmless
  <1>5. QED
    BY <1>1, <1>3, <1>4

LEMMA HoldsAnInvitation ==
  ASSUME NEW w, w.to \in Emails, w.at = "invited" \/ (w.at = "account" /\ (w.user = None \/ Present(w.user)))
  PROVE  Holds(w)
  BY DEF Holds, HoldsUser, HoldsAddress, HoldsItem, HoldsToken, UserPlaces, EmailPlaces, AddressPlaces,
     IdentityPlaces, RolePlaces, TokenPlaces

(* Requests of administrators as they come in                               *)
LEMMA AdminRequestsMove ==
  ASSUME HandlersAreRecords, SoundInv, NEW h \in Handlers,
         \/ \E u \in Users, s \in Statuses : CloseUser(h, u, s)
         \/ \E u \in Users, r \in Roles :
              \/ RemoveRoleFromUser(h, u, r)
              \/ \E actor \in Users : AssignExistingUserAdmin(h, actor, u, r)
         \/ \E r \in Roles : DeleteRole(h, r) \/ RemovePermissionFromRole(h, r)
         \/ \E i \in Invitations :
              AcceptAdminInvitation(h, i) \/ \E place \in {"resend", "revoke"} : TakeInvitation(h, i, place)
  PROVE  Moves(h, AdminPlaces)
  <1> USE DEF Fields, Reached
  <1>1. {"SUSPENDED", "DELETED", "remove", "reassign", "delete", "ungrant", "invited", "resend", "revoke"}
          \subseteq AdminPlaces
    BY DEF AdminPlaces, RolePlaces, InvitePlaces
  <1>2. {"remove", "reassign", "delete", "ungrant"} \subseteq RolePlaces
    BY DEF RolePlaces
  <1>3. ASSUME NEW u \in Users, NEW s \in Statuses, CloseUser(h, u, s) PROVE Moves(h, AdminPlaces)
    <2> DEFINE x == [Idle EXCEPT !.at = s, !.user = u]
    <2>1. DOMAIN x = Fields /\ x.at = s /\ x.user = u
      BY DEF Idle
    <2>2. Wait(h, x) /\ Present(u) /\ s \in {"SUSPENDED", "DELETED"}
      BY <1>3 DEF CloseUser, Present
    <2> HIDE DEF x
    <2>3. QED
      BY <1>1, <2>1, <2>2, HoldsOnlyUser, WaitMoves DEF Harmless
  <1>4. ASSUME NEW u \in Users, NEW r \in Roles, RemoveRoleFromUser(h, u, r) PROVE Moves(h, AdminPlaces)
    <2> DEFINE x == [Idle EXCEPT !.at = "remove", !.user = u, !.item = r]
    <2>1. DOMAIN x = Fields /\ x.at = "remove" /\ x.user = u /\ x.item = r
      BY DEF Idle
    <2>2. Wait(h, x)
      BY <1>4 DEF RemoveRoleFromUser
    <2> HIDE DEF x
    <2>3. QED
      BY <1>1, <1>2, <2>1, <2>2, HoldsARole, WaitMoves DEF Harmless
  <1>5. ASSUME NEW u \in Users, NEW r \in Roles, NEW actor \in Users, AssignExistingUserAdmin(h, actor, u, r)
        PROVE  Moves(h, AdminPlaces)
    <2> DEFINE x == [Idle EXCEPT !.at = "reassign", !.user = u, !.item = r]
    <2>1. DOMAIN x = Fields /\ x.at = "reassign" /\ x.user = u /\ x.item = r
      BY DEF Idle
    <2>2. Wait(h, x)
      BY <1>5 DEF AssignExistingUserAdmin
    <2> HIDE DEF x
    <2>3. QED
      BY <1>1, <1>2, <2>1, <2>2, HoldsARole, WaitMoves DEF Harmless
  <1>6. ASSUME NEW r \in Roles, DeleteRole(h, r) \/ RemovePermissionFromRole(h, r) PROVE Moves(h, AdminPlaces)
    <2>1. PICK place \in {"delete", "ungrant"} : Wait(h, [Idle EXCEPT !.at = place, !.item = r])
      BY <1>6 DEF DeleteRole, RemovePermissionFromRole
    <2> DEFINE x == [Idle EXCEPT !.at = place, !.item = r]
    <2>2. DOMAIN x = Fields /\ x.at = place /\ x.user = None /\ x.item = r
      BY DEF Idle
    <2> HIDE DEF x
    <2>3. Holds(x) /\ x.at \in AdminPlaces
      BY <1>1, <1>2, <2>2, HoldsARole
    <2>4. QED
      BY <2>1, <2>2, <2>3, WaitMoves DEF x
  <1>7. ASSUME NEW i \in Invitations, AcceptAdminInvitation(h, i) PROVE Moves(h, AdminPlaces)
    <2> DEFINE x == [Idle EXCEPT !.at = "invited", !.item = i, !.to = invitation[i].to,
                                 !.seen = IF Exists(invitation[i].role) THEN 1 ELSE 0]
    <2>1. DOMAIN x = Fields /\ x.at = "invited" /\ x.user = None /\ x.to = invitation[i].to
      BY DEF Idle
    <2>2. Wait(h, x) /\ invitation[i].to \in Emails
      BY <1>7 DEF AcceptAdminInvitation, SoundInv, InvitationsSound
    <2> HIDE DEF x
    <2>3. QED
      BY <1>1, <2>1, <2>2, HoldsAnInvitation, WaitMoves
  <1>8. ASSUME NEW i \in Invitations, NEW place \in {"resend", "revoke"}, TakeInvitation(h, i, place)
        PROVE  Moves(h, AdminPlaces)
    <2> DEFINE x == [Idle EXCEPT !.at = place, !.item = i]
    <2>1. DOMAIN x = Fields /\ x.at = place /\ x.user = None
      BY DEF Idle
    <2>2. Wait(h, x)
      BY <1>8 DEF TakeInvitation
    <2> HIDE DEF x
    <2>3. QED
      BY <1>1, <2>1, <2>2, HoldsNothing, WaitMoves
  <1>9. QED
    BY <1>3, <1>4, <1>5, <1>6, <1>7, <1>8

(* The account of an invited administrator                                  *)
LEMMA InvitedMoves ==
  ASSUME HandlersAreRecords, SoundInv, NEW h \in Handlers, FindInvited(h) \/ WriteInvited(h)
  PROVE  Moves(h, AdminPlaces)
  <1>1. Holds(handler[h]) /\ {"idle", "account", "enrol"} \subseteq AdminPlaces
    BY DEF SoundInv, RequestsHold, AdminPlaces, InvitePlaces
  <1>2. handler[h].to \in Emails
    BY <1>1 DEF FindInvited, WriteInvited, At, Holds, HoldsAddress, EmailPlaces
  <1>3. CASE FindInvited(h)
    <2> DEFINE u == UserOf(handler[h].to)
    <2> DEFINE x == [handler[h] EXCEPT !.at = "account", !.user = u]
    <2>1. DOMAIN x = Fields /\ x.at = "account" /\ x.user = u /\ x.to = handler[h].to
      BY DEF HandlersAreRecords, Fields
    <2>2. Wait(h, x)
      BY <1>3 DEF FindInvited
    <2>3. u = None \/ (Present(u) /\ Reachable(u))
      BY <1>2, UserOfFinds DEF Addresses, Reachable
    <2> HIDE DEF x, u
    <2>4. QED
      BY <1>1, <1>2, <2>1, <2>2, <2>3, HoldsAnInvitation, WaitMoves DEF Reached
  <1>4. ASSUME Goto(h, "enrol"), At(h, "account"), handler[h].user # None PROVE Moves(h, AdminPlaces)
    <2> DEFINE x == [handler[h] EXCEPT !.at = "enrol"]
    <2>1. x.at = "enrol" /\ x.user = handler[h].user
      BY GoneOn
    <2> HIDE DEF x
    <2>2. Present(handler[h].user)
      BY <1>1, <1>4 DEF At, Holds, HoldsUser
    <2>3. QED
      BY <1>1, <1>4, <2>1, <2>2, HoldsOnlyUser, GotoMoves DEF x, At, Harmless
  <1>5. ASSUME NEW v \in Users,
               Create(v, [NoUser EXCEPT !.status = "ACTIVE", !.password = TRUE,
                                        !.address["email"] = handler[h].to, !.verified["email"] = TRUE]),
               Wait(h, [handler[h] EXCEPT !.at = "enrol", !.user = v])
        PROVE  Moves(h, AdminPlaces)
    <2> DEFINE x == [handler[h] EXCEPT !.at = "enrol", !.user = v]
    <2> DEFINE row == [NoUser EXCEPT !.status = "ACTIVE", !.password = TRUE,
                                     !.address["email"] = handler[h].to, !.verified["email"] = TRUE]
    <2>1. DOMAIN x = Fields /\ x.at = "enrol" /\ x.user = v
      BY DEF HandlersAreRecords, Fields
    <2>2. row \in UserRow /\ row.status = "ACTIVE"
      BY <1>2, NewRows
    <2>3. Wait(h, x) /\ Create(v, row)
      BY <1>5
    <2> HIDE DEF x, row
    <2>4. Present(v)'
      BY <2>2, <2>3, CreatedIsPresent
    <2>5. handler'[h] = x
      BY <2>1, <2>3, Waits
    <2>6. Holds(handler[h])'
      BY <2>1, <2>4, <2>5, HoldsLater
    <2>7. Reached(h, x)
      BY <2>1, <2>3 DEF Create, Reached, Reachable
    <2>8. QED
      BY <1>1, <2>1, <2>3, <2>6, <2>7, WaitMovesLater
  <1>6. Finish(h) => Moves(h, AdminPlaces)
    BY <1>1, FinishMoves
  <1>7. QED
    BY <1>3, <1>4, <1>5, <1>6 DEF WriteInvited

LEMMA AdminsMove ==
  ASSUME HandlersAreRecords, SoundInv, AdminNext
  PROVE  (\E h \in Handlers : Moves(h, AdminPlaces)) \/ UNCHANGED handler
  <1>1. SUFFICES ASSUME ~ UNCHANGED handler PROVE \E h \in Handlers : Moves(h, AdminPlaces)
    OBVIOUS
  <1>2. PICK h \in Handlers :
       \/ \E u \in Users, s \in Statuses : CloseUser(h, u, s) \/ ReopenUser(h, u, s)
       \/ \E u \in Users, r \in Roles :
            \/ AssignRoleToUser(h, u, r) \/ RemoveRoleFromUser(h, u, r)
            \/ \E actor \in Users : AssignExistingUserAdmin(h, actor, u, r)
       \/ \E r \in Roles, granted \in SUBSET Permissions :
            CreateRole(h, r, granted) \/ \E patch \in BOOLEAN : ReplacePermissions(h, r, granted, patch)
       \/ \E r \in Roles : DeleteRole(h, r) \/ RemovePermissionFromRole(h, r)
       \/ \E r \in Roles, super \in BOOLEAN : RenameRole(h, r, super)
       \/ \E r \in Roles, p \in Permissions : AddPermission(h, r, p)
       \/ \E i \in Invitations :
            \/ \E a \in Emails, r \in Roles : CreateAdminInvitation(h, i, a, r)
            \/ \E place \in {"resend", "revoke"} : TakeInvitation(h, i, place)
            \/ AcceptAdminInvitation(h, i)
       \/ WriteStatus(h) \/ DeleteUserRole(h) \/ DeleteSystemRoles(h) \/ GrantRole(h)
       \/ (\E p \in Permissions : DeletePermission(h, p)) \/ CommitDeleteRole(h)
       \/ ResendInvitation(h) \/ RevokeInvitation(h) \/ FindInvited(h) \/ WriteInvited(h)
       \/ EnrolInvited(h) \/ MarkAccepted(h)
    BY <1>1 DEF AdminNext, Statuses, InvitationExpires
  <1>3. Holds(handler[h]) /\ {"idle", "regrant", "accepted"} \subseteq AdminPlaces
    BY DEF SoundInv, RequestsHold, AdminPlaces, RolePlaces, InvitePlaces
  <1>4. ASSUME NEW u \in Users, NEW s \in Statuses, ReopenUser(h, u, s) PROVE FALSE
    BY <1>1, <1>4 DEF ReopenUser
  <1>5. ASSUME NEW u \in Users, NEW r \in Roles, AssignRoleToUser(h, u, r) PROVE FALSE
    BY <1>1, <1>5 DEF AssignRoleToUser
  <1>6. ASSUME NEW r \in Roles, NEW granted \in SUBSET Permissions, NEW patch \in BOOLEAN,
               CreateRole(h, r, granted) \/ ReplacePermissions(h, r, granted, patch)
        PROVE  FALSE
    BY <1>1, <1>6 DEF CreateRole, ReplacePermissions
  <1>7. ASSUME NEW r \in Roles, NEW super \in BOOLEAN, RenameRole(h, r, super) PROVE FALSE
    BY <1>1, <1>7 DEF RenameRole
  <1>8. ASSUME NEW r \in Roles, NEW p \in Permissions, AddPermission(h, r, p) PROVE FALSE
    BY <1>1, <1>8 DEF AddPermission
  <1>9. ASSUME NEW i \in Invitations, NEW a \in Emails, NEW r \in Roles, CreateAdminInvitation(h, i, a, r)
        PROVE  FALSE
    BY <1>1, <1>9 DEF CreateAdminInvitation
  <1>10. CASE \/ WriteStatus(h) \/ DeleteUserRole(h) \/ GrantRole(h) \/ CommitDeleteRole(h)
              \/ ResendInvitation(h) \/ RevokeInvitation(h) \/ MarkAccepted(h)
              \/ \E p \in Permissions : DeletePermission(h, p)
    <2>1. Finish(h)
      BY <1>10 DEF WriteStatus, DeleteUserRole, GrantRole, CommitDeleteRole, ResendInvitation, RevokeInvitation,
         MarkAccepted, DeletePermission
    <2>2. QED
      BY <1>3, <2>1, FinishMoves
  <1>11. CASE DeleteSystemRoles(h)
    <2> DEFINE x == [handler[h] EXCEPT !.at = "regrant"]
    <2>1. x.at = "regrant" /\ x.item = handler[h].item /\ x.user = handler[h].user
      BY GoneOn
    <2>2. At(h, "reassign") /\ Goto(h, "regrant")
      BY <1>11 DEF DeleteSystemRoles
    <2> HIDE DEF x
    <2>3. Holds(x)
      BY <1>3, <2>1, <2>2, HoldsARole DEF At, Holds, HoldsUser, HoldsItem, RolePlaces
    <2>4. QED
      BY <1>3, <2>2, <2>3, GotoMoves DEF x, Harmless
  <1>12. CASE EnrolInvited(h)
    <2> DEFINE x == [handler[h] EXCEPT !.at = "accepted"]
    <2>1. x.at = "accepted" /\ x.user = handler[h].user
      BY GoneOn
    <2>2. At(h, "enrol") /\ (Goto(h, "accepted") \/ Finish(h))
      BY <1>12 DEF EnrolInvited
    <2> HIDE DEF x
    <2>3. Holds(x)
      BY <1>3, <2>1, <2>2, HoldsOnlyUser DEF At, Holds, HoldsUser, UserPlaces
    <2>4. QED
      BY <1>3, <2>2, <2>3, GotoMoves, FinishMoves DEF x, At, Harmless
  <1>13. CASE FindInvited(h) \/ WriteInvited(h)
    BY <1>13, InvitedMoves
  <1>14. CASE \/ \E u \in Users, s \in Statuses : CloseUser(h, u, s)
              \/ \E u \in Users, r \in Roles :
                   \/ RemoveRoleFromUser(h, u, r)
                   \/ \E actor \in Users : AssignExistingUserAdmin(h, actor, u, r)
              \/ \E r \in Roles : DeleteRole(h, r) \/ RemovePermissionFromRole(h, r)
              \/ \E i \in Invitations :
                   AcceptAdminInvitation(h, i) \/ \E place \in {"resend", "revoke"} : TakeInvitation(h, i, place)
    BY <1>14, AdminRequestsMove
  <1>15. QED
    BY <1>2, <1>4, <1>5, <1>6, <1>7, <1>8, <1>9, <1>10, <1>11, <1>12, <1>13, <1>14

LEMMA ErasuresMove ==
  ASSUME HandlersAreRecords, SoundInv, NEW h \in Handlers,
         (\E u \in Users : EraseAccount(h, u)) \/ EraseLinks(h) \/ EraseRow(h) \/ Die(h)
  PROVE  Moves(h, ErasePlaces)
  <1>1. Holds(handler[h]) /\ {"idle", "erase", "anonymize"} \subseteq ErasePlaces
    BY DEF SoundInv, RequestsHold, ErasePlaces
  <1>2. ASSUME NEW u \in Users, EraseAccount(h, u) PROVE Moves(h, ErasePlaces)
    <2> DEFINE x == [Idle EXCEPT !.at = "erase", !.user = u]
    <2>1. DOMAIN x = Fields /\ x.at = "erase" /\ x.user = u
      BY DEF Idle, Fields
    <2>2. Wait(h, x) /\ Present(u)
      BY <1>2 DEF EraseAccount, Present
    <2> HIDE DEF x
    <2>3. QED
      BY <1>1, <2>1, <2>2, HoldsOnlyUser, WaitMoves DEF Reached, Harmless
  <1>3. CASE EraseLinks(h)
    <2> DEFINE x == [handler[h] EXCEPT !.at = "anonymize", !.seen = Len(tokens)]
    <2>1. DOMAIN x = Fields /\ x.at = "anonymize" /\ x.user = handler[h].user /\ x.seen = Len(tokens)
      BY DEF HandlersAreRecords, Fields
    <2>2. At(h, "erase") /\ Wait(h, x)
      BY <1>3 DEF EraseLinks
    <2> HIDE DEF x
    <2>3. Present(x.user)
      BY <1>1, <2>1, <2>2 DEF At, Holds, HoldsUser, UserPlaces
    <2>4. x.seen \in Nat /\ x.seen <= Len(tokens)
      BY <2>1 DEF SoundInv, TokensSound
    <2>5. Holds(x)
      BY <2>1, <2>3, <2>4 DEF Holds, HoldsUser, HoldsAddress, HoldsItem, HoldsToken, UserPlaces, EmailPlaces,
         AddressPlaces, IdentityPlaces, RolePlaces, TokenPlaces
    <2>6. QED
      BY <1>1, <2>1, <2>2, <2>5, WaitMoves DEF Reached, Harmless
  <1>4. CASE EraseRow(h) \/ Die(h)
    <2>1. Finish(h)
      BY <1>4 DEF EraseRow, Die, Crash
    <2>2. QED
      BY <1>1, <2>1, FinishMoves
  <1>5. QED
    BY <1>2, <1>3, <1>4

----------------------------------------------------------------------------
(* What steps do to the rows *)

Touched(u) == \E h \in Handlers : handler[h].user = u /\ handler[h].at \notin Harmless

(* What is left of an account                                               *)
Gone(row) == \E s \in {"SUSPENDED", "DELETED"} : row = [ErasedUser EXCEPT !.status = s]

PasswordsStay == \A u \in Users : users[u].password => users'[u].password \/ u \in history'.stripped

RowsFade ==
  \A u \in Users : Gone(users[u]) => Gone(users'[u]) \/ u \in history'.revived \/ Touched(u)

RowsKept == RowsSound' /\ HistoryGrows /\ UsersStay /\ VerifiedMeansProved' /\ PasswordsStay /\ RowsFade

LEMMA SameRowsKept ==
  ASSUME RowsSound, VerifiedMeansProved, SameRows
  PROVE  RowsKept
  BY DEF SameRows, RowsKept, RowsSound, HistoryGrows, UsersStay, Present, VerifiedMeansProved, PasswordsStay, RowsFade

LEMMA OnlyHistoryGrows ==
  ASSUME RowsSound, VerifiedMeansProved, UNCHANGED users, history' \in History, HistoryGrows
  PROVE  RowsKept
  BY DEF RowsKept, RowsSound, HistoryGrows, UsersStay, Present, VerifiedMeansProved, PasswordsStay, RowsFade

LEMMA OneRowKept ==
  ASSUME RowsSound, VerifiedMeansProved, NEW u \in Users, NEW row \in UserRow, row.status # "none",
         users' = [users EXCEPT ![u] = row], history' \in History, HistoryGrows,
         \A c \in Channels : row.verified[c] /\ row.address[c] # None =>
           <<u, row.address[c]>> \in history'.proved \/ <<u, c>> \in history'.overwritten,
         users[u].password => row.password \/ u \in history'.stripped,
         Gone(users[u]) => Gone(row) \/ u \in history'.revived \/ Touched(u)
  PROVE  RowsKept
  <1>1. users'[u] = row /\ \A v \in Users \ {u} : users'[v] = users[v]
    BY DEF RowsSound
  <1>2. RowsSound'
    BY <1>1 DEF RowsSound
  <1>3. UsersStay
    BY <1>1 DEF UsersStay, Present
  <1>4. VerifiedMeansProved'
    BY <1>1 DEF VerifiedMeansProved, HistoryGrows
  <1>5. PasswordsStay
    BY <1>1 DEF PasswordsStay
  <1>6. RowsFade
    BY <1>1 DEF RowsFade
  <1>7. QED
    BY <1>2, <1>3, <1>4, <1>5, <1>6 DEF RowsKept

LEMMA HistoryStays ==
  ASSUME RowsSound, UNCHANGED history
  PROVE  history' \in History /\ HistoryGrows
  BY DEF RowsSound, HistoryGrows

LEMMA Proves ==
  ASSUME RowsSound, NEW u \in Users, NEW a \in Addresses, Prove(u, a)
  PROVE  history' \in History /\ HistoryGrows /\ <<u, a>> \in history'.proved
  BY DEF RowsSound, HistoryGrows, History, Prove

LEMMA Overwrites ==
  ASSUME RowsSound, NEW u \in Users, NEW c \in Channels,
         history' = [history EXCEPT !.overwritten = @ \cup {<<u, c>>}]
  PROVE  history' \in History /\ HistoryGrows /\ <<u, c>> \in history'.overwritten
  BY DEF RowsSound, HistoryGrows, History

LEMMA Strips ==
  ASSUME RowsSound, NEW us \in SUBSET Users, Strip(us)
  PROVE  history' \in History /\ HistoryGrows /\ us \subseteq history'.stripped
  BY DEF RowsSound, HistoryGrows, History, Strip

LEMMA Revives ==
  ASSUME RowsSound, NEW u \in Users, history' = [history EXCEPT !.revived = @ \cup {u}]
  PROVE  history' \in History /\ HistoryGrows /\ u \in history'.revived
  BY DEF RowsSound, HistoryGrows, History

(* Parts of a row are written.                                              *)
LEMMA StatusWritten ==
  ASSUME NEW row \in UserRow, NEW s \in Statuses, NEW x, x = [row EXCEPT !.status = s]
  PROVE  /\ x \in UserRow /\ x.address = row.address /\ x.verified = row.verified
         /\ x.status = s /\ x.password = row.password
  BY DEF UserRow

LEMMA PasswordWritten ==
  ASSUME NEW row \in UserRow, NEW x, x = [row EXCEPT !.password = TRUE]
  PROVE  /\ x \in UserRow /\ x.address = row.address /\ x.verified = row.verified
         /\ x.status = row.status /\ x.password
  BY DEF UserRow

LEMMA ErasedUserIsARow ==
  /\ ErasedUser \in UserRow /\ ErasedUser.status = "DELETED" /\ ~ErasedUser.password
  /\ \A c \in Channels : ~ErasedUser.verified[c]
  /\ Gone(ErasedUser)
  <1>1. NoUser \in UserRow /\ ~NoUser.password /\ \A c \in Channels : ~NoUser.verified[c]
    BY DEF NoUser, UserRow
  <1>2. /\ ErasedUser \in UserRow /\ ErasedUser.status = "DELETED" /\ ErasedUser.password = NoUser.password
        /\ ErasedUser.verified = NoUser.verified
    BY <1>1, StatusWritten DEF ErasedUser, Statuses
  <1>3. ErasedUser = [ErasedUser EXCEPT !.status = "DELETED"]
    BY <1>2 DEF UserRow
  <1>4. QED
    BY <1>1, <1>2, <1>3 DEF Gone

LEMMA GoneStaysGone ==
  ASSUME NEW row, Gone(row), NEW s \in {"SUSPENDED", "DELETED"}
  PROVE  Gone([row EXCEPT !.status = s])
  BY ErasedUserIsARow DEF Gone, UserRow

LEMMA AddressWriteKeepsRows ==
  ASSUME RowsSound, VerifiedMeansProved, NEW u \in Users, Present(u), NEW a \in Addresses, WriteAddress(u, a),
         Touched(u) \/ Authenticatable(u)
  PROVE  RowsKept
  <1>0. PICK c \in Channels : c = ChannelOf(a)
    BY DEF ChannelOf, Channels
  <1> DEFINE row == [users[u] EXCEPT !.address[c] = a]
  <1>1. c \in Channels /\ users[u] \in UserRow
    BY DEF RowsSound
  <1>2. /\ row \in UserRow /\ row.address = [users[u].address EXCEPT ![c] = a]
        /\ row.verified = users[u].verified /\ row.status = users[u].status /\ row.password = users[u].password
    BY <1>1 DEF UserRow
  <1>3. users' = [users EXCEPT ![u] = row]
    BY <1>0 DEF WriteAddress
  <1>4. IF users[u].verified[c] /\ users[u].address[c] # a
        THEN history' = [history EXCEPT !.overwritten = @ \cup {<<u, c>>}] ELSE UNCHANGED history
    BY <1>0 DEF WriteAddress
  <1>5. /\ history' \in History /\ HistoryGrows
        /\ users[u].verified[c] /\ users[u].address[c] # a => <<u, c>> \in history'.overwritten
    BY <1>1, <1>4, Overwrites, HistoryStays
  <1> HIDE DEF row
  <1>6. ASSUME NEW d \in Channels, row.verified[d], row.address[d] # None
        PROVE  <<u, row.address[d]>> \in history'.proved \/ <<u, d>> \in history'.overwritten
    <2>1. users[u].verified[d] /\ row.address[d] = IF d = c THEN a ELSE users[u].address[d]
      BY <1>1, <1>2, <1>6 DEF UserRow
    <2>2. a # None
      BY AccountsAssumption DEF Addresses
    <2>3. users[u].address[d] # None =>
            <<u, users[u].address[d]>> \in history.proved \/ <<u, d>> \in history.overwritten
      BY <2>1 DEF VerifiedMeansProved
    <2>4. QED
      BY <1>5, <1>6, <2>1, <2>2, <2>3 DEF HistoryGrows
  <1>7. row.status # "none"
    BY <1>2 DEF Present
  <1>8. Gone(users[u]) => Touched(u)
    BY ErasedUserIsARow DEF Gone, Authenticatable, UserRow
  <1>9. QED
    BY <1>2, <1>3, <1>5, <1>6, <1>7, <1>8, OneRowKept

LEMMA CreationKeepsRows ==
  ASSUME RowsSound, VerifiedMeansProved, NEW u \in Users, NEW row \in UserRow, row.status # "none", Create(u, row),
         history' \in History, HistoryGrows,
         \A c \in Channels : row.verified[c] /\ row.address[c] # None => <<u, row.address[c]>> \in history'.proved
  PROVE  RowsKept
  <1>1. users' = [users EXCEPT ![u] = row] /\ users[u] = NoUser
    BY DEF Create, RowsSound
  <1>2. ~users[u].password /\ users[u].status = "none"
    BY <1>1 DEF NoUser
  <1>3. ~Gone(users[u])
    BY <1>2, ErasedUserIsARow DEF Gone, UserRow
  <1>4. QED
    BY <1>1, <1>2, <1>3, OneRowKept

LEMMA PasswordWriteKeepsRows ==
  ASSUME RowsSound, VerifiedMeansProved, NEW u \in Users, Present(u), Touched(u), UNCHANGED history,
         users' = [users EXCEPT ![u].password = TRUE]
  PROVE  RowsKept
  <1> DEFINE row == [users[u] EXCEPT !.password = TRUE]
  <1>1. users[u] \in UserRow
    BY DEF RowsSound
  <1>2. /\ row \in UserRow /\ row.address = users[u].address /\ row.verified = users[u].verified
        /\ row.status = users[u].status /\ row.password
    BY <1>1, PasswordWritten
  <1>3. users' = [users EXCEPT ![u] = row]
    OBVIOUS
  <1> HIDE DEF row
  <1>4. \A c \in Channels : row.verified[c] /\ row.address[c] # None =>
          <<u, row.address[c]>> \in history'.proved \/ <<u, c>> \in history'.overwritten
    BY <1>2 DEF VerifiedMeansProved
  <1>5. QED
    BY <1>2, <1>3, <1>4, OneRowKept, HistoryStays DEF Present

LEMMA StatusWriteKeepsRows ==
  ASSUME RowsSound, VerifiedMeansProved, NEW u \in Users, NEW s \in Statuses,
         users' = [users EXCEPT ![u].status = s], history' \in History, HistoryGrows,
         s \in {"SUSPENDED", "DELETED"} \/ u \in history'.revived
  PROVE  RowsKept
  <1> DEFINE row == [users[u] EXCEPT !.status = s]
  <1>1. users[u] \in UserRow
    BY DEF RowsSound
  <1>2. /\ row \in UserRow /\ row.address = users[u].address /\ row.verified = users[u].verified
        /\ row.status = s /\ row.password = users[u].password
    BY <1>1, StatusWritten
  <1>3. users' = [users EXCEPT ![u] = row]
    OBVIOUS
  <1>4. Gone(users[u]) => Gone(row) \/ u \in history'.revived
    BY GoneStaysGone
  <1> HIDE DEF row
  <1>5. \A c \in Channels : row.verified[c] /\ row.address[c] # None =>
          <<u, row.address[c]>> \in history'.proved \/ <<u, c>> \in history'.overwritten
    BY <1>2 DEF VerifiedMeansProved, HistoryGrows
  <1>6. row.status # "none"
    BY <1>2 DEF Statuses
  <1>7. QED
    BY <1>2, <1>3, <1>4, <1>5, <1>6, OneRowKept

LEMMA ApplicationKeepsRows ==
  ASSUME RowsSound, VerifiedMeansProved, NEW u \in Users, Present(u), NEW a \in Addresses, Prove(u, a), Touched(u),
         users' = [users EXCEPT ![u].address[ChannelOf(a)] = a, ![u].verified[ChannelOf(a)] = TRUE,
                                ![u].status = IF a \in Emails THEN "ACTIVE" ELSE @]
  PROVE  RowsKept
  <1>0. PICK c \in Channels, s \in Statuses \cup {"none"} :
          c = ChannelOf(a) /\ s = IF a \in Emails THEN "ACTIVE" ELSE users[u].status
    BY DEF ChannelOf, Channels, RowsSound, UserRow, Statuses
  <1> DEFINE y == [users[u] EXCEPT !.address[c] = a]
  <1> DEFINE z == [y EXCEPT !.verified[c] = TRUE]
  <1> DEFINE row == [z EXCEPT !.status = s]
  <1>1. users[u] \in UserRow /\ s # "none"
    BY <1>0 DEF RowsSound, Present
  <1>2. users' = [users EXCEPT ![u] = row]
    BY <1>0, Zenon
  <1>3. /\ row \in UserRow /\ row.address = [users[u].address EXCEPT ![c] = a]
        /\ row.verified = [users[u].verified EXCEPT ![c] = TRUE] /\ row.status = s
        /\ row.password = users[u].password
    <2>1. /\ y \in UserRow /\ y.address = [users[u].address EXCEPT ![c] = a]
          /\ y.password = users[u].password /\ y.verified = users[u].verified
      BY <1>1 DEF UserRow
    <2> HIDE DEF y
    <2>2. z \in UserRow /\ z.address = y.address /\ z.password = y.password
          /\ z.verified = [y.verified EXCEPT ![c] = TRUE]
      BY <2>1 DEF UserRow
    <2> HIDE DEF z
    <2>3. row \in UserRow /\ row.address = z.address /\ row.verified = z.verified /\ row.status = s
          /\ row.password = z.password
      BY <2>2 DEF UserRow
    <2> HIDE DEF row
    <2>4. QED
      BY <2>1, <2>2, <2>3
  <1> HIDE DEF row
  <1>4. history' \in History /\ HistoryGrows /\ <<u, a>> \in history'.proved
    BY Proves
  <1>5. ASSUME NEW d \in Channels, row.verified[d], row.address[d] # None
        PROVE  <<u, row.address[d]>> \in history'.proved \/ <<u, d>> \in history'.overwritten
    <2>1. /\ row.address[d] = IF d = c THEN a ELSE users[u].address[d]
          /\ row.verified[d] = IF d = c THEN TRUE ELSE users[u].verified[d]
      BY <1>1, <1>3 DEF UserRow
    <2>2. d # c /\ users[u].verified[d] /\ users[u].address[d] # None =>
            <<u, users[u].address[d]>> \in history.proved \/ <<u, d>> \in history.overwritten
      BY DEF VerifiedMeansProved
    <2>3. QED
      BY <1>4, <1>5, <2>1, <2>2 DEF HistoryGrows
  <1>6. row.status # "none" /\ (users[u].password => row.password)
    BY <1>1, <1>3
  <1>7. QED
    BY <1>2, <1>3, <1>4, <1>5, <1>6, OneRowKept

LEMMA HoldsAUser ==
  ASSUME SoundInv, NEW h \in Handlers, handler[h].at \in UserPlaces
  PROVE  Present(handler[h].user)
  BY DEF SoundInv, RequestsHold, Holds, HoldsUser

LEMMA ProfilesKeepRows ==
  ASSUME SoundInv, ProfilesNext
  PROVE  RowsKept
  <1>1. RowsSound /\ VerifiedMeansProved
    BY DEF SoundInv
  <1>2. PICK h \in Handlers :
          \/ \E u \in Users, a \in Addresses : UpdateCurrentUserProfile(h, u, a) \/ UpdateMyAccount(h, u, a)
          \/ WriteProfile(h)
    BY DEF ProfilesNext
  <1>3. ASSUME NEW u \in Users, NEW a \in Addresses, UpdateCurrentUserProfile(h, u, a) PROVE RowsKept
    BY <1>1, <1>3, SameRowsKept DEF UpdateCurrentUserProfile, SameRows
  <1>4. ASSUME NEW u \in Users, NEW a \in Addresses, UpdateMyAccount(h, u, a) PROVE RowsKept
    BY <1>1, <1>4, AddressWriteKeepsRows, AuthenticatableIsPresent DEF UpdateMyAccount
  <1>5. CASE WriteProfile(h)
    <2> DEFINE u == handler[h].user
    <2> DEFINE a == handler[h].to
    <2>1. handler[h].at = "profile" /\ (SameRows \/ WriteAddress(u, a))
      BY <1>5 DEF WriteProfile, At
    <2>2. Present(u) /\ a \in Addresses
      BY <2>1, HoldsAUser DEF UserPlaces, SoundInv, RequestsHold, Holds, HoldsAddress, AddressPlaces
    <2>3. Touched(u)
      BY <2>1 DEF Touched, Harmless
    <2> HIDE DEF u, a
    <2>4. QED
      BY <1>1, <2>1, <2>2, <2>3, SameRowsKept, AddressWriteKeepsRows DEF Present
  <1>6. QED
    BY <1>2, <1>3, <1>4, <1>5

LEMMA ConfirmationKeepsRows ==
  ASSUME SoundInv, NEW h \in Handlers, ApplyAddress(h) \/ CommitReset(h)
  PROVE  RowsKept
  <1> DEFINE u == handler[h].user
  <1> DEFINE a == handler[h].to
  <1>1. RowsSound /\ VerifiedMeansProved
    BY DEF SoundInv
  <1>2. handler[h].at \in {"confirm", "reset"}
    BY DEF ApplyAddress, CommitReset, At
  <1>3. Present(u) /\ Touched(u)
    BY <1>2, HoldsAUser DEF UserPlaces, TokenPlaces, Touched, Harmless
  <1>4. CASE ApplyAddress(h)
    <2>1. a \in Addresses
      BY <1>4 DEF ApplyAddress, At, SoundInv, RequestsHold, Holds, HoldsAddress, AddressPlaces
    <2>2. \/ SameRows
          \/ /\ users' = [users EXCEPT ![u].address[ChannelOf(a)] = a, ![u].verified[ChannelOf(a)] = TRUE,
                                       ![u].status = IF a \in Emails THEN "ACTIVE" ELSE @]
             /\ Prove(u, a)
      BY <1>4, Zenon DEF ApplyAddress
    <2> HIDE DEF u, a
    <2>3. QED
      BY <1>1, <1>3, <2>1, <2>2, SameRowsKept, ApplicationKeepsRows DEF Present
  <1>5. CASE CommitReset(h)
    <2>1. (users' = [users EXCEPT ![u].password = TRUE] \/ UNCHANGED users) /\ UNCHANGED history
      BY <1>5 DEF CommitReset
    <2> HIDE DEF u, a
    <2>2. QED
      BY <1>1, <1>3, <2>1, SameRowsKept, PasswordWriteKeepsRows DEF Present, SameRows
  <1>6. QED
    BY <1>4, <1>5

LEMMA RegistrationKeepsRows ==
  ASSUME SoundInv, NEW h \in Handlers, CreateUser(h)
  PROVE  RowsKept
  <1>1. RowsSound /\ VerifiedMeansProved
    BY DEF SoundInv
  <1>2. PICK a \in Addresses : a = handler[h].to
    BY DEF CreateUser, At, SoundInv, RequestsHold, Holds, HoldsAddress, AddressPlaces
  <1> DEFINE row == [NoUser EXCEPT !.status = "PENDING_VERIFICATION", !.password = TRUE, !.address[ChannelOf(a)] = a]
  <1>3. row \in UserRow /\ row.status = "PENDING_VERIFICATION"
    BY NewRows
  <1>4. row.verified = NoUser.verified
    BY DEF NoUser
  <1>5. \A c \in Channels : ~row.verified[c]
    BY <1>4 DEF NoUser
  <1>6. UNCHANGED history /\ (UNCHANGED users \/ \E u \in Users : Create(u, row))
    BY <1>2 DEF CreateUser
  <1> HIDE DEF row
  <1>7. QED
    BY <1>1, <1>3, <1>5, <1>6, SameRowsKept, CreationKeepsRows, HistoryStays DEF SameRows

LEMMA ProfileCreationKeepsRows ==
  ASSUME SoundInv, NEW h \in Handlers, CreateFromProfile(h)
  PROVE  RowsKept
  <1>1. RowsSound /\ VerifiedMeansProved
    BY DEF SoundInv
  <1>2. PICK a \in Emails \cup {None} : a = handler[h].to
    BY DEF CreateFromProfile, At, SoundInv, RequestsHold, Holds, HoldsAddress
  <1>3. ASSUME NEW u \in Users, NEW marked \in BOOLEAN,
               Create(u, [NoUser EXCEPT !.status = "ACTIVE", !.address["email"] = a, !.verified["email"] = marked]),
               (marked /\ a # None /\ Prove(u, a)) \/ ((marked => a = None) /\ UNCHANGED history)
                 \/ (~marked /\ a # None /\ Prove(u, a))
        PROVE  RowsKept
    <2> DEFINE row == [NoUser EXCEPT !.status = "ACTIVE", !.address["email"] = a, !.verified["email"] = marked]
    <2>1. row \in UserRow /\ row.status = "ACTIVE"
      BY NewRows
    <2>2. /\ row.verified["email"] = marked /\ row.address["email"] = a
          /\ ~row.verified["phone"]
      BY DEF NoUser, Channels
    <2>3. Create(u, row)
      BY <1>3
    <2> HIDE DEF row
    <2>4. a # None => a \in Addresses
      BY DEF Addresses
    <2>5. history' \in History /\ HistoryGrows /\ (marked /\ a # None => <<u, a>> \in history'.proved)
      BY <1>1, <1>3, <2>4, Proves, HistoryStays
    <2>6. \A c \in Channels : row.verified[c] /\ row.address[c] # None => <<u, row.address[c]>> \in history'.proved
      BY <2>2, <2>5 DEF Channels
    <2>7. QED
      BY <1>1, <2>1, <2>3, <2>5, <2>6, CreationKeepsRows
  <1>4. SameRows => RowsKept
    BY <1>1, SameRowsKept
  <1>5. QED
    BY <1>2, <1>3, <1>4 DEF CreateFromProfile

LEMMA InvitedKeepsRows ==
  ASSUME SoundInv, NEW h \in Handlers, WriteInvited(h)
  PROVE  RowsKept
  <1>1. RowsSound /\ VerifiedMeansProved /\ handler[h].at = "account"
    BY DEF SoundInv, WriteInvited, At
  <1>2. PICK a \in Emails : a = handler[h].to
    BY <1>1 DEF SoundInv, RequestsHold, Holds, HoldsAddress, EmailPlaces
  <1>3. ASSUME NEW v \in Users,
               Create(v, [NoUser EXCEPT !.status = "ACTIVE", !.password = TRUE,
                                        !.address["email"] = a, !.verified["email"] = TRUE]),
               Prove(v, a)
        PROVE  RowsKept
    <2> DEFINE row == [NoUser EXCEPT !.status = "ACTIVE", !.password = TRUE,
                                     !.address["email"] = a, !.verified["email"] = TRUE]
    <2>1. row \in UserRow /\ row.status = "ACTIVE"
      BY NewRows
    <2>2. row.address["email"] = a /\ ~row.verified["phone"]
      BY DEF NoUser, Channels
    <2>3. Create(v, row)
      BY <1>3
    <2> HIDE DEF row
    <2>4. history' \in History /\ HistoryGrows /\ <<v, a>> \in history'.proved
      BY <1>1, <1>3, Proves DEF Addresses
    <2>5. \A c \in Channels : row.verified[c] /\ row.address[c] # None => <<v, row.address[c]>> \in history'.proved
      BY <2>2, <2>4 DEF Channels
    <2>6. QED
      BY <1>1, <2>1, <2>3, <2>4, <2>5, CreationKeepsRows
  <1>4. ASSUME handler[h].user # None, users' \in {users, [users EXCEPT ![handler[h].user].password = TRUE]},
               UNCHANGED history
        PROVE  RowsKept
    <2>1. Present(handler[h].user) /\ Touched(handler[h].user)
      BY <1>1, <1>4 DEF SoundInv, RequestsHold, Holds, HoldsUser, Touched, Harmless
    <2>2. QED
      BY <1>1, <1>4, <2>1, SameRowsKept, PasswordWriteKeepsRows DEF Present, SameRows
  <1>5. SameRows => RowsKept
    BY <1>1, SameRowsKept
  <1>6. QED
    BY <1>2, <1>3, <1>4, <1>5 DEF WriteInvited

LEMMA CodesKeepRows ==
  ASSUME SoundInv, CodesNext
  PROVE  RowsKept
  <1>1. RowsSound /\ VerifiedMeansProved
    BY DEF SoundInv
  <1>2. SUFFICES ASSUME ~SameRows PROVE RowsKept
    BY <1>1, SameRowsKept
  <1>3. PICK h \in Handlers :
          \/ \E a \in Addresses : RegisterUser(h, a)
          \/ (\E a \in Addresses : ForgotPassword(h, a)) \/ \E t \in DOMAIN tokens : ResetPassword(h, t)
          \/ \E u \in Users, a \in Addresses : RequestEmailVerification(h, u, a) \/ RequestPhoneChange(h, u, a)
          \/ \E t \in DOMAIN tokens : ConfirmEmailVerification(h, t)
          \/ \E u \in Users, right \in BOOLEAN : ConfirmPhoneChange(h, u, right)
          \/ \E a \in Addresses : RequestLoginOtp(h, a) \/ \E right \in BOOLEAN : VerifyLoginOtp(h, a, right)
          \/ CreateUser(h) \/ ApplyAddress(h) \/ CommitReset(h)
    BY <1>2 DEF CodesNext, TokenExpires, CooldownEnds, OtpExpires, SendEmailLink, SendPhoneCode, SendResetLink,
       CreateToken, CountAttempt, MarkUsed, StoreOtp, CoolDown, DropOtp, CountWrongOtp, UseOtp, SignInWithOtp
  <1>4. CASE \/ \E a \in Addresses : RegisterUser(h, a)
             \/ (\E a \in Addresses : ForgotPassword(h, a)) \/ \E t \in DOMAIN tokens : ResetPassword(h, t)
             \/ \E u \in Users, a \in Addresses : RequestEmailVerification(h, u, a) \/ RequestPhoneChange(h, u, a)
             \/ \E t \in DOMAIN tokens : ConfirmEmailVerification(h, t)
             \/ \E u \in Users, right \in BOOLEAN : ConfirmPhoneChange(h, u, right)
             \/ \E a \in Addresses : RequestLoginOtp(h, a) \/ \E right \in BOOLEAN : VerifyLoginOtp(h, a, right)
    BY <1>2, <1>4 DEF RegisterUser, ForgotPassword, ResetPassword, RequestEmailVerification, RequestPhoneChange,
       RequestVerification, ConfirmEmailVerification, ConfirmPhoneChange, RequestLoginOtp, VerifyLoginOtp
  <1>5. QED
    BY <1>3, <1>4, RegistrationKeepsRows, ConfirmationKeepsRows

LEMMA IdentitiesKeepRows ==
  ASSUME SoundInv, IdentitiesNext
  PROVE  RowsKept
  <1>1. RowsSound /\ VerifiedMeansProved
    BY DEF SoundInv
  <1>2. SUFFICES ASSUME ~SameRows PROVE RowsKept
    BY <1>1, SameRowsKept
  <1>3. PICK h \in Handlers :
          \/ \E i \in Identities : UnlinkOAuthAccount(h, i)
          \/ CreateFromProfile(h) \/ CountIdentities(h) \/ WritePassword(h)
    BY <1>2 DEF IdentitiesNext, SignInWithIdentity, LinkIdentityToExistingUser, HandleDeauthorizeCallback,
       UnlinkIdentity, SetPassword, MatchEmail, RefuseConflict, LinkIdentity, AutoLinkIdentity, CreateLink,
       DeleteIdentity
  <1>4. ASSUME NEW us \in SUBSET Users, Strip(us), UNCHANGED users PROVE RowsKept
    BY <1>1, <1>4, Strips, OnlyHistoryGrows
  <1>5. ASSUME NEW i \in Identities, UnlinkOAuthAccount(h, i) PROVE RowsKept
    <2>1. owner[i] \in Users
      BY <1>5 DEF UnlinkOAuthAccount, SoundInv, OwnersSound, Present
    <2>2. QED
      BY <1>4, <1>5, <2>1 DEF UnlinkOAuthAccount
  <1>6. CASE CountIdentities(h)
    <2>1. handler[h].user \in Users
      BY <1>6, HoldsAUser DEF CountIdentities, At, UserPlaces, Present
    <2>2. UNCHANGED users /\ (Strip({handler[h].user}) \/ UNCHANGED history)
      BY <1>6 DEF CountIdentities
    <2>3. QED
      BY <1>2, <1>4, <2>1, <2>2 DEF SameRows
  <1>7. CASE WritePassword(h)
    <2>1. handler[h].at = "password" /\ UNCHANGED history
          /\ users' = [users EXCEPT ![handler[h].user].password = TRUE]
      BY <1>7 DEF WritePassword, At
    <2>2. Present(handler[h].user) /\ Touched(handler[h].user)
      BY <2>1, HoldsAUser DEF UserPlaces, Touched, Harmless
    <2>3. QED
      BY <1>1, <2>1, <2>2, PasswordWriteKeepsRows DEF Present
  <1>8. QED
    BY <1>3, <1>5, <1>6, <1>7, ProfileCreationKeepsRows

LEMMA AdminsKeepRows ==
  ASSUME SoundInv, AdminNext
  PROVE  RowsKept
  <1>1. RowsSound /\ VerifiedMeansProved
    BY DEF SoundInv
  <1>2. SUFFICES ASSUME ~SameRows PROVE RowsKept
    BY <1>1, SameRowsKept
  <1>3. PICK h \in Handlers :
          \/ \E u \in Users, s \in {"ACTIVE", "PENDING_VERIFICATION"} : ReopenUser(h, u, s)
          \/ \E u \in Users, r \in Roles :
               \/ AssignRoleToUser(h, u, r) \/ RemoveRoleFromUser(h, u, r)
               \/ \E actor \in Users : AssignExistingUserAdmin(h, actor, u, r)
          \/ \E r \in Roles, granted \in SUBSET Permissions :
               CreateRole(h, r, granted) \/ \E patch \in BOOLEAN : ReplacePermissions(h, r, granted, patch)
          \/ \E r \in Roles, super \in BOOLEAN : RenameRole(h, r, super)
          \/ \E i \in Invitations, a \in Emails, r \in Roles : CreateAdminInvitation(h, i, a, r)
          \/ WriteStatus(h) \/ WriteInvited(h)
    BY <1>2 DEF AdminNext, CloseUser, DeleteRole, RemovePermissionFromRole, AddPermission, TakeInvitation,
       AcceptAdminInvitation, DeleteUserRole, DeleteSystemRoles, GrantRole, DeletePermission, CommitDeleteRole,
       ResendInvitation, RevokeInvitation, FindInvited, EnrolInvited, MarkAccepted, InvitationExpires
  <1>4. CASE \/ \E u \in Users, r \in Roles :
                  \/ AssignRoleToUser(h, u, r) \/ RemoveRoleFromUser(h, u, r)
                  \/ \E actor \in Users : AssignExistingUserAdmin(h, actor, u, r)
             \/ \E r \in Roles, granted \in SUBSET Permissions :
                  CreateRole(h, r, granted) \/ \E patch \in BOOLEAN : ReplacePermissions(h, r, granted, patch)
             \/ \E r \in Roles, super \in BOOLEAN : RenameRole(h, r, super)
             \/ \E i \in Invitations, a \in Emails, r \in Roles : CreateAdminInvitation(h, i, a, r)
    BY <1>2, <1>4 DEF AssignRoleToUser, RemoveRoleFromUser, AssignExistingUserAdmin, CreateRole, ReplacePermissions,
       RenameRole, CreateAdminInvitation
  <1>5. ASSUME NEW u \in Users, NEW s \in {"ACTIVE", "PENDING_VERIFICATION"}, ReopenUser(h, u, s)
        PROVE  RowsKept
    <2>1. /\ users' = [users EXCEPT ![u].status = s] /\ s \in Statuses
          /\ history' = [history EXCEPT !.revived = @ \cup {u}]
      BY <1>5 DEF ReopenUser, Statuses
    <2>2. QED
      BY <1>1, <2>1, Revives, StatusWriteKeepsRows
  <1>6. CASE WriteStatus(h)
    <2>1. /\ handler[h].at \in {"SUSPENDED", "DELETED"} /\ UNCHANGED history
          /\ users' = [users EXCEPT ![handler[h].user].status = handler[h].at]
      BY <1>6 DEF WriteStatus
    <2>2. handler[h].user \in Users /\ handler[h].at \in Statuses
      BY <2>1, HoldsAUser DEF UserPlaces, Present, Statuses
    <2>3. history' \in History /\ HistoryGrows
      BY <1>1, <2>1, HistoryStays
    <2>4. QED
      BY <1>1, <2>1, <2>2, <2>3, StatusWriteKeepsRows
  <1>7. QED
    BY <1>3, <1>4, <1>5, <1>6, InvitedKeepsRows

LEMMA ErasuresKeepRows ==
  ASSUME SoundInv, NEW h \in Handlers,
         (\E u \in Users : EraseAccount(h, u)) \/ EraseLinks(h) \/ EraseRow(h) \/ Die(h)
  PROVE  RowsKept
  <1> DEFINE u == handler[h].user
  <1>1. RowsSound /\ VerifiedMeansProved
    BY DEF SoundInv
  <1>2. CASE (\E v \in Users : EraseAccount(h, v)) \/ Die(h)
    BY <1>1, <1>2, SameRowsKept DEF EraseAccount, Die, Crash, SameRows
  <1>3. ASSUME handler[h].at \in {"erase", "anonymize"} PROVE u \in Users
    BY <1>3, HoldsAUser DEF UserPlaces, Present
  <1>4. CASE EraseLinks(h)
    <2>1. Strip({u}) /\ UNCHANGED users /\ handler[h].at = "erase"
      BY <1>4 DEF EraseLinks, At
    <2>2. QED
      BY <1>1, <1>3, <2>1, Strips, OnlyHistoryGrows
  <1>5. CASE EraseRow(h)
    <2>1. /\ users' = [users EXCEPT ![u] = ErasedUser] /\ handler[h].at = "anonymize"
          /\ history' = [history EXCEPT !.erased = @ \cup {u}, !.stripped = @ \cup {u},
                                        !.revived = IF OthersWith(h, u) \/ AddedMeanwhile(h, u)
                                                    THEN @ \cup {u} ELSE @]
      BY <1>5 DEF EraseRow, At
    <2>2. u \in Users /\ u = handler[h].user
      BY <1>3, <2>1
    <2> HIDE DEF u
    <2>3. history' \in History /\ HistoryGrows /\ u \in history'.stripped
      BY <1>1, <1>5, <2>1, <2>2 DEF RowsSound, HistoryGrows, History
    <2>4. QED
      BY <1>1, <2>1, <2>2, <2>3, ErasedUserIsARow, OneRowKept
  <1>6. QED
    BY <1>2, <1>4, <1>5

LEMMA NextKeepsRows ==
  ASSUME SoundInv, [Next]_vars
  PROVE  RowsKept
  <1>1. RowsSound /\ VerifiedMeansProved
    BY DEF SoundInv
  <1>2. CASE ProvidersNext
    BY <1>1, <1>2, SameRowsKept DEF ProvidersNext, CreateSocialProvider, UpdateSocialProvider, DeleteSocialProvider,
       TestProvider, UpdateSocialProviderStatus, NameProvider, TestCallback, RefusedCallback, CommitUpdate,
       CommitStatus, CreateTest, ConsumeTest, ConsumeRefused, RecordTest, RecordTestFailure, RecordOutcome,
       TestExpires
  <1>3. CASE LinkingNext
    BY <1>1, <1>3, SameRowsKept DEF LinkingNext, StartLink, LinkIdentityToUser
  <1>4. CASE UNCHANGED vars
    BY <1>1, <1>4, SameRowsKept DEF vars, rowVars, SameRows
  <1>5. QED
    BY <1>2, <1>3, <1>4, ProfilesKeepRows, CodesKeepRows, IdentitiesKeepRows, AdminsKeepRows, ErasuresKeepRows
    DEF Next

----------------------------------------------------------------------------
(* What steps do to the tokens, the records of login codes, the identities  *)
(* and the invitations *)

(* A token that is new is a login code, or a request for it was in flight.  *)
Asked(k) ==
  k.kind = "login" \/ \E h \in Handlers : /\ handler[h].user = k.user
                                          /\ handler[h].at \in {"email_token", "phone_token", "reset_token"}

TokensKept ==
  TokensSound' /\ TokensGrow /\ \A t \in DOMAIN tokens' \ DOMAIN tokens : Asked(tokens'[t])

LEMMA TokenIndices ==
  ASSUME TokensSound
  PROVE  /\ Len(tokens) \in Nat /\ DOMAIN tokens = 1 .. Len(tokens)
         /\ \A t \in DOMAIN tokens : tokens[t] \in Token
  BY LenProperties, ElementOfSeq DEF TokensSound

LEMMA SameTokensKept ==
  ASSUME TokensSound, UsersStay, UNCHANGED tokens
  PROVE  TokensKept
  <1>1. Len(tokens) <= Len(tokens')
    BY TokenIndices
  <1>2. QED
    BY <1>1 DEF TokensKept, TokensSound, TokensGrow, Ages, UsersStay, Present

LEMMA TokensChange ==
  ASSUME TokensSound, UsersStay, tokens' \in Seq(Token), Len(tokens') = Len(tokens),
         \A t \in DOMAIN tokens : Ages(tokens[t], tokens'[t])
  PROVE  TokensKept
  <1>1. Len(tokens) <= Len(tokens') /\ DOMAIN tokens' = DOMAIN tokens
    BY TokenIndices, LenProperties
  <1>2. QED
    BY <1>1 DEF TokensKept, TokensSound, TokensGrow, Ages, UsersStay, Present

LEMMA OneTokenChanges ==
  ASSUME TokensSound, UsersStay, NEW t \in DOMAIN tokens, NEW x \in Token,
         Ages(tokens[t], x),
         tokens' = [tokens EXCEPT ![t] = x]
  PROVE  TokensKept /\ tokens'[t] = x
  <1>1. t \in 1 .. Len(tokens)
    BY TokenIndices
  <1>2. /\ tokens' \in Seq(Token) /\ Len(tokens') = Len(tokens)
        /\ \A s \in DOMAIN tokens : tokens'[s] = IF s = t THEN x ELSE tokens[s]
    BY <1>1, TokenIndices, ExceptSeq DEF TokensSound
  <1>3. \A s \in DOMAIN tokens : Ages(tokens[s], tokens'[s])
    BY <1>2 DEF Ages
  <1>4. QED
    BY <1>2, <1>3, TokensChange

LEMMA TokensLengthen ==
  ASSUME TokensSound, UsersStay, NEW kind \in {"email", "phone", "reset", "login"}, NEW u \in Users,
         NEW a \in Addresses \cup {None}, Present(u)', kind # "reset" => a \in Addresses, NewToken(kind, u, a),
         \A k : k.kind = kind /\ k.user = u => Asked(k)
  PROVE  /\ TokensKept /\ Len(tokens') = Len(tokens) + 1
         /\ tokens'[Len(tokens')].kind = kind /\ tokens'[Len(tokens')].to = a
  <1> DEFINE x == [kind |-> kind, user |-> u, to |-> a, live |-> TRUE, used |-> FALSE, deleted |-> FALSE,
                   attempts |-> 0, uses |-> 0, wrong |-> 0, shared |-> FALSE]
  <1>1. tokens' = Append(tokens, x)
    BY DEF NewToken
  <1>2. x \in Token /\ x.kind = kind /\ x.user = u /\ x.to = a
    BY DEF Token
  <1> HIDE DEF x
  <1>3. /\ tokens' \in Seq(Token) /\ Len(tokens') = Len(tokens) + 1 /\ tokens'[Len(tokens) + 1] = x
        /\ \A t \in 1 .. Len(tokens) : tokens'[t] = tokens[t]
    BY <1>1, <1>2, AppendProperties DEF TokensSound
  <1>4. DOMAIN tokens' = DOMAIN tokens \cup {Len(tokens) + 1} /\ Len(tokens) <= Len(tokens')
    BY <1>3, TokenIndices, LenProperties
  <1>5. TokensGrow
    BY <1>3, <1>4, TokenIndices DEF TokensGrow, Ages
  <1>6. ASSUME NEW t \in DOMAIN tokens'
        PROVE  Present(tokens[t].user)' /\ (tokens'[t].kind # "reset" => tokens'[t].to \in Addresses)
    <2>1. CASE t \in DOMAIN tokens
      BY <1>3, <2>1, TokenIndices DEF TokensSound, UsersStay, Present
    <2>2. CASE t = Len(tokens) + 1
      BY <1>2, <1>3, <2>2
    <2>3. QED
      BY <1>4, <2>1, <2>2
  <1>7. TokensSound'
    BY <1>3, <1>6 DEF TokensSound
  <1>8. \A t \in DOMAIN tokens' \ DOMAIN tokens : Asked(tokens'[t])
    BY <1>2, <1>3, <1>4
  <1>9. QED
    BY <1>2, <1>3, <1>5, <1>7, <1>8 DEF TokensKept

LEMMA HoldKeepsTokens ==
  ASSUME TokensSound, UsersStay, NEW h \in Handlers, NEW t \in DOMAIN tokens, Hold(h, t)
  PROVE  TokensKept
  <1> DEFINE x == [tokens[t] EXCEPT !.shared = @ \/ OthersHold(h, t)]
  <1>1. tokens' = [tokens EXCEPT ![t] = x]
    BY DEF Hold
  <1>2. tokens[t] \in Token
    BY TokenIndices
  <1>3. x \in Token /\ Ages(tokens[t], x)
    BY <1>2 DEF Token, Ages, Closed
  <1> HIDE DEF x
  <1>4. QED
    BY <1>1, <1>3, OneTokenChanges

CodesKept == TokensKept /\ OtpsSound'

LEMMA OtpsStay ==
  ASSUME TokensSound, OtpsSound, TokensKept, UNCHANGED otp
  PROVE  OtpsSound'
  <1>1. DOMAIN tokens \subseteq DOMAIN tokens'
    BY TokenIndices, LenProperties DEF TokensKept, TokensSound, TokensGrow
  <1>2. QED
    BY <1>1 DEF OtpsSound, TokensKept, TokensGrow, Ages

LEMMA OneOtpChanges ==
  ASSUME TokensSound, OtpsSound, TokensKept, NEW a \in Addresses, NEW x \in [token : Nat, attempts : Nat],
         otp' = [otp EXCEPT ![a] = x],
         x # NoCode => x.token \in DOMAIN tokens' /\ tokens'[x.token].kind = "login" /\ tokens'[x.token].to = a
  PROVE  OtpsSound'
  <1>1. DOMAIN tokens \subseteq DOMAIN tokens'
    BY TokenIndices, LenProperties DEF TokensKept, TokensSound, TokensGrow
  <1>2. QED
    BY <1>1 DEF OtpsSound, TokensKept, TokensGrow, Ages

LEMMA SameCodesKept ==
  ASSUME TokensSound, OtpsSound, UsersStay, UNCHANGED <<tokens, otp>>
  PROVE  CodesKept
  BY SameTokensKept, OtpsStay DEF CodesKept

LEMMA HeldToken ==
  ASSUME SoundInv, NEW h \in Handlers, handler[h].at \in TokenPlaces
  PROVE  /\ handler[h].item \in DOMAIN tokens /\ tokens[handler[h].item] \in Token
         /\ tokens[handler[h].item].user = handler[h].user
         /\ tokens[handler[h].item].kind \in KindsAt(handler[h].at)
         /\ handler[h].at # "reset" => tokens[handler[h].item].to = handler[h].to
  BY TokenIndices DEF SoundInv, RequestsHold, Holds, HoldsToken

LEMMA TokensAreTakenUp ==
  ASSUME SoundInv, UsersStay, NEW h \in Handlers,
         \/ \E t \in DOMAIN tokens : ResetPassword(h, t) \/ ConfirmEmailVerification(h, t)
         \/ \E u \in Users, right \in BOOLEAN : ConfirmPhoneChange(h, u, right)
         \/ \E a \in Addresses, right \in BOOLEAN : VerifyLoginOtp(h, a, right)
  PROVE  CodesKept
  <1>1. TokensSound /\ OtpsSound
    BY DEF SoundInv
  <1>2. ASSUME NEW t \in DOMAIN tokens, Hold(h, t), SameOtp PROVE CodesKept
    BY <1>1, <1>2, HoldKeepsTokens, OtpsStay DEF SameOtp, CodesKept
  <1>3. ASSUME NEW t \in DOMAIN tokens, ResetPassword(h, t) \/ ConfirmEmailVerification(h, t) PROVE CodesKept
    BY <1>2, <1>3 DEF ResetPassword, ConfirmEmailVerification
  <1>4. ASSUME NEW u \in Users, NEW right \in BOOLEAN, ConfirmPhoneChange(h, u, right) PROVE CodesKept
    BY <1>2, <1>4 DEF ConfirmPhoneChange, Newest
  <1>5. ASSUME NEW a \in Addresses, NEW right \in BOOLEAN, VerifyLoginOtp(h, a, right) PROVE CodesKept
    <2>1. otp[a].token \in DOMAIN tokens
      BY <1>1, <1>5 DEF VerifyLoginOtp, OtpsSound
    <2>2. Hold(h, otp[a].token) /\ SameOtp
      BY <1>5 DEF VerifyLoginOtp
    <2>3. QED
      BY <1>2, <2>1, <2>2
  <1>6. QED
    BY <1>3, <1>4, <1>5

(* A token is sent.                                                         *)
LEMMA SendingKeepsCodes ==
  ASSUME SoundInv, UsersStay, NEW h \in Handlers,
         SendEmailLink(h) \/ SendPhoneCode(h) \/ SendResetLink(h) \/ StoreOtp(h)
  PROVE  CodesKept
  <1>1. TokensSound /\ OtpsSound /\ Holds(handler[h])
    BY DEF SoundInv, RequestsHold
  <1>2. handler[h].at \in {"email_token", "phone_token", "reset_token", "otp_store"}
    BY DEF SendEmailLink, SendPhoneCode, SendResetLink, CreateToken, StoreOtp, At
  <1>3. PICK u \in Users : u = handler[h].user /\ Present(u)
    BY <1>2, HoldsAUser DEF UserPlaces, Present
  <1>4. Present(u)'
    BY <1>3 DEF UsersStay
  <1>5. PICK a \in Addresses \cup {None} : a = handler[h].to /\ (handler[h].at # "reset_token" => a \in Addresses)
    BY <1>1, <1>2 DEF Holds, HoldsAddress, AddressPlaces
  <1>6. CASE SendEmailLink(h) \/ SendPhoneCode(h) \/ SendResetLink(h)
    <2>1. PICK kind \in {"email", "phone", "reset"} :
            /\ NewToken(kind, u, a) /\ SameOtp /\ (kind # "reset" => handler[h].at # "reset_token")
            /\ handler[h].at \in {"email_token", "phone_token", "reset_token"}
      BY <1>3, <1>5, <1>6 DEF SendEmailLink, SendPhoneCode, SendResetLink, CreateToken, At
    <2>2. TokensKept
      <3>1. \A k : k.user = u => Asked(k)
        BY <1>3, <2>1 DEF Asked
      <3>2. QED
        BY <1>1, <1>3, <1>4, <1>5, <2>1, <3>1, TokensLengthen
    <2>3. QED
      BY <1>1, <2>1, <2>2, OtpsStay DEF SameOtp, CodesKept
  <1>7. CASE StoreOtp(h)
    <2>1. /\ NewToken("login", u, a) /\ a \in Addresses
          /\ otp' = [otp EXCEPT ![a] = [token |-> Len(tokens'), attempts |-> 0]]
      BY <1>3, <1>5, <1>7 DEF StoreOtp, At
    <2>2. /\ TokensKept /\ Len(tokens') = Len(tokens) + 1
          /\ tokens'[Len(tokens')].kind = "login" /\ tokens'[Len(tokens')].to = a
      BY <1>1, <1>3, <1>4, <1>5, <2>1, TokensLengthen DEF Asked
    <2>3. Len(tokens') \in Nat /\ Len(tokens') \in DOMAIN tokens'
      BY <1>1, <2>2, TokenIndices, LenProperties DEF TokensKept, TokensSound
    <2> DEFINE x == [token |-> Len(tokens'), attempts |-> 0]
    <2>4. x \in [token : Nat, attempts : Nat] /\ x.token = Len(tokens')
      BY <2>3
    <2> HIDE DEF x
    <2>5. OtpsSound'
      BY <1>1, <2>1, <2>2, <2>3, <2>4, OneOtpChanges DEF x
    <2>6. QED
      BY <2>2, <2>5 DEF CodesKept
  <1>8. QED
    BY <1>6, <1>7

(* A token is counted, used or marked; records of login codes come and go.  *)
LEMMA UseKeepsCodes ==
  ASSUME SoundInv, UsersStay, NEW h \in Handlers,
         CountAttempt(h) \/ ApplyAddress(h) \/ MarkUsed(h) \/ CommitReset(h) \/ SignInWithOtp(h)
  PROVE  CodesKept
  <1>1. TokensSound /\ OtpsSound
    BY DEF SoundInv
  <1>2. handler[h].at \in TokenPlaces /\ UNCHANGED otp
    BY DEF CountAttempt, ApplyAddress, MarkUsed, CommitReset, SignInWithOtp, At, TokenPlaces, SameOtp
  <1>3. PICK t \in DOMAIN tokens : t = handler[h].item /\ tokens[t] \in Token
    BY <1>2, HeldToken
  <1>4. ASSUME NEW x \in Token, tokens' = [tokens EXCEPT ![t] = x],
               Ages(tokens[t], x)
        PROVE  CodesKept
    BY <1>1, <1>2, <1>3, <1>4, OneTokenChanges, OtpsStay DEF CodesKept
  <1>5. CASE CountAttempt(h)
    <2> DEFINE y == [tokens[t] EXCEPT !.attempts = @ + 1]
    <2> DEFINE x == [y EXCEPT !.wrong = @ + 1]
    <2>1. tokens' = [tokens EXCEPT ![t] = x]
      BY <1>3, <1>5, Zenon DEF CountAttempt
    <2>2. y \in Token /\ Ages(tokens[t], y)
      BY <1>3 DEF Token, Ages, Closed
    <2> HIDE DEF y
    <2>3. x \in Token /\ Ages(tokens[t], x)
      BY <2>2 DEF Token, Ages, Closed
    <2> HIDE DEF x
    <2>4. QED
      BY <1>4, <2>1, <2>3
  <1>6. CASE MarkUsed(h)
    <2> DEFINE x == [tokens[t] EXCEPT !.used = ~tokens[t].deleted]
    <2>1. tokens' = [tokens EXCEPT ![t] = x]
      BY <1>3, <1>6 DEF MarkUsed
    <2>2. x \in Token /\ Ages(tokens[t], x)
      BY <1>3 DEF Token, Ages, Closed
    <2> HIDE DEF x
    <2>3. QED
      BY <1>4, <2>1, <2>2
  <1>7. CASE ApplyAddress(h) \/ SignInWithOtp(h)
    <2> DEFINE x == [tokens[t] EXCEPT !.uses = @ + 1]
    <2>1. tokens' = [tokens EXCEPT ![t] = x] \/ UNCHANGED tokens
      BY <1>3, <1>7 DEF ApplyAddress, SignInWithOtp
    <2>2. x \in Token /\ Ages(tokens[t], x)
      BY <1>3 DEF Token, Ages, Closed
    <2> HIDE DEF x
    <2>3. QED
      BY <1>1, <1>2, <1>4, <2>1, <2>2, SameCodesKept
  <1>8. CASE CommitReset(h)
    <2> DEFINE y == [tokens[t] EXCEPT !.used = TRUE]
    <2> DEFINE x == [y EXCEPT !.uses = @ + 1]
    <2>1. tokens' = [tokens EXCEPT ![t] = x] \/ UNCHANGED tokens
      <3>1. CASE tokens[handler[h].item].deleted
        BY <1>8, <3>1 DEF CommitReset
      <3>2. CASE ~tokens[handler[h].item].deleted
        <4>1. tokens' = [tokens EXCEPT ![handler[h].item].used = TRUE, ![handler[h].item].uses = @ + 1]
          BY <1>8, <3>2, Zenon DEF CommitReset
        <4>2. QED
          BY <1>3, <4>1, Zenon
      <3>3. QED
        BY <3>1, <3>2
    <2>2. y \in Token /\ Ages(tokens[t], y)
      BY <1>3 DEF Token, Ages, Closed
    <2> HIDE DEF y
    <2>3. x \in Token /\ Ages(tokens[t], x)
      BY <2>2 DEF Token, Ages, Closed
    <2> HIDE DEF x
    <2>4. QED
      BY <1>1, <1>2, <1>4, <2>1, <2>3, SameCodesKept
  <1>9. QED
    BY <1>5, <1>6, <1>7, <1>8

LEMMA NoCodeIsARecord == NoCode \in [token : Nat, attempts : Nat] /\ NoCode.token = 0
  BY DEF NoCode

LEMMA LoginKeepsCodes ==
  ASSUME SoundInv, UsersStay, NEW h \in Handlers, DropOtp(h) \/ UseOtp(h) \/ CountWrongOtp(h)
  PROVE  CodesKept
  <1>1. TokensSound /\ OtpsSound
    BY DEF SoundInv
  <1>2. handler[h].at \in {"otp_drop", "otp_use", "otp_count"}
    BY DEF DropOtp, UseOtp, CountWrongOtp, At
  <1>3. PICK t \in DOMAIN tokens :
          /\ t = handler[h].item /\ tokens[t] \in Token /\ tokens[t].kind = "login" /\ tokens[t].to = handler[h].to
    BY <1>2, HeldToken DEF TokenPlaces, KindsAt
  <1>4. PICK a \in Addresses : a = handler[h].to
    BY <1>2 DEF SoundInv, RequestsHold, Holds, HoldsAddress, AddressPlaces
  <1>5. CASE DropOtp(h) \/ UseOtp(h)
    <2>1. otp' = [otp EXCEPT ![a] = NoCode] /\ UNCHANGED tokens
      BY <1>4, <1>5 DEF DropOtp, UseOtp
    <2>2. QED
      BY <1>1, <2>1, SameTokensKept, NoCodeIsARecord, OneOtpChanges DEF CodesKept
  <1>6. CASE CountWrongOtp(h)
    <2> DEFINE x == [tokens[t] EXCEPT !.wrong = @ + 1]
    <2> DEFINE y == [token |-> t, attempts |-> handler[h].seen + 1]
    <2>1. tokens' = [tokens EXCEPT ![t] = x] /\ otp' = [otp EXCEPT ![a] = y]
      BY <1>3, <1>4, <1>6 DEF CountWrongOtp
    <2>2. x \in Token /\ Ages(tokens[t], x)
      BY <1>3 DEF Token, Ages, Closed
    <2>3. handler[h].seen \in Nat
      BY <1>6 DEF CountWrongOtp, At, SoundInv, RequestsHold, Holds, HoldsToken, TokenPlaces
    <2>4. t \in Nat
      BY <1>1, TokenIndices
    <2>5. y \in [token : Nat, attempts : Nat] /\ y.token = t
      BY <2>3, <2>4
    <2> HIDE DEF x, y
    <2>6. TokensKept
      BY <1>1, <2>1, <2>2, OneTokenChanges
    <2>7. t \in DOMAIN tokens'
      BY <1>1, <2>6, TokenIndices, LenProperties DEF TokensKept, TokensSound, TokensGrow
    <2>8. tokens'[t].kind = "login" /\ tokens'[t].to = a
      BY <1>3, <1>4, <2>6 DEF TokensKept, TokensGrow, Ages
    <2>9. OtpsSound'
      BY <1>1, <2>1, <2>5, <2>6, <2>7, <2>8, OneOtpChanges
    <2>10. QED
      BY <2>6, <2>9 DEF CodesKept
  <1>7. QED
    BY <1>5, <1>6

LEMMA CodesNextKeepsCodes ==
  ASSUME SoundInv, UsersStay, CodesNext
  PROVE  CodesKept
  <1>1. TokensSound /\ OtpsSound
    BY DEF SoundInv
  <1>2. SUFFICES ASSUME ~UNCHANGED <<tokens, otp>> PROVE CodesKept
    BY <1>1, SameCodesKept
  <1>3. CASE \E a \in Addresses : OtpExpires(a)
    <2>1. PICK a \in Addresses : otp' = [otp EXCEPT ![a] = NoCode] /\ UNCHANGED tokens
      BY <1>3 DEF OtpExpires
    <2>2. QED
      BY <1>1, <2>1, SameTokensKept, NoCodeIsARecord, OneOtpChanges DEF CodesKept
  <1>4. CASE \E t \in DOMAIN tokens : TokenExpires(t)
    <2>1. PICK t \in DOMAIN tokens : tokens' = [tokens EXCEPT ![t].live = FALSE] /\ UNCHANGED otp
      BY <1>4 DEF TokenExpires, SameOtp
    <2> DEFINE x == [tokens[t] EXCEPT !.live = FALSE]
    <2>2. tokens[t] \in Token /\ tokens' = [tokens EXCEPT ![t] = x]
      BY <1>1, <2>1, TokenIndices
    <2>3. x \in Token /\ Ages(tokens[t], x)
      BY <2>2 DEF Token, Ages, Closed
    <2> HIDE DEF x
    <2>4. QED
      BY <1>1, <2>1, <2>2, <2>3, OneTokenChanges, OtpsStay DEF CodesKept
  <1>5. CASE \E h \in Handlers :
               \/ \E a \in Addresses : RegisterUser(h, a) \/ ForgotPassword(h, a) \/ RequestLoginOtp(h, a)
               \/ \E u \in Users, a \in Addresses : RequestEmailVerification(h, u, a) \/ RequestPhoneChange(h, u, a)
               \/ CreateUser(h) \/ CoolDown(h)
    BY <1>2, <1>5 DEF RegisterUser, ForgotPassword, RequestLoginOtp, RequestEmailVerification, RequestPhoneChange,
       RequestVerification, CreateUser, CoolDown, SameCodes, codeVars
  <1>6. CASE \E a \in Addresses : CooldownEnds(a)
    BY <1>2, <1>6 DEF CooldownEnds
  <1>7. CASE \E h \in Handlers :
               \/ \E t \in DOMAIN tokens : ResetPassword(h, t) \/ ConfirmEmailVerification(h, t)
               \/ \E u \in Users, right \in BOOLEAN : ConfirmPhoneChange(h, u, right)
               \/ \E a \in Addresses, right \in BOOLEAN : VerifyLoginOtp(h, a, right)
    BY <1>7, TokensAreTakenUp
  <1>8. CASE \E h \in Handlers :
               \/ SendEmailLink(h) \/ SendPhoneCode(h) \/ SendResetLink(h) \/ StoreOtp(h)
               \/ CountAttempt(h) \/ ApplyAddress(h) \/ MarkUsed(h) \/ CommitReset(h) \/ SignInWithOtp(h)
               \/ DropOtp(h) \/ UseOtp(h) \/ CountWrongOtp(h)
    BY <1>8, SendingKeepsCodes, UseKeepsCodes, LoginKeepsCodes
  <1>9. QED
    BY <1>3, <1>4, <1>5, <1>6, <1>7, <1>8 DEF CodesNext

LEMMA ErasuresKeepCodes ==
  ASSUME SoundInv, UsersStay, NEW h \in Handlers,
         (\E u \in Users : EraseAccount(h, u)) \/ EraseLinks(h) \/ EraseRow(h) \/ Die(h)
  PROVE  CodesKept
  <1>1. TokensSound /\ OtpsSound
    BY DEF SoundInv
  <1>2. CASE (\E u \in Users : EraseAccount(h, u)) \/ EraseRow(h)
    BY <1>1, <1>2, SameCodesKept DEF EraseAccount, EraseRow, SameOthers, SameCodes, codeVars
  <1>3. CASE EraseLinks(h)
    <2>1. DeleteTokens(handler[h].user) /\ UNCHANGED otp
      BY <1>3 DEF EraseLinks, SameOtp
    <2>2. /\ DOMAIN tokens' = 1 .. Len(tokens) /\ Len(tokens) \in Nat
          /\ \A t \in DOMAIN tokens :
               tokens'[t] = tokens[t] \/ tokens'[t] = [tokens[t] EXCEPT !.deleted = TRUE]
      BY <1>1, <2>1, TokenIndices DEF DeleteTokens
    <2>3. \A t \in DOMAIN tokens :
            tokens'[t] \in Token /\ Ages(tokens[t], tokens'[t])
      <3>1. ASSUME NEW t \in DOMAIN tokens, NEW x, x = [tokens[t] EXCEPT !.deleted = TRUE]
            PROVE  x \in Token /\ Ages(tokens[t], x)
        <4>1. tokens[t] \in Token
          BY <1>1, TokenIndices
        <4>2. QED
          BY <3>1, <4>1 DEF Token, Ages, Closed
      <3>2. QED
        BY <1>1, <2>2, <3>1, TokenIndices DEF Ages
    <2>4. tokens' = [t \in 1 .. Len(tokens) |-> tokens'[t]]
      BY <1>1, <2>1, <2>2, TokenIndices DEF DeleteTokens
    <2>5. tokens' \in Seq(Token) /\ Len(tokens') = Len(tokens)
      BY <1>1, <2>2, <2>3, <2>4, TokenIndices
    <2>6. QED
      BY <1>1, <2>1, <2>3, <2>5, TokensChange, OtpsStay DEF CodesKept
  <1>4. CASE Die(h)
    <2>1. LeaveToken(h) /\ UNCHANGED otp
      BY <1>4 DEF Die, SameOtp
    <2>2. CASE handler[h].item \in DOMAIN tokens
      <3>1. PICK t \in DOMAIN tokens : t = handler[h].item /\ tokens[t] \in Token
        BY <1>1, <2>2, TokenIndices
      <3> DEFINE x == [tokens[t] EXCEPT !.shared = TRUE]
      <3>2. tokens' = [tokens EXCEPT ![t] = x]
        BY <2>1, <2>2, <3>1 DEF LeaveToken
      <3>3. x \in Token /\ Ages(tokens[t], x)
        BY <3>1 DEF Token, Ages, Closed
      <3> HIDE DEF x
      <3>4. QED
        BY <1>1, <2>1, <3>2, <3>3, OneTokenChanges, OtpsStay DEF CodesKept
    <2>3. CASE handler[h].item \notin DOMAIN tokens
      BY <1>1, <2>1, <2>3, SameCodesKept DEF LeaveToken
    <2>4. QED
      BY <2>2, <2>3
  <1>5. QED
    BY <1>2, <1>3, <1>4

LEMMA NextKeepsCodes ==
  ASSUME SoundInv, UsersStay, [Next]_vars
  PROVE  CodesKept
  <1>1. SameCodes => CodesKept
    BY SameCodesKept DEF SameCodes, codeVars, SoundInv
  <1>2. UNCHANGED vars => CodesKept
    BY <1>1 DEF vars, SameCodes
  <1>3. QED
    BY <1>1, <1>2, CodesNextKeepsCodes, ErasuresKeepCodes DEF Next, SameOthers

(* Who has an identity                                                      *)
OwnersKept == OwnersSound' /\ AutoLinkedMeansProved'

LEMMA SameOwnersKept ==
  ASSUME SoundInv, UsersStay, HistoryGrows, SameIdentities
  PROVE  OwnersKept
  BY DEF OwnersKept, SoundInv, OwnersSound, AutoLinkedMeansProved, SameIdentities, identityVars, UsersStay, Present,
     HistoryGrows

(* Identities are taken away.                                               *)
LEMMA UnlinkingKeepsOwners ==
  ASSUME SoundInv, UsersStay, HistoryGrows, UNCHANGED auto, owner' \in [Identities -> Users \cup {None}],
         \A i \in Identities : owner'[i] \in {owner[i], None}
  PROVE  OwnersKept
  BY DEF OwnersKept, SoundInv, OwnersSound, AutoLinkedMeansProved, UsersStay, Present, HistoryGrows

LEMMA LinkKeepsOwners ==
  ASSUME SoundInv, UsersStay, HistoryGrows, NEW h \in Handlers, LinkIdentity(h) \/ AutoLinkIdentity(h)
  PROVE  OwnersKept
  <1>1. handler[h].at \in {"link", "autolink"} /\ Holds(handler[h])
    BY DEF LinkIdentity, AutoLinkIdentity, At, SoundInv, RequestsHold
  <1>2. PICK i \in Identities : i = handler[h].item
    BY <1>1 DEF Holds, HoldsItem, IdentityPlaces
  <1>3. PICK u \in Users : u = handler[h].user /\ Present(u)
    BY <1>1, HoldsAUser DEF UserPlaces, Present
  <1>4. PICK a \in Addresses \cup {None} :
          /\ CreateLink(h, a)
          /\ a # None => <<u, a>> \in history.proved \/ <<u, "email">> \in history.overwritten
    <2>1. CASE LinkIdentity(h)
      BY <2>1 DEF LinkIdentity
    <2>2. CASE AutoLinkIdentity(h)
      BY <1>1, <1>3, <2>2 DEF AutoLinkIdentity, At, Holds, HoldsAddress, EmailPlaces, Vouched, Addresses
    <2>3. QED
      BY <2>1, <2>2
  <1>5. CASE UNCHANGED identityVars
    BY <1>5, SameOwnersKept DEF SameIdentities
  <1>6. CASE owner' = [owner EXCEPT ![i] = u] /\ auto' = [auto EXCEPT ![i] = a]
    <2>1. OwnersSound'
      BY <1>3, <1>6 DEF SoundInv, OwnersSound, UsersStay, Present
    <2>2. AutoLinkedMeansProved'
      BY <1>4, <1>6 DEF SoundInv, OwnersSound, AutoLinkedMeansProved, HistoryGrows
    <2>3. QED
      BY <2>1, <2>2 DEF OwnersKept
  <1>7. QED
    BY <1>2, <1>3, <1>4, <1>5, <1>6 DEF CreateLink

LEMMA IdentitiesKeepOwners ==
  ASSUME SoundInv, UsersStay, HistoryGrows, IdentitiesNext
  PROVE  OwnersKept
  <1>1. SUFFICES ASSUME ~SameIdentities PROVE OwnersKept
    BY SameOwnersKept
  <1>2. PICK h \in Handlers :
          \/ \E i \in Identities : UnlinkOAuthAccount(h, i)
          \/ DeleteIdentity(h) \/ LinkIdentity(h) \/ AutoLinkIdentity(h)
    BY <1>1 DEF IdentitiesNext, SignInWithIdentity, LinkIdentityToExistingUser, HandleDeauthorizeCallback,
       UnlinkIdentity, SetPassword, MatchEmail, RefuseConflict, CreateFromProfile, CountIdentities, WritePassword
  <1>3. ASSUME NEW i \in Identities, owner' = [owner EXCEPT ![i] = None] \/ owner' = owner, UNCHANGED auto
        PROVE  OwnersKept
    <2>1. /\ owner' \in [Identities -> Users \cup {None}]
          /\ \A j \in Identities : owner'[j] \in {owner[j], None}
      BY <1>3 DEF SoundInv, OwnersSound
    <2>2. QED
      BY <1>3, <2>1, UnlinkingKeepsOwners
  <1>4. ASSUME NEW i \in Identities, UnlinkOAuthAccount(h, i) PROVE OwnersKept
    BY <1>3, <1>4 DEF UnlinkOAuthAccount
  <1>5. CASE DeleteIdentity(h)
    <2>1. handler[h].item \in Identities
      BY <1>5 DEF DeleteIdentity, At, SoundInv, RequestsHold, Holds, HoldsItem, IdentityPlaces
    <2>2. QED
      BY <1>3, <1>5, <2>1 DEF DeleteIdentity
  <1>6. QED
    BY <1>2, <1>4, <1>5, LinkKeepsOwners

LEMMA NextKeepsOwners ==
  ASSUME SoundInv, UsersStay, HistoryGrows, [Next]_vars
  PROVE  OwnersKept
  <1>1. CASE LinkingNext
    BY <1>1, SameOwnersKept DEF LinkingNext, StartLink, LinkIdentityToUser
  <1>2. ASSUME NEW h \in Handlers, EraseLinks(h) PROVE OwnersKept
    <2>1. owner' = [i \in Identities |-> IF owner[i] = handler[h].user THEN None ELSE owner[i]] /\ UNCHANGED auto
      BY <1>2 DEF EraseLinks
    <2>2. /\ owner' \in [Identities -> Users \cup {None}]
          /\ \A j \in Identities : owner'[j] \in {owner[j], None}
      BY <2>1 DEF SoundInv, OwnersSound
    <2>3. QED
      BY <2>1, <2>2, UnlinkingKeepsOwners
  <1>3. ASSUME NEW h \in Handlers, (\E u \in Users : EraseAccount(h, u)) \/ EraseRow(h) \/ Die(h) PROVE OwnersKept
    BY <1>3, SameOwnersKept DEF EraseAccount, EraseRow, Die, SameOthers
  <1>4. UNCHANGED vars => OwnersKept
    BY SameOwnersKept DEF vars, SameIdentities
  <1>5. QED
    BY <1>1, <1>2, <1>3, <1>4, IdentitiesKeepOwners, SameOwnersKept DEF Next, SameOthers

(* Invitations keep their address and their role.                           *)
LEMMA AddressesStay ==
  ASSUME InvitationsSound, NEW i \in Invitations, NEW row,
         invitation' = [invitation EXCEPT ![i] = row], invitation \in [Invitations -> Invitation],
         row.to = invitation[i].to, row.role = invitation[i].role, invitation[i].status # "none"
  PROVE  InvitationsSound'
  BY DEF InvitationsSound

LEMMA InviteStepsKeepAddresses ==
  ASSUME IInv, InvitationsSound, NEW h \in Handlers, InviteStep(h)
  PROVE  InvitationsSound'
  <1>1. invitation \in [Invitations -> Invitation]
    BY DEF IInv, InvitationInv
  <1>2. ASSUME NEW i \in Invitations, NEW a \in Emails, NEW r \in Roles, CreateAdminInvitation(h, i, a, r)
        PROVE  InvitationsSound'
    <2> DEFINE row == [NoInvitation EXCEPT !.status = "PENDING", !.to = a, !.role = r, !.live = TRUE]
    <2>1. invitation' = [invitation EXCEPT ![i] = row]
      BY <1>2 DEF CreateAdminInvitation
    <2>2. row.to = a /\ row.role = r
      BY DEF NoInvitation
    <2> HIDE DEF row
    <2>3. QED
      BY <1>1, <2>1, <2>2 DEF InvitationsSound
  <1>3. ASSUME NEW i \in Invitations, Share(h, i), invitation[i].status = "PENDING" PROVE InvitationsSound'
    <2> DEFINE row == [invitation[i] EXCEPT !.shared = @ \/ OthersHold(h, i)]
    <2>1. invitation' = [invitation EXCEPT ![i] = row]
      BY <1>3 DEF Share
    <2>2. row.to = invitation[i].to /\ row.role = invitation[i].role
      BY <1>1 DEF Invitation
    <2> HIDE DEF row
    <2>3. QED
      BY <1>1, <1>3, <2>1, <2>2, AddressesStay
  <1>4. CASE \E i \in Invitations :
               AcceptAdminInvitation(h, i) \/ \E place \in {"resend", "revoke"} : TakeInvitation(h, i, place)
    BY <1>3, <1>4 DEF AcceptAdminInvitation, TakeInvitation
  <1>5. CASE ResendInvitation(h) \/ RevokeInvitation(h) \/ MarkAccepted(h)
    <2>1. handler[h].at \in InvitePlaces
      BY <1>5 DEF ResendInvitation, RevokeInvitation, MarkAccepted, At, InvitePlaces
    <2>2. PICK i \in Invitations : i = handler[h].item /\ invitation[i].status # "none"
      BY <2>1 DEF IInv, InvitationInv, HoldersFoundItPending
    <2>3. invitation' \in {[invitation EXCEPT ![i].live = TRUE],
                           [invitation EXCEPT ![i].status = "REVOKED", ![i].revoked = TRUE],
                           [invitation EXCEPT ![i].status = "ACCEPTED", ![i].uses = @ + 1]}
      BY <1>5, <2>2, Zenon DEF ResendInvitation, RevokeInvitation, MarkAccepted
    <2>4. /\ DOMAIN invitation' = Invitations
          /\ invitation'[i].to = invitation[i].to /\ invitation'[i].role = invitation[i].role
          /\ \A j \in Invitations \ {i} : invitation'[j] = invitation[j]
      BY <1>1, <2>3 DEF Invitation
    <2>5. QED
      BY <2>2, <2>4 DEF InvitationsSound
  <1>6. CASE FindInvited(h) \/ WriteInvited(h) \/ EnrolInvited(h)
    BY <1>6 DEF FindInvited, WriteInvited, EnrolInvited, SameAdmin, adminVars, SameInvitations, InvitationsSound
  <1>7. QED
    BY <1>2, <1>4, <1>5, <1>6 DEF InviteStep

LEMMA NextKeepsAddresses ==
  ASSUME IInv, InvitationsSound, [Next]_vars
  PROVE  InvitationsSound'
  <1>1. SUFFICES ASSUME ~SameInvitations PROVE InvitationsSound'
    BY DEF SameInvitations, InvitationsSound
  <1>2. invitation \in [Invitations -> Invitation]
    BY DEF IInv, InvitationInv
  <1>3. ASSUME NEW i \in Invitations, NEW f \in {"live", "shared"}, NEW b \in BOOLEAN,
               invitation' = [invitation EXCEPT ![i] = [@ EXCEPT ![f] = b]]
        PROVE  InvitationsSound'
    <2>1. /\ invitation'[i].to = invitation[i].to /\ invitation'[i].status = invitation[i].status
          /\ invitation'[i].role = invitation[i].role
          /\ \A j \in Invitations \ {i} : invitation'[j] = invitation[j]
      BY <1>2, <1>3 DEF Invitation
    <2>2. QED
      BY <2>1 DEF InvitationsSound
  <1>4. ASSUME NEW i \in Invitations, InvitationExpires(i) PROVE InvitationsSound'
    BY <1>3, <1>4 DEF InvitationExpires
  <1>5. ASSUME NEW h \in Handlers, Die(h) PROVE InvitationsSound'
    <2>1. PICK i \in Invitations : invitation' = [invitation EXCEPT ![i].shared = TRUE]
      BY <1>1, <1>5 DEF Die, LeaveAdmin, SameInvitations
    <2>2. QED
      BY <1>3, <2>1
  <1>6. CASE AdminNext
    BY <1>1, <1>4, <1>6, AdministratorsMoveElsewhere, InviteStepsKeepAddresses DEF IInv
  <1>7. SameAdmin => SameInvitations
    BY DEF SameAdmin, adminVars, SameInvitations
  <1>8. UNCHANGED vars => SameInvitations
    BY <1>7 DEF vars, SameAdmin
  <1>9. ASSUME NEW h \in Handlers, (\E u \in Users : EraseAccount(h, u)) \/ EraseLinks(h) \/ EraseRow(h)
        PROVE  SameInvitations
    BY <1>7, <1>9 DEF EraseAccount, EraseLinks, EraseRow, SameOthers
  <1>10. QED
    BY <1>1, <1>5, <1>6, <1>7, <1>8, <1>9 DEF Next, SameOthers

LEMMA NextMoves ==
  ASSUME IInv, SoundInv, [Next]_vars
  PROVE  UNCHANGED handler \/ \E h \in Handlers : \E places : Moves(h, places)
  <1>1. HandlersAreRecords
    BY DEF IInv
  <1>2. UNCHANGED vars => UNCHANGED handler
    BY DEF vars, rowVars
  <1>3. QED
    BY <1>1, <1>2, ProfilesMove, CodesMove, ProvidersMove, IdentitiesMove, LinkingMoves, AdminsMove, ErasuresMove
    DEF Next

LEMMA NextKeepsSoundInv ==
  ASSUME IInv, SoundInv, [Next]_vars
  PROVE  SoundInv' /\ RowsKept /\ CodesKept
  <1>1. RowsKept
    BY NextKeepsRows
  <1>2. HistoryGrows /\ UsersStay
    BY <1>1 DEF RowsKept
  <1>3. CodesKept
    BY <1>2, NextKeepsCodes
  <1>4. OwnersKept
    BY <1>2, NextKeepsOwners
  <1>5. InvitationsSound'
    BY NextKeepsAddresses DEF SoundInv
  <1>6. RequestsHold'
    BY <1>2, <1>3, NextMoves, MovesHold DEF CodesKept, TokensKept
  <1>7. QED
    BY <1>1, <1>3, <1>4, <1>5, <1>6 DEF SoundInv, RowsKept, CodesKept, TokensKept, OwnersKept

LEMMA InitEstablishesSoundInv ==
  ASSUME Init
  PROVE  SoundInv
  <1>1. RowsInit(UsersAtStart) /\ CodesInit /\ IdentitiesInit(OwnersAtStart)
    BY DEF Init
  <1>2. users = UsersAtStart /\ tokens = <<>> /\ otp = [a \in Addresses |-> NoCode] /\ owner = OwnersAtStart
        /\ auto = [i \in Identities |-> None]
    BY <1>1 DEF RowsInit, CodesInit, IdentitiesInit
  <1>3. \A u \in Users, c \in Channels :
          users[u].verified[c] /\ users[u].address[c] # None => <<u, users[u].address[c]>> \in history.proved
    <2>1. ASSUME NEW u \in Users, NEW c \in Channels, users[u].verified[c], users[u].address[c] # None
          PROVE  <<u, users[u].address[c]>> \in history.proved
      <3> DEFINE uc == <<u, c>>
                 Marked == {v \in Users \X Channels : users[v[1]].verified[v[2]] /\ users[v[1]].address[v[2]] # None}
      <3>1. uc[1] = u /\ uc[2] = c /\ uc \in Users \X Channels
        OBVIOUS
      <3>2. uc \in Marked
        BY <2>1, <3>1
      <3>3. history.proved = {<<v[1], users[v[1]].address[v[2]]>> : v \in Marked}
        BY <1>1, <1>2 DEF RowsInit
      <3> HIDE DEF uc, Marked
      <3>4. QED
        BY <3>1, <3>2, <3>3
    <2>2. QED
      BY <2>1
  <1>4. history \in History
    <2>1. \A u \in Users, c \in Channels : users[u].address[c] \in Addresses \cup {None}
      BY <1>2, StartAssumption DEF UserRow
    <2>2. history.proved \subseteq Users \X Addresses
      BY <1>1, <2>1 DEF RowsInit
    <2>3. QED
      BY <1>1, <2>2 DEF RowsInit, History
  <1>5. RowsSound /\ VerifiedMeansProved
    BY <1>2, <1>3, <1>4, StartAssumption DEF RowsSound, VerifiedMeansProved
  <1>6. TokensSound
    BY <1>2 DEF TokensSound
  <1>7. OtpsSound
    BY <1>2, NoCodeIsARecord DEF OtpsSound
  <1>8. OwnersSound /\ AutoLinkedMeansProved
    BY <1>2, StartAssumption DEF OwnersSound, AutoLinkedMeansProved, Present
  <1>9. InvitationsSound
    BY DEF Init, AdminInit, InvitationsSound, NoInvitation
  <1>10. RequestsHold
    BY <1>1, HoldsNothing, IdleIsARecord DEF RowsInit, RequestsHold
  <1>11. QED
    BY <1>5, <1>6, <1>7, <1>8, <1>9, <1>10 DEF SoundInv

LEMMA AlwaysSoundInv == Spec => [](IInv /\ SoundInv)
  <1>1. Init => IInv /\ SoundInv
    BY InitEstablishesIInv, InitEstablishesSoundInv
  <1>2. (IInv /\ SoundInv) /\ [Next]_vars => (IInv /\ SoundInv)'
    BY NextKeepsIInv, NextKeepsSoundInv
  <1>3. QED
    BY <1>1, <1>2, PTL DEF Spec

(* In AccountRows.tla: an address an account counts as verified was shown   *)
(* to be its user's, or written under a mark that was there, whatever a     *)
(* request read before it wrote.                                            *)
THEOREM VerifiedAlwaysMeansProved == Spec => []VerifiedMeansProved
  <1>1. SoundInv => VerifiedMeansProved
    BY DEF SoundInv
  <1>2. QED
    BY <1>1, AlwaysSoundInv, PTL

(* In LinkedIdentities.tla: an identity that was linked without being asked *)
(* belongs to an account whose user has shown the provider's address to be  *)
(* his, also where it was changed between the match and the link.           *)
THEOREM AutoLinkedAlwaysMeansProved == Spec => []AutoLinkedMeansProved
  <1>1. SoundInv => AutoLinkedMeansProved
    BY DEF SoundInv
  <1>2. QED
    BY <1>1, AlwaysSoundInv, PTL

----------------------------------------------------------------------------
(* Where the requests that move were and are *)

(* Whoever moves was at one of the places, and is at one.                   *)
Keep(places) ==
  \A g \in Handlers :
    handler'[g] = handler[g] \/ (OthersStay(g) /\ handler[g].at \in places /\ handler'[g].at \in places)

LEMMA MovesKeep ==
  ASSUME NEW places, UNCHANGED handler \/ \E h \in Handlers : OthersStay(h) /\ handler[h].at \in places,
         UNCHANGED handler \/ \E h \in Handlers : Moves(h, places)
  PROVE  Keep(places)
  BY DEF Keep, Moves, OthersStay

(* A request that begins waited for nothing, and the others stay.           *)
LEMMA OthersStayThen ==
  /\ \A h \in Handlers : \A operation : Begin(h, operation) => handler[h].at = "idle"
  /\ \A h \in Handlers : \A x : Wait(h, x) => OthersStay(h)
  /\ \A h \in Handlers : \A place : Goto(h, place) => OthersStay(h)
  /\ \A h \in Handlers : Finish(h) => OthersStay(h)
  /\ UNCHANGED handler => \A h \in Handlers : OthersStay(h)
  <1>1. ASSUME NEW h \in Handlers, NEW operation, Begin(h, operation) PROVE handler[h].at = "idle"
    BY <1>1, IdleIsARecord DEF Begin, MayBegin
  <1>2. ASSUME NEW h \in Handlers, NEW x, handler' = [handler EXCEPT ![h] = x] PROVE OthersStay(h)
    BY <1>2 DEF OthersStay
  <1>3. ASSUME NEW h \in Handlers, NEW place, Goto(h, place) PROVE OthersStay(h)
    BY <1>3 DEF OthersStay, Goto
  <1>4. UNCHANGED handler => \A h \in Handlers : OthersStay(h)
    BY DEF OthersStay
  <1>5. QED
    BY <1>1, <1>2, <1>3, <1>4 DEF Wait, Finish

LEMMA ProfilesKeep ==
  ASSUME HandlersAreRecords, SoundInv, ProfilesNext
  PROVE  Keep(ProfilePlaces)
  <1>1. \E h \in Handlers : OthersStay(h) /\ handler[h].at \in ProfilePlaces
    BY OthersStayThen DEF ProfilesNext, UpdateCurrentUserProfile, UpdateMyAccount, WriteProfile, At, ProfilePlaces
  <1>2. QED
    BY <1>1, ProfilesMove, MovesKeep

(* The requests about codes that come in, and those that go on              *)
CodeRequest(h) ==
  \/ \E a \in Addresses : RegisterUser(h, a) \/ ForgotPassword(h, a) \/ RequestLoginOtp(h, a)
  \/ \E u \in Users, a \in Addresses : RequestEmailVerification(h, u, a) \/ RequestPhoneChange(h, u, a)
  \/ \E t \in DOMAIN tokens : ResetPassword(h, t) \/ ConfirmEmailVerification(h, t)
  \/ \E u \in Users, right \in BOOLEAN : ConfirmPhoneChange(h, u, right)
  \/ \E a \in Addresses, right \in BOOLEAN : VerifyLoginOtp(h, a, right)

CodeStep(h) ==
  \/ CreateUser(h) \/ SendEmailLink(h) \/ SendPhoneCode(h) \/ SendResetLink(h)
  \/ CountAttempt(h) \/ ApplyAddress(h) \/ MarkUsed(h)
  \/ CommitReset(h) \/ StoreOtp(h) \/ CoolDown(h) \/ DropOtp(h) \/ CountWrongOtp(h)
  \/ UseOtp(h) \/ SignInWithOtp(h)

CodeLapse == (\E t \in DOMAIN tokens : TokenExpires(t)) \/ \E a \in Addresses : CooldownEnds(a) \/ OtpExpires(a)

LEMMA CodesNextIs ==
  ASSUME CodesNext
  PROVE  (\E h \in Handlers : CodeRequest(h) \/ CodeStep(h)) \/ CodeLapse
  BY DEF CodesNext, CodeRequest, CodeStep, CodeLapse

LEMMA CodesKeep ==
  ASSUME HandlersAreRecords, SoundInv, CodesNext
  PROVE  Keep(CodePlaces)
  <1>1. ASSUME NEW h \in Handlers, CodeRequest(h) PROVE OthersStay(h) /\ handler[h].at = "idle"
    BY <1>1, OthersStayThen DEF CodeRequest, RegisterUser, ForgotPassword, ResetPassword, ConfirmEmailVerification,
       RequestEmailVerification, RequestPhoneChange, RequestVerification, ConfirmPhoneChange, RequestLoginOtp,
       VerifyLoginOtp
  <1>2. ASSUME NEW h \in Handlers, CodeStep(h)
        PROVE  /\ OthersStay(h)
               /\ handler[h].at \in {"register", "email_token", "phone_token", "reset_token", "otp_store",
                                    "otp_cool"} \cup TokenPlaces
    <2>1. OthersStay(h)
      BY <1>2, OthersStayThen DEF CodeStep, CreateUser, CreateToken, SendEmailLink, SendPhoneCode, SendResetLink,
         CountAttempt, ApplyAddress, MarkUsed, CommitReset, StoreOtp, CoolDown, DropOtp, CountWrongOtp, UseOtp,
         SignInWithOtp
    <2>2. QED
      BY <1>2, <2>1 DEF CodeStep, CreateUser, CreateToken, SendEmailLink, SendPhoneCode, SendResetLink,
         CountAttempt, ApplyAddress, MarkUsed, CommitReset, StoreOtp, CoolDown, DropOtp, CountWrongOtp, UseOtp,
         SignInWithOtp, At, TokenPlaces
  <1>3. CodeLapse => UNCHANGED handler
    BY DEF CodeLapse, TokenExpires, CooldownEnds, OtpExpires
  <1>4. QED
    BY <1>1, <1>2, <1>3, CodesNextIs, CodesMove, MovesKeep DEF CodePlaces

LEMMA ProvidersKeep ==
  ASSUME HandlersAreRecords, ProvidersNext
  PROVE  Keep(AskingPlaces)
  <1>1. UNCHANGED handler \/ \E h \in Handlers : OthersStay(h) /\ handler[h].at \in AskingPlaces
    BY OthersStayThen DEF ProvidersNext, CreateSocialProvider, UpdateSocialProvider, DeleteSocialProvider,
       TestProvider, UpdateSocialProviderStatus, NameProvider, TestCallback, RefusedCallback, CommitUpdate,
       CommitStatus, CreateTest, ConsumeTest, ConsumeRefused, RecordTest, RecordTestFailure, RecordOutcome,
       TestExpires, At, AskingPlaces, ProviderPlaces, TestPlaces
  <1>2. QED
    BY <1>1, ProvidersMove, MovesKeep

LEMMA IdentitiesKeep ==
  ASSUME HandlersAreRecords, SoundInv, IdentitiesNext
  PROVE  Keep(SigningPlaces \cup {"unlink"})
  <1>1. UNCHANGED handler \/ \E h \in Handlers : OthersStay(h) /\ handler[h].at \in SigningPlaces \cup {"unlink"}
    BY OthersStayThen DEF IdentitiesNext, SignInWithIdentity, MatchEmail, RefuseConflict, CreateFromProfile,
       LinkIdentity, AutoLinkIdentity, CreateLink, LinkIdentityToExistingUser, UnlinkIdentity,
       HandleDeauthorizeCallback, CountIdentities, DeleteIdentity, UnlinkOAuthAccount, SetPassword, WritePassword,
       At, SigningPlaces
  <1>2. \E h \in Handlers : Moves(h, SigningPlaces \cup {"unlink"})
    BY IdentitiesMove DEF Moves, SigningPlaces
  <1>3. QED
    BY <1>1, <1>2, MovesKeep

LEMMA LinkingKeeps ==
  ASSUME HandlersAreRecords, SoundInv, LinkingNext
  PROVE  Keep(LinkPlaces)
  <1>1. \E h \in Handlers : OthersStay(h) /\ handler[h].at \in LinkPlaces
    BY OthersStayThen DEF LinkingNext, StartLink, LinkIdentityToUser, At, LinkPlaces
  <1>2. QED
    BY <1>1, LinkingMoves, MovesKeep

----------------------------------------------------------------------------
(* The super administrators' role *)

RolesTyped == roles \in [Roles -> RoleRow] /\ userRoles \subseteq Users \X Roles /\ slack \in BOOLEAN

OneSuperRole == Exists(SuperRole) /\ \A r \in Roles : roles[r].super <=> r = SuperRole

HasSuper(u) == <<u, SuperRole>> \in userRoles

(* A request that takes roles from a user or gives one back, and one that   *)
(* takes a permission from the super administrators                         *)
Taking(h) == handler[h].at \in {"remove", "reassign", "regrant"}
Ungranting(h) == At(h, "ungrant") /\ handler[h].item = SuperRole
Regranting(h) == At(h, "regrant") /\ handler[h].item = SuperRole

TakesSuper(h) ==
  (At(h, "remove") /\ handler[h].item = SuperRole) \/ (At(h, "reassign") /\ handler[h].item # SuperRole)

(* One such request is in flight at a time, and leaves another super        *)
(* administrator, or another permission: what the guards counted is still   *)
(* there when the request writes.                                           *)
TakersLeaveOne ==
  /\ \A g, h \in Handlers : Taking(g) /\ Taking(h) => g = h
  /\ \A h \in Handlers : TakesSuper(h) => \E v \in Users : v # handler[h].user /\ HasSuper(v)

UngrantersLeaveOne ==
  /\ \A g, h \in Handlers : Ungranting(g) /\ Ungranting(h) => g = h
  /\ \A h \in Handlers : Ungranting(h) => \A p \in Permissions : roles[SuperRole].granted \ {p} # {}

SomeoneHasSuper == (\E u \in Users : HasSuper(u)) \/ \E h \in Handlers : Regranting(h)

SuperSafe ==
  /\ OneSuperRole /\ TakersLeaveOne /\ UngrantersLeaveOne
  /\ roles[SuperRole].granted # {} /\ SomeoneHasSuper

SuperInv == RolesTyped /\ (slack \/ SuperSafe)

LEMMA SuperRolesIs ==
  ASSUME OneSuperRole
  PROVE  SuperRoles = {SuperRole} /\ \A r \in Roles : r \in SuperRoles <=> r = SuperRole
  BY StartAssumption DEF OneSuperRole, SuperRoles, Exists

(* More than one is one besides any.                                        *)
LEMMA AnotherOne ==
  ASSUME NEW S, IsFiniteSet(S), Cardinality(S) > 1, NEW x
  PROVE  \E y \in S : y # x
  <1>1. SUFFICES ASSUME S \subseteq {x} PROVE FALSE
    OBVIOUS
  <1>2. IsFiniteSet({x}) /\ Cardinality({x}) = 1
    BY FS_Singleton
  <1>3. Cardinality(S) <= Cardinality({x})
    BY <1>1, <1>2, FS_Subset
  <1>4. Cardinality(S) \in Nat
    BY FS_CardinalityType
  <1>5. QED
    BY <1>2, <1>3, <1>4

LEMMA HoldersAreCounted == IsFiniteSet(Holders(SuperRole)) /\ Cardinality(Holders(SuperRole)) \in Nat
  BY AccountsAssumption, FS_Subset, FS_CardinalityType DEF Holders

LEMMA AnotherSuper ==
  ASSUME Cardinality(Holders(SuperRole)) > 1, NEW u
  PROVE  \E v \in Users : v # u /\ HasSuper(v)
  <1>1. IsFiniteSet(Holders(SuperRole))
    BY HoldersAreCounted
  <1>2. PICK v \in Holders(SuperRole) : v # u
    BY <1>1, AnotherOne
  <1>3. QED
    BY <1>2 DEF Holders, HasSuper

(* Nobody loses the role and no permission is lost, and no request begins   *)
(* that takes one.                                                          *)
LEMMA SuperStays ==
  ASSUME SuperSafe, OneSuperRole', NEW h \in Handlers, OthersStay(h),
         \A u \in Users : HasSuper(u) => HasSuper(u)',
         roles[SuperRole].granted \subseteq roles'[SuperRole].granted,
         \/ handler'[h] = handler[h]
         \/ /\ ~Taking(h)' /\ ~Ungranting(h)'
            /\ Regranting(h) => \E u \in Users : HasSuper(u)'
  PROVE  SuperSafe'
  <1>1. TakersLeaveOne'
    BY DEF SuperSafe, TakersLeaveOne, OthersStay, Taking, TakesSuper, At
  <1>2. UngrantersLeaveOne'
    BY DEF SuperSafe, UngrantersLeaveOne, OthersStay, Ungranting, At
  <1>3. SomeoneHasSuper'
    BY DEF SuperSafe, SomeoneHasSuper, OthersStay, Regranting, At
  <1>4. QED
    BY <1>1, <1>2, <1>3 DEF SuperSafe

(* Steps that leave roles alone                                             *)
LEMMA SameRolesStay ==
  ASSUME SuperInv, UNCHANGED <<roles, userRoles, slack>>, NEW places, Keep(places), places \cap RolePlaces = {}
  PROVE  SuperInv'
  <1>1. RolesTyped' /\ (OneSuperRole => OneSuperRole')
    BY DEF SuperInv, RolesTyped, OneSuperRole, Exists
  <1>2. CASE UNCHANGED handler
    BY <1>1, <1>2 DEF SuperInv, SuperSafe, TakersLeaveOne, UngrantersLeaveOne, SomeoneHasSuper, Taking, Ungranting,
       Regranting, TakesSuper, HasSuper, At
  <1>3. ASSUME SuperSafe, NEW h \in Handlers, handler'[h] # handler[h] PROVE SuperSafe'
    <2>1. OthersStay(h) /\ handler[h].at \notin RolePlaces /\ handler'[h].at \notin RolePlaces
      BY <1>3 DEF Keep
    <2>2. ~Taking(h)' /\ ~Ungranting(h)' /\ ~Regranting(h)
      BY <2>1 DEF Taking, Ungranting, Regranting, RolePlaces, At
    <2>3. QED
      BY <1>1, <1>3, <2>1, <2>2, SuperStays DEF HasSuper, SuperSafe
  <1>4. ASSUME SuperSafe, \A h \in Handlers : handler'[h] = handler[h] PROVE SuperSafe'
    BY <1>1, <1>4 DEF SuperSafe, TakersLeaveOne, UngrantersLeaveOne, SomeoneHasSuper, Taking, Ungranting,
       Regranting, TakesSuper, HasSuper, At
  <1>5. QED
    BY <1>1, <1>3, <1>4 DEF SuperInv

(* Roles are given.                                                         *)
LEMMA GrantsKeepSuper ==
  ASSUME IInv, SoundInv, SuperInv, NEW h \in Handlers,
         \/ \E u \in Users, r \in Roles : AssignRoleToUser(h, u, r)
         \/ EnrolInvited(h) \/ GrantRole(h)
  PROVE  SuperInv'
  <1>1. Holds(handler[h]) /\ HandlersAreRecords
    BY DEF SoundInv, RequestsHold, IInv
  <1>2. UNCHANGED <<roles, slack>>
    BY DEF AssignRoleToUser, EnrolInvited, GrantRole
  <1>3. OneSuperRole => OneSuperRole'
    BY <1>2 DEF OneSuperRole, Exists
  <1>4. ASSUME NEW u \in Users, NEW r \in Roles, userRoles' = userRoles \/ userRoles' = userRoles \cup {<<u, r>>}
        PROVE  RolesTyped' /\ \A v \in Users : HasSuper(v) => HasSuper(v)'
    BY <1>2, <1>4 DEF SuperInv, RolesTyped, HasSuper
  <1>5. CASE \E u \in Users, r \in Roles : AssignRoleToUser(h, u, r)
    <2>1. PICK u \in Users, r \in Roles : userRoles' = userRoles \cup {<<u, r>>} /\ UNCHANGED handler
      BY <1>5 DEF AssignRoleToUser
    <2>2. OthersStay(h)
      BY <2>1 DEF OthersStay
    <2>3. QED
      BY <1>2, <1>3, <1>4, <2>1, <2>2, SuperStays DEF SuperInv, SuperSafe
  <1>6. CASE EnrolInvited(h)
    <2>1. At(h, "enrol") /\ (Goto(h, "accepted") \/ Finish(h)) /\ UNCHANGED invitation
      BY <1>6 DEF EnrolInvited, SameInvitations
    <2>2. OthersStay(h) /\ handler'[h].at \in {"accepted", "idle"}
      BY <1>1, <2>1, Goes, Finishes, IdleIsARecord
    <2>3. ~Regranting(h) /\ ~Taking(h)' /\ ~Ungranting(h)'
      BY <2>1, <2>2 DEF Regranting, Taking, Ungranting, At
    <2>4. handler[h].user \in Users
      BY <1>1, <2>1 DEF At, Holds, HoldsUser, UserPlaces, Present
    <2>5. userRoles' = userRoles \/ \E r \in Roles : userRoles' = userRoles \cup {<<handler[h].user, r>>}
      <3>1. PICK i \in Invitations : i = handler[h].item /\ invitation[i].status # "none"
        BY <2>1 DEF At, InvitePlaces, IInv, InvitationInv, HoldersFoundItPending
      <3>2. invitation[i].role \in Roles
        BY <3>1 DEF SoundInv, InvitationsSound
      <3>3. QED
        BY <1>6, <3>1, <3>2 DEF EnrolInvited
    <2>6. RolesTyped' /\ \A v \in Users : HasSuper(v) => HasSuper(v)'
      BY <1>2, <2>4, <2>5 DEF SuperInv, RolesTyped, HasSuper
    <2>7. QED
      BY <1>2, <1>3, <2>2, <2>3, <2>6, SuperStays DEF SuperInv, SuperSafe
  <1>7. CASE GrantRole(h)
    <2>1. At(h, "regrant") /\ Finish(h)
      BY <1>7 DEF GrantRole
    <2>2. OthersStay(h) /\ handler'[h].at = "idle"
      BY <1>1, <2>1, Finishes, IdleIsARecord
    <2>3. PICK u \in Users, r \in Roles : u = handler[h].user /\ r = handler[h].item
      <3>1. handler[h].at = "regrant" /\ "regrant" \in RolePlaces
        BY <2>1 DEF At, RolePlaces
      <3>2. handler[h].user \in Users /\ handler[h].item \in Roles
        BY <1>1, <3>1 DEF Holds, HoldsUser, HoldsItem
      <3>3. QED
        BY <3>2
    <2>4. userRoles' = IF Exists(r) THEN userRoles \cup {<<u, r>>} ELSE userRoles
      BY <1>7, <2>3 DEF GrantRole
    <2>5. OneSuperRole /\ Regranting(h) => HasSuper(u)'
      BY <2>3, <2>4 DEF OneSuperRole, Regranting, HasSuper
    <2>6. ~Taking(h)' /\ ~Ungranting(h)'
      BY <2>2 DEF Taking, Ungranting, At
    <2>7. QED
      BY <1>2, <1>3, <1>4, <2>2, <2>4, <2>5, <2>6, SuperStays DEF SuperInv, SuperSafe
  <1>8. QED
    BY <1>5, <1>6, <1>7

(* A role is to be taken, of one who is not the last.                       *)
LEMMA TakingKeepsSuper ==
  ASSUME HandlersAreRecords, SuperInv, NEW h \in Handlers, NEW u \in Users, NEW r \in Roles,
         \/ RemoveRoleFromUser(h, u, r)
         \/ \E actor \in Users : AssignExistingUserAdmin(h, actor, u, r)
  PROVE  SuperInv'
  <1>1. PICK place \in {"remove", "reassign"} : Wait(h, [Idle EXCEPT !.at = place, !.user = u, !.item = r])
    BY DEF RemoveRoleFromUser, AssignExistingUserAdmin
  <1> DEFINE x == [Idle EXCEPT !.at = place, !.user = u, !.item = r]
  <1>2. DOMAIN x = Fields /\ x.at = place /\ x.user = u /\ x.item = r
    BY DEF Idle, Fields
  <1> HIDE DEF x
  <1>3. handler'[h] = x /\ OthersStay(h)
    BY <1>1, <1>2, Waits DEF x
  <1>4. UNCHANGED <<roles, userRoles>> /\ slack' = (slack \/ Overlap(h))
    BY DEF RemoveRoleFromUser, AssignExistingUserAdmin
  <1>5. RolesTyped'
    BY <1>4 DEF SuperInv, RolesTyped
  <1>6. SUFFICES ASSUME ~slack, ~Overlap(h), SuperSafe PROVE SuperSafe'
    BY <1>4, <1>5 DEF SuperInv
  <1>7. \A g \in Handlers \ {h} : ~Taking(g) /\ ~Taking(g)' /\ handler'[g] = handler[g]
    BY <1>3, <1>6 DEF Overlap, Taking, OthersStay, At
  <1>8. handler[h].at = "idle"
    BY OthersStayThen DEF RemoveRoleFromUser, AssignExistingUserAdmin
  <1>9. \E v \in Users : HasSuper(v)
    BY <1>6, <1>7, <1>8 DEF SuperSafe, SomeoneHasSuper, Regranting, Taking, At
  <1>10. SuperRoles = {SuperRole}
    BY <1>6, SuperRolesIs DEF SuperSafe
  <1>11. TakesSuper(h)' => \E v \in Users : v # u /\ HasSuper(v)
    <2>1. CASE RemoveRoleFromUser(h, u, r)
      <3>1. x.at = "remove" /\ <<u, r>> \in userRoles /\ (r \in SuperRoles => GuardLastSuperAdmin(u))
        <4>1. Wait(h, [Idle EXCEPT !.at = "remove", !.user = u, !.item = r])
          BY <2>1 DEF RemoveRoleFromUser
        <4>2. DOMAIN [Idle EXCEPT !.at = "remove", !.user = u, !.item = r] = Fields
              /\ [Idle EXCEPT !.at = "remove", !.user = u, !.item = r].at = "remove"
          BY DEF Idle, Fields
        <4>3. QED
          BY <1>3, <2>1, <4>1, <4>2, Waits DEF RemoveRoleFromUser
      <3>2. r = SuperRole => ~(Cardinality(Holders(SuperRole)) <= 1)
        BY <1>10, <3>1 DEF GuardLastSuperAdmin, Holders
      <3>3. r = SuperRole => Cardinality(Holders(SuperRole)) > 1
        BY <3>2, HoldersAreCounted
      <3>4. r = SuperRole => \E v \in Users : v # u /\ HasSuper(v)
        BY <3>3, AnotherSuper
      <3>5. QED
        BY <1>2, <1>3, <3>1, <3>4 DEF TakesSuper, At
    <2>2. ASSUME NEW actor \in Users, AssignExistingUserAdmin(h, actor, u, r)
          PROVE  TakesSuper(h)' => \E v \in Users : v # u /\ HasSuper(v)
      <3>1. x.at = "reassign" /\ (u \in SuperAdmins /\ r \notin SuperRoles =>
                                    \A s \in SuperRoles : Cardinality(Holders(s)) > 1)
        <4>1. Wait(h, [Idle EXCEPT !.at = "reassign", !.user = u, !.item = r])
          BY <2>2 DEF AssignExistingUserAdmin
        <4>2. DOMAIN [Idle EXCEPT !.at = "reassign", !.user = u, !.item = r] = Fields
              /\ [Idle EXCEPT !.at = "reassign", !.user = u, !.item = r].at = "reassign"
          BY DEF Idle, Fields
        <4>3. QED
          BY <1>3, <2>2, <4>1, <4>2, Waits DEF AssignExistingUserAdmin
      <3>2. HasSuper(u) /\ r # SuperRole => \E v \in Users : v # u /\ HasSuper(v)
        BY <1>10, <3>1, AnotherSuper DEF SuperAdmins, HasSuper
      <3>3. QED
        BY <1>2, <1>3, <1>9, <3>1, <3>2 DEF TakesSuper, At
    <2>3. QED
      BY <2>1, <2>2
  <1>12. TakersLeaveOne'
    <2>1. \A g, k \in Handlers : Taking(g)' /\ Taking(k)' => g = k
      BY <1>7
    <2>2. \A g \in Handlers : TakesSuper(g)' => g = h
      BY <1>7 DEF TakesSuper, Taking, At
    <2>3. TakesSuper(h)' => \E v \in Users : v # handler'[h].user /\ HasSuper(v)'
      BY <1>2, <1>3, <1>4, <1>11 DEF HasSuper
    <2>4. QED
      BY <2>1, <2>2, <2>3 DEF TakersLeaveOne
  <1>13. UngrantersLeaveOne'
    BY <1>1, <1>2, <1>3, <1>4, <1>6 DEF SuperSafe, UngrantersLeaveOne, Ungranting, OthersStay, At
  <1>14. QED
    BY <1>4, <1>6, <1>9, <1>12, <1>13 DEF SuperSafe, OneSuperRole, Exists, SomeoneHasSuper, HasSuper

(* The role is taken from a user: another has it.                           *)
LEMMA TakenKeepsSuper ==
  ASSUME HandlersAreRecords, SoundInv, SuperInv, NEW h \in Handlers, DeleteUserRole(h) \/ DeleteSystemRoles(h)
  PROVE  SuperInv'
  <1>1. UNCHANGED <<roles, slack>>
    BY DEF DeleteUserRole, DeleteSystemRoles
  <1>2. (At(h, "remove") /\ Finish(h)) \/ (At(h, "reassign") /\ Goto(h, "regrant"))
    BY DEF DeleteUserRole, DeleteSystemRoles
  <1>3. /\ OthersStay(h)
        /\ \/ handler[h].at = "remove" /\ handler'[h].at = "idle"
           \/ handler[h].at = "reassign" /\ handler'[h].at = "regrant" /\ handler'[h].item = handler[h].item
    <2>1. CASE At(h, "remove") /\ Finish(h)
      BY <2>1, Finishes, IdleIsARecord DEF At
    <2>2. CASE At(h, "reassign") /\ Goto(h, "regrant")
      BY <2>2, Goes DEF At, Fields
    <2>3. QED
      BY <1>2, <2>1, <2>2
  <1>4. userRoles' \subseteq userRoles
    BY DEF DeleteUserRole, DeleteSystemRoles
  <1>5. RolesTyped'
    BY <1>1, <1>4 DEF SuperInv, RolesTyped
  <1>6. SUFFICES ASSUME SuperSafe PROVE SuperSafe'
    BY <1>1, <1>5 DEF SuperInv
  <1>7. \A v \in Users : HasSuper(v) /\ v # handler[h].user => HasSuper(v)'
    BY DEF DeleteUserRole, DeleteSystemRoles, HasSuper
  <1>8. SuperRoles = {SuperRole} /\ OneSuperRole'
    BY <1>1, <1>6, SuperRolesIs DEF SuperSafe, OneSuperRole, Exists
  <1>9. \A g \in Handlers \ {h} : ~Taking(g) /\ ~Taking(g)'
    BY <1>3, <1>6 DEF SuperSafe, TakersLeaveOne, Taking, OthersStay
  <1>10. TakersLeaveOne'
    BY <1>3, <1>9 DEF TakersLeaveOne, Taking, TakesSuper, At
  <1>11. UngrantersLeaveOne'
    BY <1>1, <1>3, <1>6 DEF SuperSafe, UngrantersLeaveOne, Ungranting, OthersStay, At
  <1>12. SomeoneHasSuper'
    <2>1. CASE TakesSuper(h)
      BY <1>6, <1>7, <2>1 DEF SuperSafe, TakersLeaveOne, SomeoneHasSuper
    <2>2. CASE handler[h].at = "remove" /\ handler[h].item # SuperRole
      <3>1. At(h, "remove")
        BY <2>2 DEF At
      <3>2. \A v \in Users : HasSuper(v) => HasSuper(v)'
        BY <2>2, <3>1 DEF DeleteUserRole, DeleteSystemRoles, HasSuper, At
      <3>3. \E v \in Users : HasSuper(v)
        BY <1>6, <1>9, <3>1 DEF SuperSafe, SomeoneHasSuper, Regranting, Taking, At
      <3>4. QED
        BY <3>2, <3>3 DEF SomeoneHasSuper
    <2>3. CASE handler[h].at = "reassign" /\ handler[h].item = SuperRole
      BY <1>3, <2>3 DEF SomeoneHasSuper, Regranting, At
    <2>4. QED
      BY <1>3, <2>1, <2>2, <2>3 DEF TakesSuper, At
  <1>13. QED
    BY <1>1, <1>6, <1>8, <1>10, <1>11, <1>12 DEF SuperSafe

(* A role's row is written.                                                 *)
LEMMA RoleWritten ==
  ASSUME SuperInv, NEW h \in Handlers, OthersStay(h), NEW r \in Roles, NEW row \in RoleRow,
         roles' = [roles EXCEPT ![r] = row], slack' \in BOOLEAN, slack => slack', userRoles' \subseteq userRoles,
         ~slack' /\ SuperSafe =>
           /\ row.super <=> r = SuperRole
           /\ r = SuperRole => /\ row.state = "there" /\ row.granted # {}
                               /\ roles[r].granted \subseteq row.granted \/ \A g \in Handlers : ~Ungranting(g)'
           /\ \A u \in Users : HasSuper(u) => HasSuper(u)'
           /\ handler'[h] = handler[h] \/ (~Taking(h)' /\ ~Ungranting(h)' /\ ~Regranting(h))
  PROVE  SuperInv'
  <1>1. RolesTyped'
    BY DEF SuperInv, RolesTyped
  <1>2. SUFFICES ASSUME ~slack', SuperSafe PROVE SuperSafe'
    BY <1>1 DEF SuperInv
  <1>3. roles'[r] = row /\ \A s \in Roles \ {r} : roles'[s] = roles[s]
    BY DEF SuperInv, RolesTyped
  <1>4. SuperRole \in Roles
    BY StartAssumption
  <1>5. OneSuperRole' /\ roles'[SuperRole].granted # {}
    <2>1. roles'[SuperRole].state = "there" /\ roles'[SuperRole].granted # {}
      <3>1. CASE r = SuperRole
        BY <1>2, <1>3, <3>1
      <3>2. CASE r # SuperRole
        BY <1>2, <1>3, <1>4, <3>2 DEF SuperSafe, OneSuperRole, Exists
      <3>3. QED
        BY <3>1, <3>2
    <2>2. \A s \in Roles : roles'[s].super <=> s = SuperRole
      BY <1>2, <1>3 DEF SuperSafe, OneSuperRole
    <2>3. QED
      BY <2>1, <2>2 DEF OneSuperRole, Exists
  <1>6. TakersLeaveOne'
    BY <1>2 DEF SuperSafe, TakersLeaveOne, OthersStay, Taking, TakesSuper, At
  <1>7. SomeoneHasSuper'
    BY <1>2 DEF SuperSafe, SomeoneHasSuper, OthersStay, Regranting, At
  <1>8. UngrantersLeaveOne'
    <2>1. CASE \A g \in Handlers : ~Ungranting(g)'
      BY <2>1 DEF UngrantersLeaveOne
    <2>2. CASE roles[SuperRole].granted \subseteq roles'[SuperRole].granted
      <3>1. \A g \in Handlers : Ungranting(g)' => Ungranting(g)
        BY <1>2 DEF OthersStay, Ungranting, At
      <3>2. QED
        BY <1>2, <2>2, <3>1 DEF SuperSafe, UngrantersLeaveOne
    <2>3. QED
      BY <1>2, <1>3, <1>4, <2>1, <2>2
  <1>9. QED
    BY <1>5, <1>6, <1>7, <1>8 DEF SuperSafe

(* Roles are made, deleted and renamed.                                     *)
LEMMA RolesChange ==
  ASSUME HandlersAreRecords, SoundInv, SuperInv, NEW h \in Handlers,
         \/ \E r \in Roles, granted \in SUBSET Permissions : CreateRole(h, r, granted)
         \/ \E r \in Roles, super \in BOOLEAN : RenameRole(h, r, super)
         \/ \E r \in Roles : DeleteRole(h, r)
         \/ CommitDeleteRole(h)
  PROVE  SuperInv'
  <1>1. ASSUME NEW r \in Roles, NEW granted \in SUBSET Permissions, CreateRole(h, r, granted) PROVE SuperInv'
    <2> DEFINE row == [state |-> "there", super |-> FALSE, granted |-> granted]
    <2>1. /\ roles' = [roles EXCEPT ![r] = row] /\ roles[r].state = "none"
          /\ UNCHANGED <<handler, userRoles, slack>>
      BY <1>1 DEF CreateRole
    <2>2. row \in RoleRow /\ ~row.super
      BY DEF RoleRow
    <2> HIDE DEF row
    <2>3. SuperSafe => r # SuperRole
      BY <2>1 DEF SuperSafe, OneSuperRole, Exists
    <2>4. OthersStay(h) /\ slack \in BOOLEAN
      BY <2>1 DEF OthersStay, SuperInv, RolesTyped
    <2>5. QED
      BY <2>1, <2>2, <2>3, <2>4, RoleWritten DEF HasSuper
  <1>2. ASSUME NEW r \in Roles, NEW super \in BOOLEAN, RenameRole(h, r, super) PROVE SuperInv'
    <2> DEFINE row == [roles[r] EXCEPT !.super = super]
    <2>1. roles' = [roles EXCEPT ![r] = row] /\ slack' = TRUE /\ UNCHANGED <<handler, userRoles>>
      BY <1>2 DEF RenameRole
    <2>2. row \in RoleRow
      BY DEF SuperInv, RolesTyped, RoleRow
    <2> HIDE DEF row
    <2>3. RolesTyped'
      BY <2>1, <2>2 DEF SuperInv, RolesTyped
    <2>4. QED
      BY <2>1, <2>3 DEF SuperInv
  <1>3. ASSUME NEW r \in Roles, DeleteRole(h, r) PROVE SuperInv'
    <2> DEFINE x == [Idle EXCEPT !.at = "delete", !.item = r]
    <2>1. Wait(h, x) /\ UNCHANGED <<roles, userRoles, slack>>
      BY <1>3 DEF DeleteRole, SameAdmin, adminVars
    <2>2. DOMAIN x = Fields /\ x.at = "delete" /\ handler[h].at = "idle"
      BY <1>3, OthersStayThen DEF DeleteRole, Idle, Fields
    <2> HIDE DEF x
    <2>3. OthersStay(h) /\ ~Taking(h)' /\ ~Ungranting(h)' /\ ~Regranting(h)
      BY <2>1, <2>2, Waits DEF Taking, Ungranting, Regranting, At
    <2>4. RolesTyped' /\ (SuperSafe => OneSuperRole')
      BY <2>1 DEF SuperInv, RolesTyped, SuperSafe, OneSuperRole, Exists
    <2>5. QED
      BY <2>1, <2>3, <2>4, SuperStays DEF SuperInv, HasSuper
  <1>4. CASE CommitDeleteRole(h)
    <2>1. At(h, "delete") /\ Finish(h)
      BY <1>4 DEF CommitDeleteRole
    <2>2. PICK r \in Roles : r = handler[h].item
      BY <2>1 DEF SoundInv, RequestsHold, Holds, HoldsItem, RolePlaces, At
    <2> DEFINE row == [state |-> "deleted", super |-> FALSE, granted |-> {}]
    <2>3. /\ roles' = [roles EXCEPT ![r] = row] /\ slack' = (slack \/ r \in SuperRoles)
          /\ userRoles' = userRoles \ (Users \X {r})
      BY <1>4, <2>2 DEF CommitDeleteRole
    <2>4. row \in RoleRow /\ ~row.super
      BY DEF RoleRow
    <2> HIDE DEF row
    <2>5. SuperSafe /\ ~slack' => r # SuperRole
      BY <2>3, SuperRolesIs DEF SuperSafe
    <2>6. r # SuperRole => \A u \in Users : HasSuper(u) => HasSuper(u)'
      BY <2>3 DEF HasSuper
    <2>7. OthersStay(h) /\ ~Taking(h)' /\ ~Ungranting(h)' /\ ~Regranting(h)
      BY <2>1, Finishes, IdleIsARecord DEF Taking, Ungranting, Regranting, At
    <2>8. slack' \in BOOLEAN /\ (slack => slack')
      BY <2>3 DEF SuperInv, RolesTyped
    <2>9. QED
      BY <2>3, <2>4, <2>5, <2>6, <2>7, <2>8, RoleWritten
  <1>5. QED
    BY <1>1, <1>2, <1>3, <1>4

(* Permissions are given and taken.                                         *)
LEMMA PermissionsChange ==
  ASSUME HandlersAreRecords, SoundInv, SuperInv, NEW h \in Handlers,
         \/ \E r \in Roles, p \in Permissions : AddPermission(h, r, p)
         \/ \E r \in Roles : RemovePermissionFromRole(h, r)
         \/ \E p \in Permissions : DeletePermission(h, p)
         \/ \E r \in Roles, granted \in SUBSET Permissions, patch \in BOOLEAN : ReplacePermissions(h, r, granted, patch)
  PROVE  SuperInv'
  <1>0. ASSUME NEW r \in Roles, NEW granted \in SUBSET Permissions, NEW row, row = [roles[r] EXCEPT !.granted = granted]
        PROVE  /\ row \in RoleRow /\ row.granted = granted
               /\ row.super = roles[r].super /\ row.state = roles[r].state
    BY <1>0 DEF SuperInv, RolesTyped, RoleRow
  <1>1. ASSUME SuperSafe, NEW r \in Roles, NEW row, row.super = roles[r].super, row.state = roles[r].state
        PROVE  (row.super <=> r = SuperRole) /\ (r = SuperRole => row.state = "there")
    BY <1>1, Zenon DEF SuperSafe, OneSuperRole, Exists
  <1>2. \A r \in Roles : roles[r].granted \subseteq Permissions
    BY DEF SuperInv, RolesTyped, RoleRow
  <1>3. ASSUME NEW r \in Roles, NEW p \in Permissions, AddPermission(h, r, p) PROVE SuperInv'
    <2>1. PICK granted \in SUBSET Permissions : granted = roles[r].granted \cup {p}
      BY <1>2
    <2> DEFINE row == [roles[r] EXCEPT !.granted = granted]
    <2>2. roles' = [roles EXCEPT ![r] = row] /\ UNCHANGED <<handler, userRoles, slack>>
      BY <1>3, <2>1 DEF AddPermission
    <2>3. /\ row \in RoleRow /\ row.granted = granted
          /\ row.super = roles[r].super /\ row.state = roles[r].state
      BY <1>0
    <2> HIDE DEF row
    <2>4. OthersStay(h) /\ slack \in BOOLEAN
      BY <2>2 DEF OthersStay, SuperInv, RolesTyped
    <2>5. granted # {} /\ roles[r].granted \subseteq granted
      BY <2>1
    <2>6. SuperSafe => (row.super <=> r = SuperRole) /\ (r = SuperRole => row.state = "there")
      BY <1>1, <2>3
    <2>7. QED
      BY <2>6, <2>2, <2>3, <2>4, <2>5, RoleWritten DEF HasSuper
  <1>4. ASSUME NEW r \in Roles, RemovePermissionFromRole(h, r) PROVE SuperInv'
    <2> DEFINE x == [Idle EXCEPT !.at = "ungrant", !.item = r]
    <2>1. Wait(h, x) /\ UNCHANGED <<roles, userRoles>> /\ slack' = (slack \/ OthersHold(h, r))
      BY <1>4 DEF RemovePermissionFromRole
    <2>2. DOMAIN x = Fields /\ x.at = "ungrant" /\ x.item = r /\ handler[h].at = "idle"
      BY <1>4, OthersStayThen DEF RemovePermissionFromRole, Idle, Fields
    <2> HIDE DEF x
    <2>3. OthersStay(h) /\ handler'[h] = x
      BY <2>1, <2>2, Waits
    <2>4. RolesTyped'
      BY <2>1 DEF SuperInv, RolesTyped
    <2>5. SUFFICES ASSUME SuperSafe, ~OthersHold(h, r) PROVE SuperSafe'
      BY <2>1, <2>4 DEF SuperInv
    <2>6. OneSuperRole' /\ TakersLeaveOne' /\ SomeoneHasSuper'
      BY <2>1, <2>2, <2>3, <2>5 DEF SuperSafe, OneSuperRole, Exists, TakersLeaveOne, SomeoneHasSuper, Taking,
         TakesSuper, Regranting, OthersStay, HasSuper, At
    <2>7. r = SuperRole => \A p \in Permissions : roles[SuperRole].granted \ {p} # {}
      <3>1. SUFFICES ASSUME r = SuperRole PROVE \A p \in Permissions : roles[r].granted \ {p} # {}
        OBVIOUS
      <3>2. Cardinality(roles[r].granted) > 1
        BY <1>4, <2>5, <3>1, SuperRolesIs DEF RemovePermissionFromRole, SuperSafe
      <3>3. IsFiniteSet(roles[r].granted)
        BY <1>2, AdminAssumption, FS_Subset
      <3>4. QED
        BY <3>2, <3>3, AnotherOne
    <2>8. \A g \in Handlers : Ungranting(g)' => IF g = h THEN r = SuperRole ELSE Ungranting(g) /\ r # SuperRole
      BY <2>2, <2>3, <2>5 DEF Ungranting, OthersStay, OthersHold, At
    <2>9. UngrantersLeaveOne'
      BY <2>1, <2>5, <2>7, <2>8 DEF SuperSafe, UngrantersLeaveOne
    <2>10. QED
      BY <2>1, <2>5, <2>6, <2>9 DEF SuperSafe
  <1>5. ASSUME NEW p \in Permissions, DeletePermission(h, p) PROVE SuperInv'
    <2>1. At(h, "ungrant") /\ Finish(h) /\ UNCHANGED <<userRoles, slack>>
      BY <1>5 DEF DeletePermission
    <2>2. PICK r \in Roles : r = handler[h].item
      BY <2>1 DEF SoundInv, RequestsHold, Holds, HoldsItem, RolePlaces, At
    <2>3. PICK granted \in SUBSET Permissions : granted = roles[r].granted \ {p}
      BY <1>2
    <2> DEFINE row == [roles[r] EXCEPT !.granted = granted]
    <2>4. roles' = [roles EXCEPT ![r] = row]
      BY <1>5, <2>2, <2>3 DEF DeletePermission
    <2>5. /\ row \in RoleRow /\ row.granted = granted
          /\ row.super = roles[r].super /\ row.state = roles[r].state
      BY <1>0
    <2> HIDE DEF row
    <2>6. OthersStay(h) /\ ~Taking(h)' /\ ~Ungranting(h)' /\ ~Regranting(h)
      BY <2>1, Finishes, IdleIsARecord DEF Taking, Ungranting, Regranting, At
    <2>7. SuperSafe /\ r = SuperRole => granted # {} /\ \A g \in Handlers : ~Ungranting(g)'
      <3>1. SUFFICES ASSUME SuperSafe, r = SuperRole
                     PROVE  granted # {} /\ \A g \in Handlers \ {h} : ~Ungranting(g)
        BY <2>6 DEF OthersStay, Ungranting, At
      <3>2. Ungranting(h)
        BY <2>1, <2>2, <3>1 DEF Ungranting
      <3>3. QED
        BY <2>3, <3>1, <3>2 DEF SuperSafe, UngrantersLeaveOne
    <2>8. slack' \in BOOLEAN /\ (slack => slack') /\ userRoles' \subseteq userRoles
          /\ \A u \in Users : HasSuper(u) => HasSuper(u)'
      BY <2>1 DEF SuperInv, RolesTyped, HasSuper
    <2>9. SuperSafe => (row.super <=> r = SuperRole) /\ (r = SuperRole => row.state = "there")
      BY <1>1, <2>5
    <2>10. QED
      BY <2>9, <2>4, <2>5, <2>6, <2>7, <2>8, RoleWritten
  <1>6. ASSUME NEW r \in Roles, NEW granted \in SUBSET Permissions, NEW patch \in BOOLEAN,
               ReplacePermissions(h, r, granted, patch)
        PROVE  SuperInv'
    <2> DEFINE row == [roles[r] EXCEPT !.granted = granted]
    <2>1. /\ roles' = [roles EXCEPT ![r] = row] /\ UNCHANGED <<handler, userRoles>>
          /\ slack' = (slack \/ (granted = {} /\ r \in SuperRoles) \/ OthersHold(h, r))
      BY <1>6 DEF ReplacePermissions
    <2>2. /\ row \in RoleRow /\ row.granted = granted
          /\ row.super = roles[r].super /\ row.state = roles[r].state
      BY <1>0
    <2> HIDE DEF row
    <2>3. OthersStay(h) /\ handler[h].at = "idle"
      BY <1>6, <2>1, OthersStayThen DEF ReplacePermissions
    <2>4. SuperSafe /\ ~slack' /\ r = SuperRole => granted # {} /\ \A g \in Handlers : ~Ungranting(g)'
      BY <2>1, <2>3, SuperRolesIs DEF SuperSafe, OthersHold, Ungranting, At
    <2>5. slack' \in BOOLEAN /\ (slack => slack') /\ userRoles' \subseteq userRoles
          /\ (\A u \in Users : HasSuper(u) => HasSuper(u)') /\ handler'[h] = handler[h]
      BY <2>1 DEF SuperInv, RolesTyped, HasSuper
    <2>6. SuperSafe => (row.super <=> r = SuperRole) /\ (r = SuperRole => row.state = "there")
      BY <1>1, <2>2
    <2>7. QED
      BY <2>6, <2>1, <2>2, <2>3, <2>4, <2>5, RoleWritten
  <1>7. QED
    BY <1>3, <1>4, <1>5, <1>6

(* What has to do with statuses and invitations goes to other places.       *)
OtherAdmins(h) ==
  \/ \E u \in Users, s \in Statuses : CloseUser(h, u, s) \/ ReopenUser(h, u, s)
  \/ WriteStatus(h)
  \/ \E i \in Invitations :
       \/ \E a \in Emails, r \in Roles : CreateAdminInvitation(h, i, a, r)
       \/ \E place \in {"resend", "revoke"} : TakeInvitation(h, i, place)
       \/ AcceptAdminInvitation(h, i)
  \/ ResendInvitation(h) \/ RevokeInvitation(h) \/ FindInvited(h) \/ WriteInvited(h) \/ MarkAccepted(h)

LEMMA OtherAdminsGoOutside ==
  ASSUME HandlersAreRecords, NEW h \in Handlers, OtherAdmins(h)
  PROVE  OthersStay(h) /\ handler[h].at \notin RolePlaces /\ handler'[h].at \notin RolePlaces
  <1> USE DEF RolePlaces, Fields
  <1>1. DOMAIN handler[h] = Fields
    BY DEF HandlersAreRecords
  <1>2. ASSUME NEW x, Wait(h, x), x.at \notin RolePlaces, handler[h].at \notin RolePlaces
        PROVE  OthersStay(h) /\ handler[h].at \notin RolePlaces /\ handler'[h].at \notin RolePlaces
    BY <1>2 DEF HandlersAreRecords, OthersStay, Wait
  <1>3. ASSUME NEW u \in Users, NEW s \in Statuses, CloseUser(h, u, s)
        PROVE  OthersStay(h) /\ handler[h].at \notin RolePlaces /\ handler'[h].at \notin RolePlaces
    <2> DEFINE x == [Idle EXCEPT !.at = s, !.user = u]
    <2>1. Wait(h, x) /\ s \in {"SUSPENDED", "DELETED"} /\ x.at = s /\ handler[h].at = "idle"
      BY <1>3, OthersStayThen DEF CloseUser, Idle
    <2> HIDE DEF x
    <2>2. QED
      BY <1>2, <2>1
  <1>4. ASSUME NEW u \in Users, NEW s \in Statuses, ReopenUser(h, u, s)
        PROVE  OthersStay(h) /\ handler[h].at \notin RolePlaces /\ handler'[h].at \notin RolePlaces
    BY <1>4, OthersStayThen DEF ReopenUser
  <1>5. CASE WriteStatus(h) \/ ResendInvitation(h) \/ RevokeInvitation(h) \/ MarkAccepted(h)
    BY <1>5, Finishes, IdleIsARecord DEF WriteStatus, ResendInvitation, RevokeInvitation, MarkAccepted, At
  <1>6. ASSUME NEW i \in Invitations, NEW a \in Emails, NEW r \in Roles, CreateAdminInvitation(h, i, a, r)
        PROVE  OthersStay(h) /\ handler[h].at \notin RolePlaces /\ handler'[h].at \notin RolePlaces
    BY <1>6, OthersStayThen DEF CreateAdminInvitation
  <1>7. ASSUME NEW i \in Invitations, NEW place \in {"resend", "revoke"}, TakeInvitation(h, i, place)
        PROVE  OthersStay(h) /\ handler[h].at \notin RolePlaces /\ handler'[h].at \notin RolePlaces
    <2> DEFINE x == [Idle EXCEPT !.at = place, !.item = i]
    <2>1. Wait(h, x) /\ x.at = place /\ handler[h].at = "idle"
      BY <1>7, OthersStayThen DEF TakeInvitation, Idle
    <2> HIDE DEF x
    <2>2. QED
      BY <1>2, <2>1
  <1>8. ASSUME NEW i \in Invitations, AcceptAdminInvitation(h, i)
        PROVE  OthersStay(h) /\ handler[h].at \notin RolePlaces /\ handler'[h].at \notin RolePlaces
    <2> DEFINE x == [Idle EXCEPT !.at = "invited", !.item = i, !.to = invitation[i].to,
                                 !.seen = IF Exists(invitation[i].role) THEN 1 ELSE 0]
    <2>1. Wait(h, x) /\ x.at = "invited" /\ handler[h].at = "idle"
      BY <1>8, OthersStayThen DEF AcceptAdminInvitation, Idle
    <2> HIDE DEF x
    <2>2. QED
      BY <1>2, <2>1
  <1>9. CASE FindInvited(h)
    <2> DEFINE x == [handler[h] EXCEPT !.at = "account", !.user = UserOf(handler[h].to)]
    <2>1. Wait(h, x) /\ x.at = "account" /\ handler[h].at = "invited"
      BY <1>1, <1>9 DEF FindInvited, At
    <2> HIDE DEF x
    <2>2. QED
      BY <1>2, <2>1
  <1>10. CASE WriteInvited(h)
    <2>1. /\ handler[h].at = "account"
          /\ Goto(h, "enrol") \/ Finish(h) \/ \E v \in Users : Wait(h, [handler[h] EXCEPT !.at = "enrol", !.user = v])
      BY <1>10 DEF WriteInvited, At
    <2>2. ASSUME NEW v \in Users, Wait(h, [handler[h] EXCEPT !.at = "enrol", !.user = v])
          PROVE  OthersStay(h) /\ handler[h].at \notin RolePlaces /\ handler'[h].at \notin RolePlaces
      <3> DEFINE x == [handler[h] EXCEPT !.at = "enrol", !.user = v]
      <3>1. Wait(h, x) /\ x.at = "enrol"
        BY <1>1, <2>2
      <3> HIDE DEF x
      <3>2. QED
        BY <1>2, <2>1, <3>1
    <2>3. ASSUME Goto(h, "enrol") \/ Finish(h)
          PROVE  OthersStay(h) /\ handler[h].at \notin RolePlaces /\ handler'[h].at \notin RolePlaces
      <3>1. OthersStay(h) /\ handler'[h].at \in {"enrol", "idle"}
        BY <2>3, Goes, Finishes, IdleIsARecord
      <3>2. QED
        BY <2>1, <3>1
    <2>4. QED
      BY <2>1, <2>2, <2>3
  <1>11. QED
    BY <1>3, <1>4, <1>5, <1>6, <1>7, <1>8, <1>9, <1>10 DEF OtherAdmins

LEMMA AdminsKeepSuper ==
  ASSUME IInv, SoundInv, SuperInv, AdminNext
  PROVE  SuperInv'
  <1>0. HandlersAreRecords
    BY DEF IInv
  <1>2. ASSUME NEW h \in Handlers, OtherAdmins(h) PROVE SuperInv'
    <2>1. UNCHANGED <<roles, userRoles, slack>>
      BY <1>2 DEF OtherAdmins, CloseUser, ReopenUser, WriteStatus, CreateAdminInvitation, TakeInvitation,
         AcceptAdminInvitation, ResendInvitation, RevokeInvitation, FindInvited, WriteInvited, MarkAccepted,
         SameAdmin, adminVars
    <2>2. OthersStay(h) /\ ~Taking(h)' /\ ~Ungranting(h)' /\ ~Regranting(h)
      BY <1>0, <1>2, OtherAdminsGoOutside DEF RolePlaces, Taking, Ungranting, Regranting, At
    <2>3. RolesTyped' /\ (SuperSafe => OneSuperRole')
      BY <2>1 DEF SuperInv, RolesTyped, SuperSafe, OneSuperRole, Exists
    <2>4. QED
      BY <2>1, <2>2, <2>3, SuperStays DEF SuperInv, HasSuper
  <1>3. ASSUME NEW i \in Invitations, InvitationExpires(i) PROVE SuperInv'
    <2>1. UNCHANGED <<roles, userRoles, slack, handler>>
      BY <1>3 DEF InvitationExpires
    <2>2. Keep({})
      BY <2>1 DEF Keep
    <2>3. QED
      BY <2>1, <2>2, SameRolesStay
  <1>4. ASSUME NEW h \in Handlers,
               \/ \E u \in Users, r \in Roles :
                    \/ AssignRoleToUser(h, u, r) \/ RemoveRoleFromUser(h, u, r)
                    \/ \E actor \in Users : AssignExistingUserAdmin(h, actor, u, r)
               \/ EnrolInvited(h) \/ GrantRole(h) \/ DeleteUserRole(h) \/ DeleteSystemRoles(h)
        PROVE  SuperInv'
    BY <1>0, <1>4, GrantsKeepSuper, TakingKeepsSuper, TakenKeepsSuper
  <1>5. ASSUME NEW h \in Handlers,
               \/ \E r \in Roles, granted \in SUBSET Permissions :
                    CreateRole(h, r, granted) \/ \E patch \in BOOLEAN : ReplacePermissions(h, r, granted, patch)
               \/ \E r \in Roles : DeleteRole(h, r) \/ RemovePermissionFromRole(h, r)
               \/ \E r \in Roles, super \in BOOLEAN : RenameRole(h, r, super)
               \/ \E r \in Roles, p \in Permissions : AddPermission(h, r, p)
               \/ (\E p \in Permissions : DeletePermission(h, p)) \/ CommitDeleteRole(h)
        PROVE  SuperInv'
    BY <1>0, <1>5, RolesChange, PermissionsChange
  <1>6. QED
    BY <1>2, <1>3, <1>4, <1>5 DEF AdminNext, OtherAdmins, Statuses

LEMMA ErasuresKeepSuper ==
  ASSUME IInv, SoundInv, SuperInv, NEW h \in Handlers,
         (\E u \in Users : EraseAccount(h, u)) \/ EraseLinks(h) \/ EraseRow(h) \/ Die(h)
  PROVE  SuperInv'
  <1>0. HandlersAreRecords
    BY DEF IInv
  <1>1. /\ OthersStay(h) /\ UNCHANGED roles /\ userRoles' \subseteq userRoles
        /\ slack' \in BOOLEAN /\ (slack => slack')
    BY OthersStayThen DEF EraseAccount, EraseLinks, EraseRow, Die, Crash, LeaveAdmin, SameOthers, SameAdmin, adminVars,
       SuperInv, RolesTyped
  <1>2. RolesTyped'
    BY <1>1 DEF SuperInv, RolesTyped
  <1>3. SUFFICES ASSUME ~slack', SuperSafe PROVE SuperSafe'
    BY <1>1, <1>2 DEF SuperInv
  <1>4. OneSuperRole' /\ SuperRoles = {SuperRole}
    BY <1>1, <1>3, SuperRolesIs DEF SuperSafe, OneSuperRole, Exists
  <1>5. \A v \in Users : HasSuper(v) => HasSuper(v)'
    <2>1. CASE EraseLinks(h)
      <3>1. userRoles' = userRoles \ ({handler[h].user} \X Roles) /\ handler[h].user \notin SuperAdmins
        BY <1>3, <2>1 DEF EraseLinks
      <3>2. \A v \in Users : HasSuper(v) => v # handler[h].user
        BY <1>4, <3>1 DEF SuperAdmins, HasSuper
      <3>3. QED
        BY <3>1, <3>2 DEF HasSuper
    <2>2. CASE (\E u \in Users : EraseAccount(h, u)) \/ EraseRow(h) \/ Die(h)
      BY <2>2 DEF EraseAccount, EraseRow, Die, SameOthers, SameAdmin, adminVars, HasSuper
    <2>3. QED
      BY <2>1, <2>2
  <1>6. ~Taking(h)' /\ ~Ungranting(h)' /\ ~Regranting(h)
    <2>1. handler'[h] = handler[h] \/ handler'[h].at \in ErasePlaces
      BY <1>0, ErasuresMove DEF Moves
    <2>2. handler[h].at \in ErasePlaces \/ Die(h)
      BY OthersStayThen DEF EraseAccount, EraseLinks, EraseRow, At, ErasePlaces
    <2>3. Die(h) => handler'[h].at = "idle" /\ ~Regranting(h)
      BY <1>0, <1>3, Finishes, IdleIsARecord DEF Die, Crash, LeaveAdmin, Regranting
    <2>4. QED
      BY <2>1, <2>2, <2>3 DEF ErasePlaces, Taking, Ungranting, Regranting, At
  <1>7. QED
    BY <1>1, <1>3, <1>4, <1>5, <1>6, SuperStays

LEMMA NextKeepsSuper ==
  ASSUME IInv, SoundInv, SuperInv, [Next]_vars
  PROVE  SuperInv'
  <1>1. HandlersAreRecords
    BY DEF IInv
  <1>2. SameAdmin => UNCHANGED <<roles, userRoles, slack>>
    BY DEF SameAdmin, adminVars
  <1>3. /\ ProfilePlaces \cap RolePlaces = {} /\ CodePlaces \cap RolePlaces = {} /\ AskingPlaces \cap RolePlaces = {}
        /\ (SigningPlaces \cup {"unlink"}) \cap RolePlaces = {} /\ LinkPlaces \cap RolePlaces = {}
    BY DEF ProfilePlaces, CodePlaces, TokenPlaces, AskingPlaces, ProviderPlaces, TestPlaces, SigningPlaces, LinkPlaces,
       RolePlaces
  <1>4. CASE SameAdmin /\ (ProfilesNext \/ CodesNext \/ ProvidersNext \/ IdentitiesNext \/ LinkingNext)
    <2>1. PICK places \in {ProfilePlaces, CodePlaces, AskingPlaces, SigningPlaces \cup {"unlink"}, LinkPlaces} : Keep(places)
      BY <1>1, <1>4, ProfilesKeep, CodesKeep, ProvidersKeep, IdentitiesKeep, LinkingKeeps
    <2>2. QED
      BY <1>2, <1>3, <1>4, <2>1, SameRolesStay
  <1>5. CASE UNCHANGED vars
    <2>1. UNCHANGED <<roles, userRoles, slack>> /\ Keep({})
      BY <1>5 DEF vars, rowVars, adminVars, Keep
    <2>2. QED
      BY <2>1, SameRolesStay
  <1>6. QED
    BY <1>4, <1>5, AdminsKeepSuper, ErasuresKeepSuper DEF Next, SameOthers

LEMMA InitEstablishesSuper ==
  ASSUME Init
  PROVE  SuperInv
  <1>1. AdminInit(RolesAtStart, SuperRole, SuperAtStart)
    BY DEF Init
  <1>2. RolesTyped /\ OneSuperRole /\ roles[SuperRole].granted # {}
    BY <1>1, StartAssumption DEF AdminInit, RolesTyped, RoleRow, OneSuperRole, Exists
  <1>3. \A h \in Handlers : handler[h].at = "idle"
    BY IdleIsARecord DEF Init, RowsInit
  <1>4. TakersLeaveOne /\ UngrantersLeaveOne
    BY <1>3 DEF TakersLeaveOne, UngrantersLeaveOne, Taking, TakesSuper, Ungranting, At
  <1>5. SomeoneHasSuper
    BY <1>1, StartAssumption DEF AdminInit, SomeoneHasSuper, HasSuper
  <1>6. QED
    BY <1>2, <1>4, <1>5 DEF SuperInv, SuperSafe

(* In AdminAccess.tla: somebody is a super administrator and the role keeps *)
(* a permission, although the guards count before the rows are deleted, as  *)
(* long as the requests that take them do not overlap.                      *)
THEOREM SuperAdminsAlwaysStay == Spec => []SuperAdminsStay
  <1>1. Init => IInv /\ SoundInv /\ SuperInv
    BY InitEstablishesIInv, InitEstablishesSoundInv, InitEstablishesSuper
  <1>2. (IInv /\ SoundInv /\ SuperInv) /\ [Next]_vars => (IInv /\ SoundInv /\ SuperInv)'
    BY NextKeepsIInv, NextKeepsSoundInv, NextKeepsSuper
  <1>3. SuperInv => SuperAdminsStay
    <2>1. ASSUME SuperSafe PROVE SuperAdminsStay
      <3>1. SuperRoles = {SuperRole}
        BY <2>1, SuperRolesIs DEF SuperSafe
      <3>2. SuperAdmins # {} \/ \E h \in Handlers : At(h, "regrant")
        BY <2>1, <3>1 DEF SuperSafe, SomeoneHasSuper, HasSuper, Regranting, SuperAdmins
      <3>3. QED
        BY <2>1, <3>1, <3>2 DEF SuperSafe, SuperAdminsStay
    <2>2. QED
      BY <2>1 DEF SuperInv, SuperAdminsStay
  <1>4. QED
    BY <1>1, <1>2, <1>3, PTL DEF Spec

----------------------------------------------------------------------------
(* Unlinking identities *)

(* A request that is to unlink an identity of a user from whom nobody else  *)
(* took a sign-in method: the user keeps another, and no other such request *)
(* is in flight.                                                            *)
Unlinking(h) == At(h, "unlink") /\ handler[h].user \notin history.stripped

KeepsAnother(h) ==
  \/ users[handler[h].user].password
  \/ \E j \in Identities : j # handler[h].item /\ owner[j] = handler[h].user

UnlinkInv ==
  /\ \A h \in Handlers : Unlinking(h) => KeepsAnother(h)
  /\ \A g, h \in Handlers : Unlinking(g) /\ Unlinking(h) /\ handler[g].user = handler[h].user => g = h

(* What a step does to sign-in methods                                      *)
OwnersLeave == \A i \in Identities : owner[i] # None => owner'[i] \in {owner[i], None}

OwnersStay == \A i \in Identities : owner[i] # None => owner'[i] = owner[i] \/ owner[i] \in history'.stripped

SignInsStay == \A u \in Users : CanSignIn(u) => CanSignIn(u)' \/ u \in history'.stripped

LEMMA UnlinkersHold ==
  ASSUME SoundInv, NEW h \in Handlers, At(h, "unlink")
  PROVE  handler[h].user \in Users /\ handler[h].item \in Identities
  BY DEF SoundInv, RequestsHold, Holds, HoldsUser, HoldsItem, UserPlaces, IdentityPlaces, Present, At

LEMMA MethodsStay ==
  ASSUME PasswordsStay, OwnersStay
  PROVE  SignInsStay
  BY AccountsAssumption DEF PasswordsStay, OwnersStay, SignInsStay, CanSignIn, IdentitiesOf

LEMMA UnlinkStays ==
  ASSUME SoundInv, UnlinkInv, PasswordsStay, HistoryGrows, OwnersStay,
         \A h \in Handlers : handler'[h].at = "unlink" => handler'[h] = handler[h]
  PROVE  UnlinkInv'
  <1>1. \A h \in Handlers : Unlinking(h)' => Unlinking(h) /\ handler'[h] = handler[h]
    BY DEF Unlinking, HistoryGrows, At
  <1>2. ASSUME NEW h \in Handlers, Unlinking(h)' PROVE KeepsAnother(h)'
    <2>1. PICK u \in Users : u = handler[h].user /\ u \notin history'.stripped
      BY <1>1, <1>2, UnlinkersHold DEF Unlinking
    <2>2. u # None
      BY AccountsAssumption
    <2>3. CASE users[u].password
      BY <1>1, <1>2, <2>1, <2>3 DEF PasswordsStay, KeepsAnother
    <2>4. ASSUME NEW j \in Identities, j # handler[h].item, owner[j] = u PROVE KeepsAnother(h)'
      BY <1>1, <1>2, <2>1, <2>2, <2>4 DEF OwnersStay, KeepsAnother
    <2>5. QED
      BY <1>1, <1>2, <2>1, <2>3, <2>4 DEF UnlinkInv, KeepsAnother
  <1>3. QED
    BY <1>1, <1>2 DEF UnlinkInv

(* The methods are counted: one is left, or the overlap is noted.           *)
LEMMA CountKeepsUnlinking ==
  ASSUME HandlersAreRecords, SoundInv, UnlinkInv, HistoryGrows, NEW h \in Handlers, CountIdentities(h)
  PROVE  UnlinkInv'
  <1>1. PICK u \in Users : u = handler[h].user
    BY DEF CountIdentities, At, SoundInv, RequestsHold, Holds, HoldsUser, UserPlaces, Present
  <1>2. UNCHANGED <<users, owner>>
    BY DEF CountIdentities, SameIdentities, identityVars
  <1>3. CASE Finish(h) /\ UNCHANGED history
    <2>1. \A g \in Handlers : handler'[g].at = "unlink" => handler'[g] = handler[g]
      BY <1>3, Finishes, IdleIsARecord DEF OthersStay
    <2>2. PasswordsStay /\ OwnersStay
      BY <1>2 DEF PasswordsStay, OwnersStay
    <2>3. QED
      BY <2>1, <2>2, UnlinkStays
  <1>4. CASE /\ Goto(h, "unlink")
             /\ users[u].password \/ Cardinality(IdentitiesOf(u)) > 1
             /\ IF \E g \in Handlers \ {h} : handler[g].user = u /\ At(g, "unlink")
                THEN Strip({u}) ELSE UNCHANGED history
    <2>1. /\ OthersStay(h) /\ handler'[h].at = "unlink"
          /\ handler'[h].user = u /\ handler'[h].item = handler[h].item
      BY <1>1, <1>4, Goes DEF Fields
    <2>2. users[u].password \/ \E j \in Identities : j # handler[h].item /\ owner[j] = u
      <3>1. SUFFICES ASSUME Cardinality(IdentitiesOf(u)) > 1
                     PROVE  \E j \in Identities : j # handler[h].item /\ owner[j] = u
        BY <1>4
      <3>2. IsFiniteSet(IdentitiesOf(u))
        BY IdentitiesAssumption, FS_Subset DEF IdentitiesOf
      <3>3. PICK j \in IdentitiesOf(u) : j # handler[h].item
        BY <3>1, <3>2, AnotherOne
      <3>4. QED
        BY <3>3 DEF IdentitiesOf
    <2>3. KeepsAnother(h)'
      BY <1>2, <2>1, <2>2 DEF KeepsAnother
    <2>4. \A g \in Handlers \ {h} : Unlinking(g)' => Unlinking(g) /\ handler'[g] = handler[g]
      BY <2>1 DEF Unlinking, OthersStay, HistoryGrows, At
    <2>5. u \in history'.stripped \/ \A g \in Handlers \ {h} : ~(handler[g].user = u /\ At(g, "unlink"))
      <3>1. Strip({u}) => u \in history'.stripped
        BY Strips DEF SoundInv
      <3>2. QED
        BY <1>4, <3>1
    <2>6. \A g \in Handlers \ {h} : Unlinking(g)' /\ Unlinking(h)' => handler'[g].user # handler'[h].user
      BY <2>1, <2>4, <2>5 DEF Unlinking
    <2>7. \A g \in Handlers : Unlinking(g)' => KeepsAnother(g)'
      BY <1>2, <2>3, <2>4 DEF UnlinkInv, KeepsAnother
    <2>8. QED
      BY <2>4, <2>6, <2>7 DEF UnlinkInv
  <1>5. QED
    BY <1>1, <1>3, <1>4 DEF CountIdentities

(* The identity is unlinked.                                                *)
LEMMA DeletionKeepsUnlinking ==
  ASSUME HandlersAreRecords, SoundInv, UnlinkInv, NEW h \in Handlers, DeleteIdentity(h)
  PROVE  UnlinkInv' /\ SignInsStay
  <1>1. At(h, "unlink") /\ Finish(h) /\ UNCHANGED <<users, history>>
    BY DEF DeleteIdentity, SameRows
  <1>2. PICK u \in Users, i \in Identities : u = handler[h].user /\ i = handler[h].item
    BY <1>1, UnlinkersHold
  <1>3. OthersStay(h) /\ handler'[h].at = "idle"
    BY <1>1, Finishes, IdleIsARecord
  <1>4. \A j \in Identities : owner'[j] = owner[j] \/ (j = i /\ owner[j] = u)
    BY <1>2 DEF DeleteIdentity, SoundInv, OwnersSound
  <1>5. \A g \in Handlers : Unlinking(g)' => g # h /\ Unlinking(g) /\ handler'[g] = handler[g]
    BY <1>1, <1>3 DEF Unlinking, OthersStay, At
  <1>6. ASSUME NEW g \in Handlers, Unlinking(g)' PROVE KeepsAnother(g)'
    <2>1. handler[g].user # u
      BY <1>1, <1>2, <1>5, <1>6 DEF UnlinkInv, Unlinking
    <2>2. QED
      BY <1>1, <1>4, <1>5, <1>6, <2>1 DEF UnlinkInv, KeepsAnother
  <1>7. UnlinkInv'
    BY <1>5, <1>6 DEF UnlinkInv
  <1>8. ASSUME NEW v \in Users, CanSignIn(v) PROVE CanSignIn(v)' \/ v \in history'.stripped
    <2>1. CASE v = u /\ u \notin history.stripped
      BY <1>1, <1>2, <1>4, <2>1 DEF UnlinkInv, Unlinking, KeepsAnother, CanSignIn, IdentitiesOf
    <2>2. CASE v # u
      BY <1>1, <1>4, <1>8, <2>2 DEF CanSignIn, IdentitiesOf
    <2>3. QED
      BY <1>1, <2>1, <2>2
  <1>9. QED
    BY <1>7, <1>8 DEF SignInsStay

(* No request newly comes to unlink.                                        *)
NoneUnlinks == \A h \in Handlers : handler'[h].at = "unlink" => handler'[h] = handler[h]

LEMMA OtherMovesUnlinkNothing ==
  ASSUME NEW places, "unlink" \notin places, UNCHANGED handler \/ \E h \in Handlers : Moves(h, places)
  PROVE  NoneUnlinks
  BY DEF NoneUnlinks, Moves, OthersStay

LEMMA SameOwnersStay ==
  ASSUME UNCHANGED owner
  PROVE  OwnersLeave /\ OwnersStay
  BY DEF OwnersLeave, OwnersStay

(* An identity nobody had is linked.                                        *)
LEMMA LinksLeaveOwners ==
  ASSUME SoundInv, NEW h \in Handlers, LinkIdentity(h) \/ AutoLinkIdentity(h)
  PROVE  OwnersLeave /\ OwnersStay
  <1>1. UNCHANGED owner \/ (owner[handler[h].item] = None /\ owner' = [owner EXCEPT ![handler[h].item] = handler[h].user])
    BY DEF LinkIdentity, AutoLinkIdentity, CreateLink, identityVars
  <1>2. QED
    BY <1>1 DEF SoundInv, OwnersSound, OwnersLeave, OwnersStay

(* An administrator takes an identity away, or an erasure all of a user's.  *)
LEMMA TakenOwnersLeave ==
  ASSUME SoundInv, NEW u \in Users, Strip({u}), NEW taken \in SUBSET {i \in Identities : owner[i] = u},
         owner' = [i \in Identities |-> IF i \in taken THEN None ELSE owner[i]]
  PROVE  OwnersLeave /\ OwnersStay
  <1>1. u \in history'.stripped
    BY Strips DEF SoundInv
  <1>2. QED
    BY <1>1 DEF OwnersLeave, OwnersStay

LEMMA IdentitiesKeepUnlinking ==
  ASSUME HandlersAreRecords, SoundInv, UnlinkInv, RowsKept, IdentitiesNext
  PROVE  UnlinkInv' /\ OwnersLeave /\ SignInsStay
  <1>1. PasswordsStay /\ HistoryGrows
    BY DEF RowsKept
  <1>2. ASSUME NEW h \in Handlers, CountIdentities(h) PROVE UnlinkInv' /\ OwnersLeave /\ SignInsStay
    <2>1. OwnersLeave /\ OwnersStay
      BY <1>2, SameOwnersStay DEF CountIdentities, SameIdentities, identityVars
    <2>2. QED
      BY <1>1, <1>2, <2>1, CountKeepsUnlinking, MethodsStay
  <1>3. ASSUME NEW h \in Handlers, DeleteIdentity(h) PROVE UnlinkInv' /\ OwnersLeave /\ SignInsStay
    <2>1. OwnersLeave
      BY <1>3 DEF DeleteIdentity, OwnersLeave, SoundInv, OwnersSound
    <2>2. QED
      BY <1>3, <2>1, DeletionKeepsUnlinking
  <1>4. ASSUME \A h \in Handlers : ~CountIdentities(h) /\ ~DeleteIdentity(h)
        PROVE  UnlinkInv' /\ OwnersLeave /\ SignInsStay
    <2>1. NoneUnlinks
      BY <1>4, IdentitiesMove, OtherMovesUnlinkNothing DEF SigningPlaces
    <2>2. PICK h \in Handlers :
            \/ SameIdentities
            \/ LinkIdentity(h) \/ AutoLinkIdentity(h)
            \/ \E i \in Identities : UnlinkOAuthAccount(h, i)
      BY <1>4 DEF IdentitiesNext, SignInWithIdentity, LinkIdentityToExistingUser, UnlinkIdentity,
         HandleDeauthorizeCallback, SetPassword, MatchEmail, RefuseConflict, CreateFromProfile, WritePassword
    <2>3. ASSUME NEW i \in Identities, UnlinkOAuthAccount(h, i) PROVE OwnersLeave /\ OwnersStay
      <3>1. PICK u \in Users : u = owner[i]
        BY <2>3 DEF UnlinkOAuthAccount, SoundInv, OwnersSound
      <3>2. /\ Strip({u}) /\ {i} \in SUBSET {j \in Identities : owner[j] = u}
            /\ owner' = [j \in Identities |-> IF j \in {i} THEN None ELSE owner[j]]
        BY <2>3, <3>1 DEF UnlinkOAuthAccount, SoundInv, OwnersSound
      <3>3. QED
        BY <3>2, TakenOwnersLeave
    <2>4. OwnersLeave /\ OwnersStay
      BY <2>2, <2>3, SameOwnersStay, LinksLeaveOwners DEF SameIdentities, identityVars
    <2>5. QED
      BY <1>1, <2>1, <2>4, UnlinkStays, MethodsStay DEF NoneUnlinks
  <1>5. QED
    BY <1>2, <1>3, <1>4

LEMMA ErasuresKeepUnlinking ==
  ASSUME HandlersAreRecords, SoundInv, UnlinkInv, RowsKept, NEW h \in Handlers,
         (\E u \in Users : EraseAccount(h, u)) \/ EraseLinks(h) \/ EraseRow(h) \/ Die(h)
  PROVE  UnlinkInv' /\ OwnersLeave /\ SignInsStay
  <1>1. NoneUnlinks
    BY ErasuresMove, OtherMovesUnlinkNothing DEF ErasePlaces
  <1>2. ASSUME EraseLinks(h) PROVE OwnersLeave /\ OwnersStay
    <2>1. PICK u \in Users : u = handler[h].user
      BY <1>2 DEF EraseLinks, At, SoundInv, RequestsHold, Holds, HoldsUser, UserPlaces, Present
    <2>2. /\ Strip({u}) /\ {i \in Identities : owner[i] = u} \in SUBSET {i \in Identities : owner[i] = u}
          /\ owner' = [i \in Identities |-> IF i \in {j \in Identities : owner[j] = u} THEN None ELSE owner[i]]
      BY <1>2, <2>1 DEF EraseLinks
    <2>3. QED
      BY <2>2, TakenOwnersLeave
  <1>3. ASSUME (\E u \in Users : EraseAccount(h, u)) \/ EraseRow(h) \/ Die(h) PROVE OwnersLeave /\ OwnersStay
    BY <1>3, SameOwnersStay DEF EraseAccount, EraseRow, Die, SameOthers, SameIdentities, identityVars
  <1>4. OwnersLeave /\ OwnersStay
    BY <1>2, <1>3
  <1>5. QED
    BY <1>1, <1>4, UnlinkStays, MethodsStay DEF NoneUnlinks, RowsKept

LEMMA NextKeepsUnlinking ==
  ASSUME IInv, SoundInv, UnlinkInv, [Next]_vars
  PROVE  UnlinkInv' /\ OwnersLeave /\ SignInsStay
  <1>1. HandlersAreRecords /\ RowsKept
    BY NextKeepsSoundInv DEF IInv
  <1>2. CASE SameIdentities /\ (ProfilesNext \/ CodesNext \/ ProvidersNext \/ LinkingNext \/ AdminNext)
    <2>1. \E places \in {ProfilePlaces, CodePlaces, AskingPlaces, LinkPlaces, AdminPlaces} :
            UNCHANGED handler \/ \E h \in Handlers : Moves(h, places)
      BY <1>1, <1>2, ProfilesMove, CodesMove, ProvidersMove, LinkingMoves, AdminsMove
    <2>2. NoneUnlinks
      BY <2>1, OtherMovesUnlinkNothing DEF ProfilePlaces, CodePlaces, TokenPlaces, AskingPlaces, ProviderPlaces,
         TestPlaces, LinkPlaces, AdminPlaces, RolePlaces, InvitePlaces
    <2>3. QED
      BY <1>1, <1>2, <2>2, SameOwnersStay, UnlinkStays, MethodsStay DEF NoneUnlinks, RowsKept, SameIdentities, identityVars
  <1>3. LinkingNext => SameIdentities
    BY DEF LinkingNext, StartLink, LinkIdentityToUser
  <1>4. CASE UNCHANGED vars
    BY <1>1, <1>4, SameOwnersStay, UnlinkStays, MethodsStay DEF RowsKept, vars, rowVars, identityVars
  <1>5. QED
    BY <1>1, <1>2, <1>3, <1>4, IdentitiesKeepUnlinking, ErasuresKeepUnlinking DEF Next, SameOthers

(* In LinkedIdentities.tla: an identity is nobody's before it is somebody   *)
(* else's, and unlinkIdentity, which counts the methods before it deletes,  *)
(* never takes the last one of an account, unless another unlinking that    *)
(* counted as well is on its way or others than the user took one.          *)
THEOREM IdentitiesAlwaysStay == Spec => IdentitiesStay
  <1>1. Init => IInv /\ SoundInv /\ UnlinkInv
    <2>1. Init => UnlinkInv
      BY IdleIsARecord DEF Init, RowsInit, UnlinkInv, Unlinking, At
    <2>2. QED
      BY <2>1, InitEstablishesIInv, InitEstablishesSoundInv
  <1>2. (IInv /\ SoundInv /\ UnlinkInv) /\ [Next]_vars =>
          (IInv /\ SoundInv /\ UnlinkInv)' /\ [OwnersLeave /\ SignInsStay]_<<users, owner, history>>
    BY NextKeepsIInv, NextKeepsSoundInv, NextKeepsUnlinking
  <1>3. [OwnersLeave /\ SignInsStay]_<<users, owner, history>> =>
          [/\ \A i \in Identities : owner[i] # None => owner'[i] \in {owner[i], None}
           /\ \A u \in Users : CanSignIn(u) => CanSignIn(u)' \/ u \in history.stripped']_<<users, owner, history>>
    BY DEF OwnersLeave, SignInsStay
  <1>4. QED
    BY <1>1, <1>2, <1>3, PTL DEF Spec, IdentitiesStay

----------------------------------------------------------------------------
(* Erased accounts *)

(* Nothing is left of the account, and no request that could write to it is *)
(* in flight or can come in.                                                *)
Faded(u) ==
  /\ Gone(users[u]) /\ IdentitiesOf(u) = {} /\ ~Touched(u)
  /\ \A t \in Links(u) : Closed(tokens[t])

(* A request that is to write the row of an account it erases has deleted   *)
(* the links that were there.                                               *)
LinksDeleted(h) == \A t \in Links(handler[h].user) : t <= handler[h].seen => tokens[t].deleted

ErasedInv ==
  /\ \A u \in history.erased \ history.revived : Faded(u)
  /\ \A h \in Handlers : At(h, "anonymize") => LinksDeleted(h)

LEMMA GoneRows ==
  ASSUME NEW row, Gone(row)
  PROVE  /\ row.status \in {"SUSPENDED", "DELETED"} /\ [row EXCEPT !.status = "DELETED"] = ErasedUser
         /\ \A c \in Channels : row.address[c] = None
  BY DEF Gone, ErasedUser, NoUser

LEMMA ErasedIsGone == Gone(ErasedUser)
  BY DEF Gone, ErasedUser, NoUser

LEMMA FadedIsOutOfReach ==
  ASSUME SoundInv, NEW u \in Users, Faded(u)
  PROVE  ~Reachable(u)
  <1>1. /\ users[u].status \in {"SUSPENDED", "DELETED"}
        /\ \A c \in Channels : users[u].address[c] = None
    BY GoneRows DEF Faded
  <1>2. ASSUME NEW a \in Addresses, UserOf(a) = u PROVE FALSE
    <2>1. u # None /\ a # None /\ ChannelOf(a) \in Channels
      BY AccountsAssumption DEF ChannelOf, Channels, Addresses
    <2>2. users[u].address[ChannelOf(a)] = a
      BY <1>2, <2>1, UserOfFinds
    <2>3. QED
      BY <1>1, <2>1, <2>2
  <1>3. \A t \in Links(u) : ~Open(t)
    BY DEF Faded, Closed, Open
  <1>4. QED
    BY <1>1, <1>2, <1>3 DEF Reachable, Authenticatable, Faded

LEMMA NobodyTouches ==
  ASSUME SoundInv, NEW u \in Users, Faded(u),
         UNCHANGED handler \/ \E h \in Handlers : \E places : Moves(h, places)
  PROVE  ~Touched(u)'
  <1>1. ~Reachable(u) /\ u # None
    BY FadedIsOutOfReach, AccountsAssumption
  <1>2. ASSUME NEW g \in Handlers, handler'[g].user = u, handler'[g].at \notin Harmless PROVE FALSE
    <2>1. handler'[g] # handler[g]
      BY <1>2 DEF Faded, Touched
    <2>2. Reached(g, handler'[g])
      BY <2>1 DEF Moves, OthersStay
    <2>3. QED
      BY <1>1, <1>2, <2>2 DEF Reached, Faded, Touched
  <1>3. QED
    BY <1>2 DEF Touched

(* An identity is linked to the user of a request.                          *)
OwnersAreAsked ==
  \A i \in Identities :
    owner'[i] \in {owner[i], None} \/ \E h \in Handlers : handler[h].user = owner'[i] /\ handler[h].at \notin Harmless

LEMMA NextAsksOwners ==
  ASSUME SoundInv, [Next]_vars
  PROVE  OwnersAreAsked
  <1>1. SameIdentities => OwnersAreAsked
    BY DEF SameIdentities, identityVars, OwnersAreAsked
  <1>2. ASSUME NEW h \in Handlers, LinkIdentity(h) \/ AutoLinkIdentity(h) PROVE OwnersAreAsked
    <2>1. handler[h].at \notin Harmless
      BY <1>2 DEF LinkIdentity, AutoLinkIdentity, At, Harmless
    <2>2. UNCHANGED owner \/ owner' = [owner EXCEPT ![handler[h].item] = handler[h].user]
      BY <1>2 DEF LinkIdentity, AutoLinkIdentity, CreateLink, identityVars
    <2>3. QED
      BY <2>1, <2>2 DEF OwnersAreAsked, SoundInv, OwnersSound
  <1>3. ASSUME NEW h \in Handlers,
               DeleteIdentity(h) \/ EraseLinks(h) \/ \E i \in Identities : UnlinkOAuthAccount(h, i)
        PROVE  OwnersAreAsked
    BY <1>3 DEF DeleteIdentity, EraseLinks, UnlinkOAuthAccount, OwnersAreAsked, SoundInv, OwnersSound
  <1>4. CASE IdentitiesNext
    <2>1. PICK h \in Handlers :
            \/ SameIdentities
            \/ LinkIdentity(h) \/ AutoLinkIdentity(h) \/ DeleteIdentity(h)
            \/ \E i \in Identities : UnlinkOAuthAccount(h, i)
      BY <1>4 DEF IdentitiesNext, SignInWithIdentity, LinkIdentityToExistingUser, UnlinkIdentity,
         HandleDeauthorizeCallback, SetPassword, MatchEmail, RefuseConflict, CreateFromProfile, WritePassword,
         CountIdentities
    <2>2. QED
      BY <1>1, <1>2, <1>3, <2>1
  <1>5. LinkingNext \/ (\E h \in Handlers : (\E u \in Users : EraseAccount(h, u)) \/ EraseRow(h) \/ Die(h))
          => SameIdentities
    BY DEF LinkingNext, StartLink, LinkIdentityToUser, EraseAccount, EraseRow, Die, SameOthers
  <1>6. UNCHANGED vars => SameIdentities
    BY DEF vars, SameIdentities
  <1>7. QED
    BY <1>1, <1>3, <1>4, <1>5, <1>6 DEF Next, SameOthers

(* Its links stay closed, and no new one is made for it.                    *)
LEMMA LinksStayClosed ==
  ASSUME TokensSound, TokensKept, NEW u \in Users, Faded(u)
  PROVE  \A t \in Links(u)' : Closed(tokens[t])'
  <1>1. SUFFICES ASSUME NEW t \in Links(u)' PROVE Closed(tokens'[t])
    BY DEF Closed
  <1>2. t \in DOMAIN tokens' /\ tokens'[t].user = u /\ tokens'[t].kind \in {"email", "reset"}
    BY DEF Links
  <1>3. CASE t \in DOMAIN tokens
    <2>1. Ages(tokens[t], tokens'[t])
      BY <1>3 DEF TokensKept, TokensGrow
    <2>2. t \in Links(u)
      BY <1>2, <1>3, <2>1 DEF Ages, Links
    <2>3. QED
      BY <2>1, <2>2 DEF Ages, Faded
  <1>4. CASE t \notin DOMAIN tokens
    <2>1. Asked(tokens'[t])
      BY <1>2, <1>4 DEF TokensKept
    <2>2. PICK h \in Handlers : handler[h].user = u /\ handler[h].at \in {"email_token", "phone_token", "reset_token"}
      BY <1>2, <2>1 DEF Asked
    <2>3. handler[h].at \notin Harmless
      BY <2>2 DEF Harmless
    <2>4. QED
      BY <2>2, <2>3 DEF Faded, Touched
  <1>5. QED
    BY <1>3, <1>4

LEMMA FadedStays ==
  ASSUME IInv, SoundInv, [Next]_vars, NEW u \in Users, Faded(u), u \notin history'.revived
  PROVE  Faded(u)'
  <1>1. TokensSound /\ TokensKept /\ RowsFade
    BY NextKeepsSoundInv DEF SoundInv, RowsKept, CodesKept
  <1>2. Gone(users'[u])
    BY <1>1 DEF RowsFade, Faded
  <1>3. ~Touched(u)'
    BY NextMoves, NobodyTouches
  <1>4. IdentitiesOf(u)' = {}
    <2>1. u # None
      BY AccountsAssumption
    <2>2. QED
      BY <2>1, NextAsksOwners DEF OwnersAreAsked, IdentitiesOf, Faded, Touched
  <1>5. \A t \in Links(u)' : Closed(tokens[t])'
    BY <1>1, LinksStayClosed
  <1>6. QED
    BY <1>2, <1>3, <1>4, <1>5 DEF Faded, Gone, ErasedUser, NoUser

(* The row is written: an account that nobody has touched since its links   *)
(* were deleted is gone.                                                    *)
LEMMA ErasureFades ==
  ASSUME HandlersAreRecords, SoundInv, ErasedInv, NEW h \in Handlers, EraseRow(h), NEW u \in Users,
         u = handler[h].user, u \notin history'.revived
  PROVE  Faded(u)'
  <1>1. At(h, "anonymize") /\ Finish(h) /\ UNCHANGED <<tokens, owner>>
    BY DEF EraseRow, SameOthers, SameCodes, codeVars, SameIdentities, identityVars
  <1>2. ~OthersWith(h, u) /\ ~AddedMeanwhile(h, u)
    BY DEF EraseRow, SoundInv, RowsSound, History
  <1>3. Gone(users'[u])
    BY ErasedIsGone DEF EraseRow, SoundInv, RowsSound
  <1>4. ~Touched(u)'
    <2>1. OthersStay(h) /\ handler'[h] = Idle /\ Idle.user = None /\ u # None
      BY <1>1, Finishes, AccountsAssumption DEF Idle
    <2>2. QED
      BY <1>2, <2>1 DEF OthersWith, OthersStay, Touched
  <1>5. IdentitiesOf(u)' = {}
    BY <1>1, <1>2 DEF AddedMeanwhile, IdentitiesOf
  <1>6. \A t \in Links(u) : Closed(tokens[t])
    <2>1. SUFFICES ASSUME NEW t \in Links(u) PROVE Closed(tokens[t])
      OBVIOUS
    <2>2. handler[h].seen \in Nat /\ LinksDeleted(h)
      BY <1>1 DEF SoundInv, RequestsHold, Holds, At, ErasedInv
    <2>3. CASE t <= handler[h].seen
      BY <2>2, <2>3 DEF LinksDeleted, Closed
    <2>4. CASE ~(t <= handler[h].seen)
      <3>1. t \in (handler[h].seen + 1) .. Len(tokens)
        BY <2>2, <2>4, TokenIndices DEF Links, SoundInv
      <3>2. ~Open(t)
        BY <1>2, <3>1 DEF AddedMeanwhile, Links
      <3>3. QED
        BY <3>2 DEF Open, Closed
    <2>5. QED
      BY <2>3, <2>4
  <1>7. QED
    BY <1>1, <1>3, <1>4, <1>5, <1>6 DEF Faded, Gone, ErasedUser, NoUser, Links, Closed

(* A request comes to write the row of an account it erases by the          *)
(* transaction that deletes its links.                                      *)
LEMMA LinksAreDeletedFirst ==
  ASSUME HandlersAreRecords, SoundInv, [Next]_vars, NEW h \in Handlers, At(h, "anonymize")'
  PROVE  handler'[h] = handler[h] \/ EraseLinks(h)
  <1>1. SUFFICES ASSUME handler'[h] # handler[h] PROVE EraseLinks(h)
    OBVIOUS
  <1>2. ASSUME NEW places, "anonymize" \notin places, UNCHANGED handler \/ \E g \in Handlers : Moves(g, places)
        PROVE  FALSE
    BY <1>1, <1>2 DEF Moves, OthersStay, At
  <1>3. CASE ProfilesNext \/ CodesNext \/ ProvidersNext \/ LinkingNext \/ AdminNext
    <2>1. \E places \in {ProfilePlaces, CodePlaces, AskingPlaces, LinkPlaces, AdminPlaces} :
            UNCHANGED handler \/ \E g \in Handlers : Moves(g, places)
      BY <1>3, ProfilesMove, CodesMove, ProvidersMove, LinkingMoves, AdminsMove
    <2>2. QED
      BY <1>2, <2>1 DEF ProfilePlaces, CodePlaces, TokenPlaces, AskingPlaces, ProviderPlaces, TestPlaces, LinkPlaces,
         AdminPlaces, RolePlaces, InvitePlaces
  <1>4. CASE IdentitiesNext
    <2>1. \E g \in Handlers : Moves(g, SigningPlaces \cup {"unlink"})
      BY <1>4, IdentitiesMove DEF Moves, SigningPlaces
    <2>2. QED
      BY <1>2, <2>1 DEF SigningPlaces
  <1>5. ASSUME NEW g \in Handlers, (\E u \in Users : EraseAccount(g, u)) \/ EraseLinks(g) \/ EraseRow(g) \/ Die(g)
        PROVE  EraseLinks(h)
    <2>1. g = h
      BY <1>1, <1>5, ErasuresMove DEF Moves, OthersStay
    <2>2. ~EraseRow(h) /\ ~Die(h)
      BY <1>1, Finishes, IdleIsARecord DEF EraseRow, Die, Crash, At
    <2>3. ASSUME NEW u \in Users, EraseAccount(h, u) PROVE FALSE
      <3> DEFINE x == [Idle EXCEPT !.at = "erase", !.user = u]
      <3>1. DOMAIN x = Fields /\ x.at = "erase"
        BY DEF Idle, Fields
      <3>2. Wait(h, x)
        BY <2>3 DEF EraseAccount
      <3> HIDE DEF x
      <3>3. QED
        BY <3>1, <3>2, Waits DEF At
    <2>4. QED
      BY <1>5, <2>1, <2>2, <2>3
  <1>6. UNCHANGED vars => UNCHANGED handler
    BY DEF vars, rowVars
  <1>7. QED
    BY <1>1, <1>3, <1>4, <1>5, <1>6 DEF Next

LEMMA LinksStayDeleted ==
  ASSUME HandlersAreRecords, SoundInv, TokensKept, ErasedInv, [Next]_vars, NEW h \in Handlers, At(h, "anonymize")'
  PROVE  LinksDeleted(h)'
  <1>1. CASE handler'[h] = handler[h]
    <2>1. LinksDeleted(h) /\ handler[h].seen \in Nat /\ handler[h].seen <= Len(tokens)
      BY <1>1 DEF At, ErasedInv, SoundInv, RequestsHold, Holds
    <2>2. ASSUME NEW t \in DOMAIN tokens', tokens'[t].user = handler[h].user,
                 tokens'[t].kind \in {"email", "reset"}, t <= handler[h].seen
          PROVE  tokens'[t].deleted
      <3>1. t \in DOMAIN tokens
        BY <2>1, <2>2, TokenIndices, LenProperties DEF SoundInv, TokensKept, TokensSound
      <3>2. Ages(tokens[t], tokens'[t])
        BY <3>1 DEF TokensKept, TokensGrow
      <3>3. t \in Links(handler[h].user)
        BY <2>2, <3>1, <3>2 DEF Ages, Links
      <3>4. QED
        BY <2>1, <2>2, <3>2, <3>3 DEF Ages, LinksDeleted
    <2>3. QED
      BY <1>1, <2>2 DEF LinksDeleted, Links
  <1>2. CASE EraseLinks(h)
    <2> DEFINE u == handler[h].user
    <2> DEFINE x == [handler[h] EXCEPT !.at = "anonymize", !.seen = Len(tokens)]
    <2>1. DOMAIN x = Fields /\ x.user = u
      BY DEF HandlersAreRecords, Fields
    <2>2. Wait(h, x) /\ DeleteTokens(u)
      BY <1>2 DEF EraseLinks
    <2> HIDE DEF x
    <2>3. handler'[h].user = u
      BY <2>1, <2>2, Waits
    <2> HIDE DEF u
    <2>4. ASSUME NEW t \in DOMAIN tokens', tokens'[t].user = u, tokens'[t].kind \in {"email", "reset"}
          PROVE  tokens'[t].deleted
      <3>1. t \in DOMAIN tokens
        BY <2>2, <2>4 DEF DeleteTokens
      <3>2. tokens[t].user = u /\ tokens[t].kind \in {"email", "reset"} /\ tokens[t] \in Token
        BY <2>4, <3>1, TokenIndices DEF TokensKept, TokensGrow, Ages, SoundInv
      <3>3. tokens'[t] = [tokens[t] EXCEPT !.deleted = TRUE]
        BY <2>2, <3>1, <3>2 DEF DeleteTokens
      <3>4. QED
        BY <3>2, <3>3 DEF Token
    <2>5. QED
      BY <2>3, <2>4 DEF LinksDeleted, Links
  <1>3. QED
    BY <1>1, <1>2, LinksAreDeletedFirst

LEMMA NextKeepsErased ==
  ASSUME IInv, SoundInv, ErasedInv, [Next]_vars
  PROVE  ErasedInv'
  <1>1. HandlersAreRecords /\ TokensKept /\ HistoryGrows /\ history' \in History
    BY NextKeepsSoundInv DEF IInv, RowsKept, RowsSound, CodesKept
  <1>2. ASSUME NEW u \in history'.erased \ history'.revived PROVE Faded(u)'
    <2>1. u \in Users /\ u \notin history.revived
      BY <1>1, <1>2 DEF History, HistoryGrows
    <2>2. CASE u \in history.erased
      BY <1>2, <2>1, <2>2, FadedStays DEF ErasedInv
    <2>3. CASE u \notin history.erased
      BY <1>1, <1>2, <2>1, <2>3, ErasureFades DEF HistoryGrows
    <2>4. QED
      BY <2>2, <2>3
  <1>3. \A h \in Handlers : At(h, "anonymize")' => LinksDeleted(h)'
    BY <1>1, LinksStayDeleted
  <1>4. QED
    BY <1>2, <1>3 DEF ErasedInv

(* In Accounts.tla: revokeAndAnonymizeAccount leaves nothing of an account  *)
(* by which anybody signs in to it or writes to it, unless a request had it *)
(* before the row was written, or an administrator makes it active.         *)
THEOREM ErasedAlwaysStaysErased == Spec => []ErasedStaysErased
  <1>1. Init => IInv /\ SoundInv /\ ErasedInv
    <2>1. Init => ErasedInv
      BY IdleIsARecord DEF Init, RowsInit, ErasedInv, At
    <2>2. QED
      BY <2>1, InitEstablishesIInv, InitEstablishesSoundInv
  <1>2. (IInv /\ SoundInv /\ ErasedInv) /\ [Next]_vars => (IInv /\ SoundInv /\ ErasedInv)'
    BY NextKeepsIInv, NextKeepsSoundInv, NextKeepsErased
  <1>3. ErasedInv => ErasedStaysErased
    BY GoneRows DEF ErasedInv, Faded, ErasedStaysErased, Authenticatable
  <1>4. QED
    BY <1>1, <1>2, <1>3, PTL DEF Spec

----------------------------------------------------------------------------
(* Links and codes take effect once *)

HasToken(g, t) == handler[g].at \in TokenPlaces /\ handler[g].item = t

Misses(t) == {g \in Handlers : At(g, "miss") /\ handler[g].item = t}

(* The database counts wrong guesses as they come.                          *)
WrongsAreCounted(t) ==
  /\ tokens[t].kind # "login" => tokens[t].wrong = tokens[t].attempts
  /\ tokens[t].kind = "phone" => tokens[t].wrong + Cardinality(Misses(t)) < MaxAttempts + Cardinality(Handlers)

(* What the request g that alone has a token knows of it                    *)
KnowsUnused(g, t) ==
  /\ handler[g].at # "mark" => tokens[t].uses = 0
  /\ handler[g].at = "miss" => tokens[t].attempts < MaxAttempts
  /\ handler[g].at = "otp_count" => tokens[t].wrong = handler[g].seen /\ handler[g].seen < MaxAttempts
  /\ handler[g].at = "otp_login" => otp[tokens[t].to].token # t

(* No two requests have the token at one time: it took effect only if it is *)
(* marked or about to be, and a login code only if its record is gone.      *)
UsedOnce(t) ==
  /\ tokens[t].uses <= 1 /\ tokens[t].wrong <= MaxAttempts
  /\ \A g, h \in Handlers : HasToken(g, t) /\ HasToken(h, t) => g = h
  /\ tokens[t].kind # "login" =>
       tokens[t].uses = 0 \/ Closed(tokens[t]) \/ \E g \in Handlers : At(g, "mark") /\ handler[g].item = t
  /\ \A g \in Handlers : HasToken(g, t) => KnowsUnused(g, t)
  /\ \A a \in Addresses : otp[a].token = t => tokens[t].uses = 0 /\ tokens[t].wrong = otp[a].attempts

TokenInv(t) == WrongsAreCounted(t) /\ (tokens[t].shared \/ UsedOnce(t))

CodesInv == \A t \in DOMAIN tokens : TokenInv(t)

(* What a step does to a token that nobody takes up or uses                 *)
TokenStays(t) ==
  /\ \A f \in {"kind", "to", "attempts", "uses", "wrong"} : tokens'[t][f] = tokens[t][f]
  /\ tokens[t].shared => tokens'[t].shared
  /\ Closed(tokens[t]) => Closed(tokens'[t])
  /\ \A a \in Addresses : otp'[a].token = t => otp'[a] = otp[a]
  /\ \A g \in Handlers : HasToken(g, t)' => handler'[g] = handler[g]
  /\ tokens'[t].shared \/ \A g \in Handlers : At(g, "mark") /\ handler[g].item = t => handler'[g] = handler[g]

LEMMA MissesAreFew ==
  ASSUME NEW t
  PROVE  /\ IsFiniteSet(Misses(t)) /\ Cardinality(Misses(t)) \in Nat /\ Cardinality(Handlers) \in Nat
         /\ Cardinality(Misses(t)) <= Cardinality(Handlers)
  <1>1. Misses(t) \subseteq Handlers /\ IsFiniteSet(Handlers)
    BY AccountsAssumption DEF Misses
  <1>2. QED
    BY <1>1, FS_Subset, FS_CardinalityType

LEMMA SomeMiss ==
  ASSUME NEW t, Misses(t)' \subseteq Misses(t)
  PROVE  Cardinality(Misses(t)') \in Nat /\ Cardinality(Misses(t)') <= Cardinality(Misses(t))
  BY MissesAreFew, FS_Subset, FS_CardinalityType

LEMMA TokensThatStay ==
  ASSUME SoundInv, NEW t \in DOMAIN tokens, TokenInv(t), TokenStays(t)
  PROVE  TokenInv(t)'
  <1>1. tokens[t] \in Token
    BY TokenIndices DEF SoundInv
  <1>2. Misses(t)' \subseteq Misses(t)
    BY DEF Misses, TokenStays, HasToken, TokenPlaces, At
  <1>3. WrongsAreCounted(t)'
    <2>1. tokens[t].wrong \in Nat /\ MaxAttempts \in Nat
      BY <1>1, CodesAssumption DEF Token
    <2>2. WrongsAreCounted(t)
      BY DEF TokenInv
    <2>3. tokens'[t].kind = tokens[t].kind /\ tokens'[t].wrong = tokens[t].wrong
          /\ tokens'[t].attempts = tokens[t].attempts
      BY DEF TokenStays
    <2> DEFINE n == Cardinality(Misses(t))
    <2> DEFINE m == Cardinality(Misses(t)')
    <2>4. n \in Nat /\ m \in Nat /\ m <= n /\ Cardinality(Handlers) \in Nat
      BY <1>2, MissesAreFew, SomeMiss
    <2>5. tokens[t].kind = "phone" => tokens[t].wrong + n < MaxAttempts + Cardinality(Handlers)
      BY <2>2 DEF WrongsAreCounted
    <2> HIDE DEF n, m
    <2>6. tokens[t].kind = "phone" => tokens[t].wrong + m < MaxAttempts + Cardinality(Handlers)
      BY <2>1, <2>4, <2>5
    <2>7. QED
      BY <2>2, <2>3, <2>6 DEF WrongsAreCounted, m
  <1>4. ASSUME ~tokens'[t].shared PROVE UsedOnce(t)'
    <2>1. UsedOnce(t)
      BY <1>4 DEF TokenInv, TokenStays
    <2>2. \A g \in Handlers : HasToken(g, t)' => handler'[g] = handler[g] /\ HasToken(g, t) /\ KnowsUnused(g, t)
      BY <2>1 DEF UsedOnce, TokenStays, HasToken
    <2>3. /\ tokens'[t].kind = tokens[t].kind /\ tokens'[t].wrong = tokens[t].wrong
          /\ tokens'[t].attempts = tokens[t].attempts /\ tokens'[t].uses = tokens[t].uses
          /\ tokens'[t].to = tokens[t].to
      BY DEF TokenStays
    <2>4. ASSUME NEW g \in Handlers, HasToken(g, t)' PROVE KnowsUnused(g, t)'
      <3>1. handler'[g] = handler[g] /\ KnowsUnused(g, t)
        BY <2>2, <2>4
      <3>2. handler[g].at = "otp_login" => otp'[tokens[t].to].token # t
        <4>1. handler[g].at = "otp_login" => tokens[t].to \in Addresses
          BY <2>2, <2>4 DEF SoundInv, RequestsHold, Holds, HoldsToken, HoldsAddress, HasToken, TokenPlaces,
             AddressPlaces
        <4>2. QED
          BY <3>1, <4>1 DEF TokenStays, KnowsUnused
      <3>3. QED
        BY <2>3, <3>1, <3>2 DEF KnowsUnused
    <2>5. tokens'[t].kind # "login" =>
            tokens'[t].uses = 0 \/ Closed(tokens'[t]) \/ \E g \in Handlers : At(g, "mark")' /\ handler'[g].item = t
      BY <1>4, <2>1, <2>3 DEF UsedOnce, TokenStays, At
    <2>6. \A a \in Addresses : otp'[a].token = t => tokens'[t].uses = 0 /\ tokens'[t].wrong = otp'[a].attempts
      BY <2>1, <2>3 DEF UsedOnce, TokenStays
    <2>7. QED
      BY <2>1, <2>2, <2>3, <2>4, <2>5, <2>6 DEF UsedOnce, Closed
  <1>5. QED
    BY <1>3, <1>4 DEF TokenInv

(* Steps that have nothing to do with tokens                                *)
LEMMA QuietTokensStay ==
  ASSUME CodesInv, SoundInv, UNCHANGED <<tokens, otp>>, NEW places, Keep(places), places \cap TokenPlaces = {}
  PROVE  CodesInv'
  <1>1. ASSUME NEW t \in DOMAIN tokens PROVE TokenStays(t)
    <2>1. \A g \in Handlers : handler[g].at \in TokenPlaces \/ handler'[g].at \in TokenPlaces => handler'[g] = handler[g]
      BY DEF Keep
    <2>2. QED
      BY <2>1 DEF TokenStays, HasToken, At, TokenPlaces
  <1>2. QED
    BY <1>1, TokensThatStay DEF CodesInv

(* A step of a request with one token, or none, leaves the others.          *)
LEMMA OthersTokensStay ==
  ASSUME SoundInv, NEW h \in Handlers, OthersStay(h), NEW t \in DOMAIN tokens,
         \A s \in DOMAIN tokens : s # t => tokens'[s] = tokens[s],
         \A s \in DOMAIN tokens, a \in Addresses : s # t /\ otp'[a].token = s => otp'[a] = otp[a],
         handler[h].at \notin TokenPlaces \/ handler[h].item = t,
         handler'[h].at \notin TokenPlaces \/ handler'[h].item = t
  PROVE  \A s \in DOMAIN tokens : s # t => TokenStays(s)
  BY DEF OthersStay, TokenStays, HasToken, At, TokenPlaces

(* A request takes a token up, which is shared if another has it.           *)
LEMMA TakingUpKeepsCodes ==
  ASSUME HandlersAreRecords, SoundInv, CodesInv, NEW h \in Handlers, handler[h] = Idle,
         NEW t \in DOMAIN tokens, Hold(h, t), UNCHANGED otp,
         NEW x, Wait(h, x), DOMAIN x = Fields, x.item = t,
         x.at \in {"confirm", "miss", "reset", "otp_drop", "otp_use", "otp_count"},
         ~tokens[t].shared /\ ~OthersHold(h, t) => tokens[t].uses = 0,
         x.at = "miss" => tokens[t].kind = "phone" /\ tokens[t].attempts < MaxAttempts,
         x.at = "otp_count" => x.seen < MaxAttempts /\ (~tokens[t].shared => tokens[t].wrong = x.seen)
  PROVE  CodesInv'
  <1>1. handler'[h] = x /\ OthersStay(h) /\ handler[h].at = "idle"
    BY Waits, IdleIsARecord
  <1>2. /\ tokens[t] \in Token /\ DOMAIN tokens' = DOMAIN tokens
        /\ tokens'[t] = [tokens[t] EXCEPT !.shared = @ \/ OthersHold(h, t)]
        /\ \A s \in DOMAIN tokens : s # t => tokens'[s] = tokens[s]
    BY TokenIndices DEF SoundInv, Hold
  <1>3. /\ tokens'[t].kind = tokens[t].kind /\ tokens'[t].wrong = tokens[t].wrong /\ tokens'[t].to = tokens[t].to
        /\ tokens'[t].attempts = tokens[t].attempts /\ tokens'[t].uses = tokens[t].uses
        /\ tokens'[t].shared = (tokens[t].shared \/ OthersHold(h, t))
        /\ Closed(tokens'[t]) = Closed(tokens[t])
    BY <1>2 DEF Token, Closed
  <1>4. \A s \in DOMAIN tokens : s # t => TokenInv(s)'
    BY <1>1, <1>2, OthersTokensStay, TokensThatStay DEF CodesInv, TokenPlaces
  <1>5. WrongsAreCounted(t)'
    <2>1. WrongsAreCounted(t)
      BY DEF CodesInv, TokenInv
    <2>2. tokens[t].wrong \in Nat /\ MaxAttempts \in Nat /\ Cardinality(Handlers) \in Nat
      BY <1>2, CodesAssumption, MissesAreFew DEF Token
    <2> DEFINE M == Misses(t)'
    <2>3. CASE x.at = "miss"
      <3>1. M \subseteq Handlers /\ IsFiniteSet(Handlers)
        BY AccountsAssumption DEF Misses
      <3>2. Cardinality(M) \in Nat /\ Cardinality(M) <= Cardinality(Handlers)
        BY <3>1, FS_Subset, FS_CardinalityType
      <3>3. tokens[t].wrong < MaxAttempts
        BY <2>1, <2>3 DEF WrongsAreCounted
      <3> HIDE DEF M
      <3>4. tokens[t].wrong + Cardinality(M) < MaxAttempts + Cardinality(Handlers)
        BY <2>2, <3>2, <3>3
      <3>5. QED
        BY <1>3, <2>1, <3>4 DEF WrongsAreCounted, M
    <2>4. CASE x.at # "miss"
      <3>1. Misses(t)' \subseteq Misses(t)
        BY <1>1, <2>4 DEF Misses, At, OthersStay
      <3>2. Cardinality(M) \in Nat /\ Cardinality(M) <= Cardinality(Misses(t)) /\ Cardinality(Misses(t)) \in Nat
        BY <3>1, SomeMiss, MissesAreFew
      <3> HIDE DEF M
      <3>3. tokens[t].kind = "phone" => tokens[t].wrong + Cardinality(M) < MaxAttempts + Cardinality(Handlers)
        BY <2>1, <2>2, <3>2 DEF WrongsAreCounted
      <3>4. QED
        BY <1>3, <2>1, <3>3 DEF WrongsAreCounted, M
    <2>5. QED
      BY <2>3, <2>4
  <1>6. ASSUME ~tokens'[t].shared PROVE UsedOnce(t)'
    <2>1. UsedOnce(t) /\ ~OthersHold(h, t) /\ tokens[t].uses = 0
      BY <1>3, <1>6 DEF CodesInv, TokenInv
    <2>2. \A g \in Handlers : HasToken(g, t)' => g = h
      BY <1>1, <2>1 DEF OthersHold, OthersStay, HasToken
    <2>3. KnowsUnused(h, t)'
      BY <1>1, <1>3, <1>6, <2>1 DEF KnowsUnused
    <2>4. QED
      BY <1>3, <2>1, <2>2, <2>3 DEF UsedOnce
  <1>7. QED
    BY <1>2, <1>4, <1>5, <1>6 DEF CodesInv, TokenInv

(* A token that is live and not used has not taken effect, unless a request *)
(* has it.                                                                  *)
LEMMA OpenTokensAreUnused ==
  ASSUME SoundInv, CodesInv, NEW h \in Handlers, handler[h] = Idle, NEW t \in DOMAIN tokens, Open(t),
         tokens[t].kind # "login", ~tokens[t].shared, ~OthersHold(h, t)
  PROVE  tokens[t].uses = 0
  <1>1. UsedOnce(t) /\ ~Closed(tokens[t])
    BY DEF CodesInv, TokenInv, Open, Closed
  <1>2. \A g \in Handlers : ~(At(g, "mark") /\ handler[g].item = t)
    BY IdleIsARecord DEF OthersHold, At
  <1>3. QED
    BY <1>1, <1>2 DEF UsedOnce

LEMMA TakersKeepCodes ==
  ASSUME HandlersAreRecords, SoundInv, CodesInv, NEW h \in Handlers,
         \/ \E t \in DOMAIN tokens : ResetPassword(h, t) \/ ConfirmEmailVerification(h, t)
         \/ \E u \in Users, right \in BOOLEAN : ConfirmPhoneChange(h, u, right)
         \/ \E a \in Addresses, right \in BOOLEAN : VerifyLoginOtp(h, a, right)
  PROVE  CodesInv'
  <1>1. handler[h] = Idle
    BY DEF ResetPassword, ConfirmEmailVerification, ConfirmPhoneChange, VerifyLoginOtp, Begin, MayBegin
  <1>2. ASSUME NEW t \in DOMAIN tokens, ResetPassword(h, t) PROVE CodesInv'
    <2> DEFINE x == [Idle EXCEPT !.at = "reset", !.user = tokens[t].user, !.item = t]
    <2>1. DOMAIN x = Fields /\ x.at = "reset" /\ x.item = t
      BY DEF Idle, Fields
    <2>2. Wait(h, x) /\ tokens[t].kind = "reset" /\ Open(t) /\ Hold(h, t) /\ UNCHANGED otp
      BY <1>2 DEF ResetPassword, SameOtp
    <2> HIDE DEF x
    <2>3. QED
      BY <1>1, <2>1, <2>2, OpenTokensAreUnused, TakingUpKeepsCodes
  <1>3. ASSUME NEW t \in DOMAIN tokens, ConfirmEmailVerification(h, t) PROVE CodesInv'
    <2> DEFINE x == [Idle EXCEPT !.at = "confirm", !.user = tokens[t].user, !.to = tokens[t].to, !.item = t]
    <2>1. DOMAIN x = Fields /\ x.at = "confirm" /\ x.item = t
      BY DEF Idle, Fields
    <2>2. Wait(h, x) /\ tokens[t].kind = "email" /\ Open(t) /\ Hold(h, t) /\ UNCHANGED otp
      BY <1>3 DEF ConfirmEmailVerification, SameOtp
    <2> HIDE DEF x
    <2>3. QED
      BY <1>1, <2>1, <2>2, OpenTokensAreUnused, TakingUpKeepsCodes
  <1>4. ASSUME NEW u \in Users, NEW right \in BOOLEAN, ConfirmPhoneChange(h, u, right) PROVE CodesInv'
    <2> DEFINE place == IF right THEN "confirm" ELSE "miss"
    <2>1. PICK t \in Newest(u) :
            /\ Open(t) /\ tokens[t].attempts < MaxAttempts /\ Hold(h, t)
            /\ Wait(h, [Idle EXCEPT !.at = place, !.user = u, !.to = tokens[t].to, !.item = t])
      BY <1>4 DEF ConfirmPhoneChange
    <2> DEFINE x == [Idle EXCEPT !.at = place, !.user = u, !.to = tokens[t].to, !.item = t]
    <2>2. Wait(h, x) /\ DOMAIN x = Fields /\ x.at \in {"confirm", "miss"} /\ x.item = t
      BY <2>1 DEF Idle, Fields
    <2>3. t \in DOMAIN tokens /\ tokens[t].kind = "phone" /\ UNCHANGED otp
      BY <1>4 DEF Newest, ConfirmPhoneChange, SameOtp
    <2> HIDE DEF x
    <2>4. QED
      BY <1>1, <2>1, <2>2, <2>3, OpenTokensAreUnused, TakingUpKeepsCodes
  <1>5. ASSUME NEW a \in Addresses, NEW right \in BOOLEAN, VerifyLoginOtp(h, a, right) PROVE CodesInv'
    <2> DEFINE t == otp[a].token
    <2> DEFINE place == IF otp[a].attempts >= MaxAttempts THEN "otp_drop" ELSE IF right THEN "otp_use" ELSE "otp_count"
    <2> DEFINE x == [at |-> place, user |-> tokens[t].user, to |-> a, item |-> t, seen |-> otp[a].attempts]
    <2>1. Wait(h, x) /\ Hold(h, t) /\ UNCHANGED otp /\ otp[a] # NoCode
      BY <1>5 DEF VerifyLoginOtp, SameOtp
    <2>2. /\ DOMAIN x = Fields /\ x.at \in {"otp_drop", "otp_use", "otp_count"} /\ x.item = t
          /\ x.seen = otp[a].attempts /\ (x.at = "otp_count" => ~(otp[a].attempts >= MaxAttempts))
      BY DEF Fields
    <2>3. t \in DOMAIN tokens /\ otp[a].attempts \in Nat /\ MaxAttempts \in Nat
      BY <2>1, CodesAssumption DEF SoundInv, OtpsSound
    <2>4. ~tokens[t].shared => tokens[t].uses = 0 /\ tokens[t].wrong = otp[a].attempts
      BY <2>3 DEF CodesInv, TokenInv, UsedOnce
    <2> HIDE DEF x, place
    <2>5. x.at = "otp_count" => x.seen < MaxAttempts /\ (~tokens[t].shared => tokens[t].wrong = x.seen)
      BY <2>2, <2>3, <2>4
    <2> HIDE DEF t
    <2>6. QED
      BY <1>1, <2>1, <2>2, <2>3, <2>4, <2>5, TakingUpKeepsCodes
  <1>6. QED
    BY <1>2, <1>3, <1>4, <1>5

(* A token is made, which no request and no record has.                     *)

(* A token is made, which no request and no record has.                     *)
LEMMA NewTokensKeepCodes ==
  ASSUME SoundInv, CodesInv, TokensSound', NEW h \in Handlers, OthersStay(h),
         handler[h].at \notin TokenPlaces, handler'[h].at \notin TokenPlaces,
         NEW kind, NEW u, NEW a, NewToken(kind, u, a),
         \/ UNCHANGED otp
         \/ \E b \in Addresses : otp' = [otp EXCEPT ![b] = [token |-> Len(tokens'), attempts |-> 0]]
  PROVE  CodesInv'
  <1> DEFINE x == [kind |-> kind, user |-> u, to |-> a, live |-> TRUE, used |-> FALSE, deleted |-> FALSE,
                   attempts |-> 0, uses |-> 0, wrong |-> 0, shared |-> FALSE]
  <1>1. tokens' = Append(tokens, x)
    BY DEF NewToken
  <1>2. x.kind = kind /\ x.attempts = 0 /\ x.uses = 0 /\ x.wrong = 0
    OBVIOUS
  <1> HIDE DEF x
  <1>0. PICK n : n = Len(tokens) + 1
    OBVIOUS
  <1>3. /\ tokens \in Seq(Token) /\ Len(tokens) \in Nat /\ DOMAIN tokens = 1 .. Len(tokens)
        /\ Len(tokens') \in Nat /\ DOMAIN tokens' = 1 .. Len(tokens')
    BY TokenIndices DEF SoundInv, TokensSound
  <1>4. Len(tokens') = n /\ tokens'[n] = x /\ \A t \in DOMAIN tokens : tokens'[t] = tokens[t]
    BY <1>0, <1>1, <1>3
  <1>5. n \notin DOMAIN tokens /\ DOMAIN tokens' = DOMAIN tokens \cup {n} /\ n # 0
    BY <1>0, <1>3, <1>4
  <1>6. \A t \in DOMAIN tokens, b \in Addresses : otp'[b].token = t => otp'[b] = otp[b]
    BY <1>4, <1>5 DEF SoundInv, OtpsSound
  <1>7. \A g \in Handlers : ~HasToken(g, n) /\ ~HasToken(g, n)'
    BY <1>5 DEF SoundInv, RequestsHold, Holds, HoldsToken, HasToken, OthersStay
  <1>8. ASSUME NEW b \in Addresses, otp'[b].token = n PROVE otp'[b].attempts = 0
    <2>1. otp \in [Addresses -> [token : Nat, attempts : Nat]]
      BY DEF SoundInv, OtpsSound
    <2>2. otp[b].token # n
      <3>1. NoCode.token = 0 /\ n # 0
        BY <1>5, NoCodeIsARecord
      <3>2. QED
        BY <1>5, <3>1 DEF SoundInv, OtpsSound
    <2>3. PICK c \in Addresses : otp' = [otp EXCEPT ![c] = [token |-> Len(tokens'), attempts |-> 0]]
      BY <1>8, <2>2
    <2>4. otp'[b] = [token |-> Len(tokens'), attempts |-> 0]
      BY <1>8, <2>1, <2>2, <2>3
    <2>5. QED
      BY <2>4
  <1>9. TokenInv(n)'
    <2>1. Misses(n)' = {}
      BY <1>7 DEF Misses, HasToken, At, TokenPlaces
    <2>2. Cardinality(Misses(n)') = 0 /\ Cardinality(Handlers) \in Nat /\ MaxAttempts \in Nat \ {0}
      BY <2>1, FS_EmptySet, MissesAreFew, CodesAssumption
    <2>3. WrongsAreCounted(n)'
      BY <1>2, <1>4, <2>2 DEF WrongsAreCounted
    <2>4. UsedOnce(n)'
      BY <1>2, <1>4, <1>7, <1>8, <2>2 DEF UsedOnce
    <2>5. QED
      BY <2>3, <2>4 DEF TokenInv
  <1>10. ASSUME NEW t \in DOMAIN tokens PROVE TokenInv(t)'
    <2>1. TokenStays(t)
      BY <1>4, <1>6 DEF OthersStay, TokenStays, HasToken, At, TokenPlaces
    <2>2. QED
      BY <2>1, TokensThatStay DEF CodesInv
  <1>11. QED
    BY <1>5, <1>9, <1>10 DEF CodesInv

(* The request that has a token is through with it.                         *)
LEMMA LettingGo ==
  ASSUME HandlersAreRecords, SoundInv, CodesInv, NEW h \in Handlers, NEW t, HasToken(h, t), Finish(h),
         DOMAIN tokens' = DOMAIN tokens, \A s \in DOMAIN tokens : s # t => tokens'[s] = tokens[s],
         \A s \in DOMAIN tokens, a \in Addresses : s # t /\ otp'[a].token = s => otp'[a] = otp[a],
         tokens'[t].kind = tokens[t].kind, tokens'[t].shared = tokens[t].shared,
         \/ tokens'[t].wrong = tokens[t].wrong /\ tokens'[t].attempts = tokens[t].attempts
         \/ At(h, "miss") /\ tokens'[t].wrong = tokens[t].wrong + 1 /\ tokens'[t].attempts = tokens[t].attempts + 1
         \/ tokens[t].kind = "login",
         ~tokens[t].shared /\ UsedOnce(t) /\ KnowsUnused(h, t) =>
           /\ tokens'[t].uses <= 1 /\ tokens'[t].wrong <= MaxAttempts
           /\ tokens'[t].kind # "login" => tokens'[t].uses = 0 \/ Closed(tokens'[t])
           /\ \A a \in Addresses : otp'[a].token = t => tokens'[t].uses = 0 /\ tokens'[t].wrong = otp'[a].attempts
  PROVE  CodesInv'
  <1>1. handler'[h] = Idle /\ OthersStay(h) /\ Idle.at \notin TokenPlaces
    BY Finishes, IdleIsARecord DEF TokenPlaces
  <1>2. t \in DOMAIN tokens /\ tokens[t] \in Token
    BY HeldToken DEF HasToken
  <1>3. \A s \in DOMAIN tokens : s # t => TokenInv(s)'
    BY <1>1, <1>2, OthersTokensStay, TokensThatStay DEF CodesInv, HasToken
  <1>4. WrongsAreCounted(t)'
    <2>1. WrongsAreCounted(t)
      BY <1>2 DEF CodesInv, TokenInv
    <2>2. tokens[t].wrong \in Nat /\ MaxAttempts \in Nat /\ Cardinality(Handlers) \in Nat
      BY <1>2, CodesAssumption, MissesAreFew DEF Token
    <2>3. Misses(t)' = Misses(t) \ {h} /\ (At(h, "miss") => h \in Misses(t))
      BY <1>1 DEF Misses, At, OthersStay, HasToken, TokenPlaces
    <2> DEFINE M == Misses(t)'
    <2> DEFINE n == Cardinality(Misses(t))
    <2>4. /\ Cardinality(M) \in Nat /\ n \in Nat /\ Cardinality(M) <= n
          /\ At(h, "miss") => Cardinality(M) = n - 1
      BY <2>3, SomeMiss, MissesAreFew, FS_RemoveElement
    <2>5. tokens[t].kind = "phone" => tokens[t].wrong + n < MaxAttempts + Cardinality(Handlers)
      BY <2>1 DEF WrongsAreCounted
    <2> HIDE DEF M, n
    <2>6. tokens'[t].kind = "phone" => tokens'[t].wrong + Cardinality(M) < MaxAttempts + Cardinality(Handlers)
      BY <2>2, <2>4, <2>5
    <2>7. QED
      BY <2>1, <2>6 DEF WrongsAreCounted, M
  <1>5. ASSUME ~tokens'[t].shared PROVE UsedOnce(t)'
    <2>1. UsedOnce(t)
      BY <1>2, <1>5 DEF CodesInv, TokenInv
    <2>2. KnowsUnused(h, t)
      BY <2>1 DEF UsedOnce
    <2>3. \A g \in Handlers : ~HasToken(g, t)'
      BY <1>1, <2>1 DEF UsedOnce, HasToken, OthersStay
    <2>4. QED
      BY <1>5, <2>1, <2>2, <2>3 DEF UsedOnce
  <1>6. QED
    BY <1>2, <1>3, <1>4, <1>5 DEF CodesInv, TokenInv

(* Only login codes have records.                                           *)
LEMMA OthersHaveNoRecord ==
  ASSUME SoundInv, NEW t \in DOMAIN tokens
  PROVE  /\ \A a \in Addresses : otp[a].token = t => tokens[t].kind = "login" /\ tokens[t].to = a
         /\ t \in Nat \ {0}
  <1>1. t \in Nat \ {0}
    BY TokenIndices DEF SoundInv
  <1>2. QED
    BY <1>1, NoCodeIsARecord DEF SoundInv, OtpsSound

LEMMA LinkStepsKeepCodes ==
  ASSUME HandlersAreRecords, SoundInv, CodesInv, NEW h \in Handlers,
         CountAttempt(h) \/ MarkUsed(h) \/ CommitReset(h) \/ (ApplyAddress(h) /\ Finish(h))
  PROVE  CodesInv'
  <1>1. handler[h].at \in {"miss", "mark", "reset", "confirm"} /\ Finish(h) /\ UNCHANGED otp
    BY DEF CountAttempt, ApplyAddress, MarkUsed, CommitReset, At, SameOtp
  <1>2. PICK t \in DOMAIN tokens :
          /\ t = handler[h].item /\ tokens[t] \in Token /\ tokens[t].kind \in {"email", "phone", "reset"}
          /\ handler[h].at = "miss" => tokens[t].kind = "phone"
    BY <1>1, HeldToken DEF TokenPlaces, KindsAt
  <1>3. HasToken(h, t) /\ \A a \in Addresses : otp'[a].token # t
    BY <1>1, <1>2, OthersHaveNoRecord DEF HasToken, TokenPlaces
  <1>4. tokens[t].wrong \in Nat /\ tokens[t].attempts \in Nat /\ tokens[t].uses \in Nat /\ MaxAttempts \in Nat
    BY <1>2, CodesAssumption DEF Token
  <1>5. WrongsAreCounted(t) /\ tokens[t].wrong = tokens[t].attempts
    BY <1>2 DEF CodesInv, TokenInv, WrongsAreCounted
  <1>6. CASE CountAttempt(h)
    <2>1. /\ DOMAIN tokens' = DOMAIN tokens /\ \A s \in DOMAIN tokens : s # t => tokens'[s] = tokens[s]
          /\ tokens'[t] = [tokens[t] EXCEPT !.attempts = @ + 1, !.wrong = @ + 1]
      BY <1>2, <1>6 DEF CountAttempt
    <2>2. /\ tokens'[t].kind = tokens[t].kind /\ tokens'[t].shared = tokens[t].shared
          /\ tokens'[t].wrong = tokens[t].wrong + 1 /\ tokens'[t].attempts = tokens[t].attempts + 1
          /\ tokens'[t].uses = tokens[t].uses
      BY <1>2, <2>1 DEF Token
    <2>3. At(h, "miss")
      BY <1>6 DEF CountAttempt
    <2>4. KnowsUnused(h, t) => tokens'[t].uses = 0 /\ tokens'[t].uses <= 1 /\ tokens'[t].wrong <= MaxAttempts
      BY <1>4, <1>5, <2>2, <2>3 DEF KnowsUnused, At
    <2>5. QED
      BY <1>1, <1>2, <1>3, <2>1, <2>2, <2>3, <2>4, LettingGo
  <1>7. CASE MarkUsed(h)
    <2>1. /\ DOMAIN tokens' = DOMAIN tokens /\ \A s \in DOMAIN tokens : s # t => tokens'[s] = tokens[s]
          /\ tokens'[t] = [tokens[t] EXCEPT !.used = ~tokens[t].deleted]
      BY <1>2, <1>7 DEF MarkUsed
    <2>2. /\ tokens'[t].kind = tokens[t].kind /\ tokens'[t].shared = tokens[t].shared
          /\ tokens'[t].wrong = tokens[t].wrong /\ tokens'[t].attempts = tokens[t].attempts
          /\ tokens'[t].uses = tokens[t].uses /\ Closed(tokens'[t])
      BY <1>2, <2>1 DEF Token, Closed
    <2>3. UsedOnce(t) => tokens'[t].uses <= 1 /\ tokens'[t].wrong <= MaxAttempts
      BY <2>2 DEF UsedOnce
    <2>4. QED
      BY <1>1, <1>2, <1>3, <2>1, <2>2, <2>3, LettingGo
  <1>8. CASE CommitReset(h) /\ ~tokens[t].deleted
    <2>1. tokens' = [tokens EXCEPT ![t].used = TRUE, ![t].uses = @ + 1]
      BY <1>2, <1>8, Zenon DEF CommitReset
    <2>2. /\ DOMAIN tokens' = DOMAIN tokens /\ \A s \in DOMAIN tokens : s # t => tokens'[s] = tokens[s]
          /\ tokens'[t] = [tokens[t] EXCEPT !.used = TRUE, !.uses = @ + 1]
      BY <1>2, <2>1
    <2>3. /\ tokens'[t].kind = tokens[t].kind /\ tokens'[t].shared = tokens[t].shared
          /\ tokens'[t].wrong = tokens[t].wrong /\ tokens'[t].attempts = tokens[t].attempts
          /\ tokens'[t].uses = tokens[t].uses + 1 /\ Closed(tokens'[t])
      BY <1>2, <2>2 DEF Token, Closed
    <2>4. handler[h].at = "reset"
      BY <1>8 DEF CommitReset, At
    <2>5. UsedOnce(t) /\ KnowsUnused(h, t) => tokens'[t].uses <= 1 /\ tokens'[t].wrong <= MaxAttempts
      BY <2>3, <2>4 DEF UsedOnce, KnowsUnused
    <2>6. QED
      BY <1>1, <1>2, <1>3, <2>2, <2>3, <2>5, LettingGo
  <1>9. CASE (CommitReset(h) /\ tokens[t].deleted) \/ ApplyAddress(h)
    <2>1. UNCHANGED tokens /\ handler[h].at \in {"reset", "confirm"}
      <3>1. ASSUME ApplyAddress(h) PROVE UNCHANGED tokens
        <4>1. ~Goto(h, "mark")
          BY <1>1, Goes, Finishes, IdleIsARecord
        <4>2. QED
          BY <3>1, <4>1 DEF ApplyAddress
      <3>2. QED
        BY <1>2, <1>9, <3>1 DEF CommitReset, ApplyAddress, At
    <2>2. UsedOnce(t) /\ KnowsUnused(h, t) => tokens'[t].uses = 0 /\ tokens'[t].wrong <= MaxAttempts
      BY <2>1 DEF UsedOnce, KnowsUnused
    <2>3. QED
      BY <1>1, <1>2, <1>3, <2>1, <2>2, LettingGo
  <1>10. QED
    BY <1>6, <1>7, <1>8, <1>9

(* The address is the user's: the link has taken effect and is to be marked. *)
LEMMA ApplicationKeepsCodes ==
  ASSUME HandlersAreRecords, SoundInv, CodesInv, NEW h \in Handlers, ApplyAddress(h), ~Finish(h)
  PROVE  CodesInv'
  <1>1. At(h, "confirm") /\ Goto(h, "mark") /\ UNCHANGED otp
    BY DEF ApplyAddress, SameOtp
  <1>2. PICK t \in DOMAIN tokens :
          t = handler[h].item /\ tokens[t] \in Token /\ tokens[t].kind \in {"email", "phone"}
    BY <1>1, HeldToken DEF At, TokenPlaces, KindsAt
  <1>3. OthersStay(h) /\ handler'[h].at = "mark" /\ handler'[h].item = t
    BY <1>1, <1>2, Goes DEF Fields
  <1>4. HasToken(h, t) /\ \A a \in Addresses : otp'[a].token # t
    BY <1>1, <1>2, OthersHaveNoRecord DEF HasToken, At, TokenPlaces
  <1>5. /\ DOMAIN tokens' = DOMAIN tokens /\ \A s \in DOMAIN tokens : s # t => tokens'[s] = tokens[s]
        /\ tokens'[t] = [tokens[t] EXCEPT !.uses = @ + 1]
    BY <1>2 DEF ApplyAddress
  <1>6. /\ tokens'[t].kind = tokens[t].kind /\ tokens'[t].shared = tokens[t].shared
        /\ tokens'[t].wrong = tokens[t].wrong /\ tokens'[t].attempts = tokens[t].attempts
        /\ tokens'[t].uses = tokens[t].uses + 1
    BY <1>2, <1>5 DEF Token
  <1>7. \A s \in DOMAIN tokens : s # t => TokenInv(s)'
    BY <1>1, <1>2, <1>3, <1>5, OthersTokensStay, TokensThatStay DEF CodesInv
  <1>8. WrongsAreCounted(t)'
    <2>1. Misses(t)' = Misses(t)
      BY <1>1, <1>3 DEF Misses, At, OthersStay
    <2>2. QED
      BY <1>6, <2>1 DEF CodesInv, TokenInv, WrongsAreCounted
  <1>9. ASSUME ~tokens'[t].shared PROVE UsedOnce(t)'
    <2>1. UsedOnce(t) /\ tokens[t].uses = 0
      BY <1>1, <1>4, <1>6, <1>9 DEF CodesInv, TokenInv, UsedOnce, KnowsUnused, At
    <2>2. \A g \in Handlers : HasToken(g, t)' => g = h
      BY <1>3, <1>4, <2>1 DEF UsedOnce, HasToken, OthersStay
    <2>3. KnowsUnused(h, t)'
      BY <1>3 DEF KnowsUnused
    <2>4. At(h, "mark")' /\ handler'[h].item = t
      BY <1>3 DEF At
    <2>5. tokens'[t].uses <= 1 /\ tokens'[t].wrong <= MaxAttempts
      BY <1>6, <2>1 DEF UsedOnce
    <2>6. QED
      BY <1>4, <2>2, <2>3, <2>4, <2>5 DEF UsedOnce
  <1>10. QED
    BY <1>5, <1>7, <1>8, <1>9 DEF CodesInv, TokenInv

(* Login codes are known by their record, which goes before they are used.  *)
LEMMA LoginStepsKeepCodes ==
  ASSUME HandlersAreRecords, SoundInv, CodesInv, NEW h \in Handlers,
         DropOtp(h) \/ CountWrongOtp(h) \/ SignInWithOtp(h)
  PROVE  CodesInv'
  <1>1. handler[h].at \in {"otp_drop", "otp_count", "otp_login"} /\ Finish(h)
    BY DEF DropOtp, CountWrongOtp, SignInWithOtp, At
  <1>2. PICK t \in DOMAIN tokens :
          /\ t = handler[h].item /\ tokens[t] \in Token /\ tokens[t].kind = "login" /\ tokens[t].to = handler[h].to
    BY <1>1, HeldToken DEF TokenPlaces, KindsAt
  <1>3. PICK a \in Addresses : a = handler[h].to
    BY <1>1 DEF SoundInv, RequestsHold, Holds, HoldsAddress, AddressPlaces
  <1>4. /\ HasToken(h, t) /\ otp \in [Addresses -> [token : Nat, attempts : Nat]]
        /\ \A b \in Addresses : otp[b].token = t => b = a
        /\ 0 \notin DOMAIN tokens
    BY <1>1, <1>2, <1>3, OthersHaveNoRecord DEF HasToken, TokenPlaces, SoundInv, OtpsSound
  <1>5. tokens[t].wrong \in Nat /\ tokens[t].uses \in Nat /\ MaxAttempts \in Nat
    BY <1>2, CodesAssumption DEF Token
  <1>6. CASE DropOtp(h)
    <2>1. otp' = [otp EXCEPT ![a] = NoCode] /\ UNCHANGED tokens
      BY <1>3, <1>6 DEF DropOtp
    <2>2. \A b \in Addresses : otp'[b] = otp[b] \/ (b = a /\ otp'[b].token = 0)
      BY <1>4, <2>1, NoCodeIsARecord
    <2>3. \A b \in Addresses : otp'[b].token # t
      BY <1>4, <2>1, <2>2, NoCodeIsARecord
    <2>4. UsedOnce(t) => tokens'[t].uses <= 1 /\ tokens'[t].wrong <= MaxAttempts
      BY <2>1 DEF UsedOnce
    <2>5. QED
      BY <1>1, <1>2, <1>4, <2>1, <2>2, <2>3, <2>4, LettingGo
  <1>7. CASE CountWrongOtp(h)
    <2>1. /\ tokens' = [tokens EXCEPT ![t].wrong = @ + 1]
          /\ otp' = [otp EXCEPT ![a] = [token |-> t, attempts |-> handler[h].seen + 1]]
      BY <1>2, <1>3, <1>7 DEF CountWrongOtp
    <2>2. /\ DOMAIN tokens' = DOMAIN tokens /\ \A s \in DOMAIN tokens : s # t => tokens'[s] = tokens[s]
          /\ tokens'[t].kind = tokens[t].kind /\ tokens'[t].shared = tokens[t].shared
          /\ tokens'[t].wrong = tokens[t].wrong + 1 /\ tokens'[t].uses = tokens[t].uses
      BY <1>2, <2>1 DEF Token
    <2>3. \A b \in Addresses :
            \/ otp'[b] = otp[b] /\ b # a
            \/ b = a /\ otp'[b].token = t /\ otp'[b].attempts = handler[h].seen + 1
      BY <1>4, <2>1
    <2>4. handler[h].at = "otp_count" /\ handler[h].seen \in Nat
      BY <1>7 DEF CountWrongOtp, At, SoundInv, RequestsHold, Holds, HoldsToken, TokenPlaces
    <2>5. KnowsUnused(h, t) =>
            /\ tokens'[t].uses = 0 /\ tokens'[t].uses <= 1 /\ tokens'[t].wrong <= MaxAttempts
            /\ tokens'[t].wrong = handler[h].seen + 1
      BY <1>5, <2>2, <2>4 DEF KnowsUnused
    <2>6. \A s \in DOMAIN tokens, b \in Addresses : s # t /\ otp'[b].token = s => otp'[b] = otp[b]
      BY <2>3
    <2>7. KnowsUnused(h, t) =>
            \A b \in Addresses : otp'[b].token = t => tokens'[t].uses = 0 /\ tokens'[t].wrong = otp'[b].attempts
      BY <1>4, <2>3, <2>5
    <2>8. QED
      BY <1>1, <1>2, <1>4, <2>2, <2>5, <2>6, <2>7, LettingGo
  <1>8. CASE SignInWithOtp(h)
    <2>1. UNCHANGED otp /\ handler[h].at = "otp_login"
      BY <1>8 DEF SignInWithOtp, SameOtp, At
    <2>2. /\ DOMAIN tokens' = DOMAIN tokens /\ \A s \in DOMAIN tokens : s # t => tokens'[s] = tokens[s]
          /\ tokens'[t] = tokens[t] \/ tokens'[t] = [tokens[t] EXCEPT !.uses = @ + 1]
      BY <1>2, <1>8 DEF SignInWithOtp
    <2>3. /\ tokens'[t].kind = tokens[t].kind /\ tokens'[t].shared = tokens[t].shared
          /\ tokens'[t].wrong = tokens[t].wrong /\ tokens'[t].uses \in {tokens[t].uses, tokens[t].uses + 1}
      BY <1>2, <2>2 DEF Token
    <2>4. KnowsUnused(h, t) => tokens'[t].uses <= 1 /\ \A b \in Addresses : otp'[b].token # t
      BY <1>2, <1>3, <1>4, <2>1, <2>3 DEF KnowsUnused
    <2>5. UsedOnce(t) => tokens'[t].wrong <= MaxAttempts
      BY <2>3 DEF UsedOnce
    <2>6. QED
      BY <1>1, <1>2, <1>4, <2>1, <2>2, <2>3, <2>4, <2>5, LettingGo
  <1>9. QED
    BY <1>6, <1>7, <1>8

LEMMA OtpUseKeepsCodes ==
  ASSUME HandlersAreRecords, SoundInv, CodesInv, NEW h \in Handlers, UseOtp(h)
  PROVE  CodesInv'
  <1>1. handler[h].at = "otp_use" /\ Goto(h, "otp_login") /\ UNCHANGED tokens
    BY DEF UseOtp, At
  <1>2. PICK t \in DOMAIN tokens :
          /\ t = handler[h].item /\ tokens[t] \in Token /\ tokens[t].kind = "login" /\ tokens[t].to = handler[h].to
    BY <1>1, HeldToken DEF TokenPlaces, KindsAt
  <1>3. PICK a \in Addresses : a = handler[h].to
    BY <1>1 DEF SoundInv, RequestsHold, Holds, HoldsAddress, AddressPlaces
  <1>4. OthersStay(h) /\ handler'[h].at = "otp_login" /\ handler'[h].item = t /\ HasToken(h, t)
    BY <1>1, <1>2, Goes DEF Fields, HasToken, TokenPlaces
  <1>5. /\ otp \in [Addresses -> [token : Nat, attempts : Nat]] /\ 0 \notin DOMAIN tokens
        /\ otp' = [otp EXCEPT ![a] = NoCode]
    BY <1>3, OthersHaveNoRecord DEF UseOtp, SoundInv, OtpsSound
  <1>6. \A b \in Addresses : otp'[b] = otp[b] \/ otp'[b].token = 0
    BY <1>5, NoCodeIsARecord
  <1>7. otp'[a].token = 0
    BY <1>5, NoCodeIsARecord
  <1>8. \A s \in DOMAIN tokens : s # t => TokenInv(s)'
    BY <1>1, <1>2, <1>4, <1>5, <1>6, OthersTokensStay, TokensThatStay DEF CodesInv
  <1>9. WrongsAreCounted(t)'
    <2>1. Misses(t)' = Misses(t)
      BY <1>1, <1>4 DEF Misses, At, OthersStay
    <2>2. QED
      BY <1>1, <2>1 DEF CodesInv, TokenInv, WrongsAreCounted
  <1>10. ASSUME ~tokens'[t].shared PROVE UsedOnce(t)'
    <2>1. UsedOnce(t) /\ tokens[t].uses = 0
      BY <1>1, <1>4, <1>10 DEF CodesInv, TokenInv, UsedOnce, KnowsUnused
    <2>2. \A g \in Handlers : HasToken(g, t)' => g = h
      BY <1>4, <2>1 DEF UsedOnce, HasToken, OthersStay
    <2>3. KnowsUnused(h, t)'
      BY <1>1, <1>2, <1>3, <1>4, <1>5, <1>7, <2>1 DEF KnowsUnused
    <2>4. \A b \in Addresses : otp'[b].token = t => tokens'[t].uses = 0 /\ tokens'[t].wrong = otp'[b].attempts
      BY <1>1, <1>5, <1>6, <2>1 DEF UsedOnce
    <2>5. QED
      BY <1>1, <2>1, <2>2, <2>3, <2>4 DEF UsedOnce
  <1>11. QED
    BY <1>1, <1>8, <1>9, <1>10 DEF CodesInv, TokenInv

(* Requests that ask for a token, or have no token yet                      *)
AskPlaces ==
  {"idle", "register", "email_token", "phone_token", "reset_token", "otp_store", "otp_cool"}

LEMMA AskersKeepCodes ==
  ASSUME HandlersAreRecords, SoundInv, CodesInv, TokensSound', NEW h \in Handlers,
         \/ \E a \in Addresses : RegisterUser(h, a) \/ ForgotPassword(h, a) \/ RequestLoginOtp(h, a)
         \/ \E u \in Users, a \in Addresses : RequestEmailVerification(h, u, a) \/ RequestPhoneChange(h, u, a)
         \/ CreateUser(h) \/ CoolDown(h)
         \/ SendEmailLink(h) \/ SendPhoneCode(h) \/ SendResetLink(h) \/ StoreOtp(h)
  PROVE  CodesInv'
  <1>1. /\ OthersStay(h) /\ handler[h].at \in AskPlaces
        /\ \/ UNCHANGED <<tokens, otp>>
           \/ \E kind, u, a : NewToken(kind, u, a) /\ UNCHANGED otp
           \/ \E kind, u, a : NewToken(kind, u, a) /\ StoreOtp(h)
    <2>1. ASSUME NEW a \in Addresses, RegisterUser(h, a) \/ ForgotPassword(h, a) \/ RequestLoginOtp(h, a)
          PROVE  OthersStay(h) /\ handler[h].at = "idle" /\ UNCHANGED <<tokens, otp>>
      BY <2>1, OthersStayThen DEF RegisterUser, ForgotPassword, RequestLoginOtp, SameCodes, codeVars
    <2>2. ASSUME NEW u \in Users, NEW a \in Addresses, RequestEmailVerification(h, u, a) \/ RequestPhoneChange(h, u, a)
          PROVE  OthersStay(h) /\ handler[h].at = "idle" /\ UNCHANGED <<tokens, otp>>
      BY <2>2, OthersStayThen DEF RequestEmailVerification, RequestPhoneChange, RequestVerification, SameCodes, codeVars
    <2>3. CASE CreateUser(h) \/ CoolDown(h)
      BY <2>3, OthersStayThen DEF CreateUser, CoolDown, SameCodes, codeVars, At, AskPlaces
    <2>4. CASE SendEmailLink(h) \/ SendPhoneCode(h) \/ SendResetLink(h)
      BY <2>4, OthersStayThen DEF SendEmailLink, SendPhoneCode, SendResetLink, CreateToken, SameOtp, At, AskPlaces
    <2>5. CASE StoreOtp(h)
      BY <2>5, OthersStayThen DEF StoreOtp, At, AskPlaces
    <2>6. QED
      BY <2>1, <2>2, <2>3, <2>4, <2>5 DEF AskPlaces
  <1>2. handler'[h].at \in AskPlaces
    <2>1. ASSUME NEW x, Wait(h, x), x.at \in AskPlaces PROVE handler'[h].at \in AskPlaces
      BY <2>1 DEF Wait, HandlersAreRecords
    <2>2. ASSUME NEW place \in AskPlaces, NEW u, NEW a,
                 \/ Wait(h, [Idle EXCEPT !.at = place, !.user = u, !.to = a])
                 \/ Wait(h, [Idle EXCEPT !.at = place, !.user = u]) \/ Wait(h, [Idle EXCEPT !.at = place, !.to = a])
          PROVE  handler'[h].at \in AskPlaces
      <3> DEFINE x == [Idle EXCEPT !.at = place, !.user = u, !.to = a]
                 y == [Idle EXCEPT !.at = place, !.user = u]
                 z == [Idle EXCEPT !.at = place, !.to = a]
      <3>1. x.at = place /\ y.at = place /\ z.at = place
        BY DEF Idle
      <3>2. Wait(h, x) \/ Wait(h, y) \/ Wait(h, z)
        BY <2>2
      <3> HIDE DEF x, y, z
      <3>3. QED
        BY <2>1, <3>1, <3>2
    <2>3. ASSUME Finish(h) PROVE handler'[h].at \in AskPlaces
      BY <2>3, Finishes, IdleIsARecord DEF AskPlaces
    <2>4. ASSUME NEW a \in Addresses, RegisterUser(h, a) \/ ForgotPassword(h, a) \/ RequestLoginOtp(h, a)
          PROVE  handler'[h].at \in AskPlaces
      <3>1. {"register", "reset_token", "otp_store", "otp_cool"} \subseteq AskPlaces
        BY DEF AskPlaces
      <3>2. CASE RegisterUser(h, a)
        BY <2>2, <3>1, <3>2 DEF RegisterUser
      <3>3. CASE ForgotPassword(h, a)
        BY <2>2, <3>1, <3>3 DEF ForgotPassword
      <3>4. CASE RequestLoginOtp(h, a)
        <4>1. \/ Wait(h, [Idle EXCEPT !.at = "otp_store", !.user = UserOf(a), !.to = a])
              \/ Wait(h, [Idle EXCEPT !.at = "otp_cool", !.to = a])
          BY <3>4 DEF RequestLoginOtp
        <4>2. QED
          BY <2>2, <3>1, <4>1
      <3>5. QED
        BY <2>4, <3>2, <3>3, <3>4
    <2>5. ASSUME NEW u \in Users, NEW a \in Addresses, RequestEmailVerification(h, u, a) \/ RequestPhoneChange(h, u, a)
          PROVE  handler'[h].at \in AskPlaces
      <3>1. PICK place \in {"email_token", "phone_token"} : RequestVerification(h, u, a, place)
        BY <2>5 DEF RequestEmailVerification, RequestPhoneChange
      <3>2. place \in AskPlaces /\ Wait(h, [Idle EXCEPT !.at = place, !.user = u, !.to = a])
        BY <3>1 DEF RequestVerification, AskPlaces
      <3>3. QED
        BY <2>2, <3>2
    <2>6. CASE CreateUser(h)
      <3>1. Finish(h) \/ \E u \in Users : Wait(h, [Idle EXCEPT !.at = "email_token", !.user = u, !.to = handler[h].to])
        BY <2>6 DEF CreateUser
      <3>2. "email_token" \in AskPlaces
        BY DEF AskPlaces
      <3>3. QED
        BY <2>2, <2>3, <3>1, <3>2
    <2>7. CASE CoolDown(h) \/ SendEmailLink(h) \/ SendPhoneCode(h) \/ SendResetLink(h)
      BY <2>3, <2>7 DEF CoolDown, SendEmailLink, SendPhoneCode, SendResetLink, CreateToken
    <2>8. CASE StoreOtp(h)
      BY <2>8, Goes DEF StoreOtp, AskPlaces
    <2>9. QED
      BY <2>4, <2>5, <2>6, <2>7, <2>8
  <1>3. AskPlaces \cap TokenPlaces = {}
    BY DEF AskPlaces, TokenPlaces
  <1>4. CASE UNCHANGED <<tokens, otp>>
    <2>1. Keep(AskPlaces)
      BY <1>1, <1>2 DEF Keep, OthersStay
    <2>2. QED
      BY <1>3, <1>4, <2>1, QuietTokensStay
  <1>5. ASSUME NEW kind, NEW u, NEW a, NewToken(kind, u, a), UNCHANGED otp PROVE CodesInv'
    BY <1>1, <1>2, <1>3, <1>5, NewTokensKeepCodes
  <1>6. ASSUME NEW kind, NEW u, NEW a, NewToken(kind, u, a), StoreOtp(h) PROVE CodesInv'
    <2>1. handler[h].to \in Addresses
      BY <1>6 DEF StoreOtp, At, SoundInv, RequestsHold, Holds, HoldsAddress, AddressPlaces
    <2>2. \E b \in Addresses : otp' = [otp EXCEPT ![b] = [token |-> Len(tokens'), attempts |-> 0]]
      BY <1>6, <2>1 DEF StoreOtp
    <2>3. QED
      BY <1>1, <1>2, <1>3, <1>6, <2>2, NewTokensKeepCodes
  <1>7. QED
    BY <1>1, <1>4, <1>5, <1>6

(* Tokens and records end, and tokens are deleted or left by those who die. *)
LEMMA EndingsKeepCodes ==
  ASSUME SoundInv, CodesInv, DOMAIN tokens' = DOMAIN tokens, UNCHANGED otp,
         UNCHANGED handler \/ \E h \in Handlers : OthersStay(h) /\ handler'[h].at \notin TokenPlaces
                                /\ (handler[h].at = "mark" => tokens'[handler[h].item].shared),
         \A t \in DOMAIN tokens :
           \/ tokens'[t] = tokens[t]
           \/ \E f \in {"shared", "deleted"} : tokens'[t] = [tokens[t] EXCEPT ![f] = TRUE]
           \/ tokens'[t] = [tokens[t] EXCEPT !.live = FALSE]
  PROVE  CodesInv'
  <1>1. ASSUME NEW t \in DOMAIN tokens PROVE TokenStays(t)
    <2>1. tokens[t] \in Token
      BY TokenIndices DEF SoundInv
    <2>2. /\ \A f \in {"kind", "to", "attempts", "uses", "wrong"} : tokens'[t][f] = tokens[t][f]
          /\ tokens[t].shared => tokens'[t].shared
          /\ Closed(tokens[t]) => Closed(tokens'[t])
      BY <2>1 DEF Token, Closed
    <2>3. /\ \A g \in Handlers : HasToken(g, t)' => handler'[g] = handler[g]
          /\ tokens'[t].shared \/ \A g \in Handlers : At(g, "mark") /\ handler[g].item = t => handler'[g] = handler[g]
      BY DEF HasToken, OthersStay, At
    <2>4. QED
      BY <2>2, <2>3 DEF TokenStays
  <1>2. QED
    BY <1>1, TokensThatStay DEF CodesInv

LEMMA CodesNextKeepsUses ==
  ASSUME HandlersAreRecords, SoundInv, CodesInv, TokensSound', CodesNext
  PROVE  CodesInv'
  <1>1. ASSUME NEW h \in Handlers, CodeRequest(h) PROVE CodesInv'
    BY <1>1, AskersKeepCodes, TakersKeepCodes DEF CodeRequest
  <1>2. ASSUME NEW h \in Handlers, CodeStep(h) PROVE CodesInv'
    <2>1. CASE ApplyAddress(h)
      BY <2>1, LinkStepsKeepCodes, ApplicationKeepsCodes
    <2>2. CASE CountAttempt(h) \/ MarkUsed(h) \/ CommitReset(h)
      BY <2>2, LinkStepsKeepCodes
    <2>3. CASE DropOtp(h) \/ CountWrongOtp(h) \/ SignInWithOtp(h) \/ UseOtp(h)
      BY <2>3, LoginStepsKeepCodes, OtpUseKeepsCodes
    <2>4. CASE \/ CreateUser(h) \/ CoolDown(h)
               \/ SendEmailLink(h) \/ SendPhoneCode(h) \/ SendResetLink(h) \/ StoreOtp(h)
      BY <2>4, AskersKeepCodes
    <2>5. QED
      BY <1>2, <2>1, <2>2, <2>3, <2>4 DEF CodeStep
  <1>3. ASSUME NEW t \in DOMAIN tokens, TokenExpires(t) PROVE CodesInv'
    BY <1>3, EndingsKeepCodes DEF TokenExpires, SameOtp
  <1>4. ASSUME NEW a \in Addresses, CooldownEnds(a) PROVE CodesInv'
    <2>1. Keep({}) /\ UNCHANGED <<tokens, otp>>
      BY <1>4 DEF CooldownEnds, Keep
    <2>2. QED
      BY <2>1, QuietTokensStay
  <1>5. ASSUME NEW a \in Addresses, OtpExpires(a) PROVE CodesInv'
    <2>1. UNCHANGED <<handler, tokens>> /\ otp' = [otp EXCEPT ![a] = NoCode]
      BY <1>5 DEF OtpExpires
    <2>2. otp \in [Addresses -> [token : Nat, attempts : Nat]]
      BY DEF SoundInv, OtpsSound
    <2>3. \A t \in DOMAIN tokens, b \in Addresses : otp'[b].token = t => otp'[b] = otp[b]
      BY <2>1, <2>2, NoCodeIsARecord, OthersHaveNoRecord
    <2>4. \A t \in DOMAIN tokens : TokenStays(t)
      BY <2>1, <2>3 DEF TokenStays, HasToken, At
    <2>5. QED
      BY <2>1, <2>4, TokensThatStay DEF CodesInv
  <1>6. QED
    BY <1>1, <1>2, <1>3, <1>4, <1>5, CodesNextIs DEF CodeLapse

LEMMA ErasuresKeepUses ==
  ASSUME HandlersAreRecords, SoundInv, CodesInv, NEW h \in Handlers,
         (\E u \in Users : EraseAccount(h, u)) \/ EraseLinks(h) \/ EraseRow(h) \/ Die(h)
  PROVE  CodesInv'
  <1>1. OthersStay(h) /\ (handler'[h] = handler[h] \/ handler'[h].at \in ErasePlaces)
    BY ErasuresMove DEF Moves
  <1>2. ErasePlaces \cap TokenPlaces = {}
    BY DEF ErasePlaces, TokenPlaces
  <1>3. CASE (\E u \in Users : EraseAccount(h, u)) \/ EraseRow(h)
    <2>1. handler[h].at \in ErasePlaces /\ UNCHANGED <<tokens, otp>>
      BY <1>3, OthersStayThen DEF EraseAccount, EraseRow, At, ErasePlaces, SameOthers, SameCodes, codeVars
    <2>2. Keep(ErasePlaces)
      BY <1>1, <2>1 DEF Keep, OthersStay
    <2>3. QED
      BY <1>2, <2>1, <2>2, QuietTokensStay
  <1>4. CASE EraseLinks(h)
    <2>1. handler[h].at = "erase" /\ DeleteTokens(handler[h].user) /\ UNCHANGED otp
      BY <1>4 DEF EraseLinks, At, SameOtp
    <2>2. /\ DOMAIN tokens' = DOMAIN tokens
          /\ \A t \in DOMAIN tokens : tokens'[t] = tokens[t] \/ tokens'[t] = [tokens[t] EXCEPT !.deleted = TRUE]
      BY <2>1 DEF DeleteTokens
    <2>3. handler'[h].at \notin TokenPlaces
      BY <1>1, <1>2, <2>1 DEF ErasePlaces
    <2>4. QED
      BY <1>1, <2>1, <2>2, <2>3, EndingsKeepCodes
  <1>5. CASE Die(h)
    <2>1. LeaveToken(h) /\ UNCHANGED otp /\ handler'[h].at = "idle"
      BY <1>5, Finishes, IdleIsARecord DEF Die, Crash, SameOtp
    <2>2. /\ DOMAIN tokens' = DOMAIN tokens
          /\ \A t \in DOMAIN tokens : tokens'[t] = tokens[t] \/ tokens'[t] = [tokens[t] EXCEPT !.shared = TRUE]
      BY <2>1 DEF LeaveToken
    <2>3. handler[h].at = "mark" => tokens'[handler[h].item].shared
      <3>1. handler[h].at = "mark" => handler[h].item \in DOMAIN tokens /\ tokens[handler[h].item] \in Token
        BY HeldToken DEF TokenPlaces
      <3>2. QED
        BY <2>1, <3>1 DEF LeaveToken, Token
    <2>4. handler'[h].at \notin TokenPlaces
      BY <2>1 DEF TokenPlaces
    <2>5. QED
      BY <1>1, <2>1, <2>2, <2>3, <2>4, EndingsKeepCodes
  <1>6. QED
    BY <1>3, <1>4, <1>5

LEMMA AdminsKeep ==
  ASSUME HandlersAreRecords, SoundInv, AdminNext
  PROVE  Keep(AdminPlaces)
  <1>1. ASSUME NEW h \in Handlers, OtherAdmins(h) PROVE OthersStay(h) /\ handler[h].at \in AdminPlaces
    BY <1>1, OthersStayThen DEF OtherAdmins, CloseUser, ReopenUser, WriteStatus, CreateAdminInvitation, TakeInvitation,
       AcceptAdminInvitation, ResendInvitation, RevokeInvitation, FindInvited, WriteInvited, MarkAccepted, At,
       AdminPlaces, InvitePlaces
  <1>2. ASSUME NEW h \in Handlers,
               \/ \E u \in Users, r \in Roles :
                    \/ AssignRoleToUser(h, u, r) \/ RemoveRoleFromUser(h, u, r)
                    \/ \E actor \in Users : AssignExistingUserAdmin(h, actor, u, r)
               \/ EnrolInvited(h) \/ GrantRole(h) \/ DeleteUserRole(h) \/ DeleteSystemRoles(h)
        PROVE  OthersStay(h) /\ handler[h].at \in AdminPlaces
    BY <1>2, OthersStayThen DEF AssignRoleToUser, RemoveRoleFromUser, AssignExistingUserAdmin, EnrolInvited, GrantRole,
       DeleteUserRole, DeleteSystemRoles, At, AdminPlaces, RolePlaces, InvitePlaces
  <1>3. ASSUME NEW h \in Handlers,
               \/ \E r \in Roles, granted \in SUBSET Permissions :
                    CreateRole(h, r, granted) \/ \E patch \in BOOLEAN : ReplacePermissions(h, r, granted, patch)
               \/ \E r \in Roles : DeleteRole(h, r) \/ RemovePermissionFromRole(h, r)
               \/ \E r \in Roles, super \in BOOLEAN : RenameRole(h, r, super)
               \/ \E r \in Roles, p \in Permissions : AddPermission(h, r, p)
               \/ (\E p \in Permissions : DeletePermission(h, p)) \/ CommitDeleteRole(h)
        PROVE  OthersStay(h) /\ handler[h].at \in AdminPlaces
    BY <1>3, OthersStayThen DEF CreateRole, ReplacePermissions, DeleteRole, RemovePermissionFromRole, RenameRole,
       AddPermission, DeletePermission, CommitDeleteRole, At, AdminPlaces, RolePlaces
  <1>4. (\E i \in Invitations : InvitationExpires(i)) => UNCHANGED handler
    BY DEF InvitationExpires
  <1>5. UNCHANGED handler \/ \E h \in Handlers : OthersStay(h) /\ handler[h].at \in AdminPlaces
    BY <1>1, <1>2, <1>3, <1>4 DEF AdminNext, OtherAdmins, Statuses
  <1>6. QED
    BY <1>5, AdminsMove, MovesKeep

LEMMA NextKeepsUses ==
  ASSUME IInv, SoundInv, CodesInv, [Next]_vars
  PROVE  CodesInv'
  <1>1. HandlersAreRecords /\ TokensSound'
    BY NextKeepsSoundInv DEF IInv, SoundInv
  <1>2. SameCodes => UNCHANGED <<tokens, otp>>
    BY DEF SameCodes, codeVars
  <1>3. CASE ProfilesNext /\ SameOthers
    BY <1>1, <1>2, <1>3, ProfilesKeep, QuietTokensStay DEF SameOthers, ProfilePlaces, TokenPlaces
  <1>4. CASE ProvidersNext /\ SameCodes
    BY <1>1, <1>2, <1>4, ProvidersKeep, QuietTokensStay DEF AskingPlaces, ProviderPlaces, TestPlaces, TokenPlaces
  <1>5. CASE IdentitiesNext /\ SameCodes
    BY <1>1, <1>2, <1>5, IdentitiesKeep, QuietTokensStay DEF SigningPlaces, TokenPlaces
  <1>6. CASE LinkingNext /\ SameCodes
    BY <1>1, <1>2, <1>6, LinkingKeeps, QuietTokensStay DEF LinkPlaces, TokenPlaces
  <1>7. CASE AdminNext /\ SameCodes
    BY <1>1, <1>2, <1>7, AdminsKeep, QuietTokensStay DEF AdminPlaces, RolePlaces, InvitePlaces, TokenPlaces
  <1>8. CASE UNCHANGED vars
    <2>1. Keep({}) /\ UNCHANGED <<tokens, otp>>
      BY <1>8 DEF vars, rowVars, codeVars, Keep
    <2>2. QED
      BY <2>1, QuietTokensStay
  <1>9. QED
    BY <1>1, <1>3, <1>4, <1>5, <1>6, <1>7, <1>8, CodesNextKeepsUses, ErasuresKeepUses DEF Next

(* In VerificationCodes.tla: confirmEmailVerification, confirmPhoneChange,  *)
(* resetPassword and verifyLoginOtp, which read a token and write its       *)
(* effect without a condition on it, let it take effect once and bear no    *)
(* more wrong guesses than allowed, unless two of them had it at one time   *)
(* or one died with it; a telephone code never bears more than that and one *)
(* per other request.                                                       *)
THEOREM CodesAreAlwaysUsedOnce == Spec => []CodesAreUsedOnce
  <1>1. Init => IInv /\ SoundInv /\ CodesInv
    <2>1. Init => CodesInv
      BY DEF Init, CodesInit, CodesInv
    <2>2. QED
      BY <2>1, InitEstablishesIInv, InitEstablishesSoundInv
  <1>2. (IInv /\ SoundInv /\ CodesInv) /\ [Next]_vars => (IInv /\ SoundInv /\ CodesInv)'
    BY NextKeepsIInv, NextKeepsSoundInv, NextKeepsUses
  <1>3. SoundInv /\ CodesInv => CodesAreUsedOnce
    <2>1. ASSUME SoundInv, CodesInv, NEW t \in DOMAIN tokens, tokens[t].kind = "phone"
          PROVE  tokens[t].wrong < MaxAttempts + Cardinality(Handlers)
      <3>1. tokens[t].wrong \in Nat /\ MaxAttempts \in Nat
        BY <2>1, TokenIndices, CodesAssumption DEF SoundInv, Token
      <3>2. PICK n \in Nat : n = Cardinality(Misses(t))
        BY MissesAreFew
      <3>3. Cardinality(Handlers) \in Nat
        BY MissesAreFew
      <3>4. tokens[t].wrong + n < MaxAttempts + Cardinality(Handlers)
        BY <2>1, <3>2 DEF CodesInv, TokenInv, WrongsAreCounted
      <3>5. QED
        BY <3>1, <3>2, <3>3, <3>4
    <2>2. QED
      BY <2>1 DEF CodesAreUsedOnce, CodesInv, TokenInv, UsedOnce
  <1>4. QED
    BY <1>1, <1>2, <1>3, PTL DEF Spec

=============================================================================
