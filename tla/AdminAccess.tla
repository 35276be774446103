----------------------------- MODULE AdminAccess -----------------------------
(***************************************************************************)
(* Roles, their permissions and who has them, the statuses administrators  *)
(* give accounts, and the invitations of administrators.  What must not be *)
(* taken from the last super administrator is counted first and written    *)
(* later.                                                                  *)
(*                                                                         *)
(* The permissions an administrator needs for a request are checked before *)
(* it and left out, and so are the lists, audit rows and notices.  A       *)
(* request assigns one role; several are a loop of that.                   *)
(***************************************************************************)
EXTENDS AccountRows

CONSTANTS
  Roles,         \* Role rows
  Permissions,   \* Permission rows
  Invitations    \* AdminInvitation rows

ASSUME AdminAssumption ==
  /\ Roles \subseteq Items /\ Invitations \subseteq Items
  /\ IsFiniteSet(Permissions)

VARIABLES
  roles,        \* Role and RolePermission
  userRoles,    \* UserRole
  invitation,   \* AdminInvitation
  slack         \* history: why the guard of the last super administrator may fail

adminVars == <<roles, userRoles, invitation, slack>>

(* super: its name is super_admin, of which there is one here: that names    *)
(* differ by case is left out.                                              *)
RoleRow ==
  [state : {"none", "there", "deleted"}, super : BOOLEAN, granted : SUBSET Permissions]

(* live: the token sent last, the only one that is found, has not expired.  *)
(* uses, revoked, shared: history, how often it was accepted, whether it    *)
(* was revoked, and whether two requests had it at one time or one died     *)
(* with it                                                                  *)
Invitation ==
  [status : {"none", "PENDING", "ACCEPTED", "REVOKED"}, to : Emails \cup {None}, role : Roles \cup {None},
   live : BOOLEAN, uses : Nat, revoked : BOOLEAN, shared : BOOLEAN]

NoInvitation ==
  [status |-> "none", to |-> None, role |-> None, live |-> FALSE, uses |-> 0, revoked |-> FALSE, shared |-> FALSE]

AdminIsTyped ==
  /\ roles \in [Roles -> RoleRow]
  /\ userRoles \subseteq Users \X Roles
  /\ invitation \in [Invitations -> Invitation]
  /\ slack \in BOOLEAN

(* The seed: a super administrator role with all permissions                *)
AdminInit(seeded, superRole, holders) ==
  /\ roles = [r \in Roles |-> [state |-> IF r \in seeded THEN "there" ELSE "none", super |-> r = superRole,
                               granted |-> IF r = superRole THEN Permissions ELSE {}]]
  /\ userRoles = holders \X {superRole}
  /\ invitation = [i \in Invitations |-> NoInvitation]
  /\ slack = FALSE

SameAdmin == UNCHANGED adminVars
SameInvitations == UNCHANGED invitation

Exists(r) == roles[r].state = "there"
SuperRoles == {r \in Roles : Exists(r) /\ roles[r].super}
Holders(r) == {u \in Users : <<u, r>> \in userRoles}
SuperAdmins == {u \in Users : \E r \in SuperRoles : <<u, r>> \in userRoles}

(* guardLastSuperAdmin: rows are counted, of accounts of whatever status    *)
GuardLastSuperAdmin(u) ==
  \A r \in SuperRoles : Cardinality(Holders(r)) <= 1 => u \notin Holders(r)

(* History: another request is about to take the role from someone          *)
Overlap(h) == \E g \in Handlers \ {h} : At(g, "remove") \/ At(g, "reassign") \/ At(g, "regrant")

----------------------------------------------------------------------------
(* Statuses: updateUserStatus, deleteUserAccount *)

CloseUser(h, u, status) ==
  /\ Begin(h, "admin") /\ users[u].status # "none"
  /\ status \in {"SUSPENDED", "DELETED"}
  /\ GuardLastSuperAdmin(u)
  /\ Wait(h, [Idle EXCEPT !.at = status, !.user = u])
  /\ SameRows /\ SameAdmin /\ UNCHANGED <<duty, crashes>>

WriteStatus(h) ==
  /\ handler[h].at \in {"SUSPENDED", "DELETED"}
  /\ users' = [users EXCEPT ![handler[h].user].status = handler[h].at]
  /\ Finish(h)
  /\ SameAdmin /\ SameRequests /\ UNCHANGED history

ReopenUser(h, u, status) ==
  /\ Begin(h, "admin") /\ users[u].status \notin {"none", status}
  /\ status \in {"ACTIVE", "PENDING_VERIFICATION"}
  /\ users' = [users EXCEPT ![u].status = status]
  /\ history' = [history EXCEPT !.revived = @ \cup {u}]
  /\ SameAdmin /\ UNCHANGED <<handler, duty, crashes>>

----------------------------------------------------------------------------
(* Who has a role *)

AssignRoleToUser(h, u, r) ==
  /\ Begin(h, "roles") /\ users[u].status # "none" /\ Exists(r)
  /\ userRoles' = userRoles \cup {<<u, r>>}
  /\ SameRows /\ SameInvitations /\ UNCHANGED <<handler, duty, crashes, roles, slack>>

(* removeRoleFromUser, of another user than the actor                       *)
RemoveRoleFromUser(h, u, r) ==
  /\ Begin(h, "roles") /\ <<u, r>> \in userRoles
  /\ r \in SuperRoles => GuardLastSuperAdmin(u)
  /\ Wait(h, [Idle EXCEPT !.at = "remove", !.user = u, !.item = r])
  /\ slack' = (slack \/ Overlap(h))
  /\ SameRows /\ SameInvitations /\ UNCHANGED <<duty, crashes, roles, userRoles>>

DeleteUserRole(h) ==
  /\ At(h, "remove")
  /\ userRoles' = userRoles \ {<<handler[h].user, handler[h].item>>}
  /\ Finish(h)
  /\ SameRows /\ SameInvitations /\ SameRequests /\ UNCHANGED <<roles, slack>>

(* assignExistingUserAdmin: the system roles of the user are removed and    *)
(* the new one assigned.                                                    *)
AssignExistingUserAdmin(h, actor, u, r) ==
  /\ Begin(h, "roles") /\ users[u].status # "none" /\ Exists(r)
  /\ r \in SuperRoles => actor \in SuperAdmins
  /\ u \in SuperAdmins /\ r \notin SuperRoles =>
       \A s \in SuperRoles : Cardinality(Holders(s)) > 1
  /\ Wait(h, [Idle EXCEPT !.at = "reassign", !.user = u, !.item = r])
  /\ slack' = (slack \/ Overlap(h))
  /\ SameRows /\ SameInvitations /\ UNCHANGED <<duty, crashes, roles, userRoles>>

DeleteSystemRoles(h) ==
  /\ At(h, "reassign")
  /\ userRoles' = userRoles \ ({handler[h].user} \X SuperRoles)
  /\ Goto(h, "regrant")
  /\ SameRows /\ SameInvitations /\ SameRequests /\ UNCHANGED <<roles, slack>>

GrantRole(h) ==
  /\ At(h, "regrant")
  /\ userRoles' = IF Exists(handler[h].item)
                  THEN userRoles \cup {<<handler[h].user, handler[h].item>>} ELSE userRoles
  /\ Finish(h)
  /\ SameRows /\ SameInvitations /\ SameRequests /\ UNCHANGED <<roles, slack>>

----------------------------------------------------------------------------
(* Roles and permissions *)

(* createRole                                                               *)
CreateRole(h, r, granted) ==
  /\ Begin(h, "permissions") /\ roles[r].state = "none"
  /\ roles' = [roles EXCEPT ![r] = [state |-> "there", super |-> FALSE, granted |-> granted]]
  /\ SameRows /\ SameInvitations /\ UNCHANGED <<handler, duty, crashes, userRoles, slack>>

(* deleteRole: counted before it is deleted, with the rows of its users     *)
DeleteRole(h, r) ==
  /\ Begin(h, "permissions") /\ Exists(r) /\ r \notin SuperRoles /\ Holders(r) = {}
  /\ Wait(h, [Idle EXCEPT !.at = "delete", !.item = r])
  /\ SameRows /\ SameAdmin /\ UNCHANGED <<duty, crashes>>

CommitDeleteRole(h) ==
  /\ At(h, "delete")
  /\ LET r == handler[h].item IN
     /\ slack' = (slack \/ r \in SuperRoles)
     /\ roles' = [roles EXCEPT ![r] = [state |-> "deleted", super |-> FALSE, granted |-> {}]]
     /\ userRoles' = userRoles \ (Users \X {r})
  /\ Finish(h)
  /\ SameRows /\ SameInvitations /\ SameRequests

(* updateRole with a name: the super administrators are known by the name,  *)
(* and another may take it.                                                 *)
RenameRole(h, r, super) ==
  /\ Begin(h, "permissions") /\ Exists(r) /\ roles[r].super # super
  /\ super => SuperRoles = {}
  /\ roles' = [roles EXCEPT ![r].super = super]
  /\ slack' = TRUE
  /\ SameRows /\ SameInvitations /\ UNCHANGED <<handler, duty, crashes, userRoles>>

(* addPermissionsToRole                                                     *)
AddPermission(h, r, p) ==
  /\ Begin(h, "permissions") /\ Exists(r)
  /\ roles' = [roles EXCEPT ![r].granted = @ \cup {p}]
  /\ SameRows /\ SameInvitations /\ UNCHANGED <<handler, duty, crashes, userRoles, slack>>

(* Variant: the last is not counted                                         *)
RemoveAnyPermission(h, r) ==
  /\ Begin(h, "permissions") /\ Exists(r)
  /\ Wait(h, [Idle EXCEPT !.at = "ungrant", !.item = r])
  /\ slack' = (slack \/ OthersHold(h, r))
  /\ SameRows /\ SameInvitations /\ UNCHANGED <<duty, crashes, roles, userRoles>>

(* removePermissionFromRole                                                 *)
RemovePermissionFromRole(h, r) ==
  /\ Begin(h, "permissions") /\ Exists(r)
  /\ r \in SuperRoles => Cardinality(roles[r].granted) > 1
  /\ Wait(h, [Idle EXCEPT !.at = "ungrant", !.item = r])
  /\ slack' = (slack \/ OthersHold(h, r))
  /\ SameRows /\ SameInvitations /\ UNCHANGED <<duty, crashes, roles, userRoles>>

DeletePermission(h, p) ==
  /\ At(h, "ungrant")
  /\ roles' = [roles EXCEPT ![handler[h].item].granted = @ \ {p}]
  /\ Finish(h)
  /\ SameRows /\ SameInvitations /\ SameRequests /\ UNCHANGED <<userRoles, slack>>

(* replaceRolePermissions, and updateRole with permissions, which refuses   *)
(* to empty the super administrators' only when both lists are given and    *)
(* empty.                                                                   *)
ReplacePermissions(h, r, granted, patch) ==
  /\ Begin(h, "permissions") /\ Exists(r)
  /\ granted = {} /\ r \in SuperRoles => patch
  /\ roles' = [roles EXCEPT ![r].granted = granted]
  /\ slack' = (slack \/ (granted = {} /\ r \in SuperRoles) \/ OthersHold(h, r))
  /\ SameRows /\ SameInvitations /\ UNCHANGED <<handler, duty, crashes, userRoles>>

----------------------------------------------------------------------------
(* Invitations *)

CreateAdminInvitation(h, i, a, r) ==
  /\ Begin(h, "invite") /\ invitation[i].status = "none"
  /\ UserOf(a) = None /\ Exists(r)
  /\ r \in SuperRoles => SuperAdmins # {}
  /\ invitation' = [invitation EXCEPT ![i] = [NoInvitation EXCEPT !.status = "PENDING", !.to = a, !.role = r,
                                                                  !.live = TRUE]]
  /\ SameRows /\ UNCHANGED <<handler, duty, crashes, roles, userRoles, slack>>

Share(h, i) == invitation' = [invitation EXCEPT ![i].shared = @ \/ OthersHold(h, i)]

(* resendAdminInvitation, revokeAdminInvitation                             *)
TakeInvitation(h, i, place) ==
  /\ Begin(h, "invite") /\ place \in {"resend", "revoke"}
  /\ invitation[i].status = "PENDING"
  /\ Wait(h, [Idle EXCEPT !.at = place, !.item = i])
  /\ Share(h, i)
  /\ SameRows /\ UNCHANGED <<duty, crashes, roles, userRoles, slack>>

ResendInvitation(h) ==
  /\ At(h, "resend")
  /\ invitation' = [invitation EXCEPT ![handler[h].item].live = TRUE]
  /\ Finish(h)
  /\ SameRows /\ SameRequests /\ UNCHANGED <<roles, userRoles, slack>>

RevokeInvitation(h) ==
  /\ At(h, "revoke")
  /\ invitation' = [invitation EXCEPT ![handler[h].item].status = "REVOKED", ![handler[h].item].revoked = TRUE]
  /\ Finish(h)
  /\ SameRows /\ SameRequests /\ UNCHANGED <<roles, userRoles, slack>>

InvitationExpires(i) ==
  /\ invitation[i].status = "PENDING" /\ invitation[i].live
  /\ invitation' = [invitation EXCEPT ![i].live = FALSE]
  /\ SameRows /\ SameRequests /\ UNCHANGED <<handler, roles, userRoles, slack>>

(* Variant: an invitation that was revoked is accepted                      *)
AcceptAnyInvitation(h, i) ==
  /\ Begin(h, "invite")
  /\ invitation[i].status \in {"PENDING", "REVOKED"} /\ invitation[i].live
  /\ Wait(h, [Idle EXCEPT !.at = "invited", !.item = i, !.to = invitation[i].to,
                          !.seen = IF Exists(invitation[i].role) THEN 1 ELSE 0])
  /\ Share(h, i)
  /\ SameRows /\ UNCHANGED <<duty, crashes, roles, userRoles, slack>>

(* acceptAdminInvitation: the invitation, then the account of its address.  *)
(* seen: 1 for a role that is there when it is read; one that was deleted   *)
(* has gone from the invitation with it.                                    *)
AcceptAdminInvitation(h, i) ==
  /\ Begin(h, "invite")
  /\ invitation[i].status = "PENDING" /\ invitation[i].live
  /\ Wait(h, [Idle EXCEPT !.at = "invited", !.item = i, !.to = invitation[i].to,
                          !.seen = IF Exists(invitation[i].role) THEN 1 ELSE 0])
  /\ Share(h, i)
  /\ SameRows /\ UNCHANGED <<duty, crashes, roles, userRoles, slack>>

FindInvited(h) ==
  /\ At(h, "invited")
  /\ Wait(h, [handler[h] EXCEPT !.at = "account", !.user = UserOf(handler[h].to)])
  /\ SameRows /\ SameAdmin /\ SameRequests

(* An account is given the password, which is optional; a new one is made.  *)
WriteInvited(h) ==
  /\ At(h, "account")
  /\ LET u == handler[h].user  a == handler[h].to IN
     \/ /\ u # None
        /\ users' \in {users, [users EXCEPT ![u].password = TRUE]}
        /\ Goto(h, "enrol")
        /\ UNCHANGED history
     \/ /\ u = None /\ UserOf(a) = None
        /\ \E v \in Users :
             /\ Create(v, [NoUser EXCEPT !.status = "ACTIVE", !.password = TRUE,
                                         !.address["email"] = a, !.verified["email"] = TRUE])
             /\ Prove(v, a)
             /\ Wait(h, [handler[h] EXCEPT !.at = "enrol", !.user = v])
     \/ /\ u = None /\ UserOf(a) # None
        /\ Finish(h) /\ SameRows
  /\ SameAdmin /\ SameRequests

(* A role that was deleted since is an error: the invitation stays PENDING. *)
EnrolInvited(h) ==
  /\ At(h, "enrol")
  /\ LET r == invitation[handler[h].item].role IN
     \/ handler[h].seen = 0 /\ Goto(h, "accepted") /\ UNCHANGED userRoles
     \/ /\ handler[h].seen = 1 /\ Exists(r)
        /\ userRoles' = userRoles \cup {<<handler[h].user, r>>}
        /\ Goto(h, "accepted")
     \/ handler[h].seen = 1 /\ ~Exists(r) /\ Finish(h) /\ UNCHANGED userRoles
  /\ SameRows /\ SameInvitations /\ SameRequests /\ UNCHANGED <<roles, slack>>

MarkAccepted(h) ==
  /\ At(h, "accepted")
  /\ invitation' = [invitation EXCEPT ![handler[h].item].status = "ACCEPTED", ![handler[h].item].uses = @ + 1]
  /\ Finish(h)
  /\ SameRows /\ SameRequests /\ UNCHANGED <<roles, userRoles, slack>>

(* History: a request dies between taking roles and giving one, or with an  *)
(* invitation in its hands.                                                 *)
LeaveAdmin(h) ==
  /\ slack' = (slack \/ At(h, "regrant"))
  /\ invitation' = IF handler[h].item \in Invitations
                   THEN [invitation EXCEPT ![handler[h].item].shared = TRUE] ELSE invitation

AdminNext ==
  \/ \E h \in Handlers :
       \/ /\ MayBegin(h, "admin")
          /\ \E u \in Users :
               \/ \E s \in {"SUSPENDED", "DELETED"} : CloseUser(h, u, s)
               \/ \E s \in {"ACTIVE", "PENDING_VERIFICATION"} : ReopenUser(h, u, s)
       \/ /\ MayBegin(h, "roles")
          /\ \E u \in Users, r \in Roles :
               \/ AssignRoleToUser(h, u, r) \/ RemoveRoleFromUser(h, u, r)
               \/ \E actor \in Users : AssignExistingUserAdmin(h, actor, u, r)
       \/ /\ MayBegin(h, "permissions")
          /\ \/ \E r \in Roles, granted \in SUBSET Permissions :
                  CreateRole(h, r, granted) \/ \E patch \in BOOLEAN : ReplacePermissions(h, r, granted, patch)
             \/ \E r \in Roles : DeleteRole(h, r) \/ RemovePermissionFromRole(h, r)
             \/ \E r \in Roles, super \in BOOLEAN : RenameRole(h, r, super)
             \/ \E r \in Roles, p \in Permissions : AddPermission(h, r, p)
       \/ /\ MayBegin(h, "invite")
          /\ \E i \in Invitations :
               \/ \E a \in Emails, r \in Roles : CreateAdminInvitation(h, i, a, r)
               \/ \E place \in {"resend", "revoke"} : TakeInvitation(h, i, place)
               \/ AcceptAdminInvitation(h, i)
       \/ /\ handler[h] # Idle
          /\ \/ WriteStatus(h) \/ DeleteUserRole(h) \/ DeleteSystemRoles(h) \/ GrantRole(h)
             \/ (\E p \in Permissions : DeletePermission(h, p)) \/ CommitDeleteRole(h)
             \/ ResendInvitation(h) \/ RevokeInvitation(h) \/ FindInvited(h) \/ WriteInvited(h)
             \/ EnrolInvited(h) \/ MarkAccepted(h)
  \/ \E i \in Invitations : InvitationExpires(i)

----------------------------------------------------------------------------
(* Properties *)

(* While requests that take the role away do not overlap, and none dies     *)
(* between taking roles and giving them, somebody has the super             *)
(* administrators' role and it has a permission; unless the role is renamed *)
(* or emptied by a PATCH, or an erasure takes it from its last holder.      *)
SuperAdminsStay ==
  \/ slack
  \/ /\ \E r \in SuperRoles : roles[r].granted # {}
     /\ SuperAdmins # {} \/ \E h \in Handlers : At(h, "regrant")

(* An invitation is accepted once and not after it was revoked, unless two  *)
(* requests had it at one time or one died with it: accepting it has no     *)
(* condition on its status in the write.                                    *)
InvitationsEndOnce ==
  \A i \in Invitations :
    invitation[i].shared \/ invitation[i].uses + (IF invitation[i].revoked THEN 1 ELSE 0) <= 1

=============================================================================
