---------------------------- MODULE AccountRows ----------------------------
(***************************************************************************)
(* The user rows that the requests about codes (VerificationCodes), linked *)
(* identities (LinkedIdentities) and administrators (AdminAccess) read and *)
(* write, and the requests in flight.  A request waits for the database    *)
(* between two steps and keeps what it read, so it may write after others  *)
(* changed the row.  The database refuses a second row with an address     *)
(* (the unique columns email and phone), so a look for a conflict and the  *)
(* write that follows it are one step: what would come in between only     *)
(* changes which of the two refuses.                                       *)
(*                                                                         *)
(* Passwords, profiles, notices and audit rows are left out; that a        *)
(* session begins is left to module SessionTokens.                         *)
(***************************************************************************)
EXTENDS FiniteSets, Naturals

CONSTANTS
  Users,        \* User rows, existing or not
  Emails,       \* addresses
  Phones,       \* telephone numbers
  Handlers,     \* requests in flight
  Items,        \* tokens, identities, providers, roles and invitations a request holds
  Duties,       \* BOUND: the sets of operations a behaviour mixes
  MaxRequests,  \* BOUND on the requests of a behaviour
  MaxCrashes,   \* BOUND on requests that die half-way
  None          \* the SQL NULL

ASSUME AccountsAssumption ==
  /\ Emails \cap Phones = {} /\ None \notin Emails \cup Phones \cup Users \cup Items
  /\ IsFiniteSet(Users) /\ IsFiniteSet(Handlers)
  /\ MaxRequests \in Nat /\ MaxCrashes \in Nat

Addresses == Emails \cup Phones
Channels == {"email", "phone"}
ChannelOf(a) == IF a \in Emails THEN "email" ELSE "phone"

Statuses == {"ACTIVE", "SUSPENDED", "DELETED", "PENDING_VERIFICATION"}

(* email, phone, emailVerifiedAt, phoneVerifiedAt, passwordHash             *)
UserRow ==
  [status : Statuses \cup {"none"}, address : [Channels -> Addresses \cup {None}],
   verified : [Channels -> BOOLEAN], password : BOOLEAN]

NoUser ==
  [status |-> "none", address |-> [c \in Channels |-> None],
   verified |-> [c \in Channels |-> FALSE], password |-> FALSE]

(* What the update that ends an erasure leaves of a row                     *)
ErasedUser == [NoUser EXCEPT !.status = "DELETED"]

VARIABLES
  users,     \* User
  handler,   \* requests in flight: where each waits, and what it read
  duty,      \* the operations of this behaviour
  started,   \* requests so far
  crashes,   \* requests that died half-way so far
  history    \* what happened to the accounts

rowVars == <<users, handler, duty, started, crashes, history>>

Handler ==
  [at : STRING, user : Users \cup {None}, to : Addresses \cup Items \cup {None},
   item : Items \cup {None}, seen : Nat]

Idle == [at |-> "idle", user |-> None, to |-> None, item |-> None, seen |-> 0]

(* proved: addresses shown to be the user's.  overwritten: verification     *)
(* marks left on an address that was put in the place of the one verified.  *)
(* stripped: users whose sign-in methods were removed by others, or by      *)
(* unlinkings that overlap.  erased: users erased; revived: those among     *)
(* them that somebody wrote to meanwhile or made active again.              *)
History ==
  [proved : SUBSET (Users \X Addresses), overwritten : SUBSET (Users \X Channels),
   stripped : SUBSET Users, erased : SUBSET Users, revived : SUBSET Users]

RowsAreTyped ==
  /\ users \in [Users -> UserRow]
  /\ handler \in [Handlers -> Handler]
  /\ duty \in Duties
  /\ started \in 0 .. MaxRequests /\ crashes \in 0 .. MaxCrashes
  /\ history \in History

RowsInit(table) ==
  /\ users = table
  /\ handler = [h \in Handlers |-> Idle]
  /\ duty \in Duties
  /\ started = 0 /\ crashes = 0
  /\ history = [proved |-> {<<uc[1], table[uc[1]].address[uc[2]]>> :
                              uc \in {v \in Users \X Channels : /\ table[v[1]].verified[v[2]]
                                                                 /\ table[v[1]].address[v[2]] # None}},
                overwritten |-> {}, stripped |-> {}, erased |-> {}, revived |-> {}]

----------------------------------------------------------------------------
(* Requests *)

MayBegin(h, operation) == operation \in duty /\ handler[h] = Idle /\ started < MaxRequests

Begin(h, operation) == MayBegin(h, operation) /\ started' = started + 1

At(h, place) == handler[h].at = place

Wait(h, w) == handler' = [handler EXCEPT ![h] = w]
Goto(h, place) == handler' = [handler EXCEPT ![h].at = place]
Finish(h) == handler' = [handler EXCEPT ![h] = Idle]

SameRequests == UNCHANGED <<duty, started, crashes>>
SameRows == UNCHANGED <<users, history>>

(* Whether another request is half-way with the user, or with the item      *)
OthersWith(h, u) == \E g \in Handlers \ {h} : handler[g].user = u
OthersHold(h, i) == \E g \in Handlers \ {h} : handler[g].item = i

(* hasAuthenticatableAccount                                                *)
Authenticatable(u) == users[u].status \in {"ACTIVE", "PENDING_VERIFICATION"}

(* The unique index of the address                                          *)
Taken(u, a) == \E v \in Users \ {u} : users[v].address[ChannelOf(a)] = a

(* findUnique by the address, or None                                       *)
UserOf(a) ==
  IF \E u \in Users : users[u].address[ChannelOf(a)] = a
  THEN CHOOSE u \in Users : users[u].address[ChannelOf(a)] = a ELSE None

HasVerified(u, a) == users[u].address[ChannelOf(a)] = a /\ users[u].verified[ChannelOf(a)]

(* user.create, of any id that is free                                      *)
Create(u, row) == users[u].status = "none" /\ users' = [users EXCEPT ![u] = row]

Prove(u, a) == history' = [history EXCEPT !.proved = @ \cup {<<u, a>>}]

(* A request whose process dies leaves its work as it is.                   *)
Crash(h) ==
  /\ handler[h] # Idle /\ crashes < MaxCrashes
  /\ crashes' = crashes + 1
  /\ Finish(h)
  /\ UNCHANGED <<users, duty, started, history>>

----------------------------------------------------------------------------
(* Profiles and statuses *)

(* updateCurrentUserProfile: an address is set where there is none yet.     *)
UpdateCurrentUserProfile(h, u, a) ==
  /\ Begin(h, "profile") /\ Authenticatable(u)
  /\ users[u].address[ChannelOf(a)] = None
  /\ Wait(h, [Idle EXCEPT !.at = "profile", !.user = u, !.to = a])
  /\ UNCHANGED <<users, duty, crashes, history>>

(* The address is written over whatever the row says by now.                *)
WriteAddress(u, a) ==
  LET c == ChannelOf(a) IN
  /\ users' = [users EXCEPT ![u].address[c] = a]
  /\ history' = IF users[u].verified[c] /\ users[u].address[c] # a
                THEN [history EXCEPT !.overwritten = @ \cup {<<u, c>>}] ELSE history

WriteProfile(h) ==
  /\ At(h, "profile")
  /\ LET u == handler[h].user  a == handler[h].to IN
     IF Taken(u, a) THEN SameRows ELSE WriteAddress(u, a)
  /\ Finish(h) /\ SameRequests

(* updateMyAccount of an administrator writes any number, and keeps         *)
(* phoneVerifiedAt.                                                         *)
UpdateMyAccount(h, u, a) ==
  /\ Begin(h, "profile") /\ Authenticatable(u)
  /\ a \in Phones /\ ~Taken(u, a)
  /\ WriteAddress(u, a)
  /\ UNCHANGED <<handler, duty, crashes>>

----------------------------------------------------------------------------
(* Properties *)

(* An address an account counts as verified was shown to be its user's,     *)
(* by a message sent there or by the provider that vouches for it, unless   *)
(* a profile was written under a mark that was there (by                    *)
(* updateCurrentUserProfile between its read and its write or where an      *)
(* organisation verified no address, by updateMyAccount at any time).       *)
VerifiedMeansProved ==
  \A u \in Users, c \in Channels :
    users[u].verified[c] /\ users[u].address[c] # None =>
      \/ <<u, users[u].address[c]>> \in history.proved
      \/ <<u, c>> \in history.overwritten
=============================================================================
