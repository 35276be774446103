--------------------------- MODULE SessionTokens ---------------------------
(***************************************************************************)
(* Login sessions and refresh tokens of the central auth server: how they  *)
(* are issued, rotated, replayed and revoked.                              *)
(*                                                                         *)
(* The store is PostgreSQL: a row update is atomic, a prisma.$transaction  *)
(* is atomic, and everything else in a handler is a sequence of awaits     *)
(* between which any other handler may run.  A handler in flight is a      *)
(* request p \in Requests; req[p].at names the await it is about to        *)
(* perform.  Handlers that make one write after their guards are a single  *)
(* action.  A handler that rejects its caller without a write is a         *)
(* stuttering step and has no action.                                      *)
(*                                                                         *)
(* Abstracted: credentials, scopes, audiences, client binding and expiry   *)
(* (an expired token is rejected like a revoked one that was not rotated,  *)
(* so expiry only removes behaviours), audit rows and notifications.       *)
(***************************************************************************)
EXTENDS Naturals, FiniteSets

CONSTANTS
  Users,          \* accounts
  Sessions,       \* identifiers of LoginSession rows
  OAuthFamilies,  \* random family identifiers drawn by the OAuth token endpoint
  Tokens,         \* identifiers of RefreshToken rows
  Requests,       \* slots for handlers in flight
  Ips,            \* client addresses
  IpOf,           \* the address a session is created from
  LegacyTokens,   \* live tokens that predate the family_id column
  Crashes,        \* whether a handler may die between two awaits
  None            \* the SQL NULL

ASSUME ConstantsAssumption ==
  /\ IpOf \in [Sessions -> Ips]
  /\ LegacyTokens \subseteq Tokens
  /\ Crashes \in BOOLEAN
  /\ Sessions \cap OAuthFamilies = {}
  /\ None \notin Users \cup Sessions \cup OAuthFamilies \cup Tokens

VARIABLES
  account,   \* User.status; every status the policy accepts is "ACTIVE"
  session,   \* LoginSession rows
  token,     \* RefreshToken rows
  req,       \* handlers in flight
  doomed     \* history: requests that started after the session of the
             \* token they present had been revoked

vars == <<account, session, token, req, doomed>>

Families == Sessions \cup OAuthFamilies

RowState == {"unused", "live", "revoked"}

SessionRow == [state : RowState, user : Users \cup {None}]

TokenRow ==
  [state   : RowState,
   user    : Users \cup {None},
   family  : Families \cup {None},
   rotated : BOOLEAN,                  \* revocationReason = "ROTATED"
   reused  : BOOLEAN,                  \* reusedAt # null
   next    : Tokens \cup {None}]       \* replacedByTokenId

Awaits ==
  {"idle",
   "login.session", "login.token", "code.token",
   "refresh.user", "refresh.session", "refresh.drop", "refresh.create",
   "refresh.rotate",
   "oauth.user", "oauth.rotate", "oauth.link",
   "reuse.mark", "reuse.mark.oauth", "family.tokens", "family.tokens.oauth",
   "family.session",
   "logout.token", "logout.ip", "revoke.find", "revoke.ids", "reset.commit",
   "erase.account"}

Request ==
  [at     : Awaits,
   user   : Users \cup {None},
   tok    : Tokens \cup {None},     \* the row the handler read
   family : Families \cup {None},
   next   : Tokens \cup {None},     \* the row the handler created
   ids    : SUBSET Sessions,        \* the session ids it collected
   keep   : Sessions \cup {None},   \* the session it must spare
   ip     : Ips \cup {None}]

NoSession == [state |-> "unused", user |-> None]

NoToken == [state |-> "unused", user |-> None, family |-> None,
            rotated |-> FALSE, reused |-> FALSE, next |-> None]

Idle == [at |-> "idle", user |-> None, tok |-> None, family |-> None,
         next |-> None, ids |-> {}, keep |-> None, ip |-> None]

TypeOK ==
  /\ account \in [Users -> {"ACTIVE", "SUSPENDED", "DELETED"}]
  /\ session \in [Sessions -> SessionRow]
  /\ token \in [Tokens -> TokenRow]
  /\ req \in [Requests -> Request]
  /\ doomed \in SUBSET Requests

Init ==
  /\ account = [u \in Users |-> "ACTIVE"]
  /\ session = [s \in Sessions |-> NoSession]
  /\ \E owner \in [LegacyTokens -> Users] :
       token = [t \in Tokens |->
                  IF t \in LegacyTokens
                    THEN [NoToken EXCEPT !.state = "live", !.user = owner[t]]
                    ELSE NoToken]
  /\ req = [p \in Requests |-> Idle]
  /\ doomed = {}

----------------------------------------------------------------------------
(* Helpers *)

Authenticatable(u) == account[u] = "ACTIVE"

LiveTokens == {t \in Tokens : token[t].state = "live"}

FamilyOf(f) == {t \in Tokens : token[t].family = f /\ token[t].state # "unused"}

SessionRevoked(f) == f \notin Sessions \/ session[f].state # "live"

InFlight == {p \in Requests : req[p].at # "idle"}

(* A random family identifier never repeats one in use.                     *)
FreshFamily(f) == f \in OAuthFamilies /\ \A t \in Tokens : token[t].family # f

(* BOUND: a handler that inserts rows starts only while there is a spare    *)
(* identifier of their kind for every handler in flight.                    *)
SpareTokens ==
  Cardinality({t \in Tokens : token[t].state = "unused"}) > Cardinality(InFlight)

SpareSessions ==
  Cardinality({s \in Sessions : session[s].state = "unused"}) > Cardinality(InFlight)

SpareFamilies ==
  Cardinality({f \in OAuthFamilies : FreshFamily(f)}) > Cardinality(InFlight)

At(p, await) == req[p].at = await

Goto(p, await) == req' = [req EXCEPT ![p].at = await]

Finish(p) ==
  /\ req' = [req EXCEPT ![p] = Idle]
  /\ doomed' = doomed \ {p}

Start(p, request) ==
  /\ At(p, "idle")
  /\ req' = [req EXCEPT ![p] = request]
  /\ doomed' = IF /\ request.tok # None
                  /\ request.family \in Sessions
                  /\ session[request.family].state # "live"
                 THEN doomed \cup {p} ELSE doomed \ {p}

(* UPDATE ... WHERE revoked_at IS NULL, on a set of rows                    *)
RevokeLiveTokens(T) ==
  token' = [t \in Tokens |->
              IF t \in T /\ token[t].state = "live"
                THEN [token[t] EXCEPT !.state = "revoked"] ELSE token[t]]

RevokeLiveSessions(S) ==
  session' = [s \in Sessions |->
                IF s \in S /\ session[s].state = "live"
                  THEN [session[s] EXCEPT !.state = "revoked"] ELSE session[s]]

Issue(t, u, f) ==
  /\ token[t].state = "unused"
  /\ token' = [token EXCEPT ![t] = [NoToken EXCEPT !.state = "live",
                                                   !.user = u, !.family = f]]

TokensOf(u) == {t \in Tokens : token[t].user = u}

SessionsOf(u) == {s \in Sessions : session[s].user = u}

----------------------------------------------------------------------------
(* Issuing: password, OTP and identity-provider logins, and the OAuth       *)
(* authorization code                                                       *)

LoginUser(p, u) ==
  /\ SpareTokens /\ SpareSessions
  /\ Authenticatable(u)
  /\ Start(p, [Idle EXCEPT !.at = "login.session", !.user = u])
  /\ UNCHANGED <<account, session, token>>

CreateSession(p) ==
  /\ At(p, "login.session")
  /\ \E s \in Sessions :
       /\ session[s].state = "unused"
       /\ session' = [session EXCEPT ![s] = [state |-> "live", user |-> req[p].user]]
       /\ req' = [req EXCEPT ![p].at = "login.token", ![p].family = s]
  /\ UNCHANGED <<account, token, doomed>>

CreateFirstToken(p) ==
  /\ At(p, "login.token")
  /\ \E t \in Tokens : Issue(t, req[p].user, req[p].family)
  /\ Finish(p)
  /\ UNCHANGED <<account, session>>

ExchangeAuthorizationCode(p, u) ==
  /\ SpareTokens /\ SpareFamilies
  /\ Authenticatable(u)
  /\ Start(p, [Idle EXCEPT !.at = "code.token", !.user = u])
  /\ UNCHANGED <<account, session, token>>

CreateOAuthToken(p) ==
  /\ At(p, "code.token")
  /\ \E t \in Tokens, f \in OAuthFamilies :
       FreshFamily(f) /\ Issue(t, req[p].user, f)
  /\ Finish(p)
  /\ UNCHANGED <<account, session>>

----------------------------------------------------------------------------
(* POST /auth/refresh                                                       *)

Presented(t, await) ==
  [Idle EXCEPT !.at = await, !.user = token[t].user, !.tok = t,
               !.family = token[t].family]

RefreshTokens(p, t) ==
  /\ \/ /\ SpareTokens
        /\ token[t].state = "live"
        /\ Start(p, Presented(t, "refresh.user"))
     \/ /\ token[t].state = "revoked" /\ token[t].rotated /\ ~token[t].reused
        /\ Start(p, Presented(t, "reuse.mark"))
  /\ UNCHANGED <<account, session, token>>

RefreshCheckUser(p) ==
  /\ At(p, "refresh.user")
  /\ IF Authenticatable(req[p].user)
       THEN /\ Goto(p, IF req[p].family = None THEN "refresh.create" ELSE "refresh.session")
            /\ UNCHANGED doomed
       ELSE Finish(p)
  /\ UNCHANGED <<account, session, token>>

(* Variant: the session is read and its state not looked at.                *)
RefreshCheckSessionUnchecked(p) ==
  /\ At(p, "refresh.session")
  /\ Goto(p, "refresh.create")
  /\ UNCHANGED <<account, session, token, doomed>>

RefreshCheckSession(p) ==
  /\ At(p, "refresh.session")
  /\ Goto(p, IF SessionRevoked(req[p].family) THEN "refresh.drop" ELSE "refresh.create")
  /\ UNCHANGED <<account, session, token, doomed>>

(* The token of a dead session is revoked whatever happened to it since it  *)
(* was read: reason SESSION_REVOKED overwrites any earlier one.             *)
RefreshDrop(p) ==
  /\ At(p, "refresh.drop")
  /\ token' = [token EXCEPT ![req[p].tok].state = "revoked",
                            ![req[p].tok].rotated = FALSE]
  /\ Finish(p)
  /\ UNCHANGED <<account, session>>

RefreshCreate(p) ==
  /\ At(p, "refresh.create")
  /\ \E n \in Tokens :
       /\ Issue(n, req[p].user, req[p].family)
       /\ req' = [req EXCEPT ![p].at = "refresh.rotate", ![p].next = n]
  /\ UNCHANGED <<account, session, doomed>>

(* Variants: the old token is linked but stays live; it is linked to the    *)
(* identifier of its family.                                                *)
RefreshRotateWithoutRevoking(p) ==
  /\ At(p, "refresh.rotate")
  /\ token' = [token EXCEPT ![req[p].tok].rotated = TRUE,
                            ![req[p].tok].next = req[p].next]
  /\ Finish(p)
  /\ UNCHANGED <<account, session>>

RefreshRotate(p) ==
  /\ At(p, "refresh.rotate")
  /\ token' = [token EXCEPT ![req[p].tok].state = "revoked",
                            ![req[p].tok].rotated = TRUE,
                            ![req[p].tok].next = req[p].next]
  /\ Finish(p)
  /\ UNCHANGED <<account, session>>

(* Variant: the replay is recorded and nothing is revoked.                  *)
MarkReusedOnly(p) ==
  /\ At(p, "reuse.mark")
  /\ token' = [token EXCEPT ![req[p].tok].reused = TRUE]
  /\ Finish(p)
  /\ UNCHANGED <<account, session>>

(* A rotated token came back: mark it, then revoke its family.              *)
MarkReused(p) ==
  /\ At(p, "reuse.mark")
  /\ token' = [token EXCEPT ![req[p].tok].reused = TRUE]
  /\ IF req[p].family = None
       THEN Finish(p)
       ELSE Goto(p, "family.tokens") /\ UNCHANGED doomed
  /\ UNCHANGED <<account, session>>

RevokeFamilyTokens(p) ==
  /\ At(p, "family.tokens")
  /\ RevokeLiveTokens(FamilyOf(req[p].family) \cap TokensOf(req[p].user))
  /\ Goto(p, "family.session")
  /\ UNCHANGED <<account, session, doomed>>

RevokeFamilySession(p) ==
  /\ At(p, "family.session")
  /\ RevokeLiveSessions({req[p].family} \cap SessionsOf(req[p].user))
  /\ Finish(p)
  /\ UNCHANGED <<account, token>>

----------------------------------------------------------------------------
(* POST /oauth/token, grant_type=refresh_token                              *)

ExchangeRefreshToken(p, t) ==
  /\ \/ /\ SpareTokens /\ (token[t].family = None => SpareFamilies)
        /\ token[t].state = "live"
        /\ Start(p, Presented(t, "oauth.user"))
     \/ /\ token[t].state = "revoked" /\ token[t].rotated /\ ~token[t].reused
        /\ Start(p, Presented(t, "reuse.mark.oauth"))
  /\ UNCHANGED <<account, session, token>>

OAuthCheckUser(p) ==
  /\ At(p, "oauth.user")
  /\ IF Authenticatable(req[p].user)
       THEN Goto(p, "oauth.rotate") /\ UNCHANGED doomed
       ELSE Finish(p)
  /\ UNCHANGED <<account, session, token>>

(* Variant: rotation opens a new family every time.                         *)
OAuthRotateToNewFamily(p) ==
  /\ At(p, "oauth.rotate")
  /\ \E n \in Tokens, f \in OAuthFamilies :
       /\ FreshFamily(f)
       /\ token[n].state = "unused"
       /\ token' = [token EXCEPT
                      ![n] = [NoToken EXCEPT !.state = "live",
                                             !.user = req[p].user, !.family = f],
                      ![req[p].tok].state = "revoked",
                      ![req[p].tok].rotated = TRUE]
       /\ req' = [req EXCEPT ![p].at = "oauth.link", ![p].next = n]
  /\ UNCHANGED <<account, session, doomed>>

(* One transaction: insert the new row, revoke the old one.                 *)
OAuthRotate(p) ==
  /\ At(p, "oauth.rotate")
  /\ \E n \in Tokens, f \in Families :
       /\ IF req[p].family = None THEN FreshFamily(f) ELSE f = req[p].family
       /\ token[n].state = "unused"
       /\ token' = [token EXCEPT
                      ![n] = [NoToken EXCEPT !.state = "live",
                                             !.user = req[p].user, !.family = f],
                      ![req[p].tok].state = "revoked",
                      ![req[p].tok].rotated = TRUE]
       /\ req' = [req EXCEPT ![p].at = "oauth.link", ![p].next = n]
  /\ UNCHANGED <<account, session, doomed>>

(* Variant: the link is saved with the whole row, as it was read.           *)
OAuthLinkSavesRow(p) ==
  /\ At(p, "oauth.link")
  /\ token' = [token EXCEPT ![req[p].tok].state = "live",
                            ![req[p].tok].next = req[p].next]
  /\ Finish(p)
  /\ UNCHANGED <<account, session>>

OAuthLink(p) ==
  /\ At(p, "oauth.link")
  /\ token' = [token EXCEPT ![req[p].tok].next = req[p].next]
  /\ Finish(p)
  /\ UNCHANGED <<account, session>>

OAuthMarkReused(p) ==
  /\ At(p, "reuse.mark.oauth")
  /\ token' = [token EXCEPT ![req[p].tok].reused = TRUE]
  /\ IF req[p].family = None
       THEN Finish(p)
       ELSE Goto(p, "family.tokens.oauth") /\ UNCHANGED doomed
  /\ UNCHANGED <<account, session>>

(* The OAuth endpoint revokes the family's tokens and leaves its session.   *)
OAuthRevokeFamily(p) ==
  /\ At(p, "family.tokens.oauth")
  /\ RevokeLiveTokens(FamilyOf(req[p].family) \cap TokensOf(req[p].user))
  /\ Finish(p)
  /\ UNCHANGED <<account, session>>

(* POST /oauth/revoke: no reason is written, and revoked rows are rewritten *)
RevokeToken(t) ==
  /\ token[t].state # "unused"
  /\ token' = [token EXCEPT ![t].state = "revoked"]
  /\ UNCHANGED <<account, session, req, doomed>>

----------------------------------------------------------------------------
(* Logout and the account's own session management; all of them sit behind  *)
(* authGuard, which only asks for an authenticatable account                *)

LogoutUser(p, u, ip) ==
  /\ Authenticatable(u)
  /\ \/ \E t \in Tokens :
          /\ token[t].state # "unused"
          /\ Start(p, [Idle EXCEPT !.user = u, !.ip = ip, !.tok = t,
                                   !.family = token[t].family,
                                   !.at = IF token[t].family # None
                                            THEN "family.tokens" ELSE "logout.token"])
     \/ Start(p, [Idle EXCEPT !.user = u, !.ip = ip, !.at = "logout.ip"])
  /\ UNCHANGED <<account, session, token>>

LogoutToken(p) ==
  /\ At(p, "logout.token")
  /\ RevokeLiveTokens({req[p].tok} \cap TokensOf(req[p].user))
  /\ Goto(p, "logout.ip")
  /\ UNCHANGED <<account, session, doomed>>

LogoutByIp(p) ==
  /\ At(p, "logout.ip")
  /\ RevokeLiveSessions({s \in SessionsOf(req[p].user) : IpOf[s] = req[p].ip})
  /\ Finish(p)
  /\ UNCHANGED <<account, token>>

(* DELETE of one own session: it is read, and must be live                  *)
RevokeMySession(p, u, s) ==
  /\ Authenticatable(u)
  /\ session[s].user = u /\ session[s].state = "live"
  /\ Start(p, [Idle EXCEPT !.at = "revoke.ids", !.user = u, !.ids = {s}])
  /\ UNCHANGED <<account, session, token>>

(* Log out everywhere else, and change the password                         *)
RevokeAllSessions(p, u, keep) ==
  /\ Authenticatable(u)
  /\ Start(p, [Idle EXCEPT !.at = "revoke.find", !.user = u, !.keep = keep])
  /\ UNCHANGED <<account, session, token>>

(* Deactivating or deleting one's own account: the status first             *)
CloseAccount(p, u, status) ==
  /\ Authenticatable(u)
  /\ account' = [account EXCEPT ![u] = status]
  /\ Start(p, [Idle EXCEPT !.at = "revoke.find", !.user = u])
  /\ UNCHANGED <<session, token>>

FindSessions(p) ==
  /\ At(p, "revoke.find")
  /\ LET found == {s \in SessionsOf(req[p].user) :
                     session[s].state = "live" /\ s # req[p].keep}
     IN IF found = {}
          THEN Finish(p)
          ELSE /\ req' = [req EXCEPT ![p].at = "revoke.ids", ![p].ids = found]
               /\ UNCHANGED doomed
  /\ UNCHANGED <<account, session, token>>

(* One transaction over the collected ids                                   *)
RevokeSessionsByIds(p) ==
  /\ At(p, "revoke.ids")
  /\ RevokeLiveSessions(req[p].ids \cap SessionsOf(req[p].user))
  /\ RevokeLiveTokens({t \in TokensOf(req[p].user) : token[t].family \in req[p].ids})
  /\ Finish(p)
  /\ UNCHANGED account

----------------------------------------------------------------------------
(* Password reset, the administrator, and account erasure                   *)

(* The reset link is checked, the new password hashed, and one transaction  *)
(* then revokes every refresh token of the user and no session.             *)
ResetPassword(p, u) ==
  /\ Start(p, [Idle EXCEPT !.at = "reset.commit", !.user = u])
  /\ UNCHANGED <<account, session, token>>

CommitReset(p) ==
  /\ At(p, "reset.commit")
  /\ RevokeLiveTokens(TokensOf(req[p].user))
  /\ Finish(p)
  /\ UNCHANGED <<account, session>>

(* Deleting the data of one identity provider revokes all refresh tokens    *)
DisconnectProviderData(u) ==
  /\ RevokeLiveTokens(TokensOf(u))
  /\ UNCHANGED <<account, session, req, doomed>>

(* Status changes by an administrator, who may reactivate any account       *)
UpdateUserStatus(u, status) ==
  /\ account[u] # status
  /\ account' = [account EXCEPT ![u] = status]
  /\ UNCHANGED <<session, token, req, doomed>>

(* An administrator revokes one session, or every session, of a user; the   *)
(* panel's own password change does the latter. Refresh tokens stay.        *)
AdminRevokeSession(s) ==
  /\ session[s].state = "live"
  /\ RevokeLiveSessions({s})
  /\ UNCHANGED <<account, token, req, doomed>>

AdminRevokeUserSessions(u) ==
  /\ RevokeLiveSessions(SessionsOf(u))
  /\ UNCHANGED <<account, token, req, doomed>>

(* Erasing an account: sessions and tokens in one transaction, then the     *)
(* user row                                                                 *)
RevokeAndAnonymizeAccount(p, u) ==
  /\ RevokeLiveSessions(SessionsOf(u))
  /\ RevokeLiveTokens(TokensOf(u))
  /\ Start(p, [Idle EXCEPT !.at = "erase.account", !.user = u])
  /\ UNCHANGED account

EraseAccount(p) ==
  /\ At(p, "erase.account")
  /\ account' = [account EXCEPT ![req[p].user] = "DELETED"]
  /\ Finish(p)
  /\ UNCHANGED <<session, token>>

----------------------------------------------------------------------------

(* The process dies, or a database call throws, between two awaits          *)
Crash(p) ==
  /\ Crashes
  /\ ~At(p, "idle")
  /\ Finish(p)
  /\ UNCHANGED <<account, session, token>>

IssueStep(p) == CreateSession(p) \/ CreateFirstToken(p) \/ CreateOAuthToken(p)

RefreshStep(p) ==
  \/ RefreshCheckUser(p) \/ RefreshCheckSession(p) \/ RefreshDrop(p)
  \/ RefreshCreate(p) \/ RefreshRotate(p)
  \/ MarkReused(p) \/ RevokeFamilyTokens(p) \/ RevokeFamilySession(p)

OAuthStep(p) ==
  \/ OAuthCheckUser(p) \/ OAuthRotate(p) \/ OAuthLink(p)
  \/ OAuthMarkReused(p) \/ OAuthRevokeFamily(p)

RevokeStep(p) ==
  \/ LogoutToken(p) \/ LogoutByIp(p) \/ FindSessions(p)
  \/ RevokeSessionsByIds(p) \/ CommitReset(p) \/ EraseAccount(p)

(* The next await of a handler in flight                                    *)
Continue(p) == IssueStep(p) \/ RefreshStep(p) \/ OAuthStep(p) \/ RevokeStep(p)

(* A client calls an endpoint that will need more than one await            *)
Arrive(p) ==
  \/ \E u \in Users :
       \/ LoginUser(p, u) \/ ExchangeAuthorizationCode(p, u)
       \/ RevokeAndAnonymizeAccount(p, u) \/ ResetPassword(p, u)
       \/ \E ip \in Ips : LogoutUser(p, u, ip)
       \/ \E s \in Sessions : RevokeMySession(p, u, s)
       \/ \E keep \in Sessions \cup {None} : RevokeAllSessions(p, u, keep)
       \/ \E status \in {"SUSPENDED", "DELETED"} : CloseAccount(p, u, status)
  \/ \E t \in Tokens : RefreshTokens(p, t) \/ ExchangeRefreshToken(p, t)

(* Handlers whose only write is one statement                               *)
Immediate ==
  \/ \E t \in Tokens : RevokeToken(t)
  \/ \E s \in Sessions : AdminRevokeSession(s)
  \/ \E u \in Users :
       \/ DisconnectProviderData(u) \/ AdminRevokeUserSessions(u)
       \/ \E status \in {"ACTIVE", "SUSPENDED", "DELETED"} : UpdateUserStatus(u, status)

Next == (\E p \in Requests : Arrive(p) \/ Continue(p) \/ Crash(p)) \/ Immediate

Spec == Init /\ [][Next]_vars

----------------------------------------------------------------------------
(* Properties *)

(* Revocation goes by family and user, so it reaches every descendant of a  *)
(* login only if rotation, on both endpoints and in any interleaving, keeps *)
(* a successor in its predecessor's family, and a family, one that is a     *)
(* session above all, holds tokens of one account only. (A token that       *)
(* predates families gets one when the OAuth endpoint rotates it.)          *)
OneAccountPerFamily ==
  \A t, n \in Tokens :
    token[t].family = token[n].family /\ token[t].family # None
      => token[t].user = token[n].user

SessionsOwnTheirFamily ==
  \A t \in Tokens : token[t].family \in Sessions =>
    /\ session[token[t].family].state # "unused"
    /\ session[token[t].family].user = token[t].user

SuccessorsStayInFamily ==
  \A t \in Tokens : token[t].next # None =>
    LET n == token[token[t].next]
    IN /\ n.state # "unused"
       /\ n.user = token[t].user
       /\ n.family = token[t].family \/ token[t].family = None

FamiliesAreClosed ==
  OneAccountPerFamily /\ SessionsOwnTheirFamily /\ SuccessorsStayInFamily

(* A refresh that starts after the session of its token was revoked never   *)
(* gets to issue a token on /auth/refresh, however long the awaits between  *)
(* its reads and whatever runs in between.                                  *)
RevokedSessionMintsNothing ==
  \A p \in doomed : req[p].at \notin {"refresh.create", "refresh.rotate"}

(* No update of any handler, stale as its reads may be, brings a revoked    *)
(* token or session back, or forgets that a token was replayed.             *)
RevocationIsFinal ==
  [][/\ \A t \in Tokens :
          /\ token[t].state = "revoked" => token'[t].state = "revoked"
          /\ token[t].reused => token'[t].reused
     /\ \A s \in Sessions :
          session[s].state = "revoked" => session'[s].state = "revoked"]_vars

(* Between handlers, a family has at most one token that can be used.       *)
OneLiveTokenPerFamily ==
  InFlight = {} =>
    \A t, n \in LiveTokens :
      token[t].family # None /\ token[t].family = token[n].family => t = n

(* Between handlers, a family one of whose rotated tokens was presented     *)
(* again has no token that can be used.                                     *)
ReplayEndsFamily ==
  InFlight = {} =>
    \A t \in Tokens : token[t].reused /\ token[t].family # None =>
      FamilyOf(token[t].family) \cap LiveTokens = {}

----------------------------------------------------------------------------
(* The inductive strengthening the safety properties rest on                *)

UnusedRowsAreBlank ==
  \A t \in Tokens : token[t].state = "unused" => token[t] = NoToken

(* Awaits at which a handler acts for the owner of the token it read        *)
ActsOnToken ==
  {"refresh.user", "refresh.session", "refresh.drop", "refresh.create",
   "refresh.rotate", "oauth.user", "oauth.rotate", "oauth.link",
   "reuse.mark", "reuse.mark.oauth", "family.tokens.oauth"}

HoldsItsRows(p) ==
  /\ req[p].at \in ActsOnToken =>
       /\ req[p].tok \in Tokens
       /\ token[req[p].tok].state # "unused"
       /\ token[req[p].tok].user = req[p].user
       /\ token[req[p].tok].family = req[p].family
  /\ req[p].at \in {"refresh.rotate", "oauth.link"} =>
       /\ req[p].next \in Tokens
       /\ token[req[p].next].state # "unused"
       /\ token[req[p].next].user = req[p].user
       /\ req[p].family # None => token[req[p].next].family = req[p].family
  /\ req[p].at = "login.token" =>
       /\ req[p].family \in Sessions
       /\ session[req[p].family].state # "unused"
       /\ session[req[p].family].user = req[p].user

HandlersHoldTheirRows == \A p \in Requests : HoldsItsRows(p)

SeesItIsDoomed(p) ==
  /\ req[p].at \in {"refresh.user", "refresh.session"} =>
       req[p].family \in Sessions /\ session[req[p].family].state = "revoked"
  /\ req[p].at \notin {"refresh.create", "refresh.rotate"}

DoomedHandlersSeeIt == \A p \in doomed : SeesItIsDoomed(p)

IInv ==
  /\ TypeOK
  /\ UnusedRowsAreBlank
  /\ HandlersHoldTheirRows
  /\ FamiliesAreClosed
  /\ DoomedHandlersSeeIt

=============================================================================
