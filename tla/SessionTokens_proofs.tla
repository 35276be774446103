----------------------- MODULE SessionTokens_proofs ------------------------
(***************************************************************************)
(* Proofs about SessionTokens, for any number of users, sessions, tokens   *)
(* and handlers in flight.  The invariant IInv adds to the properties what *)
(* a handler holds between two awaits: the rows it read or created exist   *)
(* and still belong to its user and family (HandlersHoldTheirRows), rows   *)
(* never written are blank (UnusedRowsAreBlank), and a refresh that began  *)
(* on a revoked session is on its way to be refused (DoomedHandlersSeeIt). *)
(* SerialInv, of handlers that run one after the other, says what a        *)
(* rotation knows of its family (HandlersHoldTheirFamilies) and at which   *)
(* await two live tokens, or a live and a replayed one, are put right.     *)
(*                                                                         *)
(* Most steps keep the owner, family and successor of every token and the  *)
(* owner of every session: they are dealt with once, by ShapeKeepsClosure. *)
(* The steps that insert or link rows have a lemma each.                   *)
(***************************************************************************)
EXTENDS SessionTokens, TLAPS

----------------------------------------------------------------------------
(* Types *)

(* Every update the handlers make of a token row yields a row.              *)
LEMMA TokenRowUpdates ==
  ASSUME NEW r \in TokenRow, NEW n \in Tokens \cup {None}, NEW b \in BOOLEAN
  PROVE  /\ [r EXCEPT !.state = "revoked"] \in TokenRow
         /\ [r EXCEPT !.reused = TRUE] \in TokenRow
         /\ [r EXCEPT !.next = n] \in TokenRow
         /\ [r EXCEPT !.state = "revoked", !.rotated = b] \in TokenRow
         /\ [r EXCEPT !.state = "revoked", !.rotated = TRUE, !.next = n] \in TokenRow
  BY DEF TokenRow, RowState

(* The row an INSERT creates is a row.                                      *)
LEMMA NewTokenType ==
  ASSUME NEW u \in Users \cup {None}, NEW f \in Families \cup {None}
  PROVE  [NoToken EXCEPT !.state = "live", !.user = u, !.family = f] \in TokenRow
  BY DEF TokenRow, RowState, NoToken

(* A conditional revocation keeps the token table typed.                    *)
LEMMA RevokeLiveTokensType ==
  ASSUME TypeOK, NEW T, RevokeLiveTokens(T)
  PROVE  token' \in [Tokens -> TokenRow]
  <1> DEFINE r(t) == IF t \in T /\ token[t].state = "live"
                       THEN [token[t] EXCEPT !.state = "revoked"] ELSE token[t]
  <1>1. \A t \in Tokens : r(t) \in TokenRow
    BY DEF TokenRow, RowState, TypeOK
  <1>2. QED
    BY <1>1 DEF RevokeLiveTokens

(* A conditional revocation keeps the session table typed.                  *)
LEMMA RevokeLiveSessionsType ==
  ASSUME TypeOK, NEW S, RevokeLiveSessions(S)
  PROVE  session' \in [Sessions -> SessionRow]
  <1> DEFINE r(s) == IF s \in S /\ session[s].state = "live"
                       THEN [session[s] EXCEPT !.state = "revoked"] ELSE session[s]
  <1>1. \A s \in Sessions : r(s) \in SessionRow
    BY DEF SessionRow, RowState, TypeOK
  <1>2. QED
    BY <1>1 DEF RevokeLiveSessions

(* A handler that has ended is a request.                                   *)
LEMMA IdleType == Idle \in Request
  BY DEF Idle, Request, Awaits

(* Starting, moving and ending a handler keeps the handlers typed.          *)
LEMMA ControlType ==
  ASSUME TypeOK, NEW p \in Requests
  PROVE  /\ Finish(p) => req' \in [Requests -> Request] /\ doomed' \in SUBSET Requests
         /\ \A await \in Awaits : Goto(p, await) => req' \in [Requests -> Request]
         /\ \A r \in Request : Start(p, r) =>
              req' \in [Requests -> Request] /\ doomed' \in SUBSET Requests
  <1>1. Finish(p) => req' \in [Requests -> Request] /\ doomed' \in SUBSET Requests
    BY IdleType DEF Finish, TypeOK
  <1>2. ASSUME NEW await \in Awaits, Goto(p, await) PROVE req' \in [Requests -> Request]
    <2>1. [req[p] EXCEPT !.at = await] \in Request
      BY DEF TypeOK, Request
    <2>2. QED
      BY <1>2, <2>1 DEF Goto, TypeOK
  <1>3. ASSUME NEW r \in Request, Start(p, r)
        PROVE req' \in [Requests -> Request] /\ doomed' \in SUBSET Requests
    BY <1>3 DEF Start, TypeOK
  <1>4. QED
    BY <1>1, <1>2, <1>3

(* The rows and the handlers in flight start with their types.              *)
LEMMA InitType == Init => TypeOK
<1> SUFFICES ASSUME Init PROVE TypeOK
  OBVIOUS
<1>1. NoSession \in SessionRow /\ NoToken \in TokenRow
  BY DEF NoSession, NoToken, SessionRow, TokenRow, RowState
<1>2. PICK owner \in [LegacyTokens -> Users] :
        token = [t \in Tokens |->
                   IF t \in LegacyTokens
                     THEN [NoToken EXCEPT !.state = "live", !.user = owner[t]] ELSE NoToken]
  BY DEF Init
<1>3. \A t \in LegacyTokens :
        [NoToken EXCEPT !.state = "live", !.user = owner[t]] \in TokenRow
  BY DEF NoToken, TokenRow, RowState
<1>4. token \in [Tokens -> TokenRow]
  BY <1>1, <1>2, <1>3
<1>5. QED
  BY <1>1, <1>4, IdleType DEF Init, TypeOK

(* The types are closed under every await of every handler.                 *)
LEMMA StepType == TypeOK /\ [Next]_vars => TypeOK'
<1> SUFFICES ASSUME TypeOK, [Next]_vars PROVE TypeOK'
  OBVIOUS
<1>1. CASE UNCHANGED vars
  BY <1>1 DEF vars, TypeOK
<1>2. ASSUME NEW p \in Requests, Arrive(p) PROVE TypeOK'
  <2> DEFINE ReqOK == req' \in [Requests -> Request] /\ doomed' \in SUBSET Requests
  <2>1. ASSUME NEW u \in Users, LoginUser(p, u) PROVE TypeOK'
    BY <2>1 DEF LoginUser, Start, TypeOK, Idle, Request, Awaits
  <2>2. ASSUME NEW u \in Users, ExchangeAuthorizationCode(p, u) PROVE TypeOK'
    BY <2>2 DEF ExchangeAuthorizationCode, Start, TypeOK, Idle, Request, Awaits
  <2>3. ASSUME NEW u \in Users, RevokeAndAnonymizeAccount(p, u) PROVE TypeOK'
    <3>1. [Idle EXCEPT !.at = "erase.account", !.user = u] \in Request
      BY DEF Idle, Request, Awaits
    <3>2. QED
      BY <2>3, <3>1, ControlType, RevokeLiveSessionsType, RevokeLiveTokensType
         DEF RevokeAndAnonymizeAccount, TypeOK
  <2>4. ASSUME NEW u \in Users, ResetPassword(p, u) PROVE TypeOK'
    BY <2>4 DEF ResetPassword, Start, TypeOK, Idle, Request, Awaits
  <2>5. ASSUME NEW u \in Users, NEW ip \in Ips, LogoutUser(p, u, ip) PROVE TypeOK'
    <3>1. /\ [Idle EXCEPT !.user = u, !.ip = ip, !.at = "logout.ip"] \in Request
          /\ \A t \in Tokens, a \in {"family.tokens", "logout.token"} :
               [Idle EXCEPT !.user = u, !.ip = ip, !.tok = t, !.family = token[t].family,
                            !.at = a] \in Request
      BY DEF Idle, Request, Awaits, TypeOK, TokenRow
    <3>2. QED
      BY <2>5, <3>1, ControlType DEF LogoutUser, TypeOK
  <2>6. ASSUME NEW u \in Users, NEW s \in Sessions, RevokeMySession(p, u, s) PROVE TypeOK'
    BY <2>6 DEF RevokeMySession, Start, TypeOK, Idle, Request, Awaits
  <2>7. ASSUME NEW u \in Users, NEW keep \in Sessions \cup {None},
               RevokeAllSessions(p, u, keep)
        PROVE TypeOK'
    BY <2>7 DEF RevokeAllSessions, Start, TypeOK, Idle, Request, Awaits
  <2>8. ASSUME NEW u \in Users, NEW status \in {"SUSPENDED", "DELETED"},
               CloseAccount(p, u, status)
        PROVE TypeOK'
    BY <2>8 DEF CloseAccount, Start, TypeOK, Idle, Request, Awaits
  <2>9. ASSUME NEW t \in Tokens, RefreshTokens(p, t) \/ ExchangeRefreshToken(p, t)
        PROVE TypeOK'
    <3>1. \A a \in {"refresh.user", "reuse.mark", "oauth.user", "reuse.mark.oauth"} :
            Presented(t, a) \in Request
      BY DEF Presented, Idle, Request, Awaits, TypeOK, TokenRow
    <3>2. QED
      BY <2>9, <3>1, ControlType DEF RefreshTokens, ExchangeRefreshToken, TypeOK
  <2>10. QED
    BY <1>2, <2>1, <2>2, <2>3, <2>4, <2>5, <2>6, <2>7, <2>8, <2>9 DEF Arrive
<1>3. ASSUME NEW p \in Requests, IssueStep(p) PROVE TypeOK'
  <2>0. req[p] \in Request
    BY DEF TypeOK
  <2>1. CASE CreateSession(p)
    <3>1. PICK s \in Sessions :
            /\ session' = [session EXCEPT ![s] = [state |-> "live", user |-> req[p].user]]
            /\ req' = [req EXCEPT ![p].at = "login.token", ![p].family = s]
      BY <2>1 DEF CreateSession
    <3>2. /\ [req[p] EXCEPT !.at = "login.token", !.family = s] \in Request
          /\ [state |-> "live", user |-> req[p].user] \in SessionRow
      BY <2>0 DEF Request, Awaits, Families, SessionRow, RowState
    <3>3. QED
      BY <2>1, <3>1, <3>2 DEF CreateSession, TypeOK
  <2>2. CASE CreateFirstToken(p) \/ CreateOAuthToken(p)
    <3>1. \A f \in Families \cup {None} :
            [NoToken EXCEPT !.state = "live", !.user = req[p].user, !.family = f] \in TokenRow
      BY <2>0, NewTokenType DEF Request
    <3>2. PICK t \in Tokens, f \in Families \cup {None} : Issue(t, req[p].user, f)
      BY <2>0, <2>2 DEF CreateFirstToken, CreateOAuthToken, Families, Request
    <3>3. token' \in [Tokens -> TokenRow]
      BY <3>1, <3>2 DEF Issue, TypeOK
    <3>4. QED
      BY <2>2, <3>3, ControlType DEF CreateFirstToken, CreateOAuthToken, TypeOK
  <2>3. QED
    BY <1>3, <2>1, <2>2 DEF IssueStep
<1>4. ASSUME NEW p \in Requests, RefreshStep(p) PROVE TypeOK'
  <2>0. req[p] \in Request
    BY DEF TypeOK
  <2>1. CASE RefreshCheckUser(p) \/ RefreshCheckSession(p)
    BY <2>1, ControlType DEF RefreshCheckUser, RefreshCheckSession, TypeOK, Awaits
  <2>2. CASE RefreshDrop(p) \/ RefreshRotate(p) \/ MarkReused(p)
    <3>1. ASSUME NEW t \in Tokens, NEW n \in Tokens \cup {None}
          PROVE /\ [token[t] EXCEPT !.state = "revoked", !.rotated = FALSE] \in TokenRow
                /\ [token[t] EXCEPT !.state = "revoked", !.rotated = TRUE, !.next = n] \in TokenRow
                /\ [token[t] EXCEPT !.reused = TRUE] \in TokenRow
      BY TokenRowUpdates DEF TypeOK
    <3>2. req[p].next \in Tokens \cup {None}
      BY <2>0 DEF Request
    <3>3. token' \in [Tokens -> TokenRow]
      <4>1. CASE RefreshDrop(p)
        BY <3>1, <4>1 DEF RefreshDrop, TypeOK
      <4>2. CASE RefreshRotate(p)
        BY <3>1, <3>2, <4>2 DEF RefreshRotate, TypeOK
      <4>3. CASE MarkReused(p)
        BY <3>1, <4>3 DEF MarkReused, TypeOK
      <4>4. QED
        BY <2>2, <4>1, <4>2, <4>3
    <3>4. QED
      BY <2>2, <3>3, ControlType DEF RefreshDrop, RefreshRotate, MarkReused, TypeOK, Awaits
  <2>3. CASE RefreshCreate(p)
    <3>1. PICK n \in Tokens :
            /\ Issue(n, req[p].user, req[p].family)
            /\ req' = [req EXCEPT ![p].at = "refresh.rotate", ![p].next = n]
      BY <2>3 DEF RefreshCreate
    <3>2. /\ [req[p] EXCEPT !.at = "refresh.rotate", !.next = n] \in Request
          /\ [NoToken EXCEPT !.state = "live", !.user = req[p].user, !.family = req[p].family]
               \in TokenRow
      BY <2>0, NewTokenType DEF Request, Awaits
    <3>3. QED
      BY <2>3, <3>1, <3>2 DEF RefreshCreate, Issue, TypeOK
  <2>4. CASE RevokeFamilyTokens(p) \/ RevokeFamilySession(p)
    BY <2>4, ControlType, RevokeLiveTokensType, RevokeLiveSessionsType
       DEF RevokeFamilyTokens, RevokeFamilySession, TypeOK, Awaits
  <2>5. QED
    BY <1>4, <2>1, <2>2, <2>3, <2>4 DEF RefreshStep
<1>5. ASSUME NEW p \in Requests, OAuthStep(p) PROVE TypeOK'
  <2>0. req[p] \in Request
    BY DEF TypeOK
  <2>1. CASE OAuthCheckUser(p)
    BY <2>1, ControlType DEF OAuthCheckUser, TypeOK, Awaits
  <2>2. CASE OAuthLink(p) \/ OAuthMarkReused(p)
    <3>1. ASSUME NEW t \in Tokens, NEW n \in Tokens \cup {None}
          PROVE /\ [token[t] EXCEPT !.next = n] \in TokenRow
                /\ [token[t] EXCEPT !.reused = TRUE] \in TokenRow
      BY TokenRowUpdates DEF TypeOK
    <3>2. req[p].next \in Tokens \cup {None}
      BY <2>0 DEF Request
    <3>3. token' \in [Tokens -> TokenRow]
      BY <2>2, <3>1, <3>2 DEF OAuthLink, OAuthMarkReused, TypeOK
    <3>4. QED
      BY <2>2, <3>3, ControlType DEF OAuthLink, OAuthMarkReused, TypeOK, Awaits
  <2>3. CASE OAuthRotate(p)
    <3> DEFINE new(f) == [NoToken EXCEPT !.state = "live", !.user = req[p].user, !.family = f]
    <3>1. PICK n \in Tokens, f \in Families :
            /\ token' = [token EXCEPT ![n] = new(f),
                                      ![req[p].tok].state = "revoked",
                                      ![req[p].tok].rotated = TRUE]
            /\ req' = [req EXCEPT ![p].at = "oauth.link", ![p].next = n]
      BY <2>3 DEF OAuthRotate
    <3>2. /\ [req[p] EXCEPT !.at = "oauth.link", !.next = n] \in Request
          /\ new(f) \in TokenRow
      BY <2>0, NewTokenType DEF Request, Awaits
    <3>3. [token EXCEPT ![n] = new(f)] \in [Tokens -> TokenRow]
      BY <3>2 DEF TypeOK
    <3>4. token' \in [Tokens -> TokenRow]
      <4> DEFINE mid == [token EXCEPT ![n] = new(f)]
      <4>1. token' = [mid EXCEPT ![req[p].tok].state = "revoked", ![req[p].tok].rotated = TRUE]
        BY <3>1
      <4>2. \A t \in Tokens : [mid[t] EXCEPT !.state = "revoked", !.rotated = TRUE] \in TokenRow
        BY <3>3, TokenRowUpdates
      <4> HIDE DEF mid
      <4>3. QED
        BY <3>3, <4>1, <4>2 DEF mid
    <3>5. QED
      BY <2>3, <3>1, <3>2, <3>4 DEF OAuthRotate, TypeOK
  <2>4. CASE OAuthRevokeFamily(p)
    BY <2>4, ControlType, RevokeLiveTokensType DEF OAuthRevokeFamily, TypeOK
  <2>5. QED
    BY <1>5, <2>1, <2>2, <2>3, <2>4 DEF OAuthStep
<1>6. ASSUME NEW p \in Requests, RevokeStep(p) PROVE TypeOK'
  <2>1. CASE LogoutToken(p) \/ LogoutByIp(p)
    BY <2>1, ControlType, RevokeLiveTokensType, RevokeLiveSessionsType
       DEF LogoutToken, LogoutByIp, TypeOK, Awaits
  <2>2. CASE FindSessions(p)
    <3> DEFINE found == {s \in SessionsOf(req[p].user) :
                           session[s].state = "live" /\ s # req[p].keep}
    <3>1. found \in SUBSET Sessions
      BY DEF SessionsOf
    <3> HIDE DEF found
    <3>2. [req[p] EXCEPT !.at = "revoke.ids", !.ids = found] \in Request
      <4>1. ASSUME NEW r \in Request, NEW ids \in SUBSET Sessions
            PROVE [r EXCEPT !.at = "revoke.ids", !.ids = ids] \in Request
        BY DEF Request, Awaits
      <4>2. QED
        BY <3>1, <4>1 DEF TypeOK
    <3>3. \/ Finish(p)
          \/ /\ req' = [req EXCEPT ![p].at = "revoke.ids", ![p].ids = found]
             /\ UNCHANGED doomed
      BY <2>2 DEF FindSessions, found
    <3>4. req' \in [Requests -> Request] /\ doomed' \in SUBSET Requests
      BY <3>2, <3>3, ControlType DEF TypeOK
    <3>5. QED
      BY <2>2, <3>4 DEF FindSessions, TypeOK
  <2>3. CASE RevokeSessionsByIds(p) \/ CommitReset(p)
    BY <2>3, ControlType, RevokeLiveTokensType, RevokeLiveSessionsType
       DEF RevokeSessionsByIds, CommitReset, TypeOK
  <2>4. CASE EraseAccount(p)
    BY <2>4, ControlType DEF EraseAccount, TypeOK
  <2>5. QED
    BY <1>6, <2>1, <2>2, <2>3, <2>4 DEF RevokeStep
<1>7. ASSUME NEW p \in Requests, Crash(p) PROVE TypeOK'
  BY <1>7, ControlType DEF Crash, TypeOK
<1>8. CASE Immediate
  <2>1. ASSUME NEW t \in Tokens, RevokeToken(t) PROVE TypeOK'
    <3>1. [token[t] EXCEPT !.state = "revoked"] \in TokenRow
      BY TokenRowUpdates DEF TypeOK
    <3>2. QED
      BY <2>1, <3>1 DEF RevokeToken, TypeOK
  <2>2. ASSUME NEW s \in Sessions, AdminRevokeSession(s) PROVE TypeOK'
    BY <2>2, RevokeLiveSessionsType DEF AdminRevokeSession, TypeOK
  <2>3. ASSUME NEW u \in Users,
               \/ DisconnectProviderData(u) \/ AdminRevokeUserSessions(u)
               \/ \E status \in {"ACTIVE", "SUSPENDED", "DELETED"} : UpdateUserStatus(u, status)
        PROVE TypeOK'
    BY <2>3, RevokeLiveSessionsType, RevokeLiveTokensType
       DEF DisconnectProviderData, AdminRevokeUserSessions, UpdateUserStatus, TypeOK
  <2>4. QED
    BY <1>8, <2>1, <2>2, <2>3 DEF Immediate
<1>9. QED
  BY <1>1, <1>2, <1>3, <1>4, <1>5, <1>6, <1>7, <1>8 DEF Next, Continue

(* Every variable keeps its type: the rows and the handlers in flight are   *)
(* closed under every await of every handler.                               *)
THEOREM TypeCorrect == Spec => []TypeOK
  BY InitType, StepType, PTL DEF Spec

----------------------------------------------------------------------------
(* Steps that neither insert nor link rows *)

(* What an update does that neither issues nor relinks rows                 *)
TokenShapeKept ==
  \A t \in Tokens :
    /\ token'[t].user = token[t].user
    /\ token'[t].family = token[t].family
    /\ token'[t].next = token[t].next
    /\ token[t].state = "unused" => token'[t] = token[t]
    /\ token[t].state # "unused" => token'[t].state # "unused"

SessionShapeKept ==
  \A s \in Sessions :
    /\ session'[s].user = session[s].user
    /\ session[s].state # "unused" => session'[s].state # "unused"
    /\ session[s].state = "revoked" => session'[s].state = "revoked"

OthersUntouched(p) ==
  \A q \in Requests \ {p} : req'[q] = req[q] /\ (q \in doomed' => q \in doomed)

(* A conditional revocation, or none, keeps the shape of both tables.       *)
LEMMA RevocationKeepsShape ==
  ASSUME TypeOK
  PROVE  /\ \A T : RevokeLiveTokens(T) => TokenShapeKept
         /\ \A S : RevokeLiveSessions(S) => SessionShapeKept
         /\ UNCHANGED token => TokenShapeKept
         /\ UNCHANGED session => SessionShapeKept
  <1>1. ASSUME NEW T, RevokeLiveTokens(T) PROVE TokenShapeKept
    BY <1>1 DEF TypeOK, TokenRow, RowState, RevokeLiveTokens, TokenShapeKept
  <1>2. ASSUME NEW S, RevokeLiveSessions(S) PROVE SessionShapeKept
    BY <1>2 DEF TypeOK, SessionRow, RowState, RevokeLiveSessions, SessionShapeKept
  <1>3. QED
    BY <1>1, <1>2 DEF TokenShapeKept, SessionShapeKept

(* An unconditional update of a row in use keeps the shape of the tokens.   *)
LEMMA MarkKeepsShape ==
  ASSUME TypeOK, NEW t \in Tokens, token[t].state # "unused", NEW b \in BOOLEAN
  PROVE  /\ token' = [token EXCEPT ![t].reused = TRUE] => TokenShapeKept
         /\ token' = [token EXCEPT ![t].state = "revoked"] => TokenShapeKept
         /\ token' = [token EXCEPT ![t].state = "revoked", ![t].rotated = b] => TokenShapeKept
  BY DEF TypeOK, TokenRow, TokenShapeKept

(* A step that keeps the shape of both tables preserves the invariant if it *)
(* leaves the handler that took it in order.                                *)
LEMMA ShapeKeepsClosure ==
  ASSUME IInv, TokenShapeKept, SessionShapeKept, TypeOK'
  PROVE  /\ UnusedRowsAreBlank'
         /\ FamiliesAreClosed'
         /\ \A q \in Requests : req'[q] = req[q] => HoldsItsRows(q)'
         /\ \A q \in Requests : req'[q] = req[q] /\ SeesItIsDoomed(q) => SeesItIsDoomed(q)'
  <1>1. UnusedRowsAreBlank'
    BY DEF IInv, UnusedRowsAreBlank, TokenShapeKept
  <1>2. OneAccountPerFamily'
    BY DEF IInv, FamiliesAreClosed, OneAccountPerFamily, TokenShapeKept
  <1>3. SessionsOwnTheirFamily'
    BY DEF IInv, FamiliesAreClosed, SessionsOwnTheirFamily, TokenShapeKept, SessionShapeKept
  <1>4. SuccessorsStayInFamily'
    BY ConstantsAssumption
       DEF IInv, FamiliesAreClosed, SuccessorsStayInFamily, TokenShapeKept, TypeOK, TokenRow
  <1>5. ASSUME NEW q \in Requests, req'[q] = req[q] PROVE HoldsItsRows(q)'
    BY <1>5 DEF IInv, HandlersHoldTheirRows, HoldsItsRows, TokenShapeKept, SessionShapeKept
  <1>6. ASSUME NEW q \in Requests, req'[q] = req[q], SeesItIsDoomed(q)
        PROVE SeesItIsDoomed(q)'
    BY <1>6 DEF SeesItIsDoomed, SessionShapeKept
  <1>7. QED
    BY <1>1, <1>2, <1>3, <1>4, <1>5, <1>6 DEF FamiliesAreClosed

(* A shape-keeping step keeps the invariant if its own handler stays right. *)
LEMMA FrameStep ==
  ASSUME IInv, TypeOK', NEW p \in Requests, TokenShapeKept, SessionShapeKept,
         OthersUntouched(p), HoldsItsRows(p)', p \in doomed' => SeesItIsDoomed(p)'
  PROVE  IInv'
  <1>1. HandlersHoldTheirRows'
    BY ShapeKeepsClosure DEF HandlersHoldTheirRows, OthersUntouched
  <1>2. DoomedHandlersSeeIt'
    BY ShapeKeepsClosure DEF DoomedHandlersSeeIt, OthersUntouched, IInv, TypeOK
  <1>3. QED
    BY <1>1, <1>2, ShapeKeepsClosure DEF IInv

(* The two helpers that move a handler leave the others alone.              *)
LEMMA ControlFrame ==
  ASSUME TypeOK, NEW p \in Requests
  PROVE  /\ Finish(p) => /\ OthersUntouched(p)
                         /\ req'[p] = Idle /\ HoldsItsRows(p)' /\ p \notin doomed'
         /\ \A await : Goto(p, await) /\ UNCHANGED doomed =>
              OthersUntouched(p) /\ req'[p] = [req[p] EXCEPT !.at = await]
         /\ \A r : Start(p, r) => OthersUntouched(p) /\ req'[p] = r
  BY DEF TypeOK, Finish, Goto, Start, OthersUntouched, HoldsItsRows, Idle, ActsOnToken

(* A step after which its handler is at an await that holds no rows.        *)
LEMMA QuietStep ==
  ASSUME IInv, TypeOK', NEW p \in Requests, TokenShapeKept, SessionShapeKept,
         OthersUntouched(p), req'[p].at \notin ActsOnToken \cup {"login.token"}
  PROVE  IInv'
  <1>1. HoldsItsRows(p)' /\ SeesItIsDoomed(p)'
    BY DEF HoldsItsRows, SeesItIsDoomed, ActsOnToken
  <1>2. QED
    BY <1>1, FrameStep

(* A request that comes in keeps the invariant.                             *)
LEMMA ArriveKeepsInv ==
  ASSUME IInv, TypeOK', NEW p \in Requests, Arrive(p)
  PROVE  IInv'
  <1>0. TypeOK
    BY DEF IInv
  <1>1. ASSUME NEW t \in Tokens, RefreshTokens(p, t) \/ ExchangeRefreshToken(p, t)
        PROVE IInv'
    <2>1. PICK a \in ActsOnToken \ {"refresh.create", "refresh.rotate", "oauth.link"} :
            Start(p, Presented(t, a))
      BY <1>1 DEF RefreshTokens, ExchangeRefreshToken, ActsOnToken
    <2>2. UNCHANGED <<session, token>> /\ token[t].state # "unused"
      BY <1>1 DEF RefreshTokens, ExchangeRefreshToken
    <2>3. TokenShapeKept /\ SessionShapeKept
      BY <1>0, <2>2, RevocationKeepsShape
    <2>4. OthersUntouched(p) /\ req'[p] = Presented(t, a)
      BY <1>0, <2>1, ControlFrame
    <2>5. HoldsItsRows(p)'
      <3>1. /\ req'[p].at = a /\ req'[p].tok = t
            /\ req'[p].user = token'[t].user /\ req'[p].family = token'[t].family
        BY <2>2, <2>4 DEF Presented, Idle
      <3>2. a \notin {"refresh.rotate", "oauth.link", "login.token"}
        BY DEF ActsOnToken
      <3>3. QED
        BY <2>2, <3>1, <3>2 DEF HoldsItsRows
    <2>6. ASSUME p \in doomed' PROVE SeesItIsDoomed(p)'
      <3>1. token[t].family \in Sessions /\ session[token[t].family].state # "live"
        BY <2>1, <2>6 DEF Start, Presented, Idle
      <3>2. session[token[t].family].state = "revoked"
        BY <1>0, <3>1 DEF TypeOK, SessionRow, RowState, IInv, FamiliesAreClosed,
                          SessionsOwnTheirFamily
      <3>3. QED
        BY <2>2, <2>4, <3>1, <3>2 DEF SeesItIsDoomed, Presented, Idle, ActsOnToken
    <2>7. QED
      BY <2>3, <2>4, <2>5, <2>6, FrameStep
  <1>2. ASSUME NEW u \in Users, RevokeAndAnonymizeAccount(p, u)
        PROVE IInv'
    <2>1. TokenShapeKept /\ SessionShapeKept
      BY <1>0, <1>2, RevocationKeepsShape DEF RevokeAndAnonymizeAccount
    <2>2. OthersUntouched(p) /\ req'[p] = [Idle EXCEPT !.at = "erase.account", !.user = u]
      BY <1>0, <1>2, ControlFrame DEF RevokeAndAnonymizeAccount
    <2>3. QED
      BY <2>1, <2>2, QuietStep DEF ActsOnToken, Idle
  <1>3. ASSUME NEW r, Start(p, r), UNCHANGED <<session, token>>,
               r.at \notin ActsOnToken \cup {"login.token"}
        PROVE IInv'
    <2>1. TokenShapeKept /\ SessionShapeKept
      BY <1>0, <1>3, RevocationKeepsShape
    <2>2. OthersUntouched(p) /\ req'[p] = r
      BY <1>0, <1>3, ControlFrame
    <2>3. QED
      BY <1>3, <2>1, <2>2, QuietStep
  <1>4. ASSUME NEW u \in Users, NEW ip \in Ips, LogoutUser(p, u, ip) PROVE IInv'
    <2>1. CASE Start(p, [Idle EXCEPT !.user = u, !.ip = ip, !.at = "logout.ip"])
      BY <1>3, <1>4, <2>1 DEF LogoutUser, Idle, ActsOnToken
    <2>2. ASSUME NEW t \in Tokens, NEW a \in {"family.tokens", "logout.token"},
                 Start(p, [Idle EXCEPT !.user = u, !.ip = ip, !.tok = t,
                                       !.family = token[t].family, !.at = a])
          PROVE IInv'
      BY <1>3, <1>4, <2>2 DEF LogoutUser, Idle, ActsOnToken
    <2>3. QED
      BY <1>4, <2>1, <2>2 DEF LogoutUser
  <1>5. ASSUME NEW u \in Users,
               \/ LoginUser(p, u) \/ ExchangeAuthorizationCode(p, u) \/ ResetPassword(p, u)
               \/ \E s \in Sessions : RevokeMySession(p, u, s)
               \/ \E keep \in Sessions \cup {None} : RevokeAllSessions(p, u, keep)
               \/ \E status \in {"SUSPENDED", "DELETED"} : CloseAccount(p, u, status)
        PROVE IInv'
    <2>1. CASE LoginUser(p, u)
      BY <1>3, <2>1 DEF LoginUser, Idle, ActsOnToken
    <2>2. CASE ExchangeAuthorizationCode(p, u)
      BY <1>3, <2>2 DEF ExchangeAuthorizationCode, Idle, ActsOnToken
    <2>3. CASE ResetPassword(p, u)
      BY <1>3, <2>3 DEF ResetPassword, Idle, ActsOnToken
    <2>4. ASSUME NEW s \in Sessions, RevokeMySession(p, u, s) PROVE IInv'
      BY <1>3, <2>4 DEF RevokeMySession, Idle, ActsOnToken
    <2>5. ASSUME NEW keep \in Sessions \cup {None}, RevokeAllSessions(p, u, keep) PROVE IInv'
      BY <1>3, <2>5 DEF RevokeAllSessions, Idle, ActsOnToken
    <2>6. ASSUME NEW status \in {"SUSPENDED", "DELETED"}, CloseAccount(p, u, status)
          PROVE IInv'
      BY <1>3, <2>6 DEF CloseAccount, Idle, ActsOnToken
    <2>7. QED
      BY <1>5, <2>1, <2>2, <2>3, <2>4, <2>5, <2>6
  <1>6. QED
    BY <1>1, <1>2, <1>4, <1>5 DEF Arrive

(* The awaits of logout, revocation, reset and erasure, and a crash, keep   *)
(* it.                                                                      *)
LEMMA RevokeStepKeepsInv ==
  ASSUME IInv, TypeOK', NEW p \in Requests, RevokeStep(p) \/ Crash(p)
  PROVE  IInv'
  <1>0. TypeOK
    BY DEF IInv
  <1>1. TokenShapeKept /\ SessionShapeKept
    BY <1>0, RevocationKeepsShape
       DEF RevokeStep, LogoutToken, LogoutByIp, FindSessions, RevokeSessionsByIds,
           CommitReset, EraseAccount, Crash
  <1>2. OthersUntouched(p) /\ req'[p].at \in {"idle", "logout.ip", "revoke.ids"}
    <2>1. CASE FindSessions(p)
      BY <1>0, <2>1, ControlFrame DEF FindSessions, OthersUntouched, TypeOK, Request, Idle
    <2>2. CASE LogoutToken(p)
      BY <1>0, <2>2, ControlFrame DEF LogoutToken, TypeOK, Request
    <2>3. CASE ~FindSessions(p) /\ ~LogoutToken(p)
      BY <1>0, <2>3, ControlFrame
         DEF RevokeStep, LogoutByIp, RevokeSessionsByIds, CommitReset, EraseAccount, Crash, Idle
    <2>4. QED
      BY <2>1, <2>2, <2>3
  <1>3. QED
    BY <1>1, <1>2, QuietStep DEF ActsOnToken

(* So do the handlers that are one statement.                               *)
LEMMA ImmediateKeepsInv ==
  ASSUME IInv, TypeOK', Immediate
  PROVE  IInv'
  <1>0. TypeOK
    BY DEF IInv
  <1>1. UNCHANGED <<req, doomed>>
    BY DEF Immediate, RevokeToken, AdminRevokeSession, DisconnectProviderData,
           AdminRevokeUserSessions, UpdateUserStatus
  <1>2. TokenShapeKept /\ SessionShapeKept
    <2>1. ASSUME NEW t \in Tokens, RevokeToken(t) PROVE TokenShapeKept /\ SessionShapeKept
      BY <1>0, <2>1, MarkKeepsShape, RevocationKeepsShape DEF RevokeToken
    <2>2. ASSUME ~\E t \in Tokens : RevokeToken(t) PROVE TokenShapeKept /\ SessionShapeKept
      BY <1>0, <2>2, RevocationKeepsShape
         DEF Immediate, AdminRevokeSession, DisconnectProviderData, AdminRevokeUserSessions,
             UpdateUserStatus
    <2>3. QED
      BY <2>1, <2>2
  <1>3. HandlersHoldTheirRows'
    BY <1>1, <1>2, ShapeKeepsClosure DEF HandlersHoldTheirRows
  <1>4. DoomedHandlersSeeIt'
    BY <1>1, <1>2, ShapeKeepsClosure DEF DoomedHandlersSeeIt, IInv, TypeOK
  <1>5. QED
    BY <1>2, <1>3, <1>4, ShapeKeepsClosure DEF IInv

(* Inserting a token whose owner and family agree with the rows there are.  *)
LEMMA IssueKeepsClosure ==
  ASSUME IInv, TypeOK', NEW t \in Tokens, NEW u \in Users \cup {None},
         NEW f \in Families \cup {None}, Issue(t, u, f), UNCHANGED session,
         \A n \in Tokens : token[n].family = f /\ f # None => token[n].user = u,
         f \in Sessions => session[f].state # "unused" /\ session[f].user = u
  PROVE  /\ UnusedRowsAreBlank'
         /\ FamiliesAreClosed'
         /\ \A q \in Requests : req'[q] = req[q] => HoldsItsRows(q)'
         /\ \A q \in Requests : req'[q] = req[q] /\ SeesItIsDoomed(q) => SeesItIsDoomed(q)'
  <1>1. /\ token'[t].state = "live" /\ token'[t].user = u
        /\ token'[t].family = f /\ token'[t].next = None
    BY DEF Issue, NoToken, IInv, TypeOK, TokenRow
  <1>2. \A n \in Tokens \ {t} : token'[n] = token[n]
    BY DEF Issue, IInv, TypeOK
  <1>3. token[t] = NoToken
    BY DEF Issue, IInv, UnusedRowsAreBlank
  <1>4. UnusedRowsAreBlank'
    BY <1>1, <1>2 DEF UnusedRowsAreBlank, IInv
  <1>5. OneAccountPerFamily'
    BY <1>1, <1>2 DEF OneAccountPerFamily, IInv, FamiliesAreClosed
  <1>6. SessionsOwnTheirFamily'
    BY <1>1, <1>2 DEF SessionsOwnTheirFamily, IInv, FamiliesAreClosed
  <1>7. SuccessorsStayInFamily'
    <2> SUFFICES ASSUME NEW m \in Tokens, token'[m].next # None
        PROVE LET n == token'[token'[m].next]
              IN /\ n.state # "unused" /\ n.user = token'[m].user
                 /\ n.family = token'[m].family \/ token'[m].family = None
      BY DEF SuccessorsStayInFamily
    <2>1. m # t /\ token'[m] = token[m]
      BY <1>1, <1>2
    <2>2. token[m].next \in Tokens
      BY <2>1 DEF IInv, TypeOK, TokenRow
    <2>3. LET n == token[token[m].next]
          IN /\ n.state # "unused" /\ n.user = token[m].user
             /\ n.family = token[m].family \/ token[m].family = None
      BY <2>1 DEF IInv, FamiliesAreClosed, SuccessorsStayInFamily
    <2>4. token[m].next # t
      BY <2>3 DEF Issue
    <2>5. QED
      BY <1>2, <2>1, <2>2, <2>3, <2>4
  <1>8. ASSUME NEW q \in Requests, req'[q] = req[q] PROVE HoldsItsRows(q)'
    <2>1. HoldsItsRows(q)
      BY DEF IInv, HandlersHoldTheirRows
    <2>2. QED
      BY <1>2, <1>8, <2>1 DEF HoldsItsRows, Issue, ActsOnToken
  <1>9. ASSUME NEW q \in Requests, req'[q] = req[q], SeesItIsDoomed(q) PROVE SeesItIsDoomed(q)'
    BY <1>9 DEF SeesItIsDoomed
  <1>10. QED
    BY <1>4, <1>5, <1>6, <1>7, <1>8, <1>9 DEF FamiliesAreClosed

(* Linking a token to a successor of its owner and family, and revoking it. *)
LEMMA LinkKeepsClosure ==
  ASSUME IInv, TypeOK', UNCHANGED session,
         NEW t \in Tokens, NEW n \in Tokens,
         token[t].state # "unused", token[n].state # "unused",
         token[n].user = token[t].user,
         token[n].family = token[t].family \/ token[t].family = None,
         \/ token' = [token EXCEPT ![t].next = n]
         \/ token' = [token EXCEPT ![t].state = "revoked", ![t].rotated = TRUE, ![t].next = n]
  PROVE  /\ UnusedRowsAreBlank'
         /\ FamiliesAreClosed'
         /\ \A q \in Requests : req'[q] = req[q] => HoldsItsRows(q)'
         /\ \A q \in Requests : req'[q] = req[q] /\ SeesItIsDoomed(q) => SeesItIsDoomed(q)'
  <1>1. \A m \in Tokens \ {t} : token'[m] = token[m]
    BY DEF IInv, TypeOK
  <1>2. /\ token'[t].user = token[t].user /\ token'[t].family = token[t].family
        /\ token'[t].next = n /\ token'[t].state # "unused"
    BY DEF IInv, TypeOK, TokenRow
  <1>3. \A m \in Tokens :
          /\ token'[m].user = token[m].user /\ token'[m].family = token[m].family
          /\ (token[m].state # "unused") <=> (token'[m].state # "unused")
    BY <1>1, <1>2
  <1>4. UnusedRowsAreBlank'
    BY <1>1, <1>2 DEF UnusedRowsAreBlank, IInv
  <1>5. OneAccountPerFamily'
    BY <1>3 DEF OneAccountPerFamily, IInv, FamiliesAreClosed
  <1>6. SessionsOwnTheirFamily'
    BY <1>3 DEF SessionsOwnTheirFamily, IInv, FamiliesAreClosed
  <1>7. SuccessorsStayInFamily'
    BY <1>1, <1>2, <1>3 DEF SuccessorsStayInFamily, IInv, FamiliesAreClosed, TypeOK, TokenRow
  <1>8. ASSUME NEW q \in Requests, req'[q] = req[q] PROVE HoldsItsRows(q)'
    <2>1. HoldsItsRows(q)
      BY DEF IInv, HandlersHoldTheirRows
    <2>2. QED
      BY <1>3, <1>8, <2>1 DEF HoldsItsRows
  <1>9. ASSUME NEW q \in Requests, req'[q] = req[q], SeesItIsDoomed(q) PROVE SeesItIsDoomed(q)'
    BY <1>9 DEF SeesItIsDoomed
  <1>10. QED
    BY <1>4, <1>5, <1>6, <1>7, <1>8, <1>9 DEF FamiliesAreClosed

(* What is left to show once the tables are known to be closed.             *)
LEMMA CloseStep ==
  ASSUME IInv, TypeOK', NEW p \in Requests, UnusedRowsAreBlank', FamiliesAreClosed',
         \A q \in Requests : req'[q] = req[q] => HoldsItsRows(q)',
         \A q \in Requests : req'[q] = req[q] /\ SeesItIsDoomed(q) => SeesItIsDoomed(q)',
         OthersUntouched(p), HoldsItsRows(p)', p \in doomed' => SeesItIsDoomed(p)'
  PROVE  IInv'
  <1>1. HandlersHoldTheirRows'
    BY DEF HandlersHoldTheirRows, OthersUntouched
  <1>2. DoomedHandlersSeeIt'
    BY DEF DoomedHandlersSeeIt, OthersUntouched, IInv, TypeOK
  <1>3. QED
    BY <1>1, <1>2 DEF IInv

(* So do the awaits that create a session or its first token.               *)
LEMMA IssueStepKeepsInv ==
  ASSUME IInv, TypeOK', NEW p \in Requests, IssueStep(p)
  PROVE  IInv'
  <1>0. TypeOK /\ req[p] \in Request /\ HoldsItsRows(p)
    BY DEF IInv, TypeOK, HandlersHoldTheirRows
  <1>1. CASE CreateSession(p)
    <2>1. PICK s \in Sessions :
            /\ session[s].state = "unused"
            /\ session' = [session EXCEPT ![s] = [state |-> "live", user |-> req[p].user]]
            /\ req' = [req EXCEPT ![p].at = "login.token", ![p].family = s]
      BY <1>1 DEF CreateSession
    <2>2. /\ \A r \in Sessions \ {s} : session'[r] = session[r]
          /\ session'[s].state = "live" /\ session'[s].user = req[p].user
          /\ UNCHANGED <<token, doomed>>
      BY <1>0, <1>1, <2>1 DEF TypeOK, CreateSession
    <2>3. \A t \in Tokens : token[t].family # s
      BY <2>1 DEF IInv, FamiliesAreClosed, SessionsOwnTheirFamily
    <2>4. SessionsOwnTheirFamily'
      BY <2>2, <2>3 DEF SessionsOwnTheirFamily, IInv, FamiliesAreClosed
    <2>5. OneAccountPerFamily' /\ SuccessorsStayInFamily' /\ UnusedRowsAreBlank'
      BY <2>2 DEF OneAccountPerFamily, SuccessorsStayInFamily, UnusedRowsAreBlank, IInv,
                  FamiliesAreClosed
    <2>6. ASSUME NEW q \in Requests, req'[q] = req[q] PROVE HoldsItsRows(q)'
      <3>1. HoldsItsRows(q)
        BY DEF IInv, HandlersHoldTheirRows
      <3>2. QED
        BY <2>1, <2>2, <2>6, <3>1 DEF HoldsItsRows
    <2>7. ASSUME NEW q \in Requests, req'[q] = req[q], SeesItIsDoomed(q)
          PROVE SeesItIsDoomed(q)'
      BY <2>1, <2>2, <2>7 DEF SeesItIsDoomed
    <2>8. /\ req'[p].at = "login.token" /\ req'[p].family = s /\ req'[p].user = req[p].user
          /\ OthersUntouched(p)
      BY <1>0, <2>1, <2>2 DEF TypeOK, Request, OthersUntouched
    <2>9. HoldsItsRows(p)' /\ SeesItIsDoomed(p)'
      BY <2>2, <2>8 DEF HoldsItsRows, SeesItIsDoomed, ActsOnToken
    <2>10. QED
      BY <2>4, <2>5, <2>6, <2>7, <2>8, <2>9, CloseStep DEF FamiliesAreClosed
  <1>2. CASE CreateFirstToken(p)
    <2>1. PICK t \in Tokens : Issue(t, req[p].user, req[p].family)
      BY <1>2 DEF CreateFirstToken
    <2>2. /\ req[p].family \in Sessions
          /\ session[req[p].family].state # "unused"
          /\ session[req[p].family].user = req[p].user
      BY <1>0, <1>2 DEF HoldsItsRows, CreateFirstToken, At
    <2>3. \A n \in Tokens : token[n].family = req[p].family => token[n].user = req[p].user
      BY <2>2 DEF IInv, FamiliesAreClosed, SessionsOwnTheirFamily
    <2>4. req[p].user \in Users \cup {None} /\ req[p].family \in Families \cup {None}
      BY <1>0 DEF Request
    <2>5. UNCHANGED session /\ Finish(p)
      BY <1>2 DEF CreateFirstToken
    <2>6. OthersUntouched(p) /\ HoldsItsRows(p)' /\ p \notin doomed'
      BY <1>0, <2>5, ControlFrame
    <2>7. QED
      BY <2>1, <2>2, <2>3, <2>4, <2>5, <2>6, IssueKeepsClosure, CloseStep
  <1>3. CASE CreateOAuthToken(p)
    <2>1. PICK t \in Tokens, f \in OAuthFamilies : FreshFamily(f) /\ Issue(t, req[p].user, f)
      BY <1>3 DEF CreateOAuthToken
    <2>2. f \notin Sessions /\ f \in Families \cup {None} /\ req[p].user \in Users \cup {None}
      BY <1>0, ConstantsAssumption DEF Request, Families
    <2>3. \A n \in Tokens : token[n].family # f
      BY <2>1 DEF FreshFamily
    <2>4. UNCHANGED session /\ Finish(p)
      BY <1>3 DEF CreateOAuthToken
    <2>5. OthersUntouched(p) /\ HoldsItsRows(p)' /\ p \notin doomed'
      BY <1>0, <2>4, ControlFrame
    <2>6. QED
      BY <2>1, <2>2, <2>3, <2>4, <2>5, IssueKeepsClosure, CloseStep
  <1>4. QED
    BY <1>1, <1>2, <1>3 DEF IssueStep

(* A handler that moves between two awaits of one token changes no row.     *)
LEMMA MoveKeepsInv ==
  ASSUME IInv, TypeOK', NEW p \in Requests, NEW await,
         Goto(p, await), UNCHANGED doomed, TokenShapeKept, SessionShapeKept,
         req[p].at \in ActsOnToken, await \in ActsOnToken \ {"refresh.rotate", "oauth.link"},
         p \in doomed => SeesItIsDoomed(p)'
  PROVE  IInv'
  <1>1. /\ OthersUntouched(p) /\ req'[p] = [req[p] EXCEPT !.at = await]
        /\ req[p] \in Request /\ HoldsItsRows(p)
    BY ControlFrame DEF IInv, TypeOK, HandlersHoldTheirRows
  <1>2. /\ req'[p].at = await /\ req'[p].tok = req[p].tok
        /\ req'[p].user = req[p].user /\ req'[p].family = req[p].family
    BY <1>1 DEF Request
  <1>3. HoldsItsRows(p)'
    <2>1. await # "login.token"
      BY DEF ActsOnToken
    <2>2. QED
      BY <1>1, <1>2, <2>1 DEF HoldsItsRows, TokenShapeKept
  <1>4. QED
    BY <1>1, <1>3, FrameStep

(* So do the awaits of POST /auth/refresh and of logout by family.          *)
LEMMA RefreshStepKeepsInv ==
  ASSUME IInv, TypeOK', NEW p \in Requests, RefreshStep(p)
  PROVE  IInv'
  <1>0. TypeOK /\ req[p] \in Request /\ HoldsItsRows(p) /\ (p \in doomed => SeesItIsDoomed(p))
    BY DEF IInv, TypeOK, HandlersHoldTheirRows, DoomedHandlersSeeIt
  <1>a. ASSUME Finish(p), TokenShapeKept, SessionShapeKept PROVE IInv'
    BY <1>0, <1>a, ControlFrame, FrameStep
  <1>1. CASE RefreshCheckUser(p)
    <2>1. TokenShapeKept /\ SessionShapeKept /\ UNCHANGED session
      BY <1>0, <1>1, RevocationKeepsShape DEF RefreshCheckUser
    <2>2. CASE Finish(p)
      BY <1>a, <2>1, <2>2
    <2>3. CASE Goto(p, "refresh.create") /\ UNCHANGED doomed /\ req[p].family = None
      <3>1. p \notin doomed
        BY <1>0, <1>1, <2>3, ConstantsAssumption DEF SeesItIsDoomed, RefreshCheckUser, At
      <3>2. QED
        BY <1>1, <2>1, <2>3, <3>1, MoveKeepsInv DEF RefreshCheckUser, At, ActsOnToken
    <2>4. CASE Goto(p, "refresh.session") /\ UNCHANGED doomed
      <3>1. req'[p] = [req[p] EXCEPT !.at = "refresh.session"]
        BY <1>0, <2>4, ControlFrame
      <3>2. p \in doomed => SeesItIsDoomed(p)'
        BY <1>0, <1>1, <2>1, <3>1 DEF SeesItIsDoomed, RefreshCheckUser, At, Request
      <3>3. QED
        BY <1>1, <2>1, <2>4, <3>2, MoveKeepsInv DEF RefreshCheckUser, At, ActsOnToken
    <2>5. QED
      BY <1>1, <2>2, <2>3, <2>4 DEF RefreshCheckUser
  <1>2. CASE RefreshCheckSession(p)
    <2>1. TokenShapeKept /\ SessionShapeKept /\ UNCHANGED <<session, doomed>>
      BY <1>0, <1>2, RevocationKeepsShape DEF RefreshCheckSession
    <2>2. CASE Goto(p, "refresh.create") /\ ~SessionRevoked(req[p].family)
      <3>1. p \notin doomed
        BY <1>0, <1>2, <2>2 DEF SeesItIsDoomed, RefreshCheckSession, At, SessionRevoked
      <3>2. QED
        BY <1>2, <2>1, <2>2, <3>1, MoveKeepsInv DEF RefreshCheckSession, At, ActsOnToken
    <2>3. CASE Goto(p, "refresh.drop")
      <3>1. req'[p] = [req[p] EXCEPT !.at = "refresh.drop"]
        BY <1>0, <2>1, <2>3, ControlFrame
      <3>2. SeesItIsDoomed(p)'
        BY <1>0, <3>1 DEF SeesItIsDoomed, Request
      <3>3. QED
        BY <1>2, <2>1, <2>3, <3>2, MoveKeepsInv DEF RefreshCheckSession, At, ActsOnToken
    <2>4. QED
      BY <1>2, <2>2, <2>3 DEF RefreshCheckSession
  <1>3. CASE RefreshDrop(p)
    <2>1. req[p].tok \in Tokens /\ token[req[p].tok].state # "unused"
      BY <1>0, <1>3 DEF HoldsItsRows, RefreshDrop, At, ActsOnToken
    <2>2. TokenShapeKept /\ SessionShapeKept
      BY <1>0, <1>3, <2>1, MarkKeepsShape, RevocationKeepsShape DEF RefreshDrop
    <2>3. QED
      BY <1>3, <1>a, <2>2 DEF RefreshDrop
  <1>4. CASE RefreshCreate(p)
    <2>1. PICK n \in Tokens :
            /\ Issue(n, req[p].user, req[p].family)
            /\ req' = [req EXCEPT ![p].at = "refresh.rotate", ![p].next = n]
      BY <1>4 DEF RefreshCreate
    <2> DEFINE t == req[p].tok
    <2>2. /\ t \in Tokens /\ token[t].state # "unused"
          /\ token[t].user = req[p].user /\ token[t].family = req[p].family
      BY <1>0, <1>4 DEF HoldsItsRows, RefreshCreate, At, ActsOnToken
    <2>3. /\ \A m \in Tokens : token[m].family = req[p].family /\ req[p].family # None
                                 => token[m].user = req[p].user
          /\ req[p].family \in Sessions => /\ session[req[p].family].state # "unused"
                                           /\ session[req[p].family].user = req[p].user
      BY <2>2 DEF IInv, FamiliesAreClosed, OneAccountPerFamily, SessionsOwnTheirFamily
    <2>4. req[p].user \in Users \cup {None} /\ req[p].family \in Families \cup {None}
      BY <1>0 DEF Request
    <2>5. UNCHANGED <<session, doomed>> /\ p \notin doomed
      BY <1>0, <1>4 DEF RefreshCreate, SeesItIsDoomed, At
    <2>6. /\ req'[p].at = "refresh.rotate" /\ req'[p].next = n /\ req'[p].tok = t
          /\ req'[p].user = req[p].user /\ req'[p].family = req[p].family
          /\ OthersUntouched(p)
      BY <1>0, <2>1, <2>5 DEF TypeOK, Request, OthersUntouched
    <2>7. /\ token'[n].state = "live" /\ token'[n].user = req[p].user
          /\ token'[n].family = req[p].family /\ n # t /\ token'[t] = token[t]
      BY <1>0, <2>1, <2>2 DEF Issue, NoToken, TypeOK
    <2>8. HoldsItsRows(p)'
      BY <2>2, <2>6, <2>7 DEF HoldsItsRows
    <2>9. QED
      BY <2>1, <2>3, <2>4, <2>5, <2>6, <2>8, IssueKeepsClosure, CloseStep
  <1>5. CASE RefreshRotate(p)
    <2> DEFINE t == req[p].tok
               n == req[p].next
    <2>1. /\ t \in Tokens /\ token[t].state # "unused" /\ n \in Tokens
          /\ token[n].state # "unused" /\ token[n].user = token[t].user
          /\ token[n].family = token[t].family \/ token[t].family = None
      BY <1>0, <1>5 DEF HoldsItsRows, RefreshRotate, At, ActsOnToken
    <2>2. /\ token' = [token EXCEPT ![t].state = "revoked", ![t].rotated = TRUE, ![t].next = n]
          /\ UNCHANGED session /\ Finish(p)
      BY <1>5 DEF RefreshRotate
    <2>3. OthersUntouched(p) /\ HoldsItsRows(p)' /\ p \notin doomed'
      BY <1>0, <2>2, ControlFrame
    <2> HIDE DEF t, n
    <2>4. QED
      BY <2>1, <2>2, <2>3, LinkKeepsClosure, CloseStep
  <1>6. CASE MarkReused(p)
    <2>1. req[p].tok \in Tokens /\ token[req[p].tok].state # "unused"
      BY <1>0, <1>6 DEF HoldsItsRows, MarkReused, At, ActsOnToken
    <2>2. TokenShapeKept /\ SessionShapeKept
      BY <1>0, <1>6, <2>1, MarkKeepsShape, RevocationKeepsShape DEF MarkReused
    <2>3. CASE Finish(p)
      BY <1>a, <2>2, <2>3
    <2>4. CASE Goto(p, "family.tokens") /\ UNCHANGED doomed
      <3>1. OthersUntouched(p) /\ req'[p] = [req[p] EXCEPT !.at = "family.tokens"]
        BY <1>0, <2>4, ControlFrame
      <3>2. req'[p].at = "family.tokens"
        BY <1>0, <3>1 DEF Request
      <3>3. QED
        BY <2>2, <3>1, <3>2, QuietStep DEF ActsOnToken
    <2>5. QED
      BY <1>6, <2>3, <2>4 DEF MarkReused
  <1>7. CASE RevokeFamilyTokens(p)
    <2>1. TokenShapeKept /\ SessionShapeKept
      BY <1>0, <1>7, RevocationKeepsShape DEF RevokeFamilyTokens
    <2>2. OthersUntouched(p) /\ req'[p] = [req[p] EXCEPT !.at = "family.session"]
      BY <1>0, <1>7, ControlFrame DEF RevokeFamilyTokens
    <2>3. req'[p].at = "family.session"
      BY <1>0, <2>2 DEF Request
    <2>4. QED
      BY <2>1, <2>2, <2>3, QuietStep DEF ActsOnToken
  <1>8. CASE RevokeFamilySession(p)
    BY <1>0, <1>8, <1>a, RevocationKeepsShape DEF RevokeFamilySession
  <1>9. QED
    BY <1>1, <1>2, <1>3, <1>4, <1>5, <1>6, <1>7, <1>8 DEF RefreshStep

(* So do the awaits of the OAuth refresh grant.                             *)
LEMMA OAuthStepKeepsInv ==
  ASSUME IInv, TypeOK', NEW p \in Requests, OAuthStep(p)
  PROVE  IInv'
  <1>0. TypeOK /\ req[p] \in Request /\ HoldsItsRows(p) /\ (p \in doomed => SeesItIsDoomed(p))
    BY DEF IInv, TypeOK, HandlersHoldTheirRows, DoomedHandlersSeeIt
  <1>a. ASSUME Finish(p), TokenShapeKept, SessionShapeKept PROVE IInv'
    BY <1>0, <1>a, ControlFrame, FrameStep
  <1>b. ASSUME NEW await \in {"oauth.rotate", "family.tokens.oauth"}, Goto(p, await)
        PROVE SeesItIsDoomed(p)'
    <2>1. req'[p] = [req[p] EXCEPT !.at = await]
      BY <1>b DEF Goto, IInv, TypeOK
    <2>2. req'[p].at = await
      BY <1>0, <2>1 DEF Request
    <2>3. QED
      BY <2>2 DEF SeesItIsDoomed
  <1>1. CASE OAuthCheckUser(p)
    <2>1. TokenShapeKept /\ SessionShapeKept
      BY <1>0, <1>1, RevocationKeepsShape DEF OAuthCheckUser
    <2>2. CASE Finish(p)
      BY <1>a, <2>1, <2>2
    <2>3. CASE Goto(p, "oauth.rotate") /\ UNCHANGED doomed
      BY <1>1, <1>b, <2>1, <2>3, MoveKeepsInv DEF OAuthCheckUser, At, ActsOnToken
    <2>4. QED
      BY <1>1, <2>2, <2>3 DEF OAuthCheckUser
  <1>2. CASE OAuthRotate(p)
    <2> DEFINE t == req[p].tok
               u == req[p].user
    <2>1. PICK n \in Tokens, f \in Families :
            /\ IF req[p].family = None THEN FreshFamily(f) ELSE f = req[p].family
            /\ token[n].state = "unused"
            /\ token' = [token EXCEPT
                           ![n] = [NoToken EXCEPT !.state = "live", !.user = u, !.family = f],
                           ![t].state = "revoked", ![t].rotated = TRUE]
            /\ req' = [req EXCEPT ![p].at = "oauth.link", ![p].next = n]
      BY <1>2 DEF OAuthRotate
    <2>2. /\ t \in Tokens /\ token[t].state # "unused" /\ n # t
          /\ token[t].user = u /\ token[t].family = req[p].family
      BY <1>0, <1>2, <2>1 DEF HoldsItsRows, OAuthRotate, At, ActsOnToken
    <2>3. UNCHANGED <<session, doomed>>
      BY <1>2 DEF OAuthRotate
    <2>4. /\ token'[n].state = "live" /\ token'[n].user = u
          /\ token'[n].family = f /\ token'[n].next = None
          /\ \A m \in Tokens \ {n} :
               /\ token'[m].user = token[m].user /\ token'[m].family = token[m].family
               /\ token'[m].next = token[m].next
               /\ (token[m].state = "unused") <=> (token'[m].state = "unused")
               /\ token[m].state = "unused" => token'[m] = token[m]
      <3> DEFINE mid == [token EXCEPT ![n] = [NoToken EXCEPT !.state = "live",
                                                !.user = u, !.family = f]]
      <3>1. token' = [mid EXCEPT ![t].state = "revoked", ![t].rotated = TRUE]
        BY <2>1
      <3>2. /\ mid[n].state = "live" /\ mid[n].user = u
            /\ mid[n].family = f /\ mid[n].next = None
            /\ mid[t] = token[t]
            /\ \A m \in Tokens \ {n} : mid[m] = token[m]
            /\ DOMAIN mid = Tokens
        BY <1>0, <2>2 DEF TypeOK, NoToken
      <3>3. mid \in [Tokens -> TokenRow]
        <4>1. u \in Users \cup {None} /\ f \in Families \cup {None}
          BY <1>0 DEF Request
        <4>2. QED
          BY <1>0, <4>1, NewTokenType DEF TypeOK
      <3> HIDE DEF mid
      <3>4. \A m \in Tokens \ {t} : token'[m] = mid[m]
        BY <3>1, <3>3
      <3>5. /\ token'[t].user = mid[t].user /\ token'[t].family = mid[t].family
            /\ token'[t].next = mid[t].next /\ token'[t].state = "revoked"
        BY <2>2, <3>1, <3>3 DEF TokenRow
      <3>6. QED
        BY <2>2, <3>2, <3>4, <3>5
    <2>5. /\ \A m \in Tokens : token[m].family = f => token[m].user = u
          /\ f \in Sessions => session[f].state # "unused" /\ session[f].user = u
          /\ f # None
      <3>1. f # None
        BY ConstantsAssumption DEF Families
      <3>2. CASE req[p].family = None
        BY <2>1, <3>1, <3>2, ConstantsAssumption DEF FreshFamily
      <3>3. CASE req[p].family # None
        BY <2>1, <2>2, <3>1, <3>3
           DEF IInv, FamiliesAreClosed, OneAccountPerFamily, SessionsOwnTheirFamily
      <3>4. QED
        BY <3>1, <3>2, <3>3
    <2> HIDE DEF t, u
    <2>6. UnusedRowsAreBlank'
      BY <2>4 DEF UnusedRowsAreBlank, IInv
    <2>7. OneAccountPerFamily'
      BY <2>4, <2>5 DEF OneAccountPerFamily, IInv, FamiliesAreClosed
    <2>8. SessionsOwnTheirFamily'
      BY <2>3, <2>4, <2>5 DEF SessionsOwnTheirFamily, IInv, FamiliesAreClosed
    <2>9. SuccessorsStayInFamily'
      <3> SUFFICES ASSUME NEW m \in Tokens, token'[m].next # None
          PROVE LET k == token'[token'[m].next]
                IN /\ k.state # "unused" /\ k.user = token'[m].user
                   /\ k.family = token'[m].family \/ token'[m].family = None
        BY DEF SuccessorsStayInFamily
      <3>1. m # n /\ token'[m].next = token[m].next /\ token[m].next \in Tokens
        BY <1>0, <2>4 DEF TypeOK, TokenRow
      <3>2. LET k == token[token[m].next]
            IN /\ k.state # "unused" /\ k.user = token[m].user
               /\ k.family = token[m].family \/ token[m].family = None
        BY <3>1 DEF IInv, FamiliesAreClosed, SuccessorsStayInFamily
      <3>3. token[m].next # n
        BY <2>1, <3>2
      <3>4. QED
        BY <2>4, <3>1, <3>2, <3>3
    <2>10. ASSUME NEW q \in Requests, req'[q] = req[q] PROVE HoldsItsRows(q)'
      <3>1. HoldsItsRows(q)
        BY DEF IInv, HandlersHoldTheirRows
      <3>2. /\ req[q].at \in ActsOnToken => req[q].tok # n
            /\ req[q].at \in {"refresh.rotate", "oauth.link"} => req[q].next # n
        BY <2>1, <3>1 DEF HoldsItsRows
      <3>3. QED
        BY <2>3, <2>4, <2>10, <3>1, <3>2 DEF HoldsItsRows
    <2>11. ASSUME NEW q \in Requests, req'[q] = req[q], SeesItIsDoomed(q)
           PROVE SeesItIsDoomed(q)'
      BY <2>3, <2>11 DEF SeesItIsDoomed
    <2>12. /\ req'[p].at = "oauth.link" /\ req'[p].next = n /\ req'[p].tok = t
           /\ req'[p].user = u /\ req'[p].family = req[p].family
           /\ OthersUntouched(p)
      BY <1>0, <2>1, <2>3 DEF TypeOK, Request, OthersUntouched, t, u
    <2>13. HoldsItsRows(p)'
      <3>1. t \in Tokens \ {n}
        BY <2>2
      <3>2. /\ token'[t].state # "unused" /\ token'[t].user = u
            /\ token'[t].family = req[p].family
        BY <2>2, <2>4, <3>1
      <3>3. req[p].family # None => f = req[p].family
        BY <2>1
      <3>4. QED
        BY <2>4, <2>12, <3>1, <3>2, <3>3 DEF HoldsItsRows
    <2>14. SeesItIsDoomed(p)'
      BY <2>12 DEF SeesItIsDoomed
    <2>15. QED
      BY <2>6, <2>7, <2>8, <2>9, <2>10, <2>11, <2>12, <2>13, <2>14, CloseStep
         DEF FamiliesAreClosed
  <1>3. CASE OAuthLink(p)
    <2> DEFINE t == req[p].tok
               n == req[p].next
    <2>1. /\ t \in Tokens /\ token[t].state # "unused" /\ n \in Tokens
          /\ token[n].state # "unused" /\ token[n].user = token[t].user
          /\ token[n].family = token[t].family \/ token[t].family = None
      BY <1>0, <1>3 DEF HoldsItsRows, OAuthLink, At, ActsOnToken
    <2>2. token' = [token EXCEPT ![t].next = n] /\ UNCHANGED session /\ Finish(p)
      BY <1>3 DEF OAuthLink
    <2>3. OthersUntouched(p) /\ HoldsItsRows(p)' /\ p \notin doomed'
      BY <1>0, <2>2, ControlFrame
    <2> HIDE DEF t, n
    <2>4. QED
      BY <2>1, <2>2, <2>3, LinkKeepsClosure, CloseStep
  <1>4. CASE OAuthMarkReused(p)
    <2>1. req[p].tok \in Tokens /\ token[req[p].tok].state # "unused"
      BY <1>0, <1>4 DEF HoldsItsRows, OAuthMarkReused, At, ActsOnToken
    <2>2. TokenShapeKept /\ SessionShapeKept
      BY <1>0, <1>4, <2>1, MarkKeepsShape, RevocationKeepsShape DEF OAuthMarkReused
    <2>3. CASE Finish(p)
      BY <1>a, <2>2, <2>3
    <2>4. CASE Goto(p, "family.tokens.oauth") /\ UNCHANGED doomed
      BY <1>4, <1>b, <2>2, <2>4, MoveKeepsInv DEF OAuthMarkReused, At, ActsOnToken
    <2>5. QED
      BY <1>4, <2>3, <2>4 DEF OAuthMarkReused
  <1>5. CASE OAuthRevokeFamily(p)
    BY <1>0, <1>5, <1>a, RevocationKeepsShape DEF OAuthRevokeFamily
  <1>6. QED
    BY <1>1, <1>2, <1>3, <1>4, <1>5 DEF OAuthStep

(* The invariant holds of the initial tables.                               *)
LEMMA InitInv == Init => IInv
  <1> SUFFICES ASSUME Init PROVE IInv
    OBVIOUS
  <1>1. TypeOK
    BY InitType
  <1>2. PICK owner \in [LegacyTokens -> Users] :
          token = [t \in Tokens |->
                     IF t \in LegacyTokens
                       THEN [NoToken EXCEPT !.state = "live", !.user = owner[t]] ELSE NoToken]
    BY DEF Init
  <1>3. \A t \in Tokens : /\ token[t].family = None /\ token[t].next = None
                          /\ token[t].state = "unused" => token[t] = NoToken
    BY <1>2 DEF NoToken
  <1>4. UnusedRowsAreBlank /\ FamiliesAreClosed
    BY <1>3, ConstantsAssumption
       DEF UnusedRowsAreBlank, FamiliesAreClosed, OneAccountPerFamily, SessionsOwnTheirFamily,
           SuccessorsStayInFamily
  <1>5. HandlersHoldTheirRows /\ DoomedHandlersSeeIt
    BY DEF Init, HandlersHoldTheirRows, HoldsItsRows, DoomedHandlersSeeIt, Idle, ActsOnToken
  <1>6. QED
    BY <1>1, <1>4, <1>5 DEF IInv

(* The strengthening is inductive: every await of every handler keeps it.   *)
LEMMA StepInv == IInv /\ [Next]_vars => IInv'
  <1> SUFFICES ASSUME IInv, [Next]_vars PROVE IInv'
    OBVIOUS
  <1>1. TypeOK'
    BY StepType DEF IInv
  <1>2. CASE UNCHANGED vars
    <2>1. TokenShapeKept /\ SessionShapeKept /\ UNCHANGED <<req, doomed>>
      BY <1>2, RevocationKeepsShape DEF vars, IInv
    <2>2. QED
      BY <1>1, <2>1, ShapeKeepsClosure
         DEF IInv, HandlersHoldTheirRows, DoomedHandlersSeeIt, TypeOK
  <1>3. CASE Next
    BY <1>1, <1>3, ArriveKeepsInv, IssueStepKeepsInv, RefreshStepKeepsInv, OAuthStepKeepsInv,
       RevokeStepKeepsInv, ImmediateKeepsInv
       DEF Next, Continue
  <1>4. QED
    BY <1>2, <1>3

(* The inductive strengthening holds in every reachable state.              *)
THEOREM InvCorrect == Spec => []IInv
  BY InitInv, StepInv, PTL DEF Spec

(* Rotation on either endpoint, in any interleaving of any number of        *)
(* handlers, keeps families closed: one account per family, a session's     *)
(* family for its own account, a successor in its predecessor's family.     *)
THEOREM FamiliesStayClosed == Spec => []FamiliesAreClosed
  <1>1. IInv => FamiliesAreClosed
    BY DEF IInv
  <1>2. QED
    BY <1>1, InvCorrect, PTL

(* POST /auth/refresh never issues a token for a presentation that began    *)
(* after the session of the token was revoked.                              *)
THEOREM NoMintAfterRevocation == Spec => []RevokedSessionMintsNothing
  <1>1. IInv => RevokedSessionMintsNothing
    BY DEF IInv, DoomedHandlersSeeIt, SeesItIsDoomed, RevokedSessionMintsNothing
  <1>2. QED
    BY <1>1, InvCorrect, PTL

(* What one step may not undo; RevocationIsFinal is this of every step.     *)
RowsOnlyEnd ==
  /\ \A t \in Tokens :
       /\ token[t].state = "revoked" => token'[t].state = "revoked"
       /\ token[t].reused => token'[t].reused
  /\ \A s \in Sessions :
       session[s].state = "revoked" => session'[s].state = "revoked"

(* Inserts and conditional revocations undo nothing.                        *)
LEMMA RevocationOnlyEnds ==
  ASSUME TypeOK,
         \/ UNCHANGED token
         \/ \E T : RevokeLiveTokens(T)
         \/ \E t \in Tokens : \E u, f : Issue(t, u, f) /\ UnusedRowsAreBlank,
         \/ UNCHANGED session
         \/ \E S : RevokeLiveSessions(S)
  PROVE  RowsOnlyEnd
  <1>1. \A t \in Tokens : /\ token[t].state = "revoked" => token'[t].state = "revoked"
                          /\ token[t].reused => token'[t].reused
    <2>1. CASE UNCHANGED token
      BY <2>1
    <2>2. ASSUME NEW T, RevokeLiveTokens(T), NEW t \in Tokens
          PROVE /\ token[t].state = "revoked" => token'[t].state = "revoked"
                /\ token[t].reused => token'[t].reused
      <3>1. token[t] \in TokenRow
        BY DEF TypeOK
      <3>2. token'[t] = token[t] \/ token'[t] = [token[t] EXCEPT !.state = "revoked"]
        BY <2>2 DEF RevokeLiveTokens
      <3>3. QED
        BY <3>1, <3>2 DEF TokenRow
    <2>3. ASSUME NEW n \in Tokens, NEW u, NEW f, Issue(n, u, f), UnusedRowsAreBlank,
                 NEW t \in Tokens
          PROVE /\ token[t].state = "revoked" => token'[t].state = "revoked"
                /\ token[t].reused => token'[t].reused
      <3>1. CASE t = n
        <4>1. token[t] = NoToken
          BY <2>3, <3>1 DEF Issue, UnusedRowsAreBlank
        <4>2. QED
          BY <4>1 DEF NoToken
      <3>2. CASE t # n
        <4>1. token'[t] = token[t]
          BY <2>3, <3>2 DEF Issue, TypeOK
        <4>2. QED
          BY <4>1
      <3>3. QED
        BY <3>1, <3>2
    <2>4. QED
      BY <2>1, <2>2, <2>3
  <1>2. \A s \in Sessions : session[s].state = "revoked" => session'[s].state = "revoked"
    BY DEF RevokeLiveSessions
  <1>3. QED
    BY <1>1, <1>2 DEF RowsOnlyEnd

(* The updates of one row that are not conditional on its state.            *)
LEMMA UpdateOnlyEnds ==
  ASSUME TypeOK, UNCHANGED session, NEW t \in Tokens, NEW n, NEW b \in BOOLEAN,
         \/ token' = [token EXCEPT ![t].state = "revoked"]
         \/ token' = [token EXCEPT ![t].state = "revoked", ![t].rotated = b]
         \/ token' = [token EXCEPT ![t].state = "revoked", ![t].rotated = b, ![t].next = n]
         \/ token' = [token EXCEPT ![t].reused = TRUE]
         \/ token' = [token EXCEPT ![t].next = n]
  PROVE  RowsOnlyEnd
  <1>1. token[t] \in TokenRow
    BY DEF TypeOK
  <1>2. \A m \in Tokens \ {t} : token'[m] = token[m]
    BY DEF TypeOK
  <1>3. /\ token[t].state = "revoked" => token'[t].state = "revoked"
        /\ token[t].reused => token'[t].reused
    BY <1>1 DEF TypeOK, TokenRow
  <1>4. QED
    BY <1>2, <1>3 DEF RowsOnlyEnd

(* No step of any handler revives a row or forgets a replay.                *)
LEMMA StepOnlyEnds == IInv /\ [Next]_vars => RowsOnlyEnd
  <1> SUFFICES ASSUME IInv, [Next]_vars PROVE RowsOnlyEnd
    OBVIOUS
  <1>0. TypeOK /\ UnusedRowsAreBlank
    BY DEF IInv
  <1>1. CASE UNCHANGED vars
    BY <1>0, <1>1, RevocationOnlyEnds DEF vars
  <1>2. ASSUME NEW p \in Requests, Arrive(p) \/ RevokeStep(p) \/ Crash(p) PROVE RowsOnlyEnd
    <2>1. /\ UNCHANGED token \/ \E T : RevokeLiveTokens(T)
          /\ UNCHANGED session \/ \E S : RevokeLiveSessions(S)
      BY <1>2 DEF Arrive, LoginUser, ExchangeAuthorizationCode, RevokeAndAnonymizeAccount,
                  ResetPassword, LogoutUser, RevokeMySession, RevokeAllSessions, CloseAccount,
                  RefreshTokens, ExchangeRefreshToken, RevokeStep, LogoutToken, LogoutByIp,
                  FindSessions, RevokeSessionsByIds, CommitReset, EraseAccount, Crash
    <2>2. QED
      BY <1>0, <2>1, RevocationOnlyEnds
  <1>3. ASSUME NEW p \in Requests, IssueStep(p) PROVE RowsOnlyEnd
    <2>1. CASE CreateSession(p)
      <3>1. PICK s \in Sessions :
              /\ session[s].state = "unused"
              /\ session' = [session EXCEPT ![s] = [state |-> "live", user |-> req[p].user]]
        BY <2>1 DEF CreateSession
      <3>2. UNCHANGED token
        BY <2>1 DEF CreateSession
      <3>3. \A r \in Sessions \ {s} : session'[r] = session[r]
        BY <1>0, <3>1 DEF TypeOK
      <3>4. QED
        BY <3>1, <3>2, <3>3 DEF RowsOnlyEnd
    <2>2. CASE CreateFirstToken(p) \/ CreateOAuthToken(p)
      BY <1>0, <2>2, RevocationOnlyEnds DEF CreateFirstToken, CreateOAuthToken
    <2>3. QED
      BY <1>3, <2>1, <2>2 DEF IssueStep
  <1>4. ASSUME NEW p \in Requests, RefreshStep(p) PROVE RowsOnlyEnd
    <2>0. req[p].at \in ActsOnToken => req[p].tok \in Tokens
      BY DEF IInv, HandlersHoldTheirRows, HoldsItsRows
    <2>1. CASE RefreshDrop(p)
      BY <1>0, <2>0, <2>1, UpdateOnlyEnds DEF RefreshDrop, At, ActsOnToken
    <2>2. CASE RefreshRotate(p)
      BY <1>0, <2>0, <2>2, UpdateOnlyEnds DEF RefreshRotate, At, ActsOnToken
    <2>3. CASE MarkReused(p)
      BY <1>0, <2>0, <2>3, UpdateOnlyEnds DEF MarkReused, At, ActsOnToken
    <2>4. CASE RefreshCreate(p)
      BY <1>0, <2>4, RevocationOnlyEnds DEF RefreshCreate
    <2>5. CASE RevokeFamilyTokens(p) \/ RevokeFamilySession(p)
               \/ RefreshCheckUser(p) \/ RefreshCheckSession(p)
      BY <1>0, <2>5, RevocationOnlyEnds
         DEF RevokeFamilyTokens, RevokeFamilySession, RefreshCheckUser, RefreshCheckSession
    <2>6. QED
      BY <1>4, <2>1, <2>2, <2>3, <2>4, <2>5 DEF RefreshStep
  <1>5. ASSUME NEW p \in Requests, OAuthStep(p) PROVE RowsOnlyEnd
    <2>0. req[p].at \in ActsOnToken =>
            req[p].tok \in Tokens /\ token[req[p].tok].state # "unused"
      BY DEF IInv, HandlersHoldTheirRows, HoldsItsRows
    <2>1. CASE OAuthRotate(p)
      <3> DEFINE t == req[p].tok
      <3>1. PICK n \in Tokens, f \in Families :
              /\ token[n].state = "unused"
              /\ token' = [token EXCEPT
                             ![n] = [NoToken EXCEPT !.state = "live",
                                       !.user = req[p].user, !.family = f],
                             ![t].state = "revoked", ![t].rotated = TRUE]
        BY <2>1 DEF OAuthRotate
      <3>2. t \in Tokens /\ t # n
        BY <2>0, <2>1, <3>1 DEF OAuthRotate, At, ActsOnToken
      <3> HIDE DEF t
      <3>3. \A m \in Tokens \ {n, t} : token'[m] = token[m]
        BY <1>0, <3>1 DEF TypeOK
      <3>4. token'[t] = [token[t] EXCEPT !.state = "revoked", !.rotated = TRUE]
        BY <1>0, <3>1, <3>2 DEF TypeOK
      <3>5. token'[t].state = "revoked" /\ token'[t].reused = token[t].reused
        BY <1>0, <3>2, <3>4 DEF TypeOK, TokenRow
      <3>6. token[n].state # "revoked" /\ ~token[n].reused
        BY <1>0, <3>1 DEF UnusedRowsAreBlank, NoToken
      <3>7. QED
        BY <2>1, <3>3, <3>5, <3>6 DEF OAuthRotate, RowsOnlyEnd
    <2>2. CASE OAuthLink(p)
      BY <1>0, <2>0, <2>2, UpdateOnlyEnds DEF OAuthLink, At, ActsOnToken
    <2>3. CASE OAuthMarkReused(p)
      BY <1>0, <2>0, <2>3, UpdateOnlyEnds DEF OAuthMarkReused, At, ActsOnToken
    <2>4. CASE OAuthCheckUser(p) \/ OAuthRevokeFamily(p)
      BY <1>0, <2>4, RevocationOnlyEnds DEF OAuthCheckUser, OAuthRevokeFamily
    <2>5. QED
      BY <1>5, <2>1, <2>2, <2>3, <2>4 DEF OAuthStep
  <1>6. CASE Immediate
    <2>1. ASSUME NEW t \in Tokens, RevokeToken(t) PROVE RowsOnlyEnd
      BY <1>0, <2>1, UpdateOnlyEnds DEF RevokeToken
    <2>2. CASE ~\E t \in Tokens : RevokeToken(t)
      BY <1>0, <1>6, <2>2, RevocationOnlyEnds
         DEF Immediate, AdminRevokeSession, DisconnectProviderData, AdminRevokeUserSessions,
             UpdateUserStatus
    <2>3. QED
      BY <2>1, <2>2
  <1>7. QED
    BY <1>1, <1>2, <1>3, <1>4, <1>5, <1>6 DEF Next, Continue

(* No handler, however stale the rows it read, brings a revoked token or    *)
(* session back, or forgets a replay.                                       *)
THEOREM RevocationStaysFinal == Spec => RevocationIsFinal
  <1>1. IInv /\ [Next]_vars =>
          [/\ \A t \in Tokens :
                /\ token[t].state = "revoked" => token'[t].state = "revoked"
                /\ token[t].reused => token'[t].reused
           /\ \A s \in Sessions :
                session[s].state = "revoked" => session'[s].state = "revoked"]_vars
    BY StepOnlyEnds DEF RowsOnlyEnd
  <1>2. QED
    BY <1>1, InvCorrect, PTL DEF Spec, RevocationIsFinal

----------------------------------------------------------------------------
(* One handler at a time *)

(* Two concurrent refreshes of one token both issue a successor, and a      *)
(* handler that dies half way leaves what it had begun: a family has one    *)
(* token that can be used, and a replayed one none, only as far as handlers *)
(* run one after the other and to their end.                                *)
OneHandlerAtATime == ~Crashes /\ \A p, q \in Requests : p = q

(* Two tokens of a family are live only while a refresh is about to revoke  *)
(* the one it has just replaced.                                            *)
TwinsAreBeingRotated ==
  \A t, n \in LiveTokens :
    token[t].family = token[n].family /\ token[t].family # None /\ t # n =>
      \E p \in Requests : At(p, "refresh.rotate") /\ {t, n} = {req[p].tok, req[p].next}

(* A replayed family has a live token only while its revocation is on its   *)
(* way, by a handler that acts for the owner of the token.                  *)
ReplaysAreBeingEnded ==
  \A t \in Tokens, n \in LiveTokens :
    token[t].reused /\ token[t].family # None /\ token[n].family = token[t].family =>
      \E p \in Requests :
        /\ req[p].at \in {"family.tokens", "family.tokens.oauth"}
        /\ req[p].family = token[n].family /\ req[p].user = token[n].user

Rotating ==
  {"refresh.user", "refresh.session", "refresh.create", "refresh.rotate",
   "oauth.user", "oauth.rotate"}

(* A rotation began on the only live token of a family without a replay, so *)
(* nothing else of the family is live, and a login's family is empty.       *)
HoldsItsFamily(p) ==
  /\ req[p].at \in Rotating /\ req[p].family # None =>
       \A n \in Tokens : token[n].family = req[p].family =>
         /\ ~token[n].reused
         /\ token[n].state = "live" =>
              n = req[p].tok \/ (At(p, "refresh.rotate") /\ n = req[p].next)
  /\ At(p, "login.token") => \A n \in Tokens : token[n].family # req[p].family

HandlersHoldTheirFamilies == \A p \in Requests : HoldsItsFamily(p)

SerialInv == TwinsAreBeingRotated /\ ReplaysAreBeingEnded /\ HandlersHoldTheirFamilies

(* What an update does to the tokens that at most revokes some              *)
TokensOnlyEnd ==
  \A t \in Tokens :
    /\ token'[t].user = token[t].user
    /\ token'[t].family = token[t].family
    /\ token'[t].reused = token[t].reused
    /\ token'[t].state = "live" => token[t].state = "live"

(* Conditional revocations, or none, at most revoke.                        *)
LEMMA RevocationEndsTokens ==
  ASSUME TypeOK
  PROVE  /\ \A T : RevokeLiveTokens(T) => TokensOnlyEnd
         /\ UNCHANGED token => TokensOnlyEnd
  BY DEF TypeOK, TokenRow, RowState, RevokeLiveTokens, TokensOnlyEnd

(* So do the updates of one row, its link included.                         *)
LEMMA UpdateEndsTokens ==
  ASSUME TypeOK, NEW t \in Tokens, NEW n, NEW b \in BOOLEAN
  PROVE  /\ token' = [token EXCEPT ![t].state = "revoked"] => TokensOnlyEnd
         /\ token' = [token EXCEPT ![t].state = "revoked", ![t].rotated = b] => TokensOnlyEnd
         /\ token' = [token EXCEPT ![t].state = "revoked", ![t].rotated = b, ![t].next = n]
              => TokensOnlyEnd
         /\ token' = [token EXCEPT ![t].next = n] => TokensOnlyEnd
  BY DEF TypeOK, TokenRow, TokensOnlyEnd

(* Revoking rows while the handler stays where it is keeps the invariant.   *)
LEMMA IdleStepKeepsSerial ==
  ASSUME SerialInv, TokensOnlyEnd, req' = req
  PROVE  SerialInv'
  <1>1. TwinsAreBeingRotated'
    BY DEF SerialInv, TwinsAreBeingRotated, TokensOnlyEnd, LiveTokens, At
  <1>2. ReplaysAreBeingEnded'
    BY DEF SerialInv, ReplaysAreBeingEnded, TokensOnlyEnd, LiveTokens
  <1>3. HandlersHoldTheirFamilies'
    BY DEF SerialInv, HandlersHoldTheirFamilies, HoldsItsFamily, TokensOnlyEnd, At
  <1>4. QED
    BY <1>1, <1>2, <1>3 DEF SerialInv

(* Where the handler is neither about to rotate nor to revoke a family, no  *)
(* family has two live tokens, or a live one and a replayed one.            *)
LEMMA NothingPending ==
  ASSUME SerialInv, OneHandlerAtATime, NEW p \in Requests
  PROVE  /\ ~At(p, "refresh.rotate") =>
              \A t, n \in LiveTokens :
                token[t].family = token[n].family /\ token[t].family # None => t = n
         /\ req[p].at \notin {"family.tokens", "family.tokens.oauth"} =>
              \A t \in Tokens, n \in LiveTokens :
                ~(/\ token[t].reused /\ token[t].family # None
                  /\ token[n].family = token[t].family)
  <1>1. \A q \in Requests : q = p
    BY DEF OneHandlerAtATime
  <1>2. ASSUME ~At(p, "refresh.rotate"), NEW t \in LiveTokens, NEW n \in LiveTokens,
               token[t].family = token[n].family, token[t].family # None
        PROVE t = n
    BY <1>1, <1>2 DEF SerialInv, TwinsAreBeingRotated, At
  <1>3. ASSUME req[p].at \notin {"family.tokens", "family.tokens.oauth"},
               NEW t \in Tokens, NEW n \in LiveTokens,
               token[t].reused, token[t].family # None, token[n].family = token[t].family
        PROVE FALSE
    BY <1>1, <1>3 DEF SerialInv, ReplaysAreBeingEnded
  <1>4. QED
    BY <1>2, <1>3

(* A handler that is not in the middle of a rotation or a family revocation *)
(* may revoke what it likes and go where its own family allows.             *)
LEMMA MoveKeepsSerial ==
  ASSUME SerialInv, OneHandlerAtATime, TokensOnlyEnd, NEW p \in Requests,
         req[p].at \notin {"refresh.rotate", "family.tokens", "family.tokens.oauth"},
         HoldsItsFamily(p)'
  PROVE  SerialInv'
  <1>1. \A t \in LiveTokens' : t \in LiveTokens
    BY DEF LiveTokens, TokensOnlyEnd
  <1>2. TwinsAreBeingRotated'
    <2> SUFFICES ASSUME NEW t \in LiveTokens', NEW n \in LiveTokens',
                        token'[t].family = token'[n].family, token'[t].family # None
                 PROVE t = n
      BY DEF TwinsAreBeingRotated
    <2>1. t \in LiveTokens /\ n \in LiveTokens /\ t \in Tokens /\ n \in Tokens
      BY <1>1 DEF LiveTokens
    <2>2. token[t].family = token[n].family /\ token[t].family # None
      BY <2>1 DEF TokensOnlyEnd
    <2>3. QED
      BY <2>1, <2>2, NothingPending DEF At
  <1>3. ReplaysAreBeingEnded'
    <2> SUFFICES ASSUME NEW t \in Tokens, NEW n \in LiveTokens', token'[t].reused,
                        token'[t].family # None, token'[n].family = token'[t].family
                 PROVE FALSE
      BY DEF ReplaysAreBeingEnded
    <2>1. n \in LiveTokens /\ n \in Tokens
      BY <1>1 DEF LiveTokens
    <2>2. token[t].reused /\ token[t].family # None /\ token[n].family = token[t].family
      BY <2>1 DEF TokensOnlyEnd
    <2>3. QED
      BY <2>1, <2>2, NothingPending
  <1>4. HandlersHoldTheirFamilies'
    BY DEF HandlersHoldTheirFamilies, OneHandlerAtATime
  <1>5. QED
    BY <1>2, <1>3, <1>4 DEF SerialInv

(* The state after a step is in order when no family has two live tokens or *)
(* a live and a replayed one, and the handler holds its family.             *)
LEMMA SerialAfter ==
  ASSUME OneHandlerAtATime, NEW p \in Requests, HoldsItsFamily(p)',
         \A t, n \in Tokens :
           /\ token'[t].state = "live" /\ token'[n].state = "live"
           /\ token'[t].family = token'[n].family /\ token'[t].family # None
           => t = n,
         \A t, n \in Tokens :
           ~(/\ token'[t].reused /\ token'[t].family # None
             /\ token'[n].state = "live" /\ token'[n].family = token'[t].family)
  PROVE  SerialInv'
  BY DEF SerialInv, TwinsAreBeingRotated, ReplaysAreBeingEnded, LiveTokens,
         HandlersHoldTheirFamilies, OneHandlerAtATime

(* A handler that goes to an await of another kind holds no family.         *)
LEMMA NoFamilyHeld ==
  ASSUME NEW p \in Requests, req'[p].at \notin Rotating \cup {"login.token"}
  PROVE  HoldsItsFamily(p)'
  BY DEF HoldsItsFamily, Rotating, At

(* A request that comes in                                                  *)
LEMMA ArriveKeepsSerial ==
  ASSUME IInv, SerialInv, OneHandlerAtATime, NEW p \in Requests, Arrive(p)
  PROVE  SerialInv'
  <1>0. TypeOK
    BY DEF IInv
  <1>1. ASSUME NEW t \in Tokens, RefreshTokens(p, t) \/ ExchangeRefreshToken(p, t)
        PROVE SerialInv'
    <2>1. UNCHANGED token /\ At(p, "idle")
      BY <1>1 DEF RefreshTokens, ExchangeRefreshToken, Start
    <2>2. TokensOnlyEnd
      BY <1>0, <2>1, RevocationEndsTokens
    <2>3. PICK a \in {"refresh.user", "oauth.user", "reuse.mark", "reuse.mark.oauth"} :
            /\ Start(p, Presented(t, a))
            /\ a \in Rotating => token[t].state = "live"
      BY <1>1 DEF RefreshTokens, ExchangeRefreshToken, Rotating
    <2>4. req'[p] = Presented(t, a)
      BY <1>0, <2>3, ControlFrame
    <2>5. req'[p].at = a /\ req'[p].tok = t /\ req'[p].family = token[t].family
      BY <2>4 DEF Presented, Idle
    <2>6. HoldsItsFamily(p)'
      <3>1. CASE a \in Rotating
        <4>1. t \in LiveTokens
          BY <2>3, <3>1 DEF LiveTokens
        <4>2. ASSUME NEW n \in Tokens, token[t].family # None,
                     token[n].family = token[t].family
              PROVE ~token[n].reused /\ (token[n].state = "live" => n = t)
          BY <2>1, <4>1, <4>2, NothingPending DEF At, LiveTokens
        <4>3. QED
          BY <2>1, <2>5, <4>2 DEF HoldsItsFamily, At
      <3>2. CASE a \notin Rotating
        BY <2>3, <2>5, <3>2, NoFamilyHeld
      <3>3. QED
        BY <3>1, <3>2
    <2>7. QED
      BY <2>1, <2>2, <2>6, MoveKeepsSerial DEF At
  <1>2. CASE ~\E t \in Tokens : RefreshTokens(p, t) \/ ExchangeRefreshToken(p, t)
    <2>1. At(p, "idle") /\ TokensOnlyEnd
      BY <1>0, <1>2, RevocationEndsTokens
         DEF Arrive, Start, LoginUser, ExchangeAuthorizationCode, RevokeAndAnonymizeAccount,
             ResetPassword, LogoutUser, RevokeMySession, RevokeAllSessions, CloseAccount
    <2>2. req'[p].at \in {"login.session", "code.token", "erase.account", "reset.commit",
                          "family.tokens", "logout.token", "logout.ip", "revoke.ids",
                          "revoke.find"}
      <3>1. ASSUME NEW r, Start(p, r) PROVE req'[p] = r
        BY <1>0, <3>1, ControlFrame
      <3>2. ASSUME NEW u \in Users,
                   \/ LoginUser(p, u) \/ ExchangeAuthorizationCode(p, u)
                   \/ RevokeAndAnonymizeAccount(p, u) \/ ResetPassword(p, u)
            PROVE req'[p].at \in {"login.session", "code.token", "erase.account",
                                  "reset.commit"}
        BY <3>1, <3>2 DEF LoginUser, ExchangeAuthorizationCode, RevokeAndAnonymizeAccount,
                          ResetPassword, Idle
      <3>3. ASSUME NEW u \in Users, NEW ip \in Ips, LogoutUser(p, u, ip)
            PROVE req'[p].at \in {"family.tokens", "logout.token", "logout.ip"}
        BY <3>1, <3>3 DEF LogoutUser, Idle
      <3>4. ASSUME NEW u \in Users,
                   \/ \E s \in Sessions : RevokeMySession(p, u, s)
                   \/ \E keep \in Sessions \cup {None} : RevokeAllSessions(p, u, keep)
                   \/ \E status \in {"SUSPENDED", "DELETED"} : CloseAccount(p, u, status)
            PROVE req'[p].at \in {"revoke.ids", "revoke.find"}
        BY <3>1, <3>4 DEF RevokeMySession, RevokeAllSessions, CloseAccount, Idle
      <3>5. QED
        BY <1>2, <3>2, <3>3, <3>4 DEF Arrive
    <2>3. HoldsItsFamily(p)'
      BY <2>2, NoFamilyHeld DEF Rotating
    <2>4. QED
      BY <2>1, <2>3, MoveKeepsSerial DEF At
  <1>3. QED
    BY <1>1, <1>2

(* The token of a first login opens its family.                             *)
LEMMA OpenFamilyKeepsSerial ==
  ASSUME IInv, SerialInv, OneHandlerAtATime, NEW p \in Requests,
         req[p].at \notin {"refresh.rotate", "family.tokens", "family.tokens.oauth"},
         NEW t \in Tokens, NEW u, NEW f, Issue(t, u, f), req'[p].at = "idle",
         \A n \in Tokens : token[n].family # f
  PROVE  SerialInv'
  <1>0. TypeOK
    BY DEF IInv
  <1>1. \A n \in Tokens \ {t} : token'[n] = token[n]
    BY <1>0 DEF Issue, TypeOK
  <1>2. token'[t].family = f /\ ~token'[t].reused
    BY <1>0 DEF Issue, TypeOK, NoToken
  <1>3. HoldsItsFamily(p)'
    BY NoFamilyHeld DEF Rotating
  <1>4. ASSUME NEW m \in Tokens, NEW n \in Tokens,
               token'[m].state = "live", token'[n].state = "live",
               token'[m].family = token'[n].family, token'[m].family # None
        PROVE m = n
    <2>1. CASE m = t \/ n = t
      BY <1>1, <1>2, <1>4, <2>1
    <2>2. CASE m # t /\ n # t
      BY <1>1, <1>4, <2>2, NothingPending DEF LiveTokens, At
    <2>3. QED
      BY <2>1, <2>2
  <1>5. ASSUME NEW m \in Tokens, NEW n \in Tokens, token'[m].reused,
               token'[m].family # None, token'[n].state = "live",
               token'[n].family = token'[m].family
        PROVE FALSE
    <2>1. m # t
      BY <1>2, <1>5
    <2>2. n # t
      BY <1>1, <1>2, <1>5, <2>1
    <2>3. QED
      BY <1>1, <1>5, <2>1, <2>2, NothingPending DEF LiveTokens
  <1>6. QED
    BY <1>3, <1>4, <1>5, SerialAfter

(* Issuing: the session's identifier is new, and so is a random family.     *)
LEMMA IssueStepKeepsSerial ==
  ASSUME IInv, SerialInv, OneHandlerAtATime, NEW p \in Requests, IssueStep(p)
  PROVE  SerialInv'
  <1>0. TypeOK
    BY DEF IInv
  <1>1. CASE CreateSession(p)
    <2>1. PICK s \in Sessions :
            /\ session[s].state = "unused"
            /\ req' = [req EXCEPT ![p].at = "login.token", ![p].family = s]
      BY <1>1 DEF CreateSession
    <2>2. req'[p].at = "login.token" /\ req'[p].family = s
      BY <1>0, <2>1 DEF TypeOK, Request
    <2>3. \A n \in Tokens : token[n].family # s
      BY <2>1 DEF IInv, FamiliesAreClosed, SessionsOwnTheirFamily
    <2>4. UNCHANGED token
      BY <1>1 DEF CreateSession
    <2>5. HoldsItsFamily(p)'
      BY <2>2, <2>3, <2>4 DEF HoldsItsFamily, Rotating, At
    <2>6. QED
      BY <1>0, <1>1, <2>4, <2>5, RevocationEndsTokens, MoveKeepsSerial
         DEF CreateSession, At
  <1>2. CASE CreateFirstToken(p)
    <2>1. PICK t \in Tokens : Issue(t, req[p].user, req[p].family)
      BY <1>2 DEF CreateFirstToken
    <2>2. req[p].at = "login.token" /\ req'[p].at = "idle"
      BY <1>0, <1>2, ControlFrame DEF CreateFirstToken, At, Idle
    <2>3. \A n \in Tokens : token[n].family # req[p].family
      BY <2>2 DEF SerialInv, HandlersHoldTheirFamilies, HoldsItsFamily, At
    <2>4. QED
      BY <2>1, <2>2, <2>3, OpenFamilyKeepsSerial
  <1>3. CASE CreateOAuthToken(p)
    <2>1. PICK t \in Tokens, f \in OAuthFamilies : FreshFamily(f) /\ Issue(t, req[p].user, f)
      BY <1>3 DEF CreateOAuthToken
    <2>2. req[p].at = "code.token" /\ req'[p].at = "idle"
      BY <1>0, <1>3, ControlFrame DEF CreateOAuthToken, At, Idle
    <2>3. QED
      BY <2>1, <2>2, OpenFamilyKeepsSerial DEF FreshFamily
  <1>4. QED
    BY <1>1, <1>2, <1>3 DEF IssueStep

(* A handler that goes from one await of a rotation to the next keeps what  *)
(* it held of its family.                                                   *)
LEMMA HeldOn ==
  ASSUME TypeOK, SerialInv, NEW p \in Requests, TokensOnlyEnd,
         NEW a, Goto(p, a), req[p].at \in Rotating, req[p].at # "refresh.rotate",
         a # "login.token"
  PROVE  HoldsItsFamily(p)'
  <1>1. /\ req'[p].at = a /\ req'[p].tok = req[p].tok
        /\ req'[p].family = req[p].family
    BY DEF Goto, TypeOK, Request
  <1>2. HoldsItsFamily(p)
    BY DEF SerialInv, HandlersHoldTheirFamilies
  <1>3. \A n \in Tokens : req[p].family # None /\ token'[n].family = req[p].family =>
          /\ ~token'[n].reused
          /\ token'[n].state = "live" => n = req[p].tok
    BY <1>2 DEF HoldsItsFamily, TokensOnlyEnd, At
  <1>4. QED
    BY <1>1, <1>3 DEF HoldsItsFamily, At

(* The awaits that end a handler and at most revoke                         *)
LEMMA EndKeepsSerial ==
  ASSUME TypeOK, SerialInv, OneHandlerAtATime, NEW p \in Requests, TokensOnlyEnd,
         req[p].at \notin {"refresh.rotate", "family.tokens", "family.tokens.oauth"},
         Finish(p)
  PROVE  SerialInv'
  <1>1. HoldsItsFamily(p)'
    BY ControlFrame, NoFamilyHeld DEF Idle, Rotating
  <1>2. QED
    BY <1>1, MoveKeepsSerial

(* A family revocation reaches every token of a family, when the handler    *)
(* acts for their owner.                                                    *)
LEMMA FamilyRevoked ==
  ASSUME IInv, NEW f, NEW u, RevokeLiveTokens(FamilyOf(f) \cap TokensOf(u))
  PROVE  \A n \in Tokens : token[n].family = f /\ token[n].user = u =>
           token'[n].state # "live"
  BY DEF IInv, TypeOK, TokenRow, RevokeLiveTokens, FamilyOf, TokensOf

(* After the revocation of its family a handler leaves no replay behind.    *)
LEMMA FamilyStepKeepsSerial ==
  ASSUME IInv, SerialInv, OneHandlerAtATime, NEW p \in Requests,
         req[p].at \in {"family.tokens", "family.tokens.oauth"},
         RevokeLiveTokens(FamilyOf(req[p].family) \cap TokensOf(req[p].user)),
         req'[p].at \notin Rotating \cup {"login.token"}
  PROVE  SerialInv'
  <1>1. TokensOnlyEnd
    BY RevocationEndsTokens DEF IInv
  <1>2. HoldsItsFamily(p)'
    BY NoFamilyHeld
  <1>3. ASSUME NEW m \in Tokens, NEW n \in Tokens,
               token'[m].state = "live", token'[n].state = "live",
               token'[m].family = token'[n].family, token'[m].family # None
        PROVE m = n
    <2>1. m \in LiveTokens /\ n \in LiveTokens
      BY <1>1, <1>3 DEF TokensOnlyEnd, LiveTokens
    <2>2. token[m].family = token[n].family /\ token[m].family # None
      BY <1>1, <1>3 DEF TokensOnlyEnd
    <2>3. QED
      BY <2>1, <2>2, NothingPending DEF At
  <1>4. ASSUME NEW m \in Tokens, NEW n \in Tokens, token'[m].reused,
               token'[m].family # None, token'[n].state = "live",
               token'[n].family = token'[m].family
        PROVE FALSE
    <2>1. /\ n \in LiveTokens /\ token[m].reused /\ token[m].family # None
          /\ token[n].family = token[m].family
      BY <1>1, <1>4 DEF TokensOnlyEnd, LiveTokens
    <2>2. req[p].family = token[n].family /\ req[p].user = token[n].user
      BY <2>1 DEF SerialInv, ReplaysAreBeingEnded, OneHandlerAtATime
    <2>3. QED
      BY <1>4, <2>2, FamilyRevoked
  <1>5. QED
    BY <1>2, <1>3, <1>4, SerialAfter

(* A rotated token that comes back is marked, and unless it has no family   *)
(* the handler is then about to revoke it.                                  *)
LEMMA ReplayStepKeepsSerial ==
  ASSUME IInv, SerialInv, OneHandlerAtATime, NEW p \in Requests,
         req[p].at \in {"reuse.mark", "reuse.mark.oauth"},
         token' = [token EXCEPT ![req[p].tok].reused = TRUE],
         NEW a \in {"family.tokens", "family.tokens.oauth"},
         IF req[p].family = None THEN Finish(p) ELSE Goto(p, a)
  PROVE  SerialInv'
  <1> DEFINE t == req[p].tok
             f == req[p].family
  <1>0. TypeOK
    BY DEF IInv
  <1>1. t \in Tokens /\ token[t].user = req[p].user /\ token[t].family = f
    BY DEF IInv, HandlersHoldTheirRows, HoldsItsRows, ActsOnToken
  <1>2. /\ req'[p].at = IF f = None THEN "idle" ELSE a
        /\ f # None => req'[p].family = f /\ req'[p].user = req[p].user
    BY <1>0, ControlFrame DEF Goto, TypeOK, Request, Idle
  <1>3. HoldsItsFamily(p)'
    BY <1>2, NoFamilyHeld DEF Rotating
  <1> HIDE DEF t, f
  <1>4. \A n \in Tokens : /\ token'[n].user = token[n].user
                          /\ token'[n].family = token[n].family
                          /\ token'[n].state = token[n].state
                          /\ n # t => token'[n].reused = token[n].reused
    BY <1>0 DEF TypeOK, TokenRow, t
  <1>5. TwinsAreBeingRotated'
    <2> SUFFICES ASSUME NEW m \in LiveTokens', NEW n \in LiveTokens',
                        token'[m].family = token'[n].family, token'[m].family # None
                 PROVE m = n
      BY DEF TwinsAreBeingRotated
    <2>1. /\ m \in LiveTokens /\ n \in LiveTokens
          /\ token[m].family = token[n].family /\ token[m].family # None
      BY <1>4 DEF LiveTokens
    <2>2. QED
      BY <2>1, NothingPending DEF At
  <1>6. ReplaysAreBeingEnded'
    <2> SUFFICES ASSUME NEW m \in Tokens, NEW n \in LiveTokens', token'[m].reused,
                        token'[m].family # None, token'[n].family = token'[m].family
                 PROVE /\ req'[p].at \in {"family.tokens", "family.tokens.oauth"}
                       /\ req'[p].family = token'[n].family
                       /\ req'[p].user = token'[n].user
      BY DEF ReplaysAreBeingEnded
    <2>1. /\ n \in LiveTokens /\ n \in Tokens
          /\ token[n].family = token[m].family /\ token[m].family # None
      BY <1>4 DEF LiveTokens
    <2>2. m = t
      BY <1>4, <2>1, NothingPending
    <2>3. token[n].user = token[t].user
      BY <1>1, <2>1, <2>2 DEF IInv, FamiliesAreClosed, OneAccountPerFamily
    <2>4. token[m].family = f
      BY <1>1, <2>2
    <2>5. QED
      BY <1>1, <1>2, <1>4, <2>1, <2>3, <2>4
  <1>7. HandlersHoldTheirFamilies'
    BY <1>3 DEF HandlersHoldTheirFamilies, OneHandlerAtATime
  <1>8. QED
    BY <1>5, <1>6, <1>7 DEF SerialInv

(* The successor is inserted: until the next await the family has the two.  *)
LEMMA RefreshCreateKeepsSerial ==
  ASSUME IInv, SerialInv, OneHandlerAtATime, NEW p \in Requests, RefreshCreate(p)
  PROVE  SerialInv'
  <1> DEFINE t == req[p].tok
             f == req[p].family
  <1>0. TypeOK
    BY DEF IInv
  <1>1. PICK s \in Tokens :
          /\ Issue(s, req[p].user, f)
          /\ req' = [req EXCEPT ![p].at = "refresh.rotate", ![p].next = s]
    BY DEF RefreshCreate
  <1>2. req[p].at = "refresh.create"
    BY DEF RefreshCreate, At
  <1>3. /\ req'[p].at = "refresh.rotate" /\ req'[p].next = s
        /\ req'[p].tok = t /\ req'[p].family = f
    BY <1>0, <1>1 DEF TypeOK, Request
  <1>4. \A n \in Tokens \ {s} : token'[n] = token[n]
    BY <1>0, <1>1 DEF Issue, TypeOK
  <1>5. token'[s].family = f /\ ~token'[s].reused
    BY <1>0, <1>1 DEF Issue, TypeOK, NoToken
  <1>6. ASSUME NEW n \in Tokens, f # None, token[n].family = f
        PROVE ~token[n].reused /\ (token[n].state = "live" => n = t)
    BY <1>2, <1>6 DEF SerialInv, HandlersHoldTheirFamilies, HoldsItsFamily, Rotating, At
  <1> HIDE DEF t, f
  <1>7. HandlersHoldTheirFamilies'
    <2>1. HoldsItsFamily(p)'
      BY <1>3, <1>4, <1>5, <1>6 DEF HoldsItsFamily, At
    <2>2. QED
      BY <2>1 DEF HandlersHoldTheirFamilies, OneHandlerAtATime
  <1>8. TwinsAreBeingRotated'
    <2> SUFFICES ASSUME NEW m \in LiveTokens', NEW n \in LiveTokens',
                        token'[m].family = token'[n].family, token'[m].family # None, m # n
                 PROVE {m, n} = {t, s}
      BY <1>3 DEF TwinsAreBeingRotated, At
    <2>1. CASE m = s
      <3>1. n # s /\ n \in LiveTokens /\ n \in Tokens
        BY <1>4, <2>1 DEF LiveTokens
      <3>2. QED
        BY <1>4, <1>5, <1>6, <2>1, <3>1 DEF LiveTokens
    <2>2. CASE n = s
      <3>1. m # s /\ m \in LiveTokens /\ m \in Tokens
        BY <1>4, <2>2 DEF LiveTokens
      <3>2. QED
        BY <1>4, <1>5, <1>6, <2>2, <3>1 DEF LiveTokens
    <2>3. CASE m # s /\ n # s
      BY <1>2, <1>4, <2>3, NothingPending DEF LiveTokens, At
    <2>4. QED
      BY <2>1, <2>2, <2>3
  <1>9. ReplaysAreBeingEnded'
    <2> SUFFICES ASSUME NEW m \in Tokens, NEW n \in LiveTokens', token'[m].reused,
                        token'[m].family # None, token'[n].family = token'[m].family
                 PROVE FALSE
      BY DEF ReplaysAreBeingEnded
    <2>1. m # s
      BY <1>5
    <2>2. n # s
      BY <1>4, <1>5, <1>6, <2>1
    <2>3. QED
      BY <1>2, <1>4, <2>1, <2>2, NothingPending DEF LiveTokens
  <1>10. QED
    BY <1>7, <1>8, <1>9 DEF SerialInv

(* And then the token it replaces is revoked.                               *)
LEMMA RefreshRotateKeepsSerial ==
  ASSUME IInv, SerialInv, OneHandlerAtATime, NEW p \in Requests, RefreshRotate(p)
  PROVE  SerialInv'
  <1> DEFINE t == req[p].tok
  <1>0. TypeOK
    BY DEF IInv
  <1>1. req[p].at = "refresh.rotate" /\ req'[p].at = "idle"
    BY <1>0, ControlFrame DEF RefreshRotate, At, Idle
  <1>2. t \in Tokens
    BY <1>1 DEF IInv, HandlersHoldTheirRows, HoldsItsRows, ActsOnToken
  <1>3. token' = [token EXCEPT ![t].state = "revoked", ![t].rotated = TRUE,
                               ![t].next = req[p].next]
    BY DEF RefreshRotate
  <1>4. TokensOnlyEnd
    BY <1>0, <1>2, <1>3, UpdateEndsTokens
  <1>5. token'[t].state = "revoked"
    BY <1>0, <1>2, <1>3 DEF TypeOK, TokenRow
  <1>6. HoldsItsFamily(p)'
    BY <1>1, NoFamilyHeld DEF Rotating
  <1>7. ASSUME NEW m \in Tokens, NEW n \in Tokens,
               token'[m].state = "live", token'[n].state = "live",
               token'[m].family = token'[n].family, token'[m].family # None
        PROVE m = n
    <2>1. /\ m \in LiveTokens /\ n \in LiveTokens
          /\ token[m].family = token[n].family /\ token[m].family # None
      BY <1>4, <1>7 DEF TokensOnlyEnd, LiveTokens
    <2>2. m # t /\ n # t
      BY <1>5, <1>7
    <2>3. m # n => {m, n} = {t, req[p].next}
      BY <2>1 DEF SerialInv, TwinsAreBeingRotated, OneHandlerAtATime
    <2>4. QED
      BY <2>2, <2>3
  <1>8. ASSUME NEW m \in Tokens, NEW n \in Tokens, token'[m].reused,
               token'[m].family # None, token'[n].state = "live",
               token'[n].family = token'[m].family
        PROVE FALSE
    <2>1. /\ n \in LiveTokens /\ token[m].reused /\ token[m].family # None
          /\ token[n].family = token[m].family
      BY <1>4, <1>8 DEF TokensOnlyEnd, LiveTokens
    <2>2. QED
      BY <1>1, <2>1, NothingPending
  <1>9. QED
    BY <1>6, <1>7, <1>8, SerialAfter

(* The OAuth endpoint does both in one transaction, in the family of the    *)
(* token, or in a new one when the token has none.                          *)
LEMMA OAuthRotateKeepsSerial ==
  ASSUME IInv, SerialInv, OneHandlerAtATime, NEW p \in Requests, OAuthRotate(p)
  PROVE  SerialInv'
  <1> DEFINE t == req[p].tok
  <1>0. TypeOK
    BY DEF IInv
  <1>1. req[p].at = "oauth.rotate"
    BY DEF OAuthRotate, At
  <1>2. /\ t \in Tokens /\ token[t].state # "unused" /\ token[t].family = req[p].family
    BY <1>1 DEF IInv, HandlersHoldTheirRows, HoldsItsRows, ActsOnToken
  <1> HIDE DEF t
  <1>3. PICK s \in Tokens, f \in Families :
          /\ IF req[p].family = None THEN FreshFamily(f) ELSE f = req[p].family
          /\ token[s].state = "unused"
          /\ token' = [token EXCEPT
                         ![s] = [NoToken EXCEPT !.state = "live",
                                                !.user = req[p].user, !.family = f],
                         ![t].state = "revoked", ![t].rotated = TRUE]
          /\ req' = [req EXCEPT ![p].at = "oauth.link", ![p].next = s]
    BY DEF OAuthRotate, t
  <1>4. s # t
    BY <1>2, <1>3
  <1>5. req'[p].at = "oauth.link"
    BY <1>0, <1>3 DEF TypeOK, Request
  <1>6. \A n \in Tokens \ {s, t} : token'[n] = token[n]
    BY <1>0, <1>3 DEF TypeOK
  <1>7. token'[s].family = f /\ ~token'[s].reused
    BY <1>0, <1>3, <1>4 DEF TypeOK, NoToken
  <1>8. token'[t] = [token[t] EXCEPT !.state = "revoked", !.rotated = TRUE]
    BY <1>0, <1>2, <1>3, <1>4 DEF TypeOK
  <1>9. /\ token'[t].state = "revoked" /\ token'[t].reused = token[t].reused
        /\ token'[t].family = token[t].family
    BY <1>0, <1>2, <1>8 DEF TypeOK, TokenRow
  <1>10. ASSUME NEW n \in Tokens, token[n].family = f
         PROVE ~token[n].reused /\ (token[n].state = "live" => n = t)
    <2>1. CASE req[p].family = None
      BY <1>3, <1>10, <2>1 DEF FreshFamily
    <2>2. CASE req[p].family # None
      BY <1>1, <1>3, <1>10, <2>2
         DEF SerialInv, HandlersHoldTheirFamilies, HoldsItsFamily, Rotating, At, t
    <2>3. QED
      BY <2>1, <2>2
  <1>11. HoldsItsFamily(p)'
    BY <1>5, NoFamilyHeld DEF Rotating
  <1>12. ASSUME NEW m \in Tokens, NEW n \in Tokens,
                token'[m].state = "live", token'[n].state = "live",
                token'[m].family = token'[n].family, token'[m].family # None
         PROVE m = n
    <2>1. m # t /\ n # t
      BY <1>9, <1>12
    <2>2. CASE m = s \/ n = s
      BY <1>6, <1>7, <1>10, <1>12, <2>1, <2>2
    <2>3. CASE m # s /\ n # s
      BY <1>1, <1>6, <1>12, <2>1, <2>3, NothingPending DEF LiveTokens, At
    <2>4. QED
      BY <2>2, <2>3
  <1>13. ASSUME NEW m \in Tokens, NEW n \in Tokens, token'[m].reused,
                token'[m].family # None, token'[n].state = "live",
                token'[n].family = token'[m].family
         PROVE FALSE
    <2>1. m # s /\ n # t
      BY <1>7, <1>9, <1>13
    <2>2. token[m].reused /\ token[m].family = token'[m].family
      BY <1>6, <1>9, <1>13, <2>1
    <2>3. n # s
      BY <1>7, <1>10, <1>13, <2>2
    <2>4. n \in LiveTokens /\ token[n].family = token'[n].family
      BY <1>6, <1>13, <2>1, <2>3 DEF LiveTokens
    <2>5. QED
      BY <1>1, <1>13, <2>2, <2>4, NothingPending
  <1>14. QED
    BY <1>11, <1>12, <1>13, SerialAfter

(* The awaits of the two refresh endpoints                                  *)
LEMMA RotationStepKeepsSerial ==
  ASSUME IInv, SerialInv, OneHandlerAtATime, NEW p \in Requests,
         RefreshStep(p) \/ OAuthStep(p)
  PROVE  SerialInv'
  <1>0. TypeOK
    BY DEF IInv
  <1>1. req[p].at \in ActsOnToken => req[p].tok \in Tokens
    BY DEF IInv, HandlersHoldTheirRows, HoldsItsRows
  <1>2. CASE RefreshCheckUser(p) \/ RefreshCheckSession(p) \/ OAuthCheckUser(p)
    <2>1. TokensOnlyEnd
      BY <1>0, <1>2, RevocationEndsTokens
         DEF RefreshCheckUser, RefreshCheckSession, OAuthCheckUser
    <2>2. req[p].at \in {"refresh.user", "refresh.session", "oauth.user"}
      BY <1>2 DEF RefreshCheckUser, RefreshCheckSession, OAuthCheckUser, At
    <2>3. PICK a : Finish(p) \/ (Goto(p, a) /\ a # "login.token")
      BY <1>2 DEF RefreshCheckUser, RefreshCheckSession, OAuthCheckUser
    <2>4. CASE Finish(p)
      BY <1>0, <2>1, <2>2, <2>4, EndKeepsSerial
    <2>5. CASE Goto(p, a) /\ a # "login.token"
      <3>1. HoldsItsFamily(p)'
        BY <1>0, <2>1, <2>2, <2>5, HeldOn DEF Rotating
      <3>2. QED
        BY <2>1, <2>2, <3>1, MoveKeepsSerial
    <2>6. QED
      BY <2>3, <2>4, <2>5
  <1>3. CASE RefreshDrop(p)
    <2>1. req[p].at = "refresh.drop"
      BY <1>3 DEF RefreshDrop, At
    <2>2. TokensOnlyEnd
      BY <1>0, <1>1, <1>3, <2>1, UpdateEndsTokens DEF RefreshDrop, ActsOnToken
    <2>3. QED
      BY <1>0, <1>3, <2>1, <2>2, EndKeepsSerial DEF RefreshDrop
  <1>4. CASE OAuthLink(p)
    <2>1. req[p].at = "oauth.link"
      BY <1>4 DEF OAuthLink, At
    <2>2. TokensOnlyEnd
      BY <1>0, <1>1, <1>4, <2>1, UpdateEndsTokens DEF OAuthLink, ActsOnToken
    <2>3. QED
      BY <1>0, <1>4, <2>1, <2>2, EndKeepsSerial DEF OAuthLink
  <1>5. CASE RefreshCreate(p)
    BY <1>5, RefreshCreateKeepsSerial
  <1>6. CASE RefreshRotate(p)
    BY <1>6, RefreshRotateKeepsSerial
  <1>7. CASE OAuthRotate(p)
    BY <1>7, OAuthRotateKeepsSerial
  <1>8. CASE MarkReused(p)
    BY <1>8, ReplayStepKeepsSerial DEF MarkReused, At
  <1>9. CASE OAuthMarkReused(p)
    BY <1>9, ReplayStepKeepsSerial DEF OAuthMarkReused, At
  <1>10. CASE RevokeFamilyTokens(p)
    <2>1. req'[p].at = "family.session"
      BY <1>0, <1>10 DEF RevokeFamilyTokens, Goto, TypeOK, Request
    <2>2. QED
      BY <1>10, <2>1, FamilyStepKeepsSerial DEF RevokeFamilyTokens, At, Rotating
  <1>11. CASE OAuthRevokeFamily(p)
    <2>1. req'[p].at = "idle"
      BY <1>0, <1>11, ControlFrame DEF OAuthRevokeFamily, Idle
    <2>2. QED
      BY <1>11, <2>1, FamilyStepKeepsSerial DEF OAuthRevokeFamily, At, Rotating
  <1>12. CASE RevokeFamilySession(p)
    <2>1. TokensOnlyEnd
      BY <1>0, <1>12, RevocationEndsTokens DEF RevokeFamilySession
    <2>2. QED
      BY <1>0, <1>12, <2>1, EndKeepsSerial DEF RevokeFamilySession, At
  <1>13. QED
    BY <1>2, <1>3, <1>4, <1>5, <1>6, <1>7, <1>8, <1>9, <1>10, <1>11, <1>12
       DEF RefreshStep, OAuthStep

(* The awaits that revoke sessions and tokens                               *)
LEMMA RevokeStepKeepsSerial ==
  ASSUME IInv, SerialInv, OneHandlerAtATime, NEW p \in Requests, RevokeStep(p)
  PROVE  SerialInv'
  <1>0. TypeOK
    BY DEF IInv
  <1>1. TokensOnlyEnd
    BY <1>0, RevocationEndsTokens
       DEF RevokeStep, LogoutToken, LogoutByIp, FindSessions, RevokeSessionsByIds,
           CommitReset, EraseAccount
  <1>2. req[p].at \notin {"refresh.rotate", "family.tokens", "family.tokens.oauth"}
    BY DEF RevokeStep, LogoutToken, LogoutByIp, FindSessions, RevokeSessionsByIds,
           CommitReset, EraseAccount, At
  <1>3. CASE Finish(p)
    BY <1>0, <1>1, <1>2, <1>3, EndKeepsSerial
  <1>4. CASE ~Finish(p)
    <2>1. req'[p].at \in {"logout.ip", "revoke.ids"}
      BY <1>0, <1>4 DEF RevokeStep, LogoutToken, LogoutByIp, FindSessions,
                        RevokeSessionsByIds, CommitReset, EraseAccount, Goto, TypeOK, Request
    <2>2. HoldsItsFamily(p)'
      BY <2>1, NoFamilyHeld DEF Rotating
    <2>3. QED
      BY <1>1, <1>2, <2>2, MoveKeepsSerial
  <1>5. QED
    BY <1>3, <1>4

(* The handlers with a single write                                         *)
LEMMA ImmediateKeepsSerial ==
  ASSUME IInv, SerialInv, Immediate
  PROVE  SerialInv'
  <1>0. TypeOK
    BY DEF IInv
  <1>1. req' = req
    BY DEF Immediate, RevokeToken, AdminRevokeSession, DisconnectProviderData,
           AdminRevokeUserSessions, UpdateUserStatus
  <1>2. TokensOnlyEnd
    <2>1. ASSUME NEW t \in Tokens, RevokeToken(t) PROVE TokensOnlyEnd
      BY <1>0, <2>1, UpdateEndsTokens DEF RevokeToken
    <2>2. CASE ~\E t \in Tokens : RevokeToken(t)
      BY <1>0, <2>2, RevocationEndsTokens
         DEF Immediate, AdminRevokeSession, DisconnectProviderData, AdminRevokeUserSessions,
             UpdateUserStatus
    <2>3. QED
      BY <2>1, <2>2
  <1>3. QED
    BY <1>1, <1>2, IdleStepKeepsSerial

(* Nothing is live or replayed in a family at first.                        *)
LEMMA InitSerial == Init => SerialInv
  <1> SUFFICES ASSUME Init PROVE SerialInv
    OBVIOUS
  <1>1. \A t \in Tokens : token[t].family = None /\ ~token[t].reused
    <2>1. PICK owner \in [LegacyTokens -> Users] :
            token = [t \in Tokens |->
                       IF t \in LegacyTokens
                         THEN [NoToken EXCEPT !.state = "live", !.user = owner[t]]
                         ELSE NoToken]
      BY DEF Init
    <2>2. QED
      BY <2>1 DEF NoToken
  <1>2. \A p \in Requests : req[p].at = "idle"
    BY DEF Init, Idle
  <1>3. QED
    BY <1>1, <1>2 DEF SerialInv, TwinsAreBeingRotated, ReplaysAreBeingEnded, LiveTokens,
                      HandlersHoldTheirFamilies, HoldsItsFamily, Rotating, At

(* Handlers that run one after the other keep their families in order.      *)
LEMMA StepSerial ==
  ASSUME OneHandlerAtATime, IInv, SerialInv, [Next]_vars
  PROVE  SerialInv'
  <1>1. CASE UNCHANGED vars
    <2>1. TokensOnlyEnd /\ req' = req
      BY <1>1, RevocationEndsTokens DEF vars, IInv
    <2>2. QED
      BY <2>1, IdleStepKeepsSerial
  <1>2. ASSUME NEW p \in Requests, Arrive(p) \/ Continue(p) PROVE SerialInv'
    BY <1>2, ArriveKeepsSerial, IssueStepKeepsSerial, RotationStepKeepsSerial,
       RevokeStepKeepsSerial DEF Continue
  <1>3. \A p \in Requests : ~Crash(p)
    BY DEF Crash, OneHandlerAtATime
  <1>4. QED
    BY <1>1, <1>2, <1>3, ImmediateKeepsSerial DEF Next

LEMMA SerialCorrect ==
  ASSUME OneHandlerAtATime
  PROVE  Spec => []SerialInv
  <1>1. IInv /\ SerialInv /\ [Next]_vars => SerialInv'
    BY StepSerial
  <1>2. QED
    BY <1>1, InitSerial, InvCorrect, PTL DEF Spec

(* As long as handlers run one after the other and to their end, a family   *)
(* has at most one token that can be used, between handlers: rotation on    *)
(* either endpoint, logins and every kind of revocation keep it so.         *)
THEOREM FamiliesHaveOneLiveToken ==
  ASSUME OneHandlerAtATime
  PROVE  Spec => []OneLiveTokenPerFamily
  <1>1. SerialInv => OneLiveTokenPerFamily
    <2> SUFFICES ASSUME SerialInv, InFlight = {} PROVE
          \A t, n \in LiveTokens :
            token[t].family # None /\ token[t].family = token[n].family => t = n
      BY DEF OneLiveTokenPerFamily
    <2>1. \A p \in Requests : req[p].at = "idle"
      BY DEF InFlight
    <2>2. QED
      BY <2>1 DEF SerialInv, TwinsAreBeingRotated, At
  <1>2. QED
    BY <1>1, SerialCorrect, PTL

(* And the family of a rotated token that was presented again has no token  *)
(* that can be used: nothing a later handler does gives it one.             *)
THEOREM ReplayedFamiliesStayEnded ==
  ASSUME OneHandlerAtATime
  PROVE  Spec => []ReplayEndsFamily
  <1>1. SerialInv => ReplayEndsFamily
    <2> SUFFICES ASSUME SerialInv, InFlight = {}, NEW t \in Tokens, token[t].reused,
                        token[t].family # None
                 PROVE FamilyOf(token[t].family) \cap LiveTokens = {}
      BY DEF ReplayEndsFamily
    <2>1. \A p \in Requests : req[p].at = "idle"
      BY DEF InFlight
    <2>2. \A n \in LiveTokens : token[n].family # token[t].family
      BY <2>1 DEF SerialInv, ReplaysAreBeingEnded
    <2>3. QED
      BY <2>2 DEF FamilyOf, LiveTokens
  <1>2. QED
    BY <1>1, SerialCorrect, PTL

=============================================================================
