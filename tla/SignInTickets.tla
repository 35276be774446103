--------------------------- MODULE SignInTickets ---------------------------
(***************************************************************************)
(* The one-time tickets on the way from a sign-in to its tokens: the        *)
(* transaction a social sign-in leaves in Redis, the consent ticket of a    *)
(* third-party client, and the authorization code either of them turns      *)
(* into, kept in one table for OAuth clients and in another for mobile      *)
(* applications.                                                            *)
(*                                                                          *)
(* A handler is a slot p; handler[p].at names its next await.  The four     *)
(* tickets are consumed in four ways: by GETDEL, by GET and DEL, by an      *)
(* update that asks for an unused row, and by one that does not.            *)
(*                                                                          *)
(* A party is a user at one application instance: it owns the session that  *)
(* starts a sign-in and the PKCE verifier that ends it.  Abstracted: client *)
(* and redirect checks, which the legitimate presenter passes and anyone    *)
(* else fails without a trace, and the tokens themselves.                   *)
(***************************************************************************)
EXTENDS FiniteSets, Naturals

CONSTANTS
  Transactions,  \* social authorization transactions
  Consents,      \* consent tickets
  Codes,         \* authorization code rows
  Parties,       \* users at their applications
  Handlers,      \* slots for HTTP handlers in flight
  Crashes,       \* whether a process may die between two awaits
  None           \* the SQL NULL

Tickets == Transactions \cup Consents

ASSUME ConstantsAssumption ==
  /\ Transactions \cap Consents = {}
  /\ None \notin Tickets \cup Codes
  /\ Parties # {}
  /\ Crashes \in BOOLEAN

VARIABLES
  ticket,   \* transactions and consent tickets in Redis
  code,     \* AuthorizationCode and MobileAuthorizationCode rows
  handler,  \* handlers in flight
  grants    \* history: how often a code was exchanged for tokens

vars == <<ticket, code, handler, grants>>

(* What is known of a sign-in: the kind of code it ends in, who may redeem  *)
(* it, whether a PKCE challenge came with it, and the ticket it went through*)
SignIn ==
  [kind : {"oauth", "mobile"}, party : Parties, pkce : BOOLEAN,
   origin : Tickets \cup {None}]

TicketRow == [state : {"unused", "pending", "gone"}, signIn : SignIn]

CodeRow ==
  [state : {"unused", "open", "used", "deleted"}, expired : BOOLEAN, signIn : SignIn]

Awaits ==
  {"idle", "callback.consume", "consent.approve", "consent.refuse", "create",
   "mobile.consume", "mobile.release", "oauth.mark", "oauth.tokens"}

Handler == [at : Awaits, signIn : SignIn, code : Codes \cup {None}]

NoSignIn ==
  [kind |-> "oauth", party |-> CHOOSE a \in Parties : TRUE, pkce |-> FALSE, origin |-> None]

Idle == [at |-> "idle", signIn |-> NoSignIn, code |-> None]

TypeOK ==
  /\ ticket \in [Tickets -> TicketRow]
  /\ code \in [Codes -> CodeRow]
  /\ handler \in [Handlers -> Handler]
  /\ grants \in [Codes -> Nat]

Init ==
  /\ ticket = [t \in Tickets |-> [state |-> "unused", signIn |-> NoSignIn]]
  /\ code = [c \in Codes |-> [state |-> "unused", expired |-> FALSE, signIn |-> NoSignIn]]
  /\ handler = [p \in Handlers |-> Idle]
  /\ grants = [c \in Codes |-> 0]

----------------------------------------------------------------------------
(* Helpers *)

At(p, await) == handler[p].at = await

Goto(p, await) == handler' = [handler EXCEPT ![p].at = await]

Finish(p) == handler' = [handler EXCEPT ![p] = Idle]

Begin(p, await, signIn, c) ==
  /\ At(p, "idle")
  /\ handler' = [handler EXCEPT ![p] = [at |-> await, signIn |-> signIn, code |-> c]]

CodesFrom(t) == {c \in Codes : code[c].state # "unused" /\ code[c].signIn.origin = t}

(* BOUND: a sign-in goes on only while there is a row for each code that is *)
(* about to be created.                                                     *)
SpareCode ==
  Cardinality({c \in Codes : code[c].state = "unused"})
    > Cardinality({p \in Handlers :
        handler[p].at \in {"callback.consume", "consent.approve", "create"}})

----------------------------------------------------------------------------
(* Social sign-in *)

(* createSocialAuthorizationTransaction: kept for ten minutes               *)
StartSocialSignIn(x, signIn) ==
  /\ ticket[x].state = "unused"
  /\ signIn.origin = x
  /\ ticket' = [ticket EXCEPT ![x] = [state |-> "pending", signIn |-> signIn]]
  /\ UNCHANGED <<code, handler, grants>>

(* The provider sends the browser back with the signed state, which names   *)
(* the transaction; a reload does it again.                                 *)
SocialCallback(p, x) ==
  /\ ticket[x].state # "unused" /\ SpareCode
  /\ Begin(p, "callback.consume", [NoSignIn EXCEPT !.origin = x], None)
  /\ UNCHANGED <<ticket, code, grants>>

(* Variant: the transaction is read and left where it is.                   *)
ConsumeTransactionByGet(p) ==
  LET x == handler[p].signIn.origin
  IN /\ At(p, "callback.consume")
     /\ \/ /\ ticket[x].state = "pending"
           /\ handler' = [handler EXCEPT ![p] =
                [at |-> "create", signIn |-> ticket[x].signIn, code |-> None]]
        \/ Finish(p)
     /\ UNCHANGED <<ticket, code, grants>>

(* GETDEL.  The provider may have refused the user, or a mobile sign-in     *)
(* have come without a challenge: the transaction is gone all the same.     *)
ConsumeTransaction(p) ==
  LET x == handler[p].signIn.origin
      signIn == ticket[x].signIn
  IN /\ At(p, "callback.consume")
     /\ ticket' = [ticket EXCEPT ![x].state = "gone"]
     /\ \/ /\ ticket[x].state = "pending" /\ (signIn.kind = "mobile" => signIn.pkce)
           /\ handler' = [handler EXCEPT ![p] =
                [at |-> "create", signIn |-> signIn, code |-> None]]
        \/ Finish(p)
     /\ UNCHANGED <<code, grants>>

(* A sign-in that needs no ticket: of a client that is not a third party,   *)
(* or an enterprise or social sign-in whose context is in its signed state  *)
SignInDirectly(p, signIn) ==
  /\ signIn.origin = None /\ (signIn.kind = "mobile" => signIn.pkce) /\ SpareCode
  /\ Begin(p, "create", signIn, None)
  /\ UNCHANGED <<ticket, code, grants>>

----------------------------------------------------------------------------
(* Consent *)

(* startAuthorization, for a third-party client: kept for five minutes      *)
StartAuthorization(k, signIn) ==
  /\ ticket[k].state = "unused"
  /\ signIn.kind = "oauth" /\ signIn.origin = k
  /\ ticket' = [ticket EXCEPT ![k] = [state |-> "pending", signIn |-> signIn]]
  /\ UNCHANGED <<code, handler, grants>>

(* GET.  Only the user who started the sign-in may approve it.              *)
ResolveConsent(p, k, user, approve) ==
  /\ ticket[k].state = "pending"
  /\ IF approve /\ user = ticket[k].signIn.party
       THEN SpareCode /\ Begin(p, "consent.approve", ticket[k].signIn, None)
       ELSE Begin(p, "consent.refuse", ticket[k].signIn, None)
  /\ UNCHANGED <<ticket, code, grants>>

(* DEL, whether or not the key is still there; the client may have been     *)
(* disabled meanwhile.                                                      *)
DeleteConsent(p) ==
  /\ \/ At(p, "consent.refuse") /\ Finish(p)
     \/ At(p, "consent.approve") /\ (Goto(p, "create") \/ Finish(p))
  /\ ticket' = [ticket EXCEPT ![handler[p].signIn.origin].state = "gone"]
  /\ UNCHANGED <<code, grants>>

----------------------------------------------------------------------------
(* Codes *)

(* createAuthorizationCode, issueMobileAuthCode                             *)
CreateCode(p) ==
  /\ At(p, "create")
  /\ \E c \in Codes :
       /\ code[c].state = "unused"
       /\ code' = [code EXCEPT ![c] =
            [state |-> "open", expired |-> FALSE, signIn |-> handler[p].signIn]]
  /\ Finish(p)
  /\ UNCHANGED <<ticket, grants>>

(* Variant: a code is good until it expires.                                *)
RedeemableUntilExpiry(c, party) ==
  /\ code[c].state \in {"open", "used"} /\ ~code[c].expired
  /\ code[c].signIn.pkce => party = code[c].signIn.party

(* Every check of an exchange, on the row as it is read                     *)
Redeemable(c, party) ==
  /\ code[c].state = "open" /\ ~code[c].expired
  /\ code[c].signIn.pkce => party = code[c].signIn.party

ExchangeMobileAuthCode(p, c, party) ==
  /\ code[c].signIn.kind = "mobile" /\ Redeemable(c, party)
  /\ Begin(p, "mobile.consume", code[c].signIn, c)
  /\ UNCHANGED <<ticket, code, grants>>

(* Variant: the row is updated by its identifier alone.                     *)
ConsumeMobileCodeById(p) ==
  /\ At(p, "mobile.consume")
  /\ code' = [code EXCEPT ![handler[p].code].state = "used"]
  /\ Goto(p, "mobile.release")
  /\ UNCHANGED <<ticket, grants>>

(* updateMany with consumedAt: null in its WHERE; a loser gets REUSED.      *)
ConsumeMobileCode(p) ==
  LET c == handler[p].code
  IN /\ At(p, "mobile.consume")
     /\ IF code[c].state = "open"
          THEN code' = [code EXCEPT ![c].state = "used"] /\ Goto(p, "mobile.release")
          ELSE Finish(p) /\ UNCHANGED code
     /\ UNCHANGED <<ticket, grants>>

ReleaseSession(p) ==
  /\ At(p, "mobile.release")
  /\ grants' = [grants EXCEPT ![handler[p].code] = @ + 1]
  /\ Finish(p)
  /\ UNCHANGED <<ticket, code>>

ExchangeAuthorizationCode(p, c, party) ==
  /\ code[c].signIn.kind = "oauth" /\ Redeemable(c, party)
  /\ Begin(p, "oauth.mark", code[c].signIn, c)
  /\ UNCHANGED <<ticket, code, grants>>

(* An update by the code's hash, which fails only where the row is gone     *)
MarkCodeUsed(p) ==
  LET c == handler[p].code
  IN /\ At(p, "oauth.mark")
     /\ IF code[c].state = "deleted"
          THEN Finish(p) /\ UNCHANGED code
          ELSE code' = [code EXCEPT ![c].state = "used"] /\ Goto(p, "oauth.tokens")
     /\ UNCHANGED <<ticket, grants>>

(* The account may have been closed since: the code stays used.             *)
CreateTokens(p) ==
  /\ At(p, "oauth.tokens")
  /\ \/ grants' = [grants EXCEPT ![handler[p].code] = @ + 1]
     \/ UNCHANGED grants
  /\ Finish(p)
  /\ UNCHANGED <<ticket, code>>

(* revokeAndAnonymizeAccount deletes the codes of OAuth clients.            *)
DeleteCodesOf(party) ==
  /\ code' = [c \in Codes |->
       IF code[c].state # "unused" /\ code[c].signIn.kind = "oauth"
            /\ code[c].signIn.party = party
         THEN [code[c] EXCEPT !.state = "deleted"] ELSE code[c]]
  /\ code' # code
  /\ UNCHANGED <<ticket, handler, grants>>

----------------------------------------------------------------------------

ExpireTicket(t) ==
  /\ ticket[t].state = "pending"
  /\ ticket' = [ticket EXCEPT ![t].state = "gone"]
  /\ UNCHANGED <<code, handler, grants>>

ExpireCode(c) ==
  /\ code[c].state = "open" /\ ~code[c].expired
  /\ code' = [code EXCEPT ![c].expired = TRUE]
  /\ UNCHANGED <<ticket, handler, grants>>

Crash(p) ==
  /\ Crashes /\ ~At(p, "idle")
  /\ Finish(p)
  /\ UNCHANGED <<ticket, code, grants>>

Start(signIn) ==
  \/ \E x \in Transactions : StartSocialSignIn(x, signIn)
  \/ \E k \in Consents : StartAuthorization(k, signIn)

Receive(p) ==
  \/ \E x \in Transactions : SocialCallback(p, x)
  \/ \E signIn \in SignIn : SignInDirectly(p, signIn)
  \/ \E k \in Consents, user \in Parties, approve \in BOOLEAN :
       ResolveConsent(p, k, user, approve)
  \/ \E c \in Codes, party \in Parties :
       ExchangeMobileAuthCode(p, c, party) \/ ExchangeAuthorizationCode(p, c, party)

Continue(p) ==
  \/ ConsumeTransaction(p) \/ DeleteConsent(p) \/ CreateCode(p)
  \/ ConsumeMobileCode(p) \/ ReleaseSession(p) \/ MarkCodeUsed(p) \/ CreateTokens(p)

Next ==
  \/ \E signIn \in SignIn : Start(signIn)
  \/ \E p \in Handlers : Receive(p) \/ Continue(p) \/ Crash(p)
  \/ \E party \in Parties : DeleteCodesOf(party)
  \/ \E t \in Tickets : ExpireTicket(t)
  \/ \E c \in Codes : ExpireCode(c)

Spec == Init /\ [][Next]_vars

----------------------------------------------------------------------------
(* Properties *)

MobileCodes ==
  {c \in Codes : code[c].state # "unused" /\ code[c].signIn.kind = "mobile"}

MobileTickets ==
  INSTANCE SingleUse WITH
    Tickets <- Codes,
    issued  <- MobileCodes,
    grants  <- [c \in Codes |-> IF c \in MobileCodes THEN grants[c] ELSE 0]

(* A mobile authorization code is a one-time ticket for a session, whoever  *)
(* presents it, at the same time or after a crash (exchangeMobileAuthCode). *)
MobileCodesAreSingleUse == MobileTickets!Spec

TransactionTickets ==
  INSTANCE SingleUse WITH
    Tickets <- Transactions,
    issued  <- {x \in Transactions : ticket[x].state # "unused"},
    grants  <- [x \in Transactions |-> Cardinality(CodesFrom(x))]

(* A social authorization transaction is a one-time ticket for a code,      *)
(* however often the provider's callback is replayed                        *)
(* (consumeSocialAuthorizationTransaction).                                 *)
TransactionsAreSingleUse == TransactionTickets!Spec

(* A social sign-in of a mobile application ends in one session at most: no *)
(* second code comes of it, and its code is not redeemed twice.             *)
OneSessionPerSocialSignIn ==
  \A x \in Transactions : \A c, d \in CodesFrom(x) :
    code[c].signIn.kind = "mobile" /\ grants[c] > 0 => grants[c] = 1 /\ (grants[d] > 0 => d = c)

(* An exchange that starts after another has marked the code buys nothing:  *)
(* a code of either table is used again only by exchanges that were in      *)
(* flight together, once each, and once at all where there is one handler.  *)
CodeUsesOverlap == \A c \in Codes : grants[c] <= Cardinality(Handlers)

=============================================================================
