------------------------ MODULE SignInTickets_proofs ------------------------
(***************************************************************************)
(* Mobile codes and social transactions are one-time tickets for any number *)
(* of requests, with crashes: the two refinements of SingleUse, and what    *)
(* they mean together.                                                      *)
(***************************************************************************)
EXTENDS SignInTickets, FiniteSetTheorems, TLAPS

(* What a handler knows of the code it is redeeming                         *)
HandlersKnowTheirCode ==
  \A p \in Handlers :
    /\ At(p, "mobile.consume") \/ At(p, "mobile.release") =>
         /\ handler[p].code \in MobileCodes
    /\ At(p, "oauth.mark") \/ At(p, "oauth.tokens") =>
         /\ handler[p].code \in Codes
         /\ code[handler[p].code].state # "unused"
         /\ code[handler[p].code].signIn.kind = "oauth"

(* Between the update that consumes a code and the release of its session,  *)
(* one handler holds it and nothing has been released.                      *)
OneReleasePending ==
  /\ \A p \in Handlers : At(p, "mobile.release") =>
       code[handler[p].code].state = "used" /\ grants[handler[p].code] = 0
  /\ \A p, q \in Handlers :
       At(p, "mobile.release") /\ At(q, "mobile.release")
         /\ handler[p].code = handler[q].code => p = q

(* Nothing is released before a code is consumed.                           *)
UnusedCodesAreIntact ==
  \A c \in Codes :
    /\ code[c].state = "unused" => grants[c] = 0
    /\ c \in MobileCodes => grants[c] <= 1 /\ (code[c].state = "open" => grants[c] = 0)

(* The ticket a handler or a stored sign-in refers to                       *)
OriginsAreKnown ==
  /\ \A t \in Tickets : ticket[t].state = "pending" => ticket[t].signIn.origin = t
  /\ \A p \in Handlers :
       /\ At(p, "callback.consume") =>
            /\ handler[p].signIn.origin \in Transactions
            /\ ticket[handler[p].signIn.origin].state # "unused"
       /\ At(p, "consent.approve") \/ At(p, "consent.refuse") =>
            handler[p].signIn.origin \in Consents

(* A handler about to create the code of a transaction is the only one, the *)
(* transaction is gone and has no code yet.                                 *)
OneCreationPending ==
  /\ \A p \in Handlers : At(p, "create") /\ handler[p].signIn.origin \in Transactions =>
       /\ ticket[handler[p].signIn.origin].state = "gone"
       /\ CodesFrom(handler[p].signIn.origin) = {}
  /\ \A p, q \in Handlers :
       At(p, "create") /\ At(q, "create") /\ handler[p].signIn.origin \in Transactions
         /\ handler[p].signIn.origin = handler[q].signIn.origin => p = q

(* A transaction has no code before it is consumed, and one afterwards.     *)
OneCodePerTransaction ==
  \A x \in Transactions :
    /\ ticket[x].state # "gone" => CodesFrom(x) = {}
    /\ \A c, d \in CodesFrom(x) : c = d

CodeInv == HandlersKnowTheirCode /\ OneReleasePending /\ UnusedCodesAreIntact

TicketInv == OriginsAreKnown /\ OneCreationPending /\ OneCodePerTransaction

IInv == TypeOK /\ CodeInv /\ TicketInv

----------------------------------------------------------------------------

(* The null records are records of their types.                             *)
LEMMA NullRecords == NoSignIn \in SignIn /\ Idle \in Handler
  BY ConstantsAssumption DEF NoSignIn, SignIn, Idle, Handler, Awaits

(* The await and code of a slot after each way of moving it                 *)
LEMMA HandlerMoves ==
  ASSUME handler \in [Handlers -> Handler], NEW p \in Handlers
  PROVE  /\ \A a \in Awaits : Goto(p, a) =>
              /\ handler' \in [Handlers -> Handler]
              /\ handler'[p].at = a /\ handler'[p].code = handler[p].code
              /\ handler'[p].signIn = handler[p].signIn
         /\ Finish(p) => /\ handler' \in [Handlers -> Handler]
                         /\ handler'[p].at = "idle"
         /\ \A a \in Awaits, s \in SignIn, c \in Codes \cup {None} :
              handler' = [handler EXCEPT ![p] = [at |-> a, signIn |-> s, code |-> c]] =>
                /\ handler' \in [Handlers -> Handler]
                /\ handler'[p].at = a /\ handler'[p].code = c /\ handler'[p].signIn = s
         /\ (\/ \E a \in Awaits : Goto(p, a)
             \/ Finish(p)
             \/ \E a \in Awaits, s \in SignIn, c \in Codes \cup {None} :
                  handler' = [handler EXCEPT ![p] = [at |-> a, signIn |-> s, code |-> c]])
            => \A q \in Handlers : q # p => handler'[q] = handler[q]
  <1>1. \A a \in Awaits : Goto(p, a) =>
          /\ handler' \in [Handlers -> Handler]
          /\ handler'[p].at = a /\ handler'[p].code = handler[p].code
          /\ handler'[p].signIn = handler[p].signIn
          /\ \A q \in Handlers : q # p => handler'[q] = handler[q]
    BY DEF Goto, Handler
  <1>2. Finish(p) => /\ handler' \in [Handlers -> Handler]
                     /\ handler'[p].at = "idle"
                     /\ \A q \in Handlers : q # p => handler'[q] = handler[q]
    <2>1. Idle \in Handler /\ Idle.at = "idle"
      BY NullRecords DEF Idle
    <2> QED
      BY <2>1 DEF Finish
  <1>3. ASSUME NEW a \in Awaits, NEW s \in SignIn, NEW c \in Codes \cup {None},
               handler' = [handler EXCEPT ![p] = [at |-> a, signIn |-> s, code |-> c]]
        PROVE  /\ handler' \in [Handlers -> Handler]
               /\ handler'[p].at = a /\ handler'[p].code = c /\ handler'[p].signIn = s
               /\ \A q \in Handlers : q # p => handler'[q] = handler[q]
    <2>1. [at |-> a, signIn |-> s, code |-> c] \in Handler
      BY DEF Handler
    <2> QED
      BY <1>3, <2>1
  <1> QED
    BY <1>1, <1>2, <1>3

(* The rows the actions write are rows.                                     *)
LEMMA NewRows ==
  /\ \A r \in TicketRow, s \in {"pending", "gone"} : [r EXCEPT !.state = s] \in TicketRow
  /\ \A s \in SignIn : [state |-> "pending", signIn |-> s] \in TicketRow
  /\ \A r \in TicketRow : r.signIn \in SignIn
  /\ \A r \in CodeRow, s \in {"used", "deleted"} : [r EXCEPT !.state = s] \in CodeRow
  /\ \A r \in CodeRow : [r EXCEPT !.expired = TRUE] \in CodeRow /\ r.signIn \in SignIn
  /\ \A s \in SignIn :
       [state |-> "open", expired |-> FALSE, signIn |-> s] \in CodeRow
  /\ \A h \in Handler : h.signIn \in SignIn /\ h.code \in Codes \cup {None}
  BY DEF TicketRow, CodeRow, Handler

LEMMA InitInv == Init => IInv
  <1> SUFFICES ASSUME Init PROVE IInv
    OBVIOUS
  <1>1. TypeOK
    BY NullRecords DEF Init, TypeOK, TicketRow, CodeRow
  <1>2. Idle.at = "idle" /\ NoSignIn.kind = "oauth"
    BY DEF Idle, NoSignIn
  <1>3. CodeInv
    BY <1>1, <1>2 DEF Init, CodeInv, HandlersKnowTheirCode, OneReleasePending,
      UnusedCodesAreIntact, MobileCodes, At
  <1>4. TicketInv
    BY <1>1, <1>2 DEF Init, TicketInv, OriginsAreKnown, OneCreationPending,
      OneCodePerTransaction, CodesFrom, At
  <1> QED
    BY <1>1, <1>3, <1>4 DEF IInv

(* Every step keeps the types.                                              *)
LEMMA StepType ==
  ASSUME TypeOK, CodeInv, TicketInv, [Next]_vars
  PROVE  TypeOK'
  <1>1. CASE \E s \in SignIn : Start(s)
    BY <1>1, NewRows DEF TypeOK, Start, StartSocialSignIn, StartAuthorization, Tickets
  <1>2. ASSUME NEW p \in Handlers, Receive(p) PROVE TypeOK'
    <2>1. \A x \in Transactions : [NoSignIn EXCEPT !.origin = x] \in SignIn
      BY NullRecords DEF SignIn, Tickets
    <2>2. \E a \in Awaits, s \in SignIn, c \in Codes \cup {None} :
            handler' = [handler EXCEPT ![p] = [at |-> a, signIn |-> s, code |-> c]]
      BY <1>2, <2>1, NewRows DEF TypeOK, Receive, SocialCallback, SignInDirectly, ResolveConsent,
        ExchangeMobileAuthCode, ExchangeAuthorizationCode, Begin, Awaits, Tickets
    <2>3. UNCHANGED <<ticket, code, grants>>
      BY <1>2 DEF Receive, SocialCallback, SignInDirectly, ResolveConsent,
        ExchangeMobileAuthCode, ExchangeAuthorizationCode
    <2> QED
      BY <2>2, <2>3, HandlerMoves DEF TypeOK
  <1>3. ASSUME NEW p \in Handlers, Continue(p) PROVE TypeOK'
    <2>1. CASE ConsumeTransaction(p)
      <3> DEFINE x == handler[p].signIn.origin
      <3>1. x \in Tickets /\ ticket[x] \in TicketRow
        BY <2>1 DEF ConsumeTransaction, TypeOK, TicketInv, OriginsAreKnown, Tickets
      <3>2. handler' \in [Handlers -> Handler]
        BY <2>1, <3>1, HandlerMoves, NewRows DEF ConsumeTransaction, TypeOK, Awaits
      <3> QED
        BY <2>1, <3>1, <3>2, NewRows DEF ConsumeTransaction, TypeOK
    <2>2. CASE DeleteConsent(p)
      BY <2>2, HandlerMoves, NewRows DEF TypeOK, DeleteConsent, Awaits
    <2>3. CASE CreateCode(p)
      BY <2>3, HandlerMoves, NewRows DEF TypeOK, CreateCode, Awaits
    <2>4. CASE ConsumeMobileCode(p)
      <3>1. handler' \in [Handlers -> Handler]
        BY <2>4, HandlerMoves DEF TypeOK, ConsumeMobileCode, Awaits
      <3>2. handler[p].code \in Codes
        BY <2>4 DEF ConsumeMobileCode, CodeInv, HandlersKnowTheirCode, MobileCodes
      <3>3. [code EXCEPT ![handler[p].code].state = "used"] \in [Codes -> CodeRow]
        BY <3>2, NewRows DEF TypeOK
      <3> QED
        BY <2>4, <3>1, <3>3 DEF TypeOK, ConsumeMobileCode
    <2>5. CASE ReleaseSession(p)
      <3>1. handler[p].code \in Codes
        BY <2>5 DEF ReleaseSession, CodeInv, HandlersKnowTheirCode, MobileCodes
      <3> QED
        BY <2>5, <3>1, HandlerMoves DEF TypeOK, ReleaseSession
    <2>6. CASE MarkCodeUsed(p)
      <3>1. handler' \in [Handlers -> Handler]
        BY <2>6, HandlerMoves DEF TypeOK, MarkCodeUsed, Awaits
      <3>2. handler[p].code \in Codes
        BY <2>6 DEF MarkCodeUsed, CodeInv, HandlersKnowTheirCode
      <3>3. [code EXCEPT ![handler[p].code].state = "used"] \in [Codes -> CodeRow]
        BY <3>2, NewRows DEF TypeOK
      <3> QED
        BY <2>6, <3>1, <3>3 DEF TypeOK, MarkCodeUsed
    <2>7. CASE CreateTokens(p)
      <3>1. handler[p].code \in Codes
        BY <2>7 DEF CreateTokens, CodeInv, HandlersKnowTheirCode
      <3> QED
        BY <2>7, <3>1, HandlerMoves DEF TypeOK, CreateTokens
    <2> QED
      BY <1>3, <2>1, <2>2, <2>3, <2>4, <2>5, <2>6, <2>7 DEF Continue
  <1>4. ASSUME NEW p \in Handlers, Crash(p) PROVE TypeOK'
    BY <1>4, HandlerMoves DEF TypeOK, Crash
  <1>5. ASSUME NEW a \in Parties, DeleteCodesOf(a) PROVE TypeOK'
    <2> DEFINE row(c) ==
          IF code[c].state # "unused" /\ code[c].signIn.kind = "oauth"
               /\ code[c].signIn.party = a
            THEN [code[c] EXCEPT !.state = "deleted"] ELSE code[c]
    <2>1. \A c \in Codes : row(c) \in CodeRow
      BY NewRows DEF TypeOK
    <2>2. code' = [c \in Codes |-> row(c)]
      BY <1>5 DEF DeleteCodesOf
    <2> HIDE DEF row
    <2> QED
      BY <1>5, <2>1, <2>2 DEF TypeOK, DeleteCodesOf
  <1>6. CASE \E t \in Tickets : ExpireTicket(t)
    <2> PICK t \in Tickets : ExpireTicket(t)
      BY <1>6
    <2>1. [ticket EXCEPT ![t].state = "gone"] \in [Tickets -> TicketRow]
      BY NewRows DEF TypeOK
    <2> QED
      BY <2>1 DEF TypeOK, ExpireTicket
  <1>7. CASE \E c \in Codes : ExpireCode(c)
    BY <1>7, NewRows DEF TypeOK, ExpireCode
  <1>8. CASE UNCHANGED vars
    BY <1>8 DEF TypeOK, vars
  <1> QED
    BY <1>1, <1>2, <1>3, <1>4, <1>5, <1>6, <1>7, <1>8 DEF Next

----------------------------------------------------------------------------
(* Codes *)

(* Steps that neither touch a code nor bring a handler to redeem one        *)
LEMMA CodeInvKept ==
  ASSUME CodeInv, UNCHANGED <<code, grants>>,
         \A q \in Handlers :
           handler'[q].at \in {"mobile.consume", "mobile.release", "oauth.mark", "oauth.tokens"}
             => handler'[q].at = handler[q].at /\ handler'[q].code = handler[q].code
  PROVE  CodeInv'
  BY DEF CodeInv, HandlersKnowTheirCode, OneReleasePending, UnusedCodesAreIntact,
    MobileCodes, At

(* Steps that begin to redeem a code                                        *)
LEMMA ExchangeKeepsCodeInv ==
  ASSUME TypeOK, CodeInv, NEW p \in Handlers, NEW c \in Codes, NEW a \in Parties,
         ExchangeMobileAuthCode(p, c, a) \/ ExchangeAuthorizationCode(p, c, a)
  PROVE  CodeInv'
  <1>1. /\ handler'[p].code = c /\ UNCHANGED <<code, grants>>
        /\ \A q \in Handlers : q # p => handler'[q] = handler[q]
        /\ code[c].state = "open"
        /\ \/ handler'[p].at = "mobile.consume" /\ code[c].signIn.kind = "mobile"
           \/ handler'[p].at = "oauth.mark" /\ code[c].signIn.kind = "oauth"
    BY DEF TypeOK, ExchangeMobileAuthCode, ExchangeAuthorizationCode, Begin, Redeemable, Handler
  <1> QED
    BY <1>1 DEF CodeInv, HandlersKnowTheirCode, OneReleasePending, UnusedCodesAreIntact,
      MobileCodes, At

(* A code whose row changes keeps its sign-in; only an OAuth code may be    *)
(* deleted, and a mobile code that is used stays so.                        *)
LEMMA CodeUpdatesKeepCodeInv ==
  ASSUME CodeInv, UNCHANGED grants,
         \A c \in Codes :
           /\ code'[c].signIn = code[c].signIn
           /\ code[c].state = "unused" <=> code'[c].state = "unused"
           /\ code'[c].signIn.kind = "mobile" =>
                \/ code'[c].state = code[c].state
                \/ code'[c].state = "used",
         \A q \in Handlers :
           handler'[q].at \in {"mobile.consume", "mobile.release", "oauth.mark", "oauth.tokens"}
             => /\ handler'[q].code = handler[q].code
                /\ \/ handler'[q].at = handler[q].at
                   \/ At(q, "oauth.mark") /\ handler'[q].at = "oauth.tokens"
  PROVE  CodeInv'
  <1>1. MobileCodes' = MobileCodes
    BY DEF MobileCodes
  <1>2. \A q \in Handlers : At(q, "mobile.release")' =>
          At(q, "mobile.release") /\ handler'[q].code = handler[q].code
             /\ handler[q].code \in MobileCodes
    BY DEF At, CodeInv, HandlersKnowTheirCode
  <1>3. HandlersKnowTheirCode'
    BY <1>1 DEF CodeInv, HandlersKnowTheirCode, At
  <1>4. OneReleasePending'
    BY <1>2 DEF CodeInv, OneReleasePending, MobileCodes
  <1>5. UnusedCodesAreIntact'
    BY <1>1 DEF CodeInv, UnusedCodesAreIntact, MobileCodes
  <1> QED
    BY <1>3, <1>4, <1>5 DEF CodeInv

(* A new code has bought nothing, and no handler was redeeming its row.     *)
LEMMA CreateCodeKeepsCodeInv ==
  ASSUME TypeOK, CodeInv, NEW p \in Handlers, CreateCode(p)
  PROVE  CodeInv'
  <1>1. PICK c \in Codes :
          /\ code[c].state = "unused"
          /\ code' = [code EXCEPT ![c] =
               [state |-> "open", expired |-> FALSE, signIn |-> handler[p].signIn]]
    BY DEF CreateCode
  <1>2. /\ \A d \in Codes : d # c => code'[d] = code[d]
        /\ code'[c].state = "open"
        /\ UNCHANGED grants
        /\ handler'[p].at = "idle"
        /\ \A q \in Handlers : q # p => handler'[q] = handler[q]
    BY <1>1, HandlerMoves DEF CreateCode, TypeOK
  <1>3. HandlersKnowTheirCode'
    BY <1>1, <1>2 DEF CodeInv, HandlersKnowTheirCode, MobileCodes, At
  <1>4. OneReleasePending'
    BY <1>1, <1>2 DEF CodeInv, HandlersKnowTheirCode, OneReleasePending, MobileCodes, At
  <1>5. UnusedCodesAreIntact'
    BY <1>1, <1>2 DEF CodeInv, UnusedCodesAreIntact, MobileCodes
  <1> QED
    BY <1>3, <1>4, <1>5 DEF CodeInv

(* The handler whose update found the code unused is the only one to hold   *)
(* it; the others give up.                                                  *)
LEMMA ConsumeKeepsCodeInv ==
  ASSUME TypeOK, CodeInv, NEW p \in Handlers, ConsumeMobileCode(p)
  PROVE  CodeInv'
  <1> DEFINE c == handler[p].code
  <1>1. c \in MobileCodes /\ c \in Codes
    BY DEF ConsumeMobileCode, CodeInv, HandlersKnowTheirCode, MobileCodes
  <1>2. /\ UNCHANGED grants
        /\ \A q \in Handlers : q # p => handler'[q] = handler[q]
    BY HandlerMoves DEF ConsumeMobileCode, TypeOK, Awaits
  <1>3. CASE code[c].state # "open"
    BY <1>2, <1>3, HandlerMoves, CodeInvKept DEF ConsumeMobileCode, TypeOK
  <1>4. CASE code[c].state = "open"
    <2>1. /\ code' = [code EXCEPT ![c].state = "used"]
          /\ handler'[p].at = "mobile.release" /\ handler'[p].code = c
      BY <1>4, HandlerMoves DEF ConsumeMobileCode, TypeOK, Awaits
    <2>2. /\ code'[c].state = "used" /\ code'[c].signIn = code[c].signIn
          /\ \A d \in Codes : d # c => code'[d] = code[d]
      BY <1>1, <2>1 DEF TypeOK, CodeRow
    <2>3. grants[c] = 0 /\ MobileCodes' = MobileCodes
      BY <1>1, <1>4, <2>2 DEF CodeInv, UnusedCodesAreIntact, MobileCodes
    <2>4. \A q \in Handlers : At(q, "mobile.release") => handler[q].code # c
      BY <1>4 DEF CodeInv, OneReleasePending
    <2>5. HandlersKnowTheirCode'
      BY <1>1, <1>2, <2>1, <2>2, <2>3 DEF CodeInv, HandlersKnowTheirCode, At
    <2>6. OneReleasePending'
      <3>1. \A q \in Handlers : q # p /\ At(q, "mobile.release")' =>
              /\ At(q, "mobile.release") /\ handler'[q].code = handler[q].code
              /\ handler[q].code \in Codes \ {c}
        BY <1>2, <2>4 DEF CodeInv, HandlersKnowTheirCode, MobileCodes, At
      <3> QED
        BY <1>2, <2>1, <2>2, <2>3, <3>1 DEF CodeInv, OneReleasePending
    <2>7. UnusedCodesAreIntact'
      BY <1>1, <1>2, <2>2, <2>3 DEF CodeInv, UnusedCodesAreIntact
    <2> QED
      BY <2>5, <2>6, <2>7 DEF CodeInv
  <1> QED
    BY <1>3, <1>4

(* The handler that holds a consumed code releases its session, and nobody  *)
(* else will.                                                               *)
LEMMA ReleaseKeepsCodeInv ==
  ASSUME TypeOK, CodeInv, NEW p \in Handlers, ReleaseSession(p)
  PROVE  CodeInv'
  <1> DEFINE c == handler[p].code
  <1>1. /\ c \in MobileCodes /\ c \in Codes
        /\ code[c].state = "used" /\ grants[c] = 0
        /\ \A q \in Handlers : q # p /\ At(q, "mobile.release") => handler[q].code # c
    BY DEF ReleaseSession, CodeInv, HandlersKnowTheirCode, OneReleasePending, MobileCodes
  <1>2. /\ UNCHANGED code /\ MobileCodes' = MobileCodes
        /\ grants'[c] = 1 /\ \A d \in Codes : d # c => grants'[d] = grants[d]
        /\ handler'[p].at = "idle"
        /\ \A q \in Handlers : q # p => handler'[q] = handler[q]
    BY <1>1, HandlerMoves DEF ReleaseSession, TypeOK, MobileCodes
  <1>3. HandlersKnowTheirCode'
    BY <1>2 DEF CodeInv, HandlersKnowTheirCode, At
  <1>4. OneReleasePending'
    BY <1>1, <1>2 DEF CodeInv, OneReleasePending, HandlersKnowTheirCode, MobileCodes, At
  <1>5. UnusedCodesAreIntact'
    BY <1>1, <1>2 DEF CodeInv, UnusedCodesAreIntact
  <1> QED
    BY <1>3, <1>4, <1>5 DEF CodeInv

(* Tokens of an OAuth code do not count towards a mobile one.               *)
LEMMA TokensKeepCodeInv ==
  ASSUME TypeOK, CodeInv, NEW p \in Handlers, CreateTokens(p)
  PROVE  CodeInv'
  <1> DEFINE c == handler[p].code
  <1>1. c \in Codes /\ code[c].state # "unused" /\ code[c].signIn.kind = "oauth"
    BY DEF CreateTokens, CodeInv, HandlersKnowTheirCode
  <1>2. /\ UNCHANGED code /\ MobileCodes' = MobileCodes
        /\ \A d \in Codes : d # c => grants'[d] = grants[d]
        /\ handler'[p].at = "idle"
        /\ \A q \in Handlers : q # p => handler'[q] = handler[q]
    BY <1>1, HandlerMoves DEF CreateTokens, TypeOK, MobileCodes
  <1>3. c \notin MobileCodes
    BY <1>1 DEF MobileCodes
  <1>4. HandlersKnowTheirCode'
    BY <1>2 DEF CodeInv, HandlersKnowTheirCode, At
  <1>5. OneReleasePending'
    BY <1>2, <1>3 DEF CodeInv, OneReleasePending, HandlersKnowTheirCode, MobileCodes, At
  <1>6. UnusedCodesAreIntact'
    BY <1>1, <1>2, <1>3 DEF CodeInv, UnusedCodesAreIntact
  <1> QED
    BY <1>4, <1>5, <1>6 DEF CodeInv

----------------------------------------------------------------------------
(* Transactions *)

(* Steps that create no code, consume no transaction and bring no handler   *)
(* to create a transaction's code                                           *)
LEMMA TicketInvKept ==
  ASSUME TicketInv,
         \A x \in Transactions : CodesFrom(x)' = CodesFrom(x),
         \A t \in Tickets :
           ticket'[t] = ticket[t] \/ (ticket[t].state # "unused" /\ ticket'[t].state = "gone"),
         \A q \in Handlers :
           handler'[q].at \in {"callback.consume", "consent.approve", "consent.refuse", "create"}
             => \/ /\ handler'[q].at = handler[q].at
                   /\ handler'[q].signIn = handler[q].signIn
                \/ handler'[q].at = "create" /\ handler'[q].signIn.origin \notin Transactions
  PROVE  TicketInv'
  <1>1. OriginsAreKnown'
    BY DEF TicketInv, OriginsAreKnown, At, Tickets
  <1>2. OneCreationPending'
    BY DEF TicketInv, OneCreationPending, At, Tickets
  <1>3. OneCodePerTransaction'
    BY DEF TicketInv, OneCodePerTransaction, Tickets
  <1> QED
    BY <1>1, <1>2, <1>3 DEF TicketInv

(* Code updates that keep the sign-in keep what came of a transaction.      *)
LEMMA SameCodesFrom ==
  ASSUME NEW x,
         \A c \in Codes : /\ code'[c].signIn = code[c].signIn
                          /\ code[c].state = "unused" <=> code'[c].state = "unused"
  PROVE  CodesFrom(x)' = CodesFrom(x)
  BY DEF CodesFrom

(* A ticket that is issued names itself in its sign-in; a transaction that  *)
(* was never issued has no handler and no code.                             *)
LEMMA StartKeepsTicketInv ==
  ASSUME TypeOK, TicketInv, NEW s \in SignIn, Start(s)
  PROVE  TicketInv'
  <1>1. PICK t \in Tickets :
          /\ ticket[t].state = "unused" /\ s.origin = t
          /\ ticket' = [ticket EXCEPT ![t] = [state |-> "pending", signIn |-> s]]
          /\ UNCHANGED <<code, handler, grants>>
    BY DEF Start, StartSocialSignIn, StartAuthorization, Tickets
  <1>2. /\ ticket'[t].state = "pending" /\ ticket'[t].signIn.origin = t
        /\ \A u \in Tickets : u # t => ticket'[u] = ticket[u]
    BY <1>1 DEF TypeOK
  <1>3. \A x \in Transactions : CodesFrom(x)' = CodesFrom(x)
    BY <1>1 DEF CodesFrom
  <1>4. OriginsAreKnown'
    BY <1>1, <1>2 DEF TicketInv, OriginsAreKnown, At, Tickets
  <1>5. OneCreationPending'
    BY <1>1, <1>2, <1>3 DEF TicketInv, OneCreationPending, At, Tickets
  <1>6. OneCodePerTransaction'
    BY <1>1, <1>2, <1>3 DEF TicketInv, OneCodePerTransaction, Tickets
  <1> QED
    BY <1>4, <1>5, <1>6 DEF TicketInv

(* Requests read a ticket; one without a ticket is not about a transaction. *)
LEMMA ReceiveKeepsTicketInv ==
  ASSUME TypeOK, TicketInv, NEW p \in Handlers, Receive(p)
  PROVE  TicketInv'
  <1>1. UNCHANGED <<ticket, code, grants>>
    BY DEF Receive, SocialCallback, SignInDirectly, ResolveConsent,
      ExchangeMobileAuthCode, ExchangeAuthorizationCode
  <1>2. \A x \in Transactions : CodesFrom(x)' = CodesFrom(x)
    BY <1>1, SameCodesFrom
  <1>3. CASE \E x \in Transactions : SocialCallback(p, x)
    <2>1. PICK x \in Transactions : SocialCallback(p, x)
      BY <1>3
    <2>2. [NoSignIn EXCEPT !.origin = x].origin = x
      BY NullRecords DEF SignIn
    <2>3. /\ handler'[p].at = "callback.consume" /\ handler'[p].signIn.origin = x
          /\ ticket[x].state # "unused"
          /\ \A q \in Handlers : q # p => handler'[q] = handler[q]
      BY <2>1, <2>2 DEF TypeOK, SocialCallback, Begin
    <2> QED
      BY <1>1, <1>2, <2>3 DEF TicketInv, OriginsAreKnown, OneCreationPending,
        OneCodePerTransaction, At
  <1>4. CASE \E s \in SignIn : SignInDirectly(p, s)
    <2>1. \A q \in Handlers :
            \/ handler'[q] = handler[q]
            \/ handler'[q].at = "create" /\ handler'[q].signIn.origin = None
      BY <1>4 DEF TypeOK, SignInDirectly, Begin
    <2>2. None \notin Transactions
      BY ConstantsAssumption DEF Tickets
    <2> QED
      BY <1>1, <1>2, <2>1, <2>2, TicketInvKept
  <1>5. CASE \E k \in Consents, user \in Parties, approve \in BOOLEAN :
               ResolveConsent(p, k, user, approve)
    <2>1. PICK k \in Consents, user \in Parties, approve \in BOOLEAN :
               ResolveConsent(p, k, user, approve)
      BY <1>5
    <2>2. /\ handler'[p].at \in {"consent.approve", "consent.refuse"}
          /\ handler'[p].signIn.origin = k
          /\ \A q \in Handlers : q # p => handler'[q] = handler[q]
      BY <2>1 DEF TypeOK, ResolveConsent, Begin, TicketInv, OriginsAreKnown, Tickets
    <2> QED
      BY <1>1, <1>2, <2>2 DEF TicketInv, OriginsAreKnown, OneCreationPending,
        OneCodePerTransaction, At
  <1>6. CASE \E c \in Codes, a \in Parties :
               ExchangeMobileAuthCode(p, c, a) \/ ExchangeAuthorizationCode(p, c, a)
    <2>1. \A q \in Handlers :
            handler'[q] = handler[q] \/ handler'[q].at \in {"mobile.consume", "oauth.mark"}
      BY <1>6 DEF TypeOK, ExchangeMobileAuthCode, ExchangeAuthorizationCode, Begin
    <2> QED
      BY <1>1, <1>2, <2>1, TicketInvKept
  <1> QED
    BY <1>3, <1>4, <1>5, <1>6 DEF Receive

(* GETDEL: whoever finds the transaction has it to itself.                  *)
LEMMA ConsumeKeepsTicketInv ==
  ASSUME TypeOK, TicketInv, NEW p \in Handlers, ConsumeTransaction(p)
  PROVE  TicketInv'
  <1> DEFINE x == handler[p].signIn.origin
  <1>1. x \in Transactions /\ x \in Tickets /\ ticket[x].state # "unused"
    BY DEF ConsumeTransaction, TicketInv, OriginsAreKnown, Tickets
  <1>2. /\ ticket'[x].state = "gone" /\ UNCHANGED <<code, grants>>
        /\ \A t \in Tickets : t # x => ticket'[t] = ticket[t]
    BY <1>1 DEF TypeOK, TicketRow, ConsumeTransaction
  <1>3. \A y \in Transactions : CodesFrom(y)' = CodesFrom(y)
    BY <1>2, SameCodesFrom
  <1>4. CASE Finish(p)
    BY <1>1, <1>2, <1>3, <1>4, HandlerMoves, TicketInvKept DEF TypeOK
  <1>5. CASE ~Finish(p)
    <2>1. /\ ticket[x].state = "pending" /\ ticket[x].signIn.origin = x
          /\ handler'[p].at = "create" /\ handler'[p].signIn.origin = x
          /\ \A q \in Handlers : q # p => handler'[q] = handler[q]
      BY <1>1, <1>5 DEF ConsumeTransaction, TypeOK, TicketInv, OriginsAreKnown
    <2>2. \A q \in Handlers : At(q, "create") => handler[q].signIn.origin # x
      BY <1>1, <2>1 DEF TicketInv, OneCreationPending
    <2>3. OriginsAreKnown'
      BY <1>2, <2>1 DEF TicketInv, OriginsAreKnown, At, Tickets
    <2>4. OneCreationPending'
      <3>1. CodesFrom(x)' = {}
        BY <1>1, <1>3, <2>1 DEF TicketInv, OneCodePerTransaction
      <3>2. \A q \in Handlers : q # p /\ At(q, "create")' =>
              At(q, "create") /\ handler'[q] = handler[q] /\ handler[q].signIn.origin # x
        BY <2>1, <2>2 DEF At
      <3> QED
        BY <1>2, <1>3, <2>1, <3>1, <3>2 DEF TicketInv, OneCreationPending, Tickets
    <2>5. OneCodePerTransaction'
      BY <1>2, <1>3 DEF TicketInv, OneCodePerTransaction, Tickets
    <2> QED
      BY <2>3, <2>4, <2>5 DEF TicketInv
  <1> QED
    BY <1>4, <1>5

(* A consent ticket is not a transaction.                                   *)
LEMMA DeleteConsentKeepsTicketInv ==
  ASSUME TypeOK, TicketInv, NEW p \in Handlers, DeleteConsent(p)
  PROVE  TicketInv'
  <1> DEFINE k == handler[p].signIn.origin
  <1>1. k \in Consents /\ k \in Tickets /\ k \notin Transactions
    BY ConstantsAssumption DEF DeleteConsent, TicketInv, OriginsAreKnown, Tickets
  <1>2. /\ ticket'[k].state = "gone" /\ UNCHANGED <<code, grants>>
        /\ \A t \in Tickets : t # k => ticket'[t] = ticket[t]
    BY <1>1 DEF TypeOK, TicketRow, DeleteConsent
  <1>3. \A y \in Transactions : CodesFrom(y)' = CodesFrom(y)
    BY <1>2, SameCodesFrom
  <1>4. /\ \/ handler'[p].at = "idle"
           \/ handler'[p].at = "create" /\ handler'[p].signIn.origin = k
        /\ \A q \in Handlers : q # p => handler'[q] = handler[q]
    <2>1. Finish(p) \/ Goto(p, "create")
      BY DEF DeleteConsent
    <2>2. CASE Finish(p)
      BY <2>2, HandlerMoves DEF TypeOK
    <2>3. CASE Goto(p, "create")
      BY <2>3, HandlerMoves DEF TypeOK, Awaits
    <2> QED
      BY <2>1, <2>2, <2>3
  <1>5. OriginsAreKnown'
    BY <1>1, <1>2, <1>4 DEF TicketInv, OriginsAreKnown, At, Tickets
  <1>6. OneCreationPending'
    BY <1>1, <1>2, <1>3, <1>4 DEF TicketInv, OneCreationPending, At, Tickets
  <1>7. OneCodePerTransaction'
    BY <1>1, <1>2, <1>3 DEF TicketInv, OneCodePerTransaction, Tickets
  <1> QED
    BY <1>5, <1>6, <1>7 DEF TicketInv

(* The code a handler creates is its transaction's first and only one.      *)
LEMMA CreateCodeKeepsTicketInv ==
  ASSUME TypeOK, TicketInv, NEW p \in Handlers, CreateCode(p)
  PROVE  TicketInv'
  <1>0. PICK o : o = handler[p].signIn.origin
    OBVIOUS
  <1>1. PICK c \in Codes :
          /\ code[c].state = "unused"
          /\ code' = [code EXCEPT ![c] =
               [state |-> "open", expired |-> FALSE, signIn |-> handler[p].signIn]]
    BY DEF CreateCode
  <1>2. /\ \A d \in Codes : d # c => code'[d] = code[d]
        /\ code'[c].state = "open" /\ code'[c].signIn.origin = o
        /\ UNCHANGED ticket
        /\ handler'[p].at = "idle"
        /\ \A q \in Handlers : q # p => handler'[q] = handler[q]
    BY <1>0, <1>1, HandlerMoves DEF CreateCode, TypeOK
  <1>3. /\ \A x \in Transactions : x # o => CodesFrom(x)' = CodesFrom(x)
        /\ CodesFrom(o)' = CodesFrom(o) \cup {c}
    BY <1>1, <1>2 DEF CodesFrom
  <1>4. o \in Transactions => /\ ticket[o].state = "gone" /\ CodesFrom(o) = {}
                             /\ \A q \in Handlers : q # p /\ At(q, "create")
                                                   => handler[q].signIn.origin # o
    BY <1>0 DEF CreateCode, TicketInv, OneCreationPending, At
  <1>5. OriginsAreKnown'
    BY <1>2 DEF TicketInv, OriginsAreKnown, At
  <1>6. OneCreationPending'
    BY <1>2, <1>3, <1>4 DEF TicketInv, OneCreationPending, At
  <1>7. OneCodePerTransaction'
    BY <1>2, <1>3, <1>4 DEF TicketInv, OneCodePerTransaction
  <1> QED
    BY <1>5, <1>6, <1>7 DEF TicketInv

----------------------------------------------------------------------------
(* The invariant *)

(* Requests in the code table: reading a row or none                        *)
LEMMA ReceiveKeepsCodeInv ==
  ASSUME TypeOK, CodeInv, NEW p \in Handlers, Receive(p)
  PROVE  CodeInv'
  <1>1. CASE \E c \in Codes, a \in Parties :
               ExchangeMobileAuthCode(p, c, a) \/ ExchangeAuthorizationCode(p, c, a)
    BY <1>1, ExchangeKeepsCodeInv
  <1>2. CASE \/ \E x \in Transactions : SocialCallback(p, x)
             \/ \E s \in SignIn : SignInDirectly(p, s)
             \/ \E k \in Consents, user \in Parties, approve \in BOOLEAN :
                  ResolveConsent(p, k, user, approve)
    <2>1. /\ UNCHANGED <<code, grants>>
          /\ \A q \in Handlers :
               \/ handler'[q] = handler[q]
               \/ handler'[q].at \in
                    {"callback.consume", "create", "consent.approve", "consent.refuse"}
      BY <1>2 DEF TypeOK, SocialCallback, SignInDirectly, ResolveConsent, Begin
    <2> QED
      BY <2>1, CodeInvKept
  <1> QED
    BY <1>1, <1>2 DEF Receive

(* Every step of a handler keeps what is known of the codes.                *)
LEMMA ContinueKeepsCodeInv ==
  ASSUME TypeOK, CodeInv, NEW p \in Handlers, Continue(p)
  PROVE  CodeInv'
  <1>1. CASE ConsumeTransaction(p)
    <2>1. /\ UNCHANGED <<code, grants>> /\ handler'[p].at \in {"create", "idle"}
          /\ \A q \in Handlers : q # p => handler'[q] = handler[q]
      BY <1>1, HandlerMoves DEF TypeOK, ConsumeTransaction
    <2> QED
      BY <2>1, CodeInvKept
  <1>2. CASE DeleteConsent(p)
    <2>1. Finish(p) \/ Goto(p, "create")
      BY <1>2 DEF DeleteConsent
    <2>2. /\ handler'[p].at \in {"create", "idle"}
          /\ \A q \in Handlers : q # p => handler'[q] = handler[q]
      <3>1. CASE Finish(p)
        BY <3>1, HandlerMoves DEF TypeOK
      <3>2. CASE Goto(p, "create")
        BY <3>2, HandlerMoves DEF TypeOK, Awaits
      <3> QED
        BY <2>1, <3>1, <3>2
    <2> QED
      BY <1>2, <2>2, CodeInvKept DEF DeleteConsent
  <1>3. CASE CreateCode(p)
    BY <1>3, CreateCodeKeepsCodeInv
  <1>4. CASE ConsumeMobileCode(p)
    BY <1>4, ConsumeKeepsCodeInv
  <1>5. CASE ReleaseSession(p)
    BY <1>5, ReleaseKeepsCodeInv
  <1>6. CASE MarkCodeUsed(p)
    <2> DEFINE c == handler[p].code
    <2>1. c \in Codes /\ code[c].state # "unused" /\ code[c].signIn.kind = "oauth"
      BY <1>6 DEF MarkCodeUsed, CodeInv, HandlersKnowTheirCode
    <2>2. Finish(p) \/ Goto(p, "oauth.tokens")
      BY <1>6 DEF MarkCodeUsed
    <2>3. /\ \/ handler'[p].at = "idle"
             \/ handler'[p].at = "oauth.tokens" /\ handler'[p].code = c
          /\ \A q \in Handlers : q # p => handler'[q] = handler[q]
      <3>1. CASE Finish(p)
        BY <3>1, HandlerMoves DEF TypeOK
      <3>2. CASE Goto(p, "oauth.tokens")
        BY <3>2, HandlerMoves DEF TypeOK, Awaits
      <3> QED
        BY <2>2, <3>1, <3>2
    <2>4. code' = code \/ code' = [code EXCEPT ![c].state = "used"]
      BY <1>6 DEF MarkCodeUsed
    <2>5. \A d \in Codes :
            /\ code'[d].signIn = code[d].signIn
            /\ code[d].state = "unused" <=> code'[d].state = "unused"
            /\ code'[d].signIn.kind = "mobile" => code'[d].state = code[d].state
      BY <2>1, <2>4 DEF TypeOK, CodeRow
    <2>6. UNCHANGED grants /\ At(p, "oauth.mark")
      BY <1>6 DEF MarkCodeUsed
    <2> QED
      BY <2>3, <2>5, <2>6, CodeUpdatesKeepCodeInv
  <1>7. CASE CreateTokens(p)
    BY <1>7, TokensKeepCodeInv
  <1> QED
    BY <1>1, <1>2, <1>3, <1>4, <1>5, <1>6, <1>7 DEF Continue

(* Erasing an account and time change rows and keep their sign-in.          *)
LEMMA DeletionAndExpiry ==
  ASSUME TypeOK,
         \/ \E a \in Parties : DeleteCodesOf(a)
         \/ \E c \in Codes : ExpireCode(c)
  PROVE  /\ UNCHANGED <<ticket, handler, grants>>
         /\ \A c \in Codes :
              /\ code'[c].signIn = code[c].signIn
              /\ code[c].state = "unused" <=> code'[c].state = "unused"
              /\ code'[c].signIn.kind = "mobile" => code'[c].state = code[c].state
  <1>1. ASSUME NEW a \in Parties, DeleteCodesOf(a)
        PROVE  \A c \in Codes :
              /\ code'[c].signIn = code[c].signIn
              /\ code[c].state = "unused" <=> code'[c].state = "unused"
              /\ code'[c].signIn.kind = "mobile" => code'[c].state = code[c].state
    <2> TAKE c \in Codes
    <2>1. \/ code'[c] = code[c]
          \/ /\ code'[c] = [code[c] EXCEPT !.state = "deleted"]
             /\ code[c].state # "unused" /\ code[c].signIn.kind = "oauth"
      BY <1>1 DEF DeleteCodesOf
    <2>2. code[c] \in CodeRow
      BY DEF TypeOK
    <2> QED
      BY <2>1, <2>2 DEF CodeRow
  <1>2. ASSUME NEW d \in Codes, ExpireCode(d)
        PROVE  \A c \in Codes :
              code'[c].signIn = code[c].signIn /\ code'[c].state = code[c].state
    BY <1>2 DEF ExpireCode, TypeOK, CodeRow
  <1> QED
    BY <1>1, <1>2 DEF DeleteCodesOf, ExpireCode

LEMMA StepInv == IInv /\ [Next]_vars => IInv'
  <1> SUFFICES ASSUME TypeOK, CodeInv, TicketInv, [Next]_vars
               PROVE  CodeInv' /\ TicketInv'
    BY StepType DEF IInv
  <1>1. ASSUME NEW s \in SignIn, Start(s) PROVE CodeInv' /\ TicketInv'
    <2>1. UNCHANGED <<code, handler, grants>>
      BY <1>1 DEF Start, StartSocialSignIn, StartAuthorization
    <2> QED
      BY <1>1, <2>1, CodeInvKept, StartKeepsTicketInv
  <1>2. ASSUME NEW p \in Handlers, Receive(p) PROVE CodeInv' /\ TicketInv'
    BY <1>2, ReceiveKeepsCodeInv, ReceiveKeepsTicketInv
  <1>3. ASSUME NEW p \in Handlers, Continue(p) PROVE CodeInv' /\ TicketInv'
    <2>1. CASE ConsumeTransaction(p)
      BY <1>3, <2>1, ContinueKeepsCodeInv, ConsumeKeepsTicketInv
    <2>2. CASE DeleteConsent(p)
      BY <1>3, <2>2, ContinueKeepsCodeInv, DeleteConsentKeepsTicketInv
    <2>3. CASE CreateCode(p)
      BY <1>3, <2>3, ContinueKeepsCodeInv, CreateCodeKeepsTicketInv
    <2>4. CASE ConsumeMobileCode(p) \/ ReleaseSession(p) \/ MarkCodeUsed(p) \/ CreateTokens(p)
      <3>1. /\ UNCHANGED ticket
            /\ handler'[p].at \in {"idle", "mobile.release", "oauth.tokens"}
            /\ \A q \in Handlers : q # p => handler'[q] = handler[q]
        <4>1. \/ Finish(p) \/ Goto(p, "mobile.release") \/ Goto(p, "oauth.tokens")
          BY <2>4 DEF ConsumeMobileCode, ReleaseSession, MarkCodeUsed, CreateTokens
        <4>2. UNCHANGED ticket
          BY <2>4 DEF ConsumeMobileCode, ReleaseSession, MarkCodeUsed, CreateTokens
        <4>3. CASE Finish(p)
          BY <4>2, <4>3, HandlerMoves DEF TypeOK
        <4>4. CASE Goto(p, "mobile.release")
          BY <4>2, <4>4, HandlerMoves DEF TypeOK, Awaits
        <4>5. CASE Goto(p, "oauth.tokens")
          BY <4>2, <4>5, HandlerMoves DEF TypeOK, Awaits
        <4> QED
          BY <4>1, <4>3, <4>4, <4>5
      <3>2. \A c \in Codes : /\ code'[c].signIn = code[c].signIn
                             /\ code[c].state = "unused" <=> code'[c].state = "unused"
        <4>1. \/ UNCHANGED code
              \/ /\ code' = [code EXCEPT ![handler[p].code].state = "used"]
                 /\ handler[p].code \in Codes /\ code[handler[p].code].state # "unused"
          BY <2>4 DEF ConsumeMobileCode, ReleaseSession, MarkCodeUsed, CreateTokens,
            CodeInv, HandlersKnowTheirCode, MobileCodes
        <4> QED
          BY <4>1 DEF TypeOK, CodeRow
      <3>3. \A x \in Transactions : CodesFrom(x)' = CodesFrom(x)
        BY <3>2, SameCodesFrom
      <3> QED
        BY <1>3, <3>1, <3>3, ContinueKeepsCodeInv, TicketInvKept
    <2> QED
      BY <1>3, <2>1, <2>2, <2>3, <2>4 DEF Continue
  <1>4. ASSUME NEW p \in Handlers, Crash(p) PROVE CodeInv' /\ TicketInv'
    <2>1. /\ UNCHANGED <<ticket, code, grants>> /\ handler'[p].at = "idle"
          /\ \A q \in Handlers : q # p => handler'[q] = handler[q]
      BY <1>4, HandlerMoves DEF TypeOK, Crash
    <2>2. \A x \in Transactions : CodesFrom(x)' = CodesFrom(x)
      BY <2>1, SameCodesFrom
    <2> QED
      BY <2>1, <2>2, CodeInvKept, TicketInvKept
  <1>5. CASE \/ \E a \in Parties : DeleteCodesOf(a)
             \/ \E c \in Codes : ExpireCode(c)
    <2>1. \A x \in Transactions : CodesFrom(x)' = CodesFrom(x)
      BY <1>5, DeletionAndExpiry, SameCodesFrom
    <2> QED
      BY <1>5, <2>1, DeletionAndExpiry, CodeUpdatesKeepCodeInv, TicketInvKept
  <1>6. ASSUME NEW t \in Tickets, ExpireTicket(t) PROVE CodeInv' /\ TicketInv'
    <2>1. /\ UNCHANGED <<code, handler, grants>>
          /\ ticket[t].state = "pending" /\ ticket'[t].state = "gone"
          /\ \A u \in Tickets : u # t => ticket'[u] = ticket[u]
      BY <1>6 DEF TypeOK, TicketRow, ExpireTicket
    <2>2. \A x \in Transactions : CodesFrom(x)' = CodesFrom(x)
      BY <2>1, SameCodesFrom
    <2> QED
      BY <2>1, <2>2, CodeInvKept, TicketInvKept
  <1>7. CASE UNCHANGED vars
    <2>1. \A x \in Transactions : CodesFrom(x)' = CodesFrom(x)
      BY <1>7, SameCodesFrom DEF vars
    <2> QED
      BY <1>7, <2>1, CodeInvKept, TicketInvKept DEF vars
  <1> QED
    BY <1>1, <1>2, <1>3, <1>4, <1>5, <1>6, <1>7 DEF Next

(* The invariant holds throughout: whatever overlaps, dies or expires.      *)
THEOREM InvCorrect == Spec => []IInv
  BY InitInv, StepInv, PTL DEF Spec

(* Rows, tickets and handlers keep their types.                             *)
THEOREM TypeCorrect == Spec => []TypeOK
  BY InvCorrect, PTL DEF IInv

(* A social sign-in of a mobile application ends in one session at most, in *)
(* any interleaving of callbacks and exchanges.                             *)
THEOREM OneSession == Spec => []OneSessionPerSocialSignIn
  <1>1. IInv => OneSessionPerSocialSignIn
    <2> SUFFICES ASSUME IInv, NEW x \in Transactions, NEW c \in CodesFrom(x),
                        NEW d \in CodesFrom(x), code[c].signIn.kind = "mobile", grants[c] > 0
                 PROVE  grants[c] = 1 /\ d = c
      BY DEF OneSessionPerSocialSignIn
    <2>1. c \in MobileCodes /\ c \in Codes
      BY DEF MobileCodes, CodesFrom
    <2>2. grants[c] \in Nat /\ grants[c] <= 1
      BY <2>1 DEF IInv, TypeOK, CodeInv, UnusedCodesAreIntact
    <2>3. d = c
      BY DEF IInv, TicketInv, OneCodePerTransaction
    <2> QED
      BY <2>2, <2>3
  <1> QED
    BY <1>1, InvCorrect, PTL

----------------------------------------------------------------------------
(* Refinement *)

(* What a step may do to the mobile codes                                   *)
LEMMA MobileStep ==
  ASSUME IInv, [Next]_vars
  PROVE  [MobileTickets!Next]_MobileTickets!vars
  <1> DEFINE bought(c) == IF c \in MobileCodes THEN grants[c] ELSE 0
             same == MobileCodes' = MobileCodes /\ \A c \in Codes : bought(c)' = bought(c)
  <1>1. same => UNCHANGED MobileTickets!vars
    BY DEF MobileTickets!vars
  <1>2. UNCHANGED <<code, grants>> => same
    BY DEF MobileCodes
  <1>3. CASE UNCHANGED <<code, grants>>
    BY <1>1, <1>2, <1>3
  <1>4. ASSUME NEW p \in Handlers, CreateCode(p)
        PROVE  [MobileTickets!Next]_MobileTickets!vars
    <2>1. PICK c \in Codes :
            /\ code[c].state = "unused"
            /\ code' = [code EXCEPT ![c] =
                 [state |-> "open", expired |-> FALSE, signIn |-> handler[p].signIn]]
      BY <1>4 DEF CreateCode
    <2>2. /\ \A d \in Codes : d # c => code'[d] = code[d]
          /\ code'[c].state = "open" /\ c \notin MobileCodes
          /\ UNCHANGED grants /\ grants[c] = 0
      BY <1>4, <2>1 DEF CreateCode, IInv, TypeOK, CodeInv, UnusedCodesAreIntact, MobileCodes
    <2>3. CASE code'[c].signIn.kind # "mobile"
      <3>1. MobileCodes' = MobileCodes
        BY <2>2, <2>3 DEF MobileCodes
      <3> QED
        BY <1>1, <2>2, <3>1
    <2>4. CASE code'[c].signIn.kind = "mobile"
      <3>1. MobileCodes' = MobileCodes \cup {c}
        BY <2>2, <2>4 DEF MobileCodes
      <3>2. \A d \in Codes : bought(d)' = bought(d)
        BY <2>2, <3>1
      <3>3. MobileTickets!Issue(c)
        BY <2>2, <3>1, <3>2 DEF MobileTickets!Issue
      <3> QED
        BY <3>3 DEF MobileTickets!Next
    <2> QED
      BY <2>3, <2>4
  <1>5. ASSUME NEW p \in Handlers, ReleaseSession(p)
        PROVE  [MobileTickets!Next]_MobileTickets!vars
    <2>0. PICK c : c = handler[p].code
      OBVIOUS
    <2>1. c \in MobileCodes /\ c \in Codes /\ grants[c] = 0
      BY <1>5, <2>0 DEF ReleaseSession, IInv, CodeInv, HandlersKnowTheirCode,
        OneReleasePending, MobileCodes
    <2>2. MobileCodes' = MobileCodes /\ grants' = [grants EXCEPT ![c] = 1]
      BY <1>5, <2>0, <2>1 DEF ReleaseSession, MobileCodes
    <2>3. [d \in Codes |-> bought(d)]' = [[d \in Codes |-> bought(d)] EXCEPT ![c] = 1]
      BY <2>1, <2>2 DEF IInv, TypeOK
    <2>4. MobileTickets!Grant(c)
      BY <2>1, <2>2, <2>3 DEF MobileTickets!Grant
    <2> QED
      BY <2>1, <2>4 DEF MobileTickets!Next
  <1>6. ASSUME NEW p \in Handlers, CreateTokens(p)
        PROVE  [MobileTickets!Next]_MobileTickets!vars
    <2>1. handler[p].code \notin MobileCodes /\ UNCHANGED code
      BY <1>6 DEF CreateTokens, IInv, CodeInv, HandlersKnowTheirCode, MobileCodes
    <2>2. MobileCodes' = MobileCodes
      BY <2>1 DEF MobileCodes
    <2>3. \A c \in Codes : c # handler[p].code => grants'[c] = grants[c]
      BY <1>6 DEF CreateTokens, IInv, TypeOK
    <2> QED
      BY <1>1, <2>1, <2>2, <2>3
  <1>7. ASSUME NEW p \in Handlers, ConsumeMobileCode(p) \/ MarkCodeUsed(p)
        PROVE  [MobileTickets!Next]_MobileTickets!vars
    <2>1. /\ UNCHANGED grants
          /\ \/ UNCHANGED code
             \/ /\ code' = [code EXCEPT ![handler[p].code].state = "used"]
                /\ handler[p].code \in Codes /\ code[handler[p].code].state # "unused"
      BY <1>7 DEF ConsumeMobileCode, MarkCodeUsed, IInv, CodeInv, HandlersKnowTheirCode,
        MobileCodes
    <2>2. MobileCodes' = MobileCodes
      BY <2>1 DEF IInv, TypeOK, CodeRow, MobileCodes
    <2> QED
      BY <1>1, <2>1, <2>2
  <1>8. CASE \/ \E a \in Parties : DeleteCodesOf(a)
             \/ \E c \in Codes : ExpireCode(c)
    <2>1. UNCHANGED grants /\ MobileCodes' = MobileCodes
      BY <1>8, DeletionAndExpiry DEF IInv, MobileCodes
    <2> QED
      BY <1>1, <2>1
  <1> QED
    BY <1>3, <1>4, <1>5, <1>6, <1>7, <1>8 DEF Next, Start, StartSocialSignIn,
      StartAuthorization, Receive, SocialCallback, SignInDirectly, ResolveConsent,
      ExchangeMobileAuthCode, ExchangeAuthorizationCode, Continue, ConsumeTransaction,
      DeleteConsent, Crash, ExpireTicket, vars

(* exchangeMobileAuthCode implements a one-time ticket: any number of       *)
(* exchanges of a code, overlapping or retried after a crash, release its   *)
(* session at most once.                                                    *)
THEOREM MobileCodesImplementSingleUse == Spec => MobileCodesAreSingleUse
  <1>1. Init => MobileTickets!Init
    BY DEF Init, MobileTickets!Init, MobileCodes
  <1>2. IInv /\ [Next]_vars => [MobileTickets!Next]_MobileTickets!vars
    BY MobileStep
  <1> QED
    BY <1>1, <1>2, InvCorrect, PTL DEF Spec, MobileCodesAreSingleUse, MobileTickets!Spec

(* A step that leaves tickets and codes-by-origin alone is a stutter; the   *)
(* others issue a transaction or create its code.                           *)
LEMMA TransactionStep ==
  ASSUME IInv, IInv', [Next]_vars
  PROVE  [TransactionTickets!Next]_TransactionTickets!vars
  <1> DEFINE drawn(x) == Cardinality(CodesFrom(x))
             begun == {x \in Transactions : ticket[x].state # "unused"}
  <1>1. ASSUME begun' = begun, \A x \in Transactions : CodesFrom(x)' = CodesFrom(x)
        PROVE  UNCHANGED TransactionTickets!vars
    <2>1. \A x \in Transactions : drawn(x)' = drawn(x)
      BY <1>1
    <2> QED
      BY <1>1, <2>1 DEF TransactionTickets!vars
  <1>2. ASSUME NEW s \in SignIn, NEW x \in Transactions, StartSocialSignIn(x, s)
        PROVE  TransactionTickets!Next
    <2>1. /\ ticket[x].state = "unused" /\ ticket'[x].state = "pending"
          /\ \A t \in Tickets : t # x => ticket'[t] = ticket[t]
      BY <1>2 DEF StartSocialSignIn, IInv, TypeOK, Tickets
    <2>2. begun' = begun \cup {x} /\ x \notin begun
      BY <2>1 DEF Tickets
    <2>3. \A y \in Transactions : CodesFrom(y)' = CodesFrom(y)
      BY <1>2, SameCodesFrom DEF StartSocialSignIn
    <2>4. \A y \in Transactions : drawn(y)' = drawn(y)
      BY <2>3
    <2> QED
      BY <2>2, <2>4 DEF TransactionTickets!Next, TransactionTickets!Issue
  <1>3. ASSUME NEW s \in SignIn, NEW k \in Consents, StartAuthorization(k, s)
        PROVE  UNCHANGED TransactionTickets!vars
    <2>1. \A x \in Transactions : ticket'[x] = ticket[x]
      BY <1>3, ConstantsAssumption DEF StartAuthorization, IInv, TypeOK, Tickets
    <2>2. \A y \in Transactions : CodesFrom(y)' = CodesFrom(y)
      BY <1>3, SameCodesFrom DEF StartAuthorization
    <2> QED
      BY <1>1, <2>1, <2>2
  <1>4. ASSUME NEW p \in Handlers, CreateCode(p)
        PROVE  [TransactionTickets!Next]_TransactionTickets!vars
    <2>0. PICK o : o = handler[p].signIn.origin
      OBVIOUS
    <2>1. PICK c \in Codes :
            /\ code[c].state = "unused"
            /\ code' = [code EXCEPT ![c] =
                 [state |-> "open", expired |-> FALSE, signIn |-> handler[p].signIn]]
      BY <1>4 DEF CreateCode
    <2>2. /\ \A d \in Codes : d # c => code'[d] = code[d]
          /\ code'[c].state = "open" /\ code'[c].signIn.origin = o
          /\ UNCHANGED ticket /\ begun' = begun
      BY <1>4, <2>0, <2>1 DEF CreateCode, IInv, TypeOK
    <2>3. /\ \A x \in Transactions : x # o => CodesFrom(x)' = CodesFrom(x)
          /\ CodesFrom(o)' = CodesFrom(o) \cup {c}
      BY <2>1, <2>2 DEF CodesFrom
    <2>4. CASE o \notin Transactions
      BY <1>1, <2>2, <2>3, <2>4
    <2>5. CASE o \in Transactions
      <3>1. CodesFrom(o) = {} /\ ticket[o].state = "gone"
        BY <1>4, <2>0, <2>5 DEF CreateCode, IInv, TicketInv, OneCreationPending
      <3>2. CodesFrom(o)' = {c}
        BY <2>3, <3>1
      <3>3. drawn(o) = 0 /\ Cardinality(CodesFrom(o)') = 1
        BY <3>1, <3>2, FS_EmptySet, FS_Singleton
      <3>4. \A x \in Transactions : x # o => Cardinality(CodesFrom(x)') = drawn(x)
        BY <2>3
      <3>5. [x \in Transactions |-> Cardinality(CodesFrom(x)')]
              = [[x \in Transactions |-> drawn(x)] EXCEPT ![o] = 1]
        BY <2>5, <3>3, <3>4
      <3>6. o \in begun
        BY <2>5, <3>1
      <3>7. TransactionTickets!Grant(o)
        BY <2>2, <2>5, <3>3, <3>5, <3>6 DEF TransactionTickets!Grant
      <3> QED
        BY <2>5, <3>7 DEF TransactionTickets!Next
    <2> QED
      BY <2>4, <2>5
  <1>5. ASSUME \A c \in Codes : /\ code'[c].signIn = code[c].signIn
                                /\ code[c].state = "unused" <=> code'[c].state = "unused",
               \A x \in Transactions :
                 ticket'[x].state = "unused" <=> ticket[x].state = "unused"
        PROVE  UNCHANGED TransactionTickets!vars
    <2>1. \A y \in Transactions : CodesFrom(y)' = CodesFrom(y)
      BY <1>5, SameCodesFrom
    <2> QED
      BY <1>1, <1>5, <2>1
  <1>6. ASSUME NEW p \in Handlers, ConsumeTransaction(p) \/ DeleteConsent(p)
        PROVE  UNCHANGED TransactionTickets!vars
    <2>1. /\ UNCHANGED code
          /\ ticket' = [ticket EXCEPT ![handler[p].signIn.origin].state = "gone"]
      BY <1>6 DEF ConsumeTransaction, DeleteConsent
    <2>2. \/ handler[p].signIn.origin \in Consents
          \/ /\ handler[p].signIn.origin \in Transactions
             /\ ticket[handler[p].signIn.origin].state # "unused"
      BY <1>6 DEF ConsumeTransaction, DeleteConsent, IInv, TicketInv, OriginsAreKnown
    <2>3. \A x \in Transactions :
            ticket'[x].state = "unused" <=> ticket[x].state = "unused"
      BY <2>1, <2>2, ConstantsAssumption DEF IInv, TypeOK, TicketRow, Tickets
    <2> QED
      BY <1>5, <2>1, <2>3
  <1>7. ASSUME NEW p \in Handlers,
               ConsumeMobileCode(p) \/ MarkCodeUsed(p) \/ ReleaseSession(p) \/ CreateTokens(p)
        PROVE  UNCHANGED TransactionTickets!vars
    <2>1. /\ UNCHANGED ticket
          /\ \/ UNCHANGED code
             \/ /\ code' = [code EXCEPT ![handler[p].code].state = "used"]
                /\ handler[p].code \in Codes /\ code[handler[p].code].state # "unused"
      BY <1>7 DEF ConsumeMobileCode, MarkCodeUsed, ReleaseSession, CreateTokens,
        IInv, CodeInv, HandlersKnowTheirCode, MobileCodes
    <2>2. \A c \in Codes : /\ code'[c].signIn = code[c].signIn
                           /\ code[c].state = "unused" <=> code'[c].state = "unused"
      BY <2>1 DEF IInv, TypeOK, CodeRow
    <2> QED
      BY <1>5, <2>1, <2>2
  <1>8. ASSUME \/ \E a \in Parties : DeleteCodesOf(a)
               \/ \E c \in Codes : ExpireCode(c)
        PROVE  UNCHANGED TransactionTickets!vars
    BY <1>5, <1>8, DeletionAndExpiry DEF IInv
  <1>9. ASSUME NEW t \in Tickets, ExpireTicket(t) PROVE UNCHANGED TransactionTickets!vars
    <2>1. \A x \in Transactions :
            ticket'[x].state = "unused" <=> ticket[x].state = "unused"
      BY <1>9 DEF ExpireTicket, IInv, TypeOK, TicketRow, Tickets
    <2> QED
      BY <1>5, <1>9, <2>1 DEF ExpireTicket
  <1>10. ASSUME UNCHANGED <<ticket, code>> PROVE UNCHANGED TransactionTickets!vars
    BY <1>5, <1>10
  <1>11. ASSUME NEW p \in Handlers, Receive(p) \/ Crash(p)
         PROVE  UNCHANGED <<ticket, code>>
    BY <1>11 DEF Receive, SocialCallback, SignInDirectly, ResolveConsent,
      ExchangeMobileAuthCode, ExchangeAuthorizationCode, Crash
  <1> QED
    BY <1>2, <1>3, <1>4, <1>6, <1>7, <1>8, <1>9, <1>10, <1>11
    DEF Next, Start, Continue, vars

(* consumeSocialAuthorizationTransaction implements a one-time ticket for a *)
(* code, however often and concurrently the callback arrives.               *)
THEOREM TransactionsImplementSingleUse == Spec => TransactionsAreSingleUse
  <1>1. Init => TransactionTickets!Init
    <2> SUFFICES ASSUME Init PROVE TransactionTickets!Init
      OBVIOUS
    <2>1. \A x \in Transactions : CodesFrom(x) = {} /\ ticket[x].state = "unused"
      BY DEF Init, CodesFrom, Tickets
    <2>2. \A x \in Transactions : Cardinality(CodesFrom(x)) = 0
      BY <2>1, FS_EmptySet
    <2> QED
      BY <2>1, <2>2 DEF TransactionTickets!Init
  <1>2. IInv /\ IInv' /\ [Next]_vars
          => [TransactionTickets!Next]_TransactionTickets!vars
    BY TransactionStep
  <1> QED
    BY <1>1, <1>2, InvCorrect, PTL
    DEF Spec, TransactionsAreSingleUse, TransactionTickets!Spec

----------------------------------------------------------------------------
(* How often a code is used: a place among the handlers is taken by each    *)
(* use, and none is given out once the code is marked.                      *)

Redeeming == {"mobile.consume", "mobile.release", "oauth.mark", "oauth.tokens"}

Untouched == {"unused", "open"}

Redeemers(c) == {p \in Handlers : handler[p].at \in Redeeming /\ handler[p].code = c}

UsesFit == \A c \in Codes : grants[c] + Cardinality(Redeemers(c)) <= Cardinality(Handlers)

UsesFollowMarks ==
  /\ \A c \in Codes : code[c].state \in Untouched => grants[c] = 0
  /\ \A p \in Handlers : At(p, "oauth.tokens") => code[handler[p].code].state \notin Untouched

OverlapInv == UsesFit /\ UsesFollowMarks

LEMMA RedeemersAreHandlers ==
  ASSUME IsFiniteSet(Handlers), NEW c
  PROVE  /\ IsFiniteSet(Redeemers(c)) /\ Cardinality(Redeemers(c)) \in Nat
         /\ Cardinality(Handlers) \in Nat
         /\ Cardinality(Redeemers(c)) <= Cardinality(Handlers)
         /\ IsFiniteSet(Redeemers(c)') /\ Cardinality(Redeemers(c)') \in Nat
         /\ Cardinality(Redeemers(c)') <= Cardinality(Handlers)
  <1>1. Redeemers(c) \subseteq Handlers /\ Redeemers(c)' \subseteq Handlers
    BY DEF Redeemers
  <1>2. QED
    BY <1>1, FS_Subset, FS_CardinalityType

(* No step makes a code untouched again.                                    *)
LEMMA MarksStay ==
  ASSUME IInv, [Next]_vars, NEW c \in Codes, code'[c].state \in Untouched
  PROVE  code[c].state \in Untouched
  <1>1. CASE UNCHANGED code
    BY <1>1
  <1>2. ASSUME NEW p \in Handlers, CreateCode(p) PROVE code[c].state \in Untouched
    <2>1. PICK d \in Codes :
            /\ code[d].state = "unused"
            /\ code' = [code EXCEPT ![d] =
                 [state |-> "open", expired |-> FALSE, signIn |-> handler[p].signIn]]
      BY <1>2 DEF CreateCode
    <2>2. QED
      BY <2>1 DEF IInv, TypeOK, Untouched
  <1>3. ASSUME NEW p \in Handlers, ConsumeMobileCode(p) \/ MarkCodeUsed(p)
        PROVE  code[c].state \in Untouched
    BY <1>3 DEF ConsumeMobileCode, MarkCodeUsed, IInv, TypeOK, CodeRow, Untouched
  <1>4. ASSUME NEW a \in Parties, DeleteCodesOf(a) PROVE code[c].state \in Untouched
    BY <1>4 DEF DeleteCodesOf, IInv, TypeOK, CodeRow, Untouched
  <1>5. ASSUME NEW d \in Codes, ExpireCode(d) PROVE code[c].state \in Untouched
    BY <1>5 DEF ExpireCode, IInv, TypeOK, CodeRow, Untouched
  <1>6. ASSUME NEW p \in Handlers, Receive(p) \/ Crash(p) PROVE UNCHANGED code
    BY <1>6 DEF Receive, SocialCallback, SignInDirectly, ResolveConsent,
      ExchangeMobileAuthCode, ExchangeAuthorizationCode, Crash
  <1>7. ASSUME NEW p \in Handlers, Continue(p) PROVE code[c].state \in Untouched
    BY <1>1, <1>2, <1>3, <1>7 DEF Continue, ConsumeTransaction, DeleteConsent, ReleaseSession,
      CreateTokens
  <1>8. ASSUME NEW signIn \in SignIn, Start(signIn) PROVE UNCHANGED code
    BY <1>8 DEF Start, StartSocialSignIn, StartAuthorization
  <1>9. ASSUME NEW t \in Tickets, ExpireTicket(t) PROVE UNCHANGED code
    BY <1>9 DEF ExpireTicket
  <1>10. QED
    BY <1>1, <1>4, <1>5, <1>6, <1>7, <1>8, <1>9 DEF Next, vars

(* A step that lets no handler begin to redeem and counts no use.           *)
LEMMA QuietUses ==
  ASSUME IsFiniteSet(Handlers), IInv, OverlapInv, [Next]_vars, UNCHANGED grants,
         \A q \in Handlers : handler'[q].at \in Redeeming =>
           /\ handler[q].at \in Redeeming /\ handler'[q].code = handler[q].code
           /\ handler'[q].at = "oauth.tokens" /\ handler[q].at # "oauth.tokens" =>
                code'[handler[q].code].state \notin Untouched
  PROVE  OverlapInv'
  <1>1. ASSUME NEW c \in Codes
        PROVE  grants'[c] + Cardinality(Redeemers(c)') <= Cardinality(Handlers)
    <2>1. Redeemers(c)' \subseteq Redeemers(c)
      BY DEF Redeemers
    <2>2. Cardinality(Redeemers(c)') <= Cardinality(Redeemers(c))
      BY <2>1, RedeemersAreHandlers, FS_Subset
    <2>3. grants[c] \in Nat /\ grants'[c] = grants[c]
          /\ grants[c] + Cardinality(Redeemers(c)) <= Cardinality(Handlers)
      BY DEF OverlapInv, UsesFit, IInv, TypeOK
    <2>4. QED
      BY <2>2, <2>3, RedeemersAreHandlers
  <1>2. \A c \in Codes : code'[c].state \in Untouched => grants'[c] = 0
    BY MarksStay DEF OverlapInv, UsesFollowMarks
  <1>3. ASSUME NEW p \in Handlers, handler'[p].at = "oauth.tokens"
        PROVE  code'[handler'[p].code].state \notin Untouched
    <2>1. handler'[p].code = handler[p].code /\ handler[p].at \in Redeeming
      BY <1>3 DEF Redeeming
    <2>2. handler[p].at = "oauth.tokens" => handler[p].code \in Codes
                                            /\ code[handler[p].code].state \notin Untouched
      BY DEF OverlapInv, UsesFollowMarks, At, IInv, CodeInv, HandlersKnowTheirCode
    <2>3. QED
      BY <1>3, <2>1, <2>2, MarksStay DEF Redeeming
  <1>4. QED
    BY <1>1, <1>2, <1>3 DEF OverlapInv, UsesFit, UsesFollowMarks, At

LEMMA FinishIsQuiet ==
  ASSUME IsFiniteSet(Handlers), IInv, OverlapInv, [Next]_vars, NEW p \in Handlers,
         Finish(p), UNCHANGED grants
  PROVE  OverlapInv'
  <1>1. /\ handler'[p].at = "idle"
        /\ \A q \in Handlers : q # p => handler'[q] = handler[q]
    BY HandlerMoves DEF IInv, TypeOK
  <1>2. QED
    BY <1>1, QuietUses DEF Redeeming

LEMMA ExchangeFits ==
  ASSUME IsFiniteSet(Handlers), IInv, OverlapInv, [Next]_vars, NEW p \in Handlers, NEW c \in Codes,
         NEW a \in {"mobile.consume", "oauth.mark"}, code[c].state = "open",
         Begin(p, a, code[c].signIn, c), UNCHANGED <<code, grants>>
  PROVE  OverlapInv'
  <1>1. /\ handler[p].at = "idle" /\ handler'[p].at = a /\ handler'[p].code = c
        /\ \A q \in Handlers : q # p => handler'[q] = handler[q]
    <2>1. code[c].signIn \in SignIn /\ a \in Awaits
      BY NewRows DEF IInv, TypeOK, Awaits
    <2>2. QED
      BY <2>1, HandlerMoves DEF Begin, At, IInv, TypeOK
  <1>2. ASSUME NEW d \in Codes
        PROVE  grants[d] + Cardinality(Redeemers(d)') <= Cardinality(Handlers)
    <2>1. CASE d = c
      <3>1. grants[d] = 0
        BY <2>1 DEF OverlapInv, UsesFollowMarks, Untouched
      <3>2. QED
        BY <3>1, RedeemersAreHandlers
    <2>2. CASE d # c
      <3>1. Redeemers(d)' = Redeemers(d)
        BY <1>1, <2>2 DEF Redeemers, Redeeming
      <3>2. QED
        BY <3>1 DEF OverlapInv, UsesFit
    <2>3. QED
      BY <2>1, <2>2
  <1>3. \A q \in Handlers : handler'[q].at = "oauth.tokens" => handler'[q] = handler[q]
    BY <1>1
  <1>4. QED
    BY <1>2, <1>3 DEF OverlapInv, UsesFit, UsesFollowMarks, At

(* A use gives up the place its handler had.                                *)
LEMMA UseFits ==
  ASSUME IsFiniteSet(Handlers), IInv, OverlapInv, NEW p \in Handlers, NEW c \in Codes,
         handler[p].code = c, handler[p].at \in Redeeming, code[c].state \notin Untouched,
         grants' = [grants EXCEPT ![c] = grants[c] + 1], Finish(p), UNCHANGED code
  PROVE  OverlapInv'
  <1>1. /\ handler'[p].at = "idle"
        /\ \A q \in Handlers : q # p => handler'[q] = handler[q]
    BY HandlerMoves DEF IInv, TypeOK
  <1>2. /\ grants[c] \in Nat /\ grants'[c] = grants[c] + 1
        /\ \A d \in Codes : d # c => grants'[d] = grants[d]
    BY DEF IInv, TypeOK
  <1>3. ASSUME NEW d \in Codes
        PROVE  grants'[d] + Cardinality(Redeemers(d)') <= Cardinality(Handlers)
    <2>1. grants[d] + Cardinality(Redeemers(d)) <= Cardinality(Handlers)
      BY DEF OverlapInv, UsesFit
    <2>2. CASE d = c
      <3>1. Redeemers(c)' = Redeemers(c) \ {p} /\ p \in Redeemers(c)
        BY <1>1 DEF Redeemers, Redeeming
      <3>2. Cardinality(Redeemers(c)') = Cardinality(Redeemers(c)) - 1
        BY <3>1, RedeemersAreHandlers, FS_RemoveElement
      <3>3. QED
        BY <1>2, <2>1, <2>2, <3>2, RedeemersAreHandlers
    <2>3. CASE d # c
      <3>1. Redeemers(d)' = Redeemers(d)
        BY <1>1, <2>3 DEF Redeemers, Redeeming
      <3>2. QED
        BY <1>2, <2>1, <2>3, <3>1
    <2>4. QED
      BY <2>2, <2>3
  <1>4. \A d \in Codes : code'[d].state \in Untouched => grants'[d] = 0
    BY <1>2 DEF OverlapInv, UsesFollowMarks
  <1>5. \A q \in Handlers : handler'[q].at = "oauth.tokens" =>
          code'[handler'[q].code].state \notin Untouched
    BY <1>1 DEF OverlapInv, UsesFollowMarks, At
  <1>6. QED
    BY <1>3, <1>4, <1>5 DEF OverlapInv, UsesFit, UsesFollowMarks, At

LEMMA OverlapStep ==
  ASSUME IsFiniteSet(Handlers), IInv, OverlapInv, [Next]_vars
  PROVE  OverlapInv'
  <1>1. ASSUME UNCHANGED <<handler, grants>> PROVE OverlapInv'
    BY <1>1, QuietUses
  <1>2. ASSUME NEW p \in Handlers, NEW a \in Awaits, NEW signIn \in SignIn, a \notin Redeeming,
               handler' = [handler EXCEPT ![p] = [at |-> a, signIn |-> signIn, code |-> None]],
               UNCHANGED grants
        PROVE  OverlapInv'
    <2>1. handler'[p].at = a /\ \A q \in Handlers : q # p => handler'[q] = handler[q]
      BY <1>2, HandlerMoves DEF IInv, TypeOK
    <2>2. QED
      BY <1>2, <2>1, QuietUses
  <1>3. ASSUME NEW p \in Handlers, Receive(p) PROVE OverlapInv'
    <2>1. ASSUME NEW c \in Codes, NEW party \in Parties,
                 ExchangeMobileAuthCode(p, c, party) \/ ExchangeAuthorizationCode(p, c, party)
          PROVE  OverlapInv'
      BY <2>1, ExchangeFits DEF ExchangeMobileAuthCode, ExchangeAuthorizationCode, Redeemable
    <2>2. ASSUME NEW x \in Transactions, SocialCallback(p, x) PROVE OverlapInv'
      <3>1. [NoSignIn EXCEPT !.origin = x] \in SignIn
        BY NullRecords DEF SignIn, Tickets
      <3>2. QED
        BY <1>2, <2>2, <3>1 DEF SocialCallback, Begin, Awaits, Redeeming
    <2>3. ASSUME NEW signIn \in SignIn, SignInDirectly(p, signIn) PROVE OverlapInv'
      BY <1>2, <2>3 DEF SignInDirectly, Begin, Awaits, Redeeming
    <2>4. ASSUME NEW k \in Consents, NEW user \in Parties, NEW approve \in BOOLEAN,
                 ResolveConsent(p, k, user, approve)
          PROVE  OverlapInv'
      <3>1. ticket[k].signIn \in SignIn
        BY NewRows DEF IInv, TypeOK, Tickets
      <3>2. QED
        BY <1>2, <2>4, <3>1 DEF ResolveConsent, Begin, Awaits, Redeeming
    <2>5. QED
      BY <1>3, <2>1, <2>2, <2>3, <2>4 DEF Receive
  <1>4. ASSUME NEW p \in Handlers, Finish(p), UNCHANGED grants PROVE OverlapInv'
    BY <1>4, FinishIsQuiet
  <1>5. ASSUME NEW p \in Handlers, ConsumeTransaction(p) PROVE OverlapInv'
    <2>1. handler[p].signIn.origin \in Tickets
      BY <1>5 DEF ConsumeTransaction, Tickets, IInv, TicketInv, OriginsAreKnown
    <2>2. ticket[handler[p].signIn.origin].signIn \in SignIn
      BY <2>1, NewRows DEF IInv, TypeOK
    <2>3. QED
      BY <1>2, <1>4, <1>5, <2>2 DEF ConsumeTransaction, Awaits, Redeeming
  <1>6. ASSUME NEW p \in Handlers, NEW a \in {"create", "mobile.release", "oauth.tokens"},
               Goto(p, a), UNCHANGED grants,
               a \in Redeeming => handler[p].at \in Redeeming,
               a = "oauth.tokens" => code'[handler[p].code].state \notin Untouched
        PROVE  OverlapInv'
    <2>1. /\ handler'[p].at = a /\ handler'[p].code = handler[p].code
          /\ \A q \in Handlers : q # p => handler'[q] = handler[q]
      BY <1>6, HandlerMoves DEF IInv, TypeOK, Awaits
    <2>2. QED
      BY <1>6, <2>1, QuietUses
  <1>7. ASSUME NEW p \in Handlers, DeleteConsent(p) \/ CreateCode(p) PROVE OverlapInv'
    BY <1>4, <1>6, <1>7 DEF DeleteConsent, CreateCode, Redeeming
  <1>8. ASSUME NEW p \in Handlers, ConsumeMobileCode(p) PROVE OverlapInv'
    BY <1>4, <1>6, <1>8 DEF ConsumeMobileCode, At, Redeeming
  <1>9. ASSUME NEW p \in Handlers, MarkCodeUsed(p) PROVE OverlapInv'
    <2>1. CASE Finish(p)
      BY <1>4, <1>9, <2>1 DEF MarkCodeUsed
    <2>2. CASE code' = [code EXCEPT ![handler[p].code].state = "used"] /\ Goto(p, "oauth.tokens")
      <3>1. handler[p].code \in Codes /\ handler[p].at = "oauth.mark"
        BY <1>9 DEF MarkCodeUsed, At, IInv, CodeInv, HandlersKnowTheirCode
      <3>2. code'[handler[p].code].state = "used"
        BY <2>2, <3>1 DEF IInv, TypeOK, CodeRow
      <3>3. QED
        BY <1>6, <1>9, <2>2, <3>1, <3>2 DEF MarkCodeUsed, Redeeming, Untouched
    <2>3. QED
      BY <1>9, <2>1, <2>2 DEF MarkCodeUsed
  <1>10. ASSUME NEW p \in Handlers, ReleaseSession(p) PROVE OverlapInv'
    <2>1. handler[p].code \in Codes /\ code[handler[p].code].state = "used"
      BY <1>10 DEF ReleaseSession, IInv, CodeInv, HandlersKnowTheirCode, OneReleasePending, MobileCodes
    <2>2. QED
      BY <1>10, <2>1, UseFits DEF ReleaseSession, At, Redeeming, Untouched
  <1>11. ASSUME NEW p \in Handlers, CreateTokens(p) PROVE OverlapInv'
    <2>1. handler[p].code \in Codes /\ code[handler[p].code].state \notin Untouched
      BY <1>11 DEF CreateTokens, IInv, CodeInv, HandlersKnowTheirCode, OverlapInv, UsesFollowMarks
    <2>2. CASE UNCHANGED grants
      BY <1>4, <1>11, <2>2 DEF CreateTokens
    <2>3. CASE ~UNCHANGED grants
      BY <1>11, <2>1, <2>3, UseFits DEF CreateTokens, At, Redeeming
    <2>4. QED
      BY <2>2, <2>3
  <1>12. ASSUME NEW p \in Handlers, Crash(p) PROVE OverlapInv'
    BY <1>4, <1>12 DEF Crash
  <1>13. ASSUME NEW signIn \in SignIn, Start(signIn) PROVE UNCHANGED <<handler, grants>>
    BY <1>13 DEF Start, StartSocialSignIn, StartAuthorization
  <1>14. QED
    BY <1>1, <1>3, <1>5, <1>7, <1>8, <1>9, <1>10, <1>11, <1>12, <1>13
    DEF Next, Continue, vars, DeleteCodesOf, ExpireTicket, ExpireCode

(* A code is used again only by exchanges in flight together: no more often *)
(* than there are handlers, and once where there is one.                    *)
THEOREM CodeUsesAlwaysOverlap ==
  ASSUME IsFiniteSet(Handlers)
  PROVE  Spec => []CodeUsesOverlap
  <1>1. Init => OverlapInv
    <2>1. SUFFICES ASSUME Init PROVE OverlapInv
      OBVIOUS
    <2>2. Idle.at = "idle"
      BY DEF Idle
    <2>3. UsesFollowMarks /\ \A c \in Codes : grants[c] = 0
      BY <2>1, <2>2 DEF Init, UsesFollowMarks, At
    <2>4. UsesFit
      BY <2>3, RedeemersAreHandlers DEF UsesFit
    <2>5. QED
      BY <2>3, <2>4 DEF OverlapInv
  <1>2. IInv /\ OverlapInv /\ [Next]_vars => OverlapInv'
    BY OverlapStep
  <1>3. IInv /\ OverlapInv => CodeUsesOverlap
    <2>1. SUFFICES ASSUME IInv, OverlapInv, NEW c \in Codes
                   PROVE  grants[c] <= Cardinality(Handlers)
      BY DEF CodeUsesOverlap
    <2>2. grants[c] \in Nat /\ grants[c] + Cardinality(Redeemers(c)) <= Cardinality(Handlers)
      BY <2>1 DEF IInv, TypeOK, OverlapInv, UsesFit
    <2>3. QED
      BY <2>2, RedeemersAreHandlers
  <1>4. QED
    BY <1>1, <1>2, <1>3, InvCorrect, PTL DEF Spec

=============================================================================
