-------------------------- MODULE VerificationCodes --------------------------
(***************************************************************************)
(* Tokens and codes sent to an address to prove it is the user's: links    *)
(* that verify an e-mail address, codes that verify a telephone number,    *)
(* links that reset a password (rows of the database) and codes to sign in *)
(* with (Redis, one record per address).  Each is read, then its effect is *)
(* written, then it is marked used or removed, by separate commands; only  *)
(* the reset does the last two in one transaction.                         *)
(*                                                                         *)
(* Tokens are numbered in the order they are made.  Who holds one has read *)
(* the message.  That users' tokens are revoked by a reset is in module    *)
(* SessionTokens; limits on requests are in AbuseLimits.                   *)
(***************************************************************************)
EXTENDS AccountRows, Sequences

CONSTANTS
  MaxTokens,    \* BOUND on the tokens of a behaviour
  MaxAttempts   \* wrong codes: PHONE_CHANGE_MAX_ATTEMPTS, OTP_LOGIN_MAX_VERIFY_ATTEMPTS

ASSUME CodesAssumption ==
  /\ MaxTokens \in Nat /\ MaxAttempts \in Nat \ {0}
  /\ 1 .. MaxTokens \subseteq Items

VARIABLES
  tokens,   \* EmailVerificationToken, PhoneChangeToken, PasswordResetToken, login codes
  otp,      \* otp:login:<channel>:<recipient>
  cooling   \* otp:login:cooldown:<channel>:<recipient>

codeVars == <<tokens, otp, cooling>>

(* uses, wrong: history, how often it took effect and wrong codes it met.   *)
(* shared: history, two requests had it at one time, or one that had it     *)
(* died.                                                                    *)
Token ==
  [kind : {"email", "phone", "reset", "login"}, user : Users, to : Addresses \cup {None},
   live : BOOLEAN, used : BOOLEAN, deleted : BOOLEAN, attempts : Nat,
   uses : Nat, wrong : Nat, shared : BOOLEAN]

NoCode == [token |-> 0, attempts |-> 0]

CodesAreTyped ==
  /\ tokens \in Seq(Token) /\ Len(tokens) <= MaxTokens
  /\ otp \in [Addresses -> [token : 0 .. MaxTokens, attempts : Nat]]
  /\ cooling \subseteq Addresses

CodesInit ==
  /\ tokens = <<>>
  /\ otp = [a \in Addresses |-> NoCode]
  /\ cooling = {}

SameCodes == UNCHANGED codeVars
SameOtp == UNCHANGED <<otp, cooling>>

NewToken(kind, u, a) ==
  /\ Len(tokens) < MaxTokens
  /\ tokens' = Append(tokens, [kind |-> kind, user |-> u, to |-> a, live |-> TRUE, used |-> FALSE,
                               deleted |-> FALSE, attempts |-> 0, uses |-> 0, wrong |-> 0,
                               shared |-> FALSE])

Open(t) == tokens[t].live /\ ~tokens[t].used /\ ~tokens[t].deleted

(* History: a request takes up the token while another has it.              *)
Hold(h, t) ==
  tokens' = [tokens EXCEPT ![t].shared = @ \/ OthersHold(h, t)]

----------------------------------------------------------------------------
(* Messages *)

(* registerUser: a row with an address and a password                       *)
RegisterUser(h, a) ==
  /\ Begin(h, "register")
  /\ UserOf(a) = None
  /\ Wait(h, [Idle EXCEPT !.at = "register", !.to = a])
  /\ SameRows /\ SameCodes /\ UNCHANGED <<duty, crashes>>

CreateUser(h) ==
  /\ At(h, "register")
  /\ LET a == handler[h].to IN
     \/ /\ UserOf(a) = None
        /\ \E u \in Users :
             /\ Create(u, [NoUser EXCEPT !.status = "PENDING_VERIFICATION", !.password = TRUE,
                                         !.address[ChannelOf(a)] = a])
             /\ IF a \in Emails
                THEN Wait(h, [Idle EXCEPT !.at = "email_token", !.user = u, !.to = a])
                ELSE Finish(h)
     \/ UserOf(a) # None /\ Finish(h) /\ UNCHANGED users
  /\ SameCodes /\ SameRequests /\ UNCHANGED history

(* To verify the address of the account or to change it                     *)
RequestVerification(h, u, a, place) ==
  /\ Begin(h, "verify") /\ Authenticatable(u)
  /\ ~HasVerified(u, a) /\ ~Taken(u, a)
  /\ Wait(h, [Idle EXCEPT !.at = place, !.user = u, !.to = a])
  /\ SameRows /\ SameCodes /\ UNCHANGED <<duty, crashes>>

RequestEmailVerification(h, u, a) == a \in Emails /\ RequestVerification(h, u, a, "email_token")
RequestPhoneChange(h, u, a) == a \in Phones /\ RequestVerification(h, u, a, "phone_token")

(* forgotPassword                                                           *)
ForgotPassword(h, a) ==
  /\ Begin(h, "reset")
  /\ a \in Emails /\ UserOf(a) # None
  /\ Wait(h, [Idle EXCEPT !.at = "reset_token", !.user = UserOf(a)])
  /\ SameRows /\ SameCodes /\ UNCHANGED <<duty, crashes>>

(* The row is written and then the message sent, which may fail: earlier    *)
(* tokens of the user stay good.                                            *)
CreateToken(h, place, kind) ==
  /\ At(h, place)
  /\ NewToken(kind, handler[h].user, handler[h].to)
  /\ Finish(h)
  /\ SameRows /\ SameOtp /\ SameRequests

SendEmailLink(h) == CreateToken(h, "email_token", "email")
SendPhoneCode(h) == CreateToken(h, "phone_token", "phone")
SendResetLink(h) == CreateToken(h, "reset_token", "reset")

TokenExpires(t) ==
  /\ "expiry" \in duty /\ Open(t) /\ tokens[t].kind # "login"
  /\ tokens' = [tokens EXCEPT ![t].live = FALSE]
  /\ SameRows /\ SameOtp /\ SameRequests /\ UNCHANGED handler

----------------------------------------------------------------------------
(* Confirmations *)

(* confirmEmailVerification                                                 *)
ConfirmEmailVerification(h, t) ==
  /\ Begin(h, "verify")
  /\ tokens[t].kind = "email" /\ Open(t)
  /\ Wait(h, [Idle EXCEPT !.at = "confirm", !.user = tokens[t].user, !.to = tokens[t].to, !.item = t])
  /\ Hold(h, t)
  /\ SameRows /\ SameOtp /\ UNCHANGED <<duty, crashes>>

(* The newest unused code of the user, whichever number it was sent to      *)
Newest(u) ==
  LET unused == {t \in DOMAIN tokens : tokens[t].kind = "phone" /\ tokens[t].user = u /\ ~tokens[t].used}
  IN  {t \in unused : \A s \in unused : s <= t}

ConfirmPhoneChange(h, u, right) ==
  /\ Begin(h, "verify") /\ Authenticatable(u)
  /\ \E t \in Newest(u) :
       /\ Open(t) /\ tokens[t].attempts < MaxAttempts
       /\ Wait(h, [Idle EXCEPT !.at = IF right THEN "confirm" ELSE "miss",
                               !.user = u, !.to = tokens[t].to, !.item = t])
       /\ Hold(h, t)
  /\ SameRows /\ SameOtp /\ UNCHANGED <<duty, crashes>>

(* attempts: { increment: 1 }                                               *)
CountAttempt(h) ==
  /\ At(h, "miss")
  /\ tokens' = [tokens EXCEPT ![handler[h].item].attempts = @ + 1, ![handler[h].item].wrong = @ + 1]
  /\ Finish(h)
  /\ SameRows /\ SameOtp /\ SameRequests

(* The address is the user's now, whatever the row said; an e-mail address  *)
(* makes the account ACTIVE, whatever it was.                               *)
ApplyAddress(h) ==
  /\ At(h, "confirm")
  /\ LET u == handler[h].user  a == handler[h].to  t == handler[h].item IN
     \/ /\ ~Taken(u, a)
        /\ users' = [users EXCEPT ![u].address[ChannelOf(a)] = a, ![u].verified[ChannelOf(a)] = TRUE,
                                  ![u].status = IF a \in Emails THEN "ACTIVE" ELSE @]
        /\ Prove(u, a)
        /\ tokens' = [tokens EXCEPT ![t].uses = @ + 1]
        /\ Goto(h, "mark")
     \/ /\ Taken(u, a)
        /\ Finish(h) /\ SameRows /\ UNCHANGED tokens
  /\ SameOtp /\ SameRequests

(* Variant: the token is not marked                                         *)
MarkNothing(h) ==
  /\ At(h, "mark")
  /\ Finish(h)
  /\ SameRows /\ SameCodes /\ SameRequests

(* A row that an erasure deleted is not there to be marked.                 *)
MarkUsed(h) ==
  /\ At(h, "mark")
  /\ tokens' = [tokens EXCEPT ![handler[h].item].used = ~tokens[handler[h].item].deleted]
  /\ Finish(h)
  /\ SameRows /\ SameOtp /\ SameRequests

ResetPassword(h, t) ==
  /\ Begin(h, "reset")
  /\ tokens[t].kind = "reset" /\ Open(t)
  /\ Wait(h, [Idle EXCEPT !.at = "reset", !.user = tokens[t].user, !.item = t])
  /\ Hold(h, t)
  /\ SameRows /\ SameOtp /\ UNCHANGED <<duty, crashes>>

(* One transaction, which fails when the token is gone                      *)
CommitReset(h) ==
  /\ At(h, "reset")
  /\ LET u == handler[h].user  t == handler[h].item IN
     IF tokens[t].deleted THEN UNCHANGED <<users, tokens>>
     ELSE /\ users' = [users EXCEPT ![u].password = TRUE]
          /\ tokens' = [tokens EXCEPT ![t].used = TRUE, ![t].uses = @ + 1]
  /\ Finish(h)
  /\ SameOtp /\ SameRequests /\ UNCHANGED history

----------------------------------------------------------------------------
(* Codes to sign in with *)

(* requestLoginOtp: the cooldown, then the user the address is verified for *)
RequestLoginOtp(h, a) ==
  /\ Begin(h, "otp") /\ a \notin cooling
  /\ LET u == UserOf(a) IN
     IF u # None /\ users[u].status # "DELETED" /\ HasVerified(u, a)
     THEN Wait(h, [Idle EXCEPT !.at = "otp_store", !.user = u, !.to = a])
     ELSE Wait(h, [Idle EXCEPT !.at = "otp_cool", !.to = a])
  /\ SameRows /\ SameCodes /\ UNCHANGED <<duty, crashes>>

StoreOtp(h) ==
  /\ At(h, "otp_store")
  /\ NewToken("login", handler[h].user, handler[h].to)
  /\ otp' = [otp EXCEPT ![handler[h].to] = [token |-> Len(tokens'), attempts |-> 0]]
  /\ Goto(h, "otp_cool")
  /\ SameRows /\ SameRequests /\ UNCHANGED cooling

CoolDown(h) ==
  /\ At(h, "otp_cool")
  /\ cooling' = cooling \cup {handler[h].to}
  /\ Finish(h)
  /\ SameRows /\ SameRequests /\ UNCHANGED <<tokens, otp>>

(* The keys of Redis end.                                                   *)
CooldownEnds(a) ==
  /\ a \in cooling /\ cooling' = cooling \ {a}
  /\ SameRows /\ SameRequests /\ UNCHANGED <<handler, tokens, otp>>

OtpExpires(a) ==
  /\ "expiry" \in duty /\ otp[a] # NoCode
  /\ otp' = [otp EXCEPT ![a] = NoCode]
  /\ SameRows /\ SameRequests /\ UNCHANGED <<handler, tokens, cooling>>

(* verifyLoginOtp: the record as it was read, then one command on it        *)
VerifyLoginOtp(h, a, right) ==
  /\ Begin(h, "otp") /\ otp[a] # NoCode
  /\ LET t == otp[a].token IN
     /\ Wait(h, [at |-> IF otp[a].attempts >= MaxAttempts THEN "otp_drop"
                        ELSE IF right THEN "otp_use" ELSE "otp_count",
                 user |-> tokens[t].user, to |-> a, item |-> t, seen |-> otp[a].attempts])
     /\ Hold(h, t)
  /\ SameRows /\ SameOtp /\ UNCHANGED <<duty, crashes>>

DropOtp(h) ==
  /\ At(h, "otp_drop")
  /\ otp' = [otp EXCEPT ![handler[h].to] = NoCode]
  /\ Finish(h)
  /\ SameRows /\ SameRequests /\ UNCHANGED <<tokens, cooling>>

(* The whole record is written back, also where there is none any more, or  *)
(* another.                                                                 *)
CountWrongOtp(h) ==
  /\ At(h, "otp_count")
  /\ otp' = [otp EXCEPT ![handler[h].to] = [token |-> handler[h].item, attempts |-> handler[h].seen + 1]]
  /\ tokens' = [tokens EXCEPT ![handler[h].item].wrong = @ + 1]
  /\ Finish(h)
  /\ SameRows /\ SameRequests /\ UNCHANGED cooling

UseOtp(h) ==
  /\ At(h, "otp_use")
  /\ otp' = [otp EXCEPT ![handler[h].to] = NoCode]
  /\ Goto(h, "otp_login")
  /\ SameRows /\ SameRequests /\ UNCHANGED <<tokens, cooling>>

SignInWithOtp(h) ==
  /\ At(h, "otp_login")
  /\ tokens' = IF Authenticatable(handler[h].user)
               THEN [tokens EXCEPT ![handler[h].item].uses = @ + 1] ELSE tokens
  /\ Finish(h)
  /\ SameRows /\ SameOtp /\ SameRequests

----------------------------------------------------------------------------
(* History: a request dies with a token in its hands.                       *)
LeaveToken(h) ==
  tokens' = IF handler[h].item \in DOMAIN tokens
            THEN [tokens EXCEPT ![handler[h].item].shared = TRUE] ELSE tokens

CodesNext ==
  \/ \E h \in Handlers :
       \/ MayBegin(h, "register") /\ \E a \in Addresses : RegisterUser(h, a)
       \/ /\ MayBegin(h, "reset")
          /\ (\E a \in Addresses : ForgotPassword(h, a)) \/ \E t \in DOMAIN tokens : ResetPassword(h, t)
       \/ /\ MayBegin(h, "verify")
          /\ \/ \E u \in Users, a \in Addresses : RequestEmailVerification(h, u, a) \/ RequestPhoneChange(h, u, a)
             \/ \E t \in DOMAIN tokens : ConfirmEmailVerification(h, t)
             \/ \E u \in Users, right \in BOOLEAN : ConfirmPhoneChange(h, u, right)
       \/ /\ MayBegin(h, "otp")
          /\ \E a \in Addresses : RequestLoginOtp(h, a) \/ \E right \in BOOLEAN : VerifyLoginOtp(h, a, right)
       \/ /\ handler[h] # Idle
          /\ \/ CreateUser(h) \/ SendEmailLink(h) \/ SendPhoneCode(h) \/ SendResetLink(h)
             \/ CountAttempt(h) \/ ApplyAddress(h) \/ MarkUsed(h)
             \/ CommitReset(h) \/ StoreOtp(h) \/ CoolDown(h) \/ DropOtp(h) \/ CountWrongOtp(h)
             \/ UseOtp(h) \/ SignInWithOtp(h)
  \/ \E t \in DOMAIN tokens : TokenExpires(t)
  \/ \E a \in Addresses : CooldownEnds(a) \/ OtpExpires(a)

----------------------------------------------------------------------------
(* Properties *)

(* A link or a code takes effect once, and meets no more wrong guesses than *)
(* allowed, unless two requests had it at one time or one died with it:     *)
(* none of the confirmations has a condition on the token in its write.     *)
(* However requests overlap, a telephone code meets no more wrong guesses   *)
(* than allowed and one per other request, because its count is             *)
(* incremented by the database.                                             *)
CodesAreUsedOnce ==
  \A t \in DOMAIN tokens :
    /\ ~tokens[t].shared => tokens[t].uses <= 1 /\ tokens[t].wrong <= MaxAttempts
    /\ tokens[t].kind = "phone" => tokens[t].wrong < MaxAttempts + Cardinality(Handlers)
=============================================================================
