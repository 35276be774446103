---------------------------- MODULE AbuseLimits ----------------------------
(***************************************************************************)
(* The counters and blocks in Redis that stand before the endpoints:       *)
(*                                                                         *)
(*   middleware  rateLimit: one counter                                    *)
(*   login       enterpriseRateLimit with an identifier, then loginUser,   *)
(*               which notes a failure and clears everything on success    *)
(*   public      enterpriseRateLimit of a route without identifier         *)
(*   send        checkCommunicationAbuseLimits before a message is queued  *)
(*   retry       the same before an administrator resends one              *)
(*   event       enforceClientEventRateLimit, then what follows (module    *)
(*               ExternalEvents)                                           *)
(*                                                                         *)
(* INCR and EXPIRE are two commands, and a request is refused for what its *)
(* own INCR returned.  Keys of other addresses and people behave like the  *)
(* ones here and are left out, so are metrics and security events.         *)
(***************************************************************************)
EXTENDS FiniteSets, Naturals, Sequences

CONSTANTS
  Handlers,     \* slots for requests
  Guards,       \* the guards requests meet
  Limit,        \* the limit of each window
  BlockAfter,   \* refusals and failures after which an address is blocked
  MaxStarts,    \* BOUND on requests
  MaxTroubles,  \* BOUND on commands that throw and requests that die
  None          \* no event

(* The counters each guard increments, in order,                            *)
WindowsOf ==
  [middleware |-> <<"refresh">>, login |-> <<"ip", "identifier">>, public |-> <<"ip">>,
   send |-> <<"recipient", "system">>, retry |-> <<"recipient", "admin">>,
   event |-> <<"event">>]

(* and the blocks it looks for before.                                      *)
BlocksOf ==
  [middleware |-> <<>>, login |-> <<"ip", "identifier">>, public |-> <<"ip">>,
   send |-> <<"recipient">>, retry |-> <<"recipient", "admin">>, event |-> <<>>]

(* The blocks a refusal sets at once                                        *)
RecordedBlocks == [send |-> {"recipient"}, retry |-> {"recipient", "admin"}]

Enterprise == {"login", "public"}
Communication == {"send", "retry"}

Windows == {"refresh", "ip", "identifier", "recipient", "system", "admin", "event"}
Counters == Windows \cup {"risk"}
Blocks == {"ip", "identifier", "recipient", "admin"}

ASSUME LimitsAssumption ==
  /\ IsFiniteSet(Handlers) /\ Guards \subseteq DOMAIN WindowsOf
  /\ Limit \in [Windows -> Nat \ {0}] /\ BlockAfter \in Nat \ {0}
  /\ MaxStarts \in Nat /\ MaxTroubles \in Nat

(* No comparison tells a larger count from this one.                        *)
Ceiling == [k \in Counters |-> IF k = "risk" THEN BlockAfter ELSE Limit[k] + 1]

VARIABLES
  counter,    \* the counters and whether they have a TTL
  block,      \* the blocks in force
  handler,    \* requests in flight
  admitted,   \* history: requests let through past a window since it opened
  starts,     \* requests so far
  troubles    \* commands that threw and requests that died

limitBounds == <<starts, troubles>>
limitVars == <<counter, block, handler, admitted, limitBounds>>

GuardAwaits ==
  {"idle", "blocked", "incr", "expire", "ttl", "record",
   "risk", "risk.expire", "apply", "login", "clear.risk", "clear.ip", "clear.identifier"}

EventAwaits == {"find", "create", "send", "save"}

NoCounter == [count |-> 0, ends |-> FALSE]

(* left: keys still to look at; over: some window is exceeded; counted:     *)
(* history, the windows still open that counted the request its guard has   *)
(* not decided on; event: the event submitted                               *)
Idle ==
  [at |-> "idle", guard |-> "middleware", left |-> <<>>, over |-> FALSE, counted |-> {},
   event |-> None]

CountersAreTyped ==
  \A k \in Counters : counter[k].count \in 0 .. Ceiling[k] /\ counter[k].ends \in BOOLEAN

LimitsInit ==
  /\ counter = [k \in Counters |-> NoCounter]
  /\ block = {}
  /\ handler = [p \in Handlers |-> Idle]
  /\ admitted = [w \in Windows |-> 0]
  /\ starts = 0 /\ troubles = 0

----------------------------------------------------------------------------
(* Helpers *)

At(p, await) == handler[p].at = await
Guard(p) == handler[p].guard
Key(p) == Head(handler[p].left)
LastKey(p) == Len(handler[p].left) = 1

Goto(p, await) == handler' = [handler EXCEPT ![p].at = await]
Finish(p) == handler' = [handler EXCEPT ![p] = Idle]

(* What a guard that lets a request pass hands it to                        *)
Passed(guard) == CASE guard = "login" -> "login" [] guard = "event" -> "find" [] OTHER -> "idle"

GuardWindows(p) ==
  {w \in Windows : \E i \in DOMAIN WindowsOf[Guard(p)] : WindowsOf[Guard(p)][i] = w}

(* The guard has decided, to refuse the request                             *)
GoOn(p, await) ==
  handler' = [handler EXCEPT ![p] =
    IF await = "idle" THEN Idle ELSE [@ EXCEPT !.at = await, !.counted = {}]]

(* or to let it pass these windows.                                         *)
Admit(p, windows) ==
  /\ admitted' = [w \in Windows |-> IF w \in windows THEN admitted[w] + 1 ELSE admitted[w]]
  /\ GoOn(p, Passed(Guard(p)))

Incremented(k) == IF counter[k].count = Ceiling[k] THEN Ceiling[k] ELSE counter[k].count + 1

Incr(k) == counter' = [counter EXCEPT ![k].count = Incremented(k)]
Expire(k) == counter' = [counter EXCEPT ![k].ends = @ \/ counter[k].count > 0]
Del(k) == counter' = [counter EXCEPT ![k] = NoCounter]

----------------------------------------------------------------------------
(* Looking for blocks *)

StartRequest(p, guard, event) ==
  /\ At(p, "idle") /\ starts < MaxStarts
  /\ starts' = starts + 1
  /\ LET blocks == BlocksOf[guard]
     IN handler' = [handler EXCEPT ![p] =
          [Idle EXCEPT !.at = IF blocks = <<>> THEN "incr" ELSE "blocked", !.guard = guard,
             !.left = IF blocks = <<>> THEN WindowsOf[guard] ELSE blocks, !.event = event]]
  /\ UNCHANGED <<counter, block, admitted, troubles>>

ToWindows(p) ==
  handler' = [handler EXCEPT ![p].at = "incr", ![p].left = WindowsOf[Guard(p)]]

(* isTemporarilyBlocked, and the first part of checkCommunicationAbuseLimits *)
LookForBlock(p) ==
  /\ At(p, "blocked")
  /\ CASE Key(p) \in block -> Finish(p)
       [] Key(p) \notin block /\ ~LastKey(p) ->
            handler' = [handler EXCEPT ![p].left = Tail(@)]
       [] OTHER -> ToWindows(p)
  /\ UNCHANGED <<counter, block, admitted, limitBounds>>

----------------------------------------------------------------------------
(* Counting *)

NextWindow(p, counted) ==
  IF LastKey(p) THEN Admit(p, counted)
  ELSE /\ handler' = [handler EXCEPT ![p].at = "incr", ![p].left = Tail(@), ![p].counted = counted]
       /\ UNCHANGED admitted

(* bumpWindow, rateLimit and enforceClientEventRateLimit: a first increment *)
(* is followed by EXPIRE, one above the limit refuses the request.          *)
BumpWindow(p) ==
  LET w == Key(p)
      counted == handler[p].counted \cup {w}
  IN /\ At(p, "incr") /\ Guard(p) \notin Enterprise
     /\ Incr(w)
     /\ CASE Incremented(w) = 1 ->
               /\ handler' = [handler EXCEPT ![p].at = "expire", ![p].counted = counted]
               /\ UNCHANGED admitted
          [] Incremented(w) > Limit[w] ->
               /\ GoOn(p, IF Guard(p) \in Communication THEN "record" ELSE "idle")
               /\ UNCHANGED admitted
          [] OTHER -> NextWindow(p, counted)
     /\ UNCHANGED <<block, limitBounds>>

SetExpiry(p) ==
  /\ At(p, "expire")
  /\ Expire(Key(p))
  /\ NextWindow(p, handler[p].counted)
  /\ UNCHANGED <<block, limitBounds>>

(* recordCommunicationBlock *)
RecordCommunicationBlock(p) ==
  /\ At(p, "record")
  /\ block' = block \cup RecordedBlocks[Guard(p)]
  /\ Finish(p)
  /\ UNCHANGED <<counter, admitted, limitBounds>>

CountOver(p, over) ==
  /\ At(p, "incr") /\ Guard(p) \in Enterprise
  /\ Incr(Key(p))
  /\ handler' = [handler EXCEPT ![p].over = over,
       ![p].counted = @ \cup {Key(p)},
       ![p].at = IF LastKey(p) THEN "ttl" ELSE "incr",
       ![p].left = IF LastKey(p) THEN WindowsOf[Guard(p)] ELSE Tail(@)]
  /\ UNCHANGED <<block, admitted, limitBounds>>

(* Variant: what the last counter says is what counts                       *)
CountLast(p) == CountOver(p, Incremented(Key(p)) > Limit[Key(p)])

(* enterpriseRateLimit increments all its counters,                         *)
CountRequest(p) == CountOver(p, handler[p].over \/ Incremented(Key(p)) > Limit[Key(p)])

Decide(p) ==
  IF handler[p].over THEN GoOn(p, "risk") /\ UNCHANGED admitted ELSE Admit(p, handler[p].counted)

AfterTtl(p) ==
  IF LastKey(p) THEN Decide(p)
  ELSE handler' = [handler EXCEPT ![p].left = Tail(@)] /\ UNCHANGED admitted

(* Variant: leaves the counter of the identifier as it is                   *)
RepairTtlOfAddress(p) ==
  /\ At(p, "ttl")
  /\ IF Key(p) = "ip" THEN Expire("ip") ELSE UNCHANGED counter
  /\ AfterTtl(p)
  /\ UNCHANGED <<block, limitBounds>>

(* gives those a TTL that have none,                                        *)
RepairTtl(p) ==
  /\ At(p, "ttl")
  /\ Expire(Key(p))
  /\ AfterTtl(p)
  /\ UNCHANGED <<block, limitBounds>>

(* and notes a refusal: noteRiskAndMaybeBlock.                              *)
NoteRisk(p) ==
  /\ At(p, "risk")
  /\ Incr("risk")
  /\ GoOn(p, IF Incremented("risk") = 1 THEN "risk.expire"
             ELSE IF Incremented("risk") >= BlockAfter THEN "apply" ELSE "idle")
  /\ UNCHANGED <<block, admitted, limitBounds>>

ExpireRisk(p) ==
  /\ At(p, "risk.expire")
  /\ Expire("risk")
  /\ GoOn(p, IF BlockAfter = 1 THEN "apply" ELSE "idle")
  /\ UNCHANGED <<block, admitted, limitBounds>>

(* The identifier is blocked where there is one, and the address elsewhere. *)
ApplyBlock(p) ==
  /\ At(p, "apply")
  /\ block' = block \cup {IF Guard(p) = "login" THEN "identifier" ELSE "ip"}
  /\ Finish(p)
  /\ UNCHANGED <<counter, admitted, limitBounds>>

----------------------------------------------------------------------------
(* loginUser *)

LoginFails(p) ==
  /\ At(p, "login")
  /\ Goto(p, "risk")
  /\ UNCHANGED <<counter, block, admitted, limitBounds>>

LoginSucceeds(p) ==
  /\ At(p, "login")
  /\ Goto(p, "clear.risk")
  /\ UNCHANGED <<counter, block, admitted, limitBounds>>

(* clearLoginAbuseState *)
ClearRisk(p) ==
  /\ At(p, "clear.risk")
  /\ Del("risk")
  /\ Goto(p, "clear.ip")
  /\ UNCHANGED <<block, admitted, limitBounds>>

ClearIpBlock(p) ==
  /\ At(p, "clear.ip")
  /\ block' = block \ {"ip"}
  /\ Goto(p, "clear.identifier")
  /\ UNCHANGED <<counter, admitted, limitBounds>>

ClearIdentifierBlock(p) ==
  /\ At(p, "clear.identifier")
  /\ block' = block \ {"identifier"}
  /\ Finish(p)
  /\ UNCHANGED <<counter, admitted, limitBounds>>

----------------------------------------------------------------------------
(* Time, errors and crashes *)

WindowEnds(k) ==
  /\ counter[k].ends
  /\ Del(k)
  /\ admitted' = [w \in Windows |-> IF w = k THEN 0 ELSE admitted[w]]
  /\ handler' = [p \in Handlers |-> [handler[p] EXCEPT !.counted = @ \ {k}]]
  /\ UNCHANGED <<block, limitBounds>>

BlockEnds(b) ==
  /\ b \in block
  /\ block' = block \ {b}
  /\ UNCHANGED <<counter, handler, admitted, limitBounds>>

(* enterpriseRateLimit and the communication limits let a request pass that *)
(* they could not look at, count or block.                                  *)
FailsOpen(p) ==
  \/ Guard(p) \in Enterprise /\ handler[p].at \in {"incr", "ttl"}
  \/ Guard(p) \in Communication /\ handler[p].at \in {"blocked", "incr", "expire", "record"}

(* A command throws.  To isTemporarilyBlocked nobody is blocked then.       *)
(* rateLimit and the event limits refuse the request, and what is noted or  *)
(* cleared is left as it is.                                                *)
CommandThrows(p) ==
  /\ troubles < MaxTroubles
  /\ handler[p].at \in GuardAwaits \ {"idle", "login"}
  /\ troubles' = troubles + 1
  /\ CASE FailsOpen(p) -> Admit(p, GuardWindows(p))
       [] At(p, "blocked") /\ ~FailsOpen(p) -> ToWindows(p) /\ UNCHANGED admitted
       [] OTHER -> Finish(p) /\ UNCHANGED admitted
  /\ UNCHANGED <<counter, block, starts>>

Crash(p) ==
  /\ troubles < MaxTroubles /\ ~At(p, "idle")
  /\ troubles' = troubles + 1
  /\ Finish(p)
  /\ UNCHANGED <<counter, block, admitted, starts>>

StartGuard(p) == \E guard \in Guards \ {"event"} : StartRequest(p, guard, None)

EnterpriseRateLimit(p) == CountRequest(p) \/ RepairTtl(p)

NoteRiskAndMaybeBlock(p) == NoteRisk(p) \/ ExpireRisk(p) \/ ApplyBlock(p)

ClearLoginAbuseState(p) == ClearRisk(p) \/ ClearIpBlock(p) \/ ClearIdentifierBlock(p)

CheckCommunicationAbuseLimits(p) == LookForBlock(p) \/ BumpWindow(p) \/ SetExpiry(p) \/ RecordCommunicationBlock(p)

LimitsContinue(p) ==
  \/ CheckCommunicationAbuseLimits(p) \/ EnterpriseRateLimit(p) \/ NoteRiskAndMaybeBlock(p)
  \/ LoginFails(p) \/ LoginSucceeds(p) \/ ClearLoginAbuseState(p)

TimePasses == (\E k \in Counters : WindowEnds(k)) \/ (\E b \in Blocks : BlockEnds(b))

----------------------------------------------------------------------------
(* Properties *)

(* However requests overlap, and whatever window ends meanwhile: of those a *)
(* window counted, and of those that passed because a command threw, no     *)
(* more are let through until it ends than its limit, and one for each      *)
(* command that threw.  What another counter of the guard said, and what    *)
(* was counted before the window began, cannot add to them.                 *)
LimitsHold == \A w \in Windows : admitted[w] <= Limit[w] + troubles

(* The counters p has incremented and will give a TTL                       *)
WillExpire(p) ==
  CASE At(p, "expire") -> {Key(p)}
    [] At(p, "risk.expire") -> {"risk"}
    [] At(p, "ttl") -> {handler[p].left[i] : i \in DOMAIN handler[p].left}
    [] At(p, "incr") /\ Guard(p) \in Enterprise ->
         GuardWindows(p) \ {handler[p].left[i] : i \in DOMAIN handler[p].left}
    [] OTHER -> {}

(* Every counter ends, so that nobody is refused for ever: however requests *)
(* that increment, expire and clear it overlap, it has a TTL or a request   *)
(* that will give it one, unless that request died or its command threw.    *)
OpenWindowsEnd ==
  \A k \in Counters :
    counter[k].count > 0 /\ ~counter[k].ends =>
      troubles > 0 \/ \E p \in Handlers : k \in WillExpire(p)

=============================================================================
