------------------------ MODULE ExternalEvents_proofs ------------------------
(***************************************************************************)
(* The limits and the events, for any number of requests, clients' events, *)
(* failures and deaths: a window lets through no more than its limit and   *)
(* one for each failure, a channel gets one message of an event at most,   *)
(* and a row that says PROCESSING has a request that works on it, and a    *)
(* counter a TTL or a request that will set one, while none died or threw. *)
(***************************************************************************)
EXTENDS ExternalEvents, FiniteSetTheorems, SequenceTheorems, TLAPS

CountersAreCounts ==
  /\ counter \in [Counters -> [count : Nat, ends : BOOLEAN]]
  /\ admitted \in [Windows -> Nat]

(* The requests in flight that will be let through past a window unless     *)
(* another window refuses them, and with them what counts against its limit *)
Pends(p, w) == w \in handler[p].counted /\ ~handler[p].over

Pending(w) == {p \in Handlers : Pends(p, w)}

Load(w) == admitted[w] + Cardinality(Pending(w))

(* A window counted its load, and within its limit, but for what a command  *)
(* that threw let pass.                                                     *)
WindowsCount ==
  \A w \in Windows : /\ Load(w) <= counter[w].count + troubles
                     /\ Load(w) <= Limit[w] + troubles

(* A request that looks at a key has one; one past the event limits has the *)
(* event it posts.                                                          *)
Keyed == {"blocked", "incr", "expire", "ttl"}

Request ==
  {r \in Handler : /\ r.at \in Keyed => r.left # <<>>
                   /\ r.guard = "event" => r.event \in Events
                   /\ r.at \in EventAwaits => r.guard = "event"
                   /\ r.at = "expire" => r.guard \notin Enterprise
                   /\ r.over => r.guard \in Enterprise}

RequestsAreTyped ==
  /\ handler \in [Handlers -> Request]
  /\ starts \in 0 .. MaxStarts /\ troubles \in 0 .. MaxTroubles

EventsAreTyped ==
  /\ event \in [Events -> {"none", "PROCESSING"} \cup Finished]
  /\ sending \in [Handlers -> [Channels -> {"none", "unasked"} \cup Answers]]
  /\ sends \in [Events -> [Channels -> Nat]]

Sends(p, e) == At(p, "send") /\ EventOf(p) = e

(* The unique index makes one request the sender of an event; what a        *)
(* channel has not answered was not sent before.                            *)
OneSender ==
  /\ \A e \in Events : event[e] = "none" =>
       (\A c \in Channels : sends[e][c] = 0) /\ \A p \in Handlers : ~Sends(p, e)
  /\ \A e \in Events : \A p, q \in Handlers : Sends(p, e) /\ Sends(q, e) => p = q
  /\ \A p \in Handlers : At(p, "send") =>
       \A c \in Channels : sending[p][c] = "none" => sends[EventOf(p)][c] = 0

IInv ==
  /\ CountersAreCounts /\ WindowsCount
  /\ RequestsAreTyped /\ EventsAreTyped
  /\ OneSender /\ EventsRunOnce /\ EventsAreAttended

----------------------------------------------------------------------------
(* Steps of the guards *)

(* What a step of p that belongs to a guard does to the requests            *)
GuardMove(p) ==
  /\ handler[p].at \in GuardAwaits
  /\ handler' \in [Handlers -> Request]
  /\ \A q \in Handlers \ {p} : handler'[q] = handler[q]
  /\ handler'[p].at \in GuardAwaits \cup {"find"}

LEMMA IdleIsARequest == Idle \in Request /\ Idle.at = "idle"
  <1>1. <<>> \in Seq(Blocks \cup Windows)
    OBVIOUS
  <1>2. Idle \in Handler
    BY <1>1 DEF Idle, Handler, GuardAwaits, WindowsOf
  <1>3. QED
    BY <1>2 DEF Idle, Request, Keyed, EventAwaits

LEMMA KeysAreSequences ==
  ASSUME NEW guard \in DOMAIN WindowsOf
  PROVE  /\ WindowsOf[guard] \in Seq(Blocks \cup Windows) /\ WindowsOf[guard] # <<>>
         /\ BlocksOf[guard] \in Seq(Blocks \cup Windows)
  <1> DEFINE K == Blocks \cup Windows
  <1>1. {"ip", "identifier", "recipient", "admin", "refresh", "system", "event"} \subseteq K
    BY DEF Blocks, Windows
  <1> HIDE DEF K
  <1>2. guard \in {"middleware", "login", "public", "send", "retry", "event"}
    BY DEF WindowsOf
  <1>6. \A a, b \in K : <<>> \in Seq(K) /\ <<a>> \in Seq(K) /\ <<a, b>> \in Seq(K) /\ <<a>> # <<>> /\ <<a, b>> # <<>>
    OBVIOUS
  <1>3. WindowsOf[guard] \in Seq(K) /\ WindowsOf[guard] # <<>>
    <2>1. /\ WindowsOf["middleware"] = <<"refresh">> /\ WindowsOf["login"] = <<"ip", "identifier">>
          /\ WindowsOf["public"] = <<"ip">> /\ WindowsOf["send"] = <<"recipient", "system">>
          /\ WindowsOf["retry"] = <<"recipient", "admin">> /\ WindowsOf["event"] = <<"event">>
      BY DEF WindowsOf
    <2>2. QED
      BY <1>1, <1>2, <1>6, <2>1
  <1>4. BlocksOf[guard] \in Seq(K)
    <2>1. /\ BlocksOf["middleware"] = <<>> /\ BlocksOf["login"] = <<"ip", "identifier">>
          /\ BlocksOf["public"] = <<"ip">> /\ BlocksOf["send"] = <<"recipient">>
          /\ BlocksOf["retry"] = <<"recipient", "admin">> /\ BlocksOf["event"] = <<>>
      BY DEF BlocksOf
    <2>2. QED
      BY <1>1, <1>2, <1>6, <2>1
  <1>5. QED
    BY <1>3, <1>4 DEF K

LEMMA FinishMoves ==
  ASSUME RequestsAreTyped, NEW p \in Handlers, handler[p].at \in GuardAwaits, Finish(p)
  PROVE  GuardMove(p)
  BY IdleIsARequest DEF RequestsAreTyped, Finish, GuardMove, GuardAwaits

Becomes(p, r) ==
  /\ handler' = [q \in Handlers |-> handler'[q]]
  /\ handler'[p] = r /\ \A q \in Handlers \ {p} : handler'[q] = handler[q]

(* A request that goes on keeps its guard and its event.                    *)
LEMMA StepMoves ==
  ASSUME RequestsAreTyped, NEW p \in Handlers, handler[p].at \in GuardAwaits,
         NEW r, r \in Handler, Becomes(p, r), r.guard = handler[p].guard, r.event = handler[p].event,
         r.at \in Keyed => r.left # <<>>,
         r.at = "expire" => r.guard \notin Enterprise, r.over => r.guard \in Enterprise,
         r.at \in GuardAwaits \/ (r.at = "find" /\ r.guard = "event")
  PROVE  GuardMove(p)
  <1>1. r \in Request
    BY DEF Request, RequestsAreTyped, GuardAwaits, EventAwaits
  <1>2. \A q \in Handlers : handler'[q] \in Request
    BY <1>1 DEF RequestsAreTyped, Becomes
  <1>3. handler' \in [Handlers -> Request]
    BY <1>2 DEF Becomes
  <1>4. QED
    BY <1>3 DEF GuardMove, Becomes

LEMMA GoOnMoves ==
  ASSUME RequestsAreTyped, NEW p \in Handlers, handler[p].at \in GuardAwaits,
         NEW await, GoOn(p, await),
         \/ await \in GuardAwaits \ Keyed
         \/ await = "find" /\ Guard(p) = "event"
  PROVE  GuardMove(p)
  <1>1. CASE await = "idle"
    BY <1>1, FinishMoves DEF GoOn, Finish
  <1>2. CASE await # "idle"
    <2> DEFINE r == [handler[p] EXCEPT !.at = await, !.counted = {}]
    <2>1. handler[p] \in Handler
      BY DEF RequestsAreTyped, Request
    <2>2. r \in Handler /\ r.at = await /\ r.guard = handler[p].guard /\ r.event = handler[p].event
      BY <2>1 DEF Handler, EventAwaits
    <2>3. r.at \notin Keyed /\ r.at # "expire" /\ (r.over => r.guard \in Enterprise)
      BY <2>1, <2>2 DEF Keyed, Handler, RequestsAreTyped, Request
    <2>4. Becomes(p, r)
      BY <1>2 DEF GoOn, Becomes, RequestsAreTyped
    <2> HIDE DEF r
    <2>5. QED
      BY <2>2, <2>3, <2>4, StepMoves DEF Guard
  <1>3. QED
    BY <1>1, <1>2

LEMMA AdmitMoves ==
  ASSUME RequestsAreTyped, NEW p \in Handlers, handler[p].at \in GuardAwaits,
         NEW windows, Admit(p, windows)
  PROVE  GuardMove(p)
  <1>1. \/ Passed(Guard(p)) \in GuardAwaits \ Keyed
        \/ Passed(Guard(p)) = "find" /\ Guard(p) = "event"
    BY DEF Passed, GuardAwaits, Keyed
  <1>2. QED
    BY <1>1, GoOnMoves DEF Admit

LEMMA KeyIsAWindow ==
  ASSUME RequestsAreTyped, NEW p \in Handlers, handler[p].at \in Keyed
  PROVE  Key(p) \in Windows
  <1>1. handler[p].left \in Seq(Blocks \cup Windows) /\ handler[p].left # <<>>
    BY DEF RequestsAreTyped, Request, Handler
  <1>2. Blocks \cup Windows = Windows
    BY DEF Blocks, Windows
  <1>3. QED
    BY <1>1, <1>2, HeadTailProperties DEF Key

(* The next key, where there is more than one                               *)
LEMMA TailMoves ==
  ASSUME RequestsAreTyped, NEW p \in Handlers, handler[p].at \in Keyed, ~LastKey(p),
         NEW await \in Keyed,
         await = "expire" => Guard(p) \notin Enterprise,
         NEW over \in BOOLEAN, over => Guard(p) \in Enterprise, NEW counted \in SUBSET Windows,
         handler' = [handler EXCEPT ![p].over = over, ![p].counted = counted,
                                    ![p].at = await, ![p].left = Tail(@)]
  PROVE  GuardMove(p)
  <1> DEFINE r == [handler[p] EXCEPT !.over = over, !.counted = counted, !.at = await, !.left = Tail(handler[p].left)]
  <1>1. handler[p] \in Handler /\ handler[p].left # <<>>
    BY DEF RequestsAreTyped, Request
  <1>2. handler[p].left \in Seq(Blocks \cup Windows) /\ Len(handler[p].left) # 1
    BY <1>1 DEF Handler, LastKey
  <1>3. Tail(handler[p].left) \in Seq(Blocks \cup Windows) /\ Tail(handler[p].left) # <<>>
    <2>1. /\ Tail(handler[p].left) \in Seq(Blocks \cup Windows)
          /\ Len(Tail(handler[p].left)) = Len(handler[p].left) - 1
      BY <1>1, <1>2, HeadTailProperties
    <2>2. Len(handler[p].left) \in Nat /\ Len(handler[p].left) # 0
      BY <1>1, <1>2, EmptySeq
    <2>3. Len(handler[p].left) - 1 # 0
      BY <1>2, <2>2
    <2>4. Len(<<>>) = 0
      BY EmptySeq
    <2>5. QED
      BY <2>1, <2>3, <2>4
  <1>4. r \in Handler /\ r.at = await /\ r.guard = handler[p].guard /\ r.event = handler[p].event
        /\ r.left # <<>> /\ r.over = over
    <2>1. await \in GuardAwaits \cup EventAwaits
      BY DEF Keyed, GuardAwaits
    <2>2. PICK rest \in Seq(Blocks \cup Windows) : rest = Tail(handler[p].left) /\ rest # <<>>
      BY <1>3
    <2>3. r = [handler[p] EXCEPT !.over = over, !.counted = counted, !.at = await, !.left = rest]
      BY <2>2
    <2> HIDE DEF r
    <2>4. QED
      BY <1>1, <2>1, <2>2, <2>3 DEF Handler
  <1>5. handler[p].at \in GuardAwaits
    BY DEF Keyed, GuardAwaits
  <1>6. handler'[p] = r /\ \A q \in Handlers \ {p} : handler'[q] = handler[q]
    BY <1>1 DEF RequestsAreTyped, Handler
  <1>7. handler' = [q \in Handlers |-> handler'[q]]
    BY DEF RequestsAreTyped
  <1>8. Becomes(p, r)
    BY <1>6, <1>7 DEF Becomes
  <1> HIDE DEF r
  <1>9. await \in GuardAwaits
    BY DEF Keyed, GuardAwaits
  <1>10. QED
    BY <1>4, <1>5, <1>8, <1>9, StepMoves DEF Guard

LEMMA GotoMoves ==
  ASSUME RequestsAreTyped, NEW p \in Handlers, handler[p].at \in GuardAwaits,
         NEW await \in GuardAwaits \ {"expire"}, await \in Keyed => handler[p].at \in Keyed,
         Goto(p, await)
  PROVE  GuardMove(p)
  <1> DEFINE r == [handler[p] EXCEPT !.at = await]
  <1>1. handler[p] \in Handler /\ (handler[p].at \in Keyed => handler[p].left # <<>>)
    BY DEF RequestsAreTyped, Request
  <1>2. r \in Handler /\ r.at = await /\ r.guard = handler[p].guard /\ r.event = handler[p].event
        /\ r.left = handler[p].left /\ (r.over => r.guard \in Enterprise)
    BY <1>1 DEF Handler, RequestsAreTyped, Request
  <1>3. Becomes(p, r)
    BY DEF Goto, Becomes, RequestsAreTyped
  <1> HIDE DEF r
  <1>4. QED
    BY <1>1, <1>2, <1>3, StepMoves

(* A guard that looks at its windows from the first one on                  *)
LEMMA WindowsMoves ==
  ASSUME RequestsAreTyped, NEW p \in Handlers, handler[p].at \in GuardAwaits,
         NEW await \in Keyed \ {"expire"},
         NEW over \in BOOLEAN, over => Guard(p) \in Enterprise, NEW counted \in SUBSET Windows,
         handler' = [handler EXCEPT ![p].over = over, ![p].counted = counted,
                                    ![p].at = await, ![p].left = WindowsOf[Guard(p)]]
  PROVE  GuardMove(p)
  <1>1. handler[p] \in Handler
    BY DEF RequestsAreTyped, Request
  <1>2. PICK keys \in Seq(Blocks \cup Windows) : keys = WindowsOf[Guard(p)] /\ keys # <<>>
    BY <1>1, KeysAreSequences DEF Handler, Guard
  <1> DEFINE r == [handler[p] EXCEPT !.over = over, !.counted = counted, !.at = await, !.left = keys]
  <1>3. await \in GuardAwaits
    BY DEF Keyed, GuardAwaits
  <1>4. r \in Handler /\ r.at = await /\ r.guard = handler[p].guard /\ r.event = handler[p].event
        /\ r.left # <<>> /\ r.over = over
    BY <1>1, <1>2, <1>3 DEF Handler
  <1>5. handler'[p] = r /\ \A q \in Handlers \ {p} : handler'[q] = handler[q]
    BY <1>1, <1>2 DEF RequestsAreTyped, Handler
  <1>6. handler' = [q \in Handlers |-> handler'[q]]
    BY DEF RequestsAreTyped
  <1>7. Becomes(p, r)
    BY <1>5, <1>6 DEF Becomes
  <1> HIDE DEF r
  <1>8. QED
    BY <1>3, <1>4, <1>7, StepMoves DEF Guard

LEMMA NextWindowMoves ==
  ASSUME RequestsAreTyped, NEW p \in Handlers, handler[p].at \in Keyed,
         NEW counted \in SUBSET Windows, NextWindow(p, counted)
  PROVE  GuardMove(p)
  <1>1. handler[p].at \in GuardAwaits
    BY DEF Keyed, GuardAwaits
  <1>2. CASE LastKey(p)
    BY <1>1, <1>2, AdmitMoves DEF NextWindow
  <1>3. CASE ~LastKey(p)
    <2>1. handler' = [handler EXCEPT ![p].at = "incr", ![p].left = Tail(@), ![p].counted = counted]
      BY <1>3 DEF NextWindow
    <2>2. handler' = [handler EXCEPT ![p].over = handler[p].over, ![p].counted = counted,
                                     ![p].at = "incr", ![p].left = Tail(@)]
      BY <2>1 DEF RequestsAreTyped, Request, Handler
    <2>3. /\ handler[p].over \in BOOLEAN /\ (handler[p].over => Guard(p) \in Enterprise)
          /\ "incr" \in Keyed
      BY DEF RequestsAreTyped, Request, Handler, Keyed, Guard
    <2>4. QED
      BY <1>3, <2>2, <2>3, TailMoves
  <1>4. QED
    BY <1>2, <1>3

(* A request that looks at its next key, or at its windows from the first   *)
LEMMA NextKeyMoves ==
  ASSUME RequestsAreTyped, NEW p \in Handlers, handler[p].at \in Keyed, ~LastKey(p),
         handler' = [handler EXCEPT ![p].left = Tail(@)]
  PROVE  GuardMove(p)
  <1>1. /\ handler[p].over \in BOOLEAN /\ (handler[p].over => Guard(p) \in Enterprise)
        /\ handler[p].counted \in SUBSET Windows /\ (handler[p].at = "expire" => Guard(p) \notin Enterprise)
    BY DEF RequestsAreTyped, Request, Handler, Guard
  <1>2. handler' = [handler EXCEPT ![p].over = handler[p].over, ![p].counted = handler[p].counted,
                                   ![p].at = handler[p].at, ![p].left = Tail(@)]
    BY DEF RequestsAreTyped, Request, Handler
  <1>3. QED
    BY <1>1, <1>2, TailMoves

LEMMA ToWindowsMoves ==
  ASSUME RequestsAreTyped, NEW p \in Handlers, handler[p].at \in GuardAwaits, ToWindows(p)
  PROVE  GuardMove(p)
  <1>1. /\ handler[p].over \in BOOLEAN /\ (handler[p].over => Guard(p) \in Enterprise)
        /\ handler[p].counted \in SUBSET Windows /\ "incr" \in Keyed \ {"expire"}
    BY DEF RequestsAreTyped, Request, Handler, Keyed, Guard
  <1>2. handler' = [handler EXCEPT ![p].over = handler[p].over, ![p].counted = handler[p].counted,
                                   ![p].at = "incr", ![p].left = WindowsOf[Guard(p)]]
    BY DEF ToWindows, RequestsAreTyped, Request, Handler
  <1>3. QED
    BY <1>1, <1>2, WindowsMoves

(* blocked, incr, expire: the keys a guard looks at in turn                 *)
LEMMA LookMoves ==
  ASSUME RequestsAreTyped, NEW p \in Handlers, LookForBlock(p)
  PROVE  GuardMove(p)
  <1>1. handler[p].at \in Keyed /\ handler[p].at \in GuardAwaits
    BY DEF LookForBlock, At, Keyed, GuardAwaits, RequestsAreTyped
  <1>2. \/ Finish(p) \/ ToWindows(p)
        \/ ~LastKey(p) /\ handler' = [handler EXCEPT ![p].left = Tail(@)]
    BY DEF LookForBlock
  <1>3. QED
    BY <1>1, <1>2, FinishMoves, NextKeyMoves, ToWindowsMoves

LEMMA BumpMoves ==
  ASSUME RequestsAreTyped, NEW p \in Handlers, BumpWindow(p)
  PROVE  GuardMove(p)
  <1> DEFINE counted == handler[p].counted \cup {Key(p)}
  <1>1. handler[p].at \in Keyed /\ handler[p].at \in GuardAwaits
    BY DEF BumpWindow, At, Keyed, GuardAwaits, RequestsAreTyped
  <1>2. "record" \in GuardAwaits \ Keyed /\ "idle" \in GuardAwaits \ Keyed
    BY DEF GuardAwaits, Keyed
  <1>3. counted \in SUBSET Windows
    BY <1>1, KeyIsAWindow DEF RequestsAreTyped, Request, Handler
  <1>4. \/ handler' = [handler EXCEPT ![p].at = "expire", ![p].counted = counted]
        \/ GoOn(p, "record") \/ GoOn(p, "idle") \/ NextWindow(p, counted)
    BY DEF BumpWindow
  <1> HIDE DEF counted
  <1>5. CASE handler' = [handler EXCEPT ![p].at = "expire", ![p].counted = counted]
    <2> DEFINE r == [handler[p] EXCEPT !.at = "expire", !.counted = counted]
    <2>1. handler[p] \in Handler /\ handler[p].left # <<>>
      BY <1>1 DEF RequestsAreTyped, Request
    <2>2. r \in Handler /\ r.at = "expire" /\ r.guard = handler[p].guard /\ r.event = handler[p].event
          /\ r.left = handler[p].left /\ r.over = handler[p].over
      BY <1>3, <2>1 DEF Handler, GuardAwaits
    <2>3. Becomes(p, r)
      BY <1>5 DEF Becomes, RequestsAreTyped
    <2>4. "expire" \in GuardAwaits /\ handler[p].guard \notin Enterprise
          /\ (handler[p].over => handler[p].guard \in Enterprise)
      BY DEF GuardAwaits, BumpWindow, Guard, RequestsAreTyped, Request
    <2> HIDE DEF r
    <2>5. QED
      BY <1>1, <2>1, <2>2, <2>3, <2>4, StepMoves
  <1>6. QED
    BY <1>1, <1>2, <1>3, <1>4, <1>5, GoOnMoves, NextWindowMoves

LEMMA CountMoves ==
  ASSUME RequestsAreTyped, NEW p \in Handlers, CountRequest(p)
  PROVE  GuardMove(p)
  <1> DEFINE over == handler[p].over \/ Incremented(Key(p)) > Limit[Key(p)]
             counted == handler[p].counted \cup {Key(p)}
  <1>1. handler[p].at \in Keyed /\ handler[p].at \in GuardAwaits
    BY DEF CountRequest, CountOver, At, Keyed, GuardAwaits, RequestsAreTyped
  <1>2. over \in BOOLEAN /\ "ttl" \in Keyed /\ "incr" \in Keyed /\ Guard(p) \in Enterprise
    BY DEF Keyed, CountRequest, CountOver, RequestsAreTyped, Request, Handler
  <1>3. counted \in SUBSET Windows
    BY <1>1, KeyIsAWindow DEF RequestsAreTyped, Request, Handler
  <1>4. handler' = [handler EXCEPT ![p].over = over, ![p].counted = counted,
          ![p].at = IF LastKey(p) THEN "ttl" ELSE "incr",
          ![p].left = IF LastKey(p) THEN WindowsOf[Guard(p)] ELSE Tail(@)]
    BY DEF CountRequest, CountOver, RequestsAreTyped, Request, Handler
  <1> HIDE DEF over, counted
  <1>5. CASE LastKey(p)
    <2>1. handler' = [handler EXCEPT ![p].over = over, ![p].counted = counted,
                                     ![p].at = "ttl", ![p].left = WindowsOf[Guard(p)]]
      BY <1>4, <1>5
    <2>2. QED
      BY <1>1, <1>2, <1>3, <2>1, WindowsMoves
  <1>6. CASE ~LastKey(p)
    <2>1. handler' = [handler EXCEPT ![p].over = over, ![p].counted = counted,
                                     ![p].at = "incr", ![p].left = Tail(@)]
      BY <1>4, <1>6
    <2>2. QED
      BY <1>1, <1>2, <1>3, <1>6, <2>1, TailMoves
  <1>7. QED
    BY <1>5, <1>6

LEMMA RepairMoves ==
  ASSUME RequestsAreTyped, NEW p \in Handlers, RepairTtl(p)
  PROVE  GuardMove(p)
  <1>1. handler[p].at \in Keyed /\ handler[p].at \in GuardAwaits /\ "risk" \in GuardAwaits \ Keyed
    BY DEF RepairTtl, At, Keyed, GuardAwaits, RequestsAreTyped
  <1>2. \/ ~LastKey(p) /\ handler' = [handler EXCEPT ![p].left = Tail(@)]
        \/ GoOn(p, "risk") \/ Admit(p, handler[p].counted)
    BY DEF RepairTtl, AfterTtl, Decide
  <1>3. QED
    BY <1>1, <1>2, NextKeyMoves, GoOnMoves, AdmitMoves

LEMMA GuardsMove ==
  ASSUME RequestsAreTyped, NEW p \in Handlers, LimitsContinue(p)
  PROVE  GuardMove(p)
  <1> USE DEF At
  <1>1. /\ {"risk", "risk.expire", "apply", "idle", "clear.risk", "clear.ip", "clear.identifier"}
             \subseteq GuardAwaits \ Keyed
        /\ {"expire", "record", "login"} \subseteq GuardAwaits
    BY DEF GuardAwaits, Keyed
  <1>2. CASE LookForBlock(p) \/ BumpWindow(p) \/ CountRequest(p) \/ RepairTtl(p)
    BY <1>2, LookMoves, BumpMoves, CountMoves, RepairMoves
  <1>3. CASE SetExpiry(p)
    <2>1. handler[p].at \in Keyed /\ NextWindow(p, handler[p].counted)
          /\ handler[p].counted \in SUBSET Windows
      BY <1>3 DEF SetExpiry, Keyed, RequestsAreTyped, Request, Handler
    <2>2. QED
      BY <2>1, NextWindowMoves
  <1>4. CASE RecordCommunicationBlock(p)
    <2>1. handler[p].at \in GuardAwaits /\ Finish(p)
      BY <1>1, <1>4 DEF RecordCommunicationBlock
    <2>2. QED
      BY <2>1, FinishMoves
  <1>5. CASE NoteRisk(p)
    <2>1. handler[p].at \in GuardAwaits
          /\ (GoOn(p, "risk.expire") \/ GoOn(p, "apply") \/ GoOn(p, "idle"))
      BY <1>1, <1>5 DEF NoteRisk, RequestsAreTyped
    <2>2. QED
      BY <1>1, <2>1, GoOnMoves
  <1>6. CASE ExpireRisk(p)
    <2>1. handler[p].at \in GuardAwaits
          /\ (GoOn(p, "apply") \/ GoOn(p, "idle"))
      BY <1>1, <1>6 DEF ExpireRisk, RequestsAreTyped
    <2>2. QED
      BY <1>1, <2>1, GoOnMoves
  <1>7. CASE ApplyBlock(p)
    <2>1. handler[p].at \in GuardAwaits  /\ Finish(p)
      BY <1>1, <1>7 DEF ApplyBlock, RequestsAreTyped, Blocks
    <2>2. QED
      BY <2>1, FinishMoves
  <1>8. CASE LoginFails(p) \/ LoginSucceeds(p) \/ ClearRisk(p) \/ ClearIpBlock(p)
    <2>1. handler[p].at \in GuardAwaits
          /\ (Goto(p, "risk") \/ Goto(p, "clear.risk") \/ Goto(p, "clear.ip") \/ Goto(p, "clear.identifier"))
      BY <1>1, <1>8 DEF LoginFails, LoginSucceeds, ClearRisk, ClearIpBlock, RequestsAreTyped
    <2>2. QED
      BY <1>1, <2>1, GotoMoves
  <1>9. CASE ClearIdentifierBlock(p)
    <2>1. handler[p].at \in GuardAwaits  /\ Finish(p)
      BY <1>1, <1>9 DEF ClearIdentifierBlock, RequestsAreTyped
    <2>2. QED
      BY <2>1, FinishMoves
  <1>10. QED
    BY <1>2, <1>3, <1>4, <1>5, <1>6, <1>7, <1>8, <1>9
       DEF LimitsContinue, CheckCommunicationAbuseLimits, EnterpriseRateLimit,
           NoteRiskAndMaybeBlock, ClearLoginAbuseState

LEMMA StartMoves ==
  ASSUME RequestsAreTyped, NEW p \in Handlers, NEW guard \in DOMAIN WindowsOf,
         NEW e \in Events \cup {None}, guard = "event" => e \in Events,
         StartRequest(p, guard, e)
  PROVE  GuardMove(p) /\ starts' \in 0 .. MaxStarts
  <1> DEFINE none == BlocksOf[guard] = <<>>
             keys == IF none THEN WindowsOf[guard] ELSE BlocksOf[guard]
             r == [Idle EXCEPT !.at = IF none THEN "incr" ELSE "blocked", !.guard = guard,
                               !.left = keys, !.event = e]
  <1>1. keys \in Seq(Blocks \cup Windows) /\ keys # <<>>
    BY KeysAreSequences
  <1>2. handler' = [handler EXCEPT ![p] = r] /\ handler[p].at \in GuardAwaits
    BY DEF StartRequest, At, GuardAwaits
  <1>3. "incr" \in GuardAwaits /\ "blocked" \in GuardAwaits
    BY DEF GuardAwaits
  <1> HIDE DEF none, keys
  <1>4. Idle = [at |-> "idle", guard |-> "middleware", left |-> <<>>, over |-> FALSE,
              counted |-> {}, event |-> None]
    BY DEF Idle
  <1>5. r \in Handler /\ r.at \in GuardAwaits /\ r.left # <<>> /\ r.guard = guard /\ r.event = e
        /\ ~r.over /\ r.at # "expire"
    BY <1>1, <1>3, <1>4 DEF Handler
  <1> HIDE DEF r
  <1>6. r \in Request
    BY <1>5 DEF Request, GuardAwaits, EventAwaits
  <1>7. GuardMove(p)
    BY <1>2, <1>5, <1>6 DEF GuardMove, RequestsAreTyped
  <1>8. starts' \in 0 .. MaxStarts
    BY LimitsAssumption DEF StartRequest, RequestsAreTyped
  <1>9. QED
    BY <1>7, <1>8

LEMMA ThrowMoves ==
  ASSUME RequestsAreTyped, NEW p \in Handlers, CommandThrows(p)
  PROVE  GuardMove(p)
  BY ToWindowsMoves, AdmitMoves, FinishMoves DEF CommandThrows

----------------------------------------------------------------------------
(* Counters *)

(* What a step of p, and of nobody else, does to the loads                  *)
Alone(p) == \A q \in Handlers \ {p} : handler'[q] = handler[q]

LEMMA LoadsAreCounts ==
  ASSUME CountersAreCounts, NEW w \in Windows
  PROVE  /\ IsFiniteSet(Pending(w)) /\ Cardinality(Pending(w)) \in Nat /\ Load(w) \in Nat
         /\ counter[w].count \in Nat /\ Limit[w] \in Nat \ {0} /\ Ceiling[w] = Limit[w] + 1
         /\ admitted[w] \in Nat /\ w \in Counters
  <1>1. IsFiniteSet(Pending(w)) /\ Cardinality(Pending(w)) \in Nat
    BY LimitsAssumption, FS_Subset, FS_CardinalityType DEF Pending
  <1>2. admitted[w] \in Nat /\ counter[w].count \in Nat /\ w \in Counters
    BY DEF CountersAreCounts, Counters
  <1>3. Limit[w] \in Nat \ {0} /\ Ceiling[w] = Limit[w] + 1
    BY LimitsAssumption DEF Ceiling, Counters, Windows
  <1>4. QED
    BY <1>1, <1>2, <1>3 DEF Load

LEMMA PendingStep ==
  ASSUME CountersAreCounts, NEW p \in Handlers, Alone(p), NEW w \in Windows
  PROVE  LET n == Cardinality(Pending(w))
             m == Cardinality(Pending(w)')
         IN /\ m \in Nat /\ m <= n + 1
            /\ (Pends(p, w)' => Pends(p, w)) => m <= n
            /\ Pends(p, w) /\ ~Pends(p, w)' => m = n - 1
  <1> DEFINE n == Cardinality(Pending(w))
             m == Cardinality(Pending(w)')
             rest == Pending(w) \ {p}
  <1>1. IsFiniteSet(Pending(w)) /\ n \in Nat
    BY LoadsAreCounts
  <1>2. IsFiniteSet(rest)
    BY <1>1, FS_Subset
  <1>3. \A q \in Handlers \ {p} : Pends(q, w)' <=> Pends(q, w)
    BY DEF Alone, Pends
  <1>4. Pends(p, w)' => Pending(w)' = rest \cup {p}
    BY <1>3 DEF Pending
  <1>5. ~Pends(p, w)' => Pending(w)' = rest
    BY <1>3 DEF Pending
  <1>6. Pends(p, w) => p \in Pending(w) /\ Cardinality(rest) = n - 1
    BY <1>1, FS_RemoveElement DEF Pending
  <1>7. ~Pends(p, w) => rest = Pending(w)
    BY DEF Pending
  <1>8. Cardinality(rest \cup {p}) = Cardinality(rest) + 1
    BY <1>2, FS_AddElement
  <1>9. Cardinality(rest) \in Nat
    BY <1>2, FS_CardinalityType
  <1> HIDE DEF rest
  <1>10. CASE Pends(p, w)'
    <2>1. m = Cardinality(rest) + 1
      BY <1>4, <1>8, <1>10
    <2>2. CASE Pends(p, w)
      BY <1>1, <1>6, <1>9, <1>10, <2>1, <2>2
    <2>3. CASE ~Pends(p, w)
      <3>1. m = n + 1
        BY <1>7, <2>1, <2>3
      <3>2. QED
        BY <1>1, <1>10, <2>3, <3>1
    <2>4. QED
      BY <2>2, <2>3
  <1>11. CASE ~Pends(p, w)'
    BY <1>1, <1>5, <1>6, <1>7, <1>9, <1>11
  <1>12. QED
    BY <1>10, <1>11

(* What may happen to the load of a window                                  *)
Loads(w) ==
  \/ Load(w)' <= Load(w) /\ counter'[w].count >= counter[w].count
  \/ /\ Load(w)' <= Load(w) + 1
     /\ counter'[w].count = counter[w].count + 1 /\ counter'[w].count <= Limit[w]
  \/ /\ Load(w)' <= Load(w) + 1 /\ counter'[w].count >= counter[w].count
     /\ troubles' = troubles + 1
  \/ Load(w)' = 0

LEMMA LoadsKeep ==
  ASSUME CountersAreCounts, WindowsCount, CountersAreCounts', troubles \in Nat,
         troubles' \in Nat, troubles' >= troubles,
         \A w \in Windows : Load(w)' \in Nat /\ Loads(w)
  PROVE  WindowsCount'
  <1>1. ASSUME NEW w \in Windows
        PROVE  Load(w)' <= counter'[w].count + troubles' /\ Load(w)' <= Limit[w] + troubles'
    <2>1. /\ Load(w) \in Nat /\ Limit[w] \in Nat
          /\ Load(w) <= counter[w].count + troubles /\ Load(w) <= Limit[w] + troubles
      BY LoadsAreCounts DEF WindowsCount
    <2>2. counter[w].count \in Nat /\ counter'[w].count \in Nat
      BY DEF CountersAreCounts, Counters
    <2>3. Load(w)' \in Nat /\ Loads(w)
      OBVIOUS
    <2>4. QED
      BY <2>1, <2>2, <2>3 DEF Loads
  <1>2. QED
    BY <1>1 DEF WindowsCount

LEMMA LoadChanges ==
  ASSUME CountersAreCounts, CountersAreCounts', NEW p \in Handlers, Alone(p), NEW w \in Windows
  PROVE  /\ Load(w)' \in Nat
         /\ admitted'[w] = admitted[w] => Load(w)' <= Load(w) + 1
         /\ admitted'[w] = admitted[w] /\ (Pends(p, w)' => Pends(p, w)) => Load(w)' <= Load(w)
         /\ admitted'[w] = admitted[w] + 1 /\ ~Pends(p, w)' => Load(w)' <= Load(w) + 1
         /\ admitted'[w] = admitted[w] + 1 /\ Pends(p, w) /\ ~Pends(p, w)' => Load(w)' = Load(w)
  <1> DEFINE n == Cardinality(Pending(w))
             m == Cardinality(Pending(w)')
  <1>1. /\ m \in Nat /\ m <= n + 1
        /\ (Pends(p, w)' => Pends(p, w)) => m <= n
        /\ Pends(p, w) /\ ~Pends(p, w)' => m = n - 1
    BY PendingStep
  <1>2. n \in Nat /\ admitted[w] \in Nat
    BY LoadsAreCounts
  <1>3. admitted'[w] \in Nat
    BY DEF CountersAreCounts
  <1>4. Load(w) = admitted[w] + n /\ Load(w)' = admitted'[w] + m
    BY DEF Load
  <1> HIDE DEF n, m
  <1>5. QED
    BY <1>1, <1>2, <1>3, <1>4

(* Most steps of p admit nothing and count it nowhere else.                 *)
Quiet(p) == Alone(p) /\ \A w \in Windows : Pends(p, w)' => Pends(p, w)

LEMMA QuietKeeps ==
  ASSUME CountersAreCounts, WindowsCount, NEW p \in Handlers, Quiet(p), UNCHANGED admitted,
         counter' \in [Counters -> [count : Nat, ends : BOOLEAN]],
         \A w \in Windows : counter'[w].count >= counter[w].count,
         troubles \in Nat, troubles' \in Nat, troubles' >= troubles
  PROVE  CountersAreCounts' /\ WindowsCount'
  <1>1. CountersAreCounts'
    BY DEF CountersAreCounts
  <1>2. \A w \in Windows : Load(w)' \in Nat /\ Loads(w)
    BY <1>1, LoadChanges DEF Loads, Quiet
  <1>3. QED
    BY <1>1, <1>2, LoadsKeep

LEMMA QuietForms ==
  ASSUME RequestsAreTyped, NEW p \in Handlers,
         \/ Finish(p) \/ ToWindows(p)
         \/ \E await : GoOn(p, await) \/ Goto(p, await)
         \/ handler' = [handler EXCEPT ![p].left = Tail(@)]
  PROVE  Quiet(p)
  <1>1. Alone(p)
    BY DEF Finish, ToWindows, GoOn, Goto, Alone, RequestsAreTyped
  <1>2. \/ handler'[p].counted = {}
        \/ handler'[p].counted = handler[p].counted /\ handler'[p].over = handler[p].over
    <2>1. PICK r \in Handler : r = handler[p]
      BY DEF RequestsAreTyped, Request
    <2>2. CASE Finish(p)
      BY <2>2 DEF Finish, Idle, RequestsAreTyped
    <2>3. CASE ToWindows(p)
      <3>1. handler'[p] = [r EXCEPT !.at = "incr", !.left = WindowsOf[Guard(p)]]
        BY <2>1, <2>3 DEF ToWindows, RequestsAreTyped
      <3>2. QED
        BY <2>1, <3>1 DEF Handler
    <2>4. ASSUME NEW await, GoOn(p, await) PROVE handler'[p].counted = {}
      <3>1. CASE await = "idle"
        BY <2>4, <3>1 DEF GoOn, Idle, RequestsAreTyped
      <3>2. CASE await # "idle"
        <4>1. handler'[p] = [r EXCEPT !.at = await, !.counted = {}]
          BY <2>1, <2>4, <3>2 DEF GoOn, RequestsAreTyped
        <4>2. QED
          BY <2>1, <4>1 DEF Handler
      <3>3. QED
        BY <3>1, <3>2
    <2>5. ASSUME NEW await, Goto(p, await)
          PROVE  handler'[p].counted = handler[p].counted /\ handler'[p].over = handler[p].over
      <3>1. handler'[p] = [r EXCEPT !.at = await]
        BY <2>1, <2>5 DEF Goto, RequestsAreTyped
      <3>2. QED
        BY <2>1, <3>1 DEF Handler
    <2>6. CASE handler' = [handler EXCEPT ![p].left = Tail(@)]
      <3>1. PICK rest : rest = Tail(r.left)
        OBVIOUS
      <3>2. handler'[p] = [r EXCEPT !.left = rest]
        BY <2>1, <2>6, <3>1 DEF RequestsAreTyped
      <3>3. QED
        BY <2>1, <3>2 DEF Handler
    <2>7. QED
      BY <2>2, <2>3, <2>4, <2>5, <2>6
  <1>3. QED
    BY <1>1, <1>2 DEF Quiet, Pends

LEMMA ExpireTypes ==
  ASSUME CountersAreCounts, NEW k, Expire(k)
  PROVE  /\ counter' \in [Counters -> [count : Nat, ends : BOOLEAN]]
         /\ \A w \in Windows : counter'[w].count = counter[w].count
  BY DEF Expire, CountersAreCounts, Counters

LEMMA AdmitGoes ==
  ASSUME RequestsAreTyped, CountersAreCounts, NEW p \in Handlers, NEW windows, Admit(p, windows)
  PROVE  /\ Alone(p) /\ \A w \in Windows : ~Pends(p, w)'
         /\ admitted' \in [Windows -> Nat]
         /\ \A w \in Windows : admitted'[w] = IF w \in windows THEN admitted[w] + 1 ELSE admitted[w]
  <1>1. Alone(p)
    BY DEF Admit, GoOn, Alone, RequestsAreTyped
  <1>2. handler'[p].counted = {}
    BY DEF Admit, GoOn, Idle, RequestsAreTyped, Request, Handler
  <1>3. QED
    BY <1>1, <1>2 DEF Admit, CountersAreCounts, Pends

(* A guard lets pass what all its windows count within their limits.        *)
LEMMA AdmitKeeps ==
  ASSUME RequestsAreTyped, CountersAreCounts, WindowsCount, NEW p \in Handlers,
         ~handler[p].over, Admit(p, handler[p].counted),
         counter' \in [Counters -> [count : Nat, ends : BOOLEAN]],
         \A w \in Windows : counter'[w].count = counter[w].count, UNCHANGED troubles
  PROVE  CountersAreCounts' /\ WindowsCount'
  <1>1. /\ Alone(p) /\ \A w \in Windows : ~Pends(p, w)'
        /\ admitted' \in [Windows -> Nat]
        /\ \A w \in Windows : admitted'[w] = IF w \in handler[p].counted THEN admitted[w] + 1 ELSE admitted[w]
    BY AdmitGoes
  <1>2. CountersAreCounts'
    BY <1>1 DEF CountersAreCounts
  <1>3. ASSUME NEW w \in Windows PROVE Load(w)' \in Nat /\ Loads(w)
    <2>1. w \in handler[p].counted => Pends(p, w)
      BY DEF Pends
    <2>2. Load(w)' \in Nat /\ Load(w)' <= Load(w)
      <3>1. CASE w \in handler[p].counted
        BY <1>1, <1>2, <2>1, <3>1, LoadChanges, LoadsAreCounts
      <3>2. CASE w \notin handler[p].counted
        BY <1>1, <1>2, <3>2, LoadChanges
      <3>3. QED
        BY <3>1, <3>2
    <2>3. counter'[w].count >= counter[w].count
      BY LoadsAreCounts
    <2>4. QED
      BY <2>2, <2>3 DEF Loads
  <1>4. troubles \in Nat
    BY LimitsAssumption DEF RequestsAreTyped
  <1>5. QED
    BY <1>2, <1>3, <1>4, LoadsKeep

LEMMA IncrCounts ==
  ASSUME CountersAreCounts, NEW w \in Windows, Incr(w)
  PROVE  /\ counter' \in [Counters -> [count : Nat, ends : BOOLEAN]]
         /\ \A k \in Windows : counter'[k].count >= counter[k].count
         /\ counter'[w].count = Incremented(w)
         /\ Incremented(w) <= Limit[w] => counter'[w].count = counter[w].count + 1
  <1>1. \A k \in Windows : counter[k].count \in Nat /\ k \in Counters
    BY LoadsAreCounts
  <1>2. Ceiling[w] = Limit[w] + 1 /\ Limit[w] \in Nat
    BY LoadsAreCounts
  <1>3. Incremented(w) \in Nat /\ Incremented(w) >= counter[w].count
        /\ (Incremented(w) <= Limit[w] => Incremented(w) = counter[w].count + 1)
    BY <1>1, <1>2 DEF Incremented
  <1>4. counter'[w].count = Incremented(w) /\ \A k \in Counters \ {w} : counter'[k] = counter[k]
    BY <1>1 DEF Incr, CountersAreCounts
  <1>5. counter' \in [Counters -> [count : Nat, ends : BOOLEAN]]
    BY <1>1, <1>3 DEF Incr, CountersAreCounts
  <1>6. QED
    BY <1>1, <1>3, <1>4, <1>5

(* A window counts p, which it has room for if p pends there thereafter.    *)
LEMMA CountKeeps ==
  ASSUME RequestsAreTyped, CountersAreCounts, WindowsCount, NEW p \in Handlers,
         NEW v \in Windows, Incr(v), Alone(p), UNCHANGED <<admitted, troubles>>,
         \A w \in Windows : Pends(p, w)' => \/ Pends(p, w)
                                            \/ w = v /\ Incremented(v) <= Limit[v]
  PROVE  CountersAreCounts' /\ WindowsCount'
  <1>1. /\ counter' \in [Counters -> [count : Nat, ends : BOOLEAN]]
        /\ \A k \in Windows : counter'[k].count >= counter[k].count
        /\ counter'[v].count = Incremented(v)
        /\ Incremented(v) <= Limit[v] => counter'[v].count = counter[v].count + 1
    BY IncrCounts
  <1>2. CountersAreCounts'
    BY <1>1 DEF CountersAreCounts
  <1>3. ASSUME NEW w \in Windows PROVE Load(w)' \in Nat /\ Loads(w)
    <2>1. CASE Pends(p, w)' => Pends(p, w)
      BY <1>1, <1>2, <2>1, LoadChanges DEF Loads
    <2>2. CASE w = v /\ Incremented(v) <= Limit[v]
      BY <1>1, <1>2, <2>2, LoadChanges DEF Loads
    <2>3. QED
      BY <2>1, <2>2
  <1>4. troubles \in Nat
    BY LimitsAssumption DEF RequestsAreTyped
  <1>5. QED
    BY <1>2, <1>3, <1>4, LoadsKeep

(* The last window of a guard that refuses at once counts p and lets it     *)
(* pass.                                                                    *)
LEMMA CountAndAdmitKeeps ==
  ASSUME RequestsAreTyped, CountersAreCounts, WindowsCount, NEW p \in Handlers,
         NEW v \in Windows, Incr(v), Incremented(v) <= Limit[v], ~handler[p].over,
         Admit(p, handler[p].counted \cup {v}), UNCHANGED troubles
  PROVE  CountersAreCounts' /\ WindowsCount'
  <1> DEFINE windows == handler[p].counted \cup {v}
  <1>1. /\ Alone(p) /\ \A w \in Windows : ~Pends(p, w)'
        /\ admitted' \in [Windows -> Nat]
        /\ \A w \in Windows : admitted'[w] = IF w \in windows THEN admitted[w] + 1 ELSE admitted[w]
    BY AdmitGoes
  <1>2. /\ counter' \in [Counters -> [count : Nat, ends : BOOLEAN]]
        /\ \A k \in Windows : counter'[k].count >= counter[k].count
        /\ counter'[v].count = counter[v].count + 1 /\ counter'[v].count <= Limit[v]
    BY IncrCounts
  <1>3. CountersAreCounts'
    BY <1>1, <1>2 DEF CountersAreCounts
  <1>4. ASSUME NEW w \in Windows PROVE Load(w)' \in Nat /\ Loads(w)
    <2>1. CASE w = v
      BY <1>1, <1>2, <1>3, <2>1, LoadChanges DEF Loads
    <2>2. CASE w # v /\ w \in handler[p].counted
      <3>1. Pends(p, w)
        BY <2>2 DEF Pends
      <3>2. QED
        BY <1>1, <1>2, <1>3, <2>2, <3>1, LoadChanges, LoadsAreCounts DEF Loads
    <2>3. CASE w # v /\ w \notin handler[p].counted
      BY <1>1, <1>2, <1>3, <2>3, LoadChanges DEF Loads
    <2>4. QED
      BY <2>1, <2>2, <2>3
  <1>5. troubles \in Nat
    BY LimitsAssumption DEF RequestsAreTyped
  <1>6. QED
    BY <1>3, <1>4, <1>5, LoadsKeep

(* The steps of the guards that count or decide                             *)
LEMMA NextWindowKeeps ==
  ASSUME RequestsAreTyped, CountersAreCounts, WindowsCount, NEW p \in Handlers, SetExpiry(p)
  PROVE  CountersAreCounts' /\ WindowsCount'
  <1>1. /\ handler[p].at = "expire" /\ Expire(Key(p)) /\ UNCHANGED troubles
        /\ NextWindow(p, handler[p].counted)
    BY DEF SetExpiry, At, limitBounds
  <1>2. ~handler[p].over
    BY <1>1 DEF RequestsAreTyped, Request
  <1>3. /\ counter' \in [Counters -> [count : Nat, ends : BOOLEAN]]
        /\ \A w \in Windows : counter'[w].count = counter[w].count
    BY <1>1, ExpireTypes
  <1>4. CASE Admit(p, handler[p].counted)
    BY <1>1, <1>2, <1>3, <1>4, AdmitKeeps
  <1>5. CASE /\ handler' = [handler EXCEPT ![p].at = "incr", ![p].left = Tail(@),
                                           ![p].counted = handler[p].counted]
             /\ UNCHANGED admitted
    <2>1. PICK r \in Handler : r = handler[p]
      BY DEF RequestsAreTyped, Request
    <2>2. PICK rest : rest = Tail(r.left)
      OBVIOUS
    <2>3. handler'[p] = [r EXCEPT !.at = "incr", !.left = rest, !.counted = r.counted]
      BY <1>5, <2>1, <2>2 DEF RequestsAreTyped
    <2>4. handler'[p].counted = handler[p].counted /\ handler'[p].over = handler[p].over
      BY <2>1, <2>3 DEF Handler
    <2>5. Quiet(p)
      BY <1>5, <2>4 DEF Quiet, Pends, Alone, RequestsAreTyped
    <2>6. troubles \in Nat /\ \A w \in Windows : counter'[w].count >= counter[w].count
      BY <1>3, LoadsAreCounts, LimitsAssumption DEF RequestsAreTyped
    <2>7. QED
      BY <1>1, <1>3, <1>5, <2>5, <2>6, QuietKeeps
  <1>6. QED
    BY <1>1, <1>4, <1>5 DEF NextWindow

LEMMA RepairKeeps ==
  ASSUME RequestsAreTyped, CountersAreCounts, WindowsCount, NEW p \in Handlers, RepairTtl(p)
  PROVE  CountersAreCounts' /\ WindowsCount'
  <1>1. Expire(Key(p)) /\ UNCHANGED troubles /\ AfterTtl(p)
    BY DEF RepairTtl, limitBounds
  <1>2. /\ counter' \in [Counters -> [count : Nat, ends : BOOLEAN]]
        /\ \A w \in Windows : counter'[w].count = counter[w].count
    BY <1>1, ExpireTypes
  <1>3. CASE ~handler[p].over /\ Admit(p, handler[p].counted)
    BY <1>1, <1>2, <1>3, AdmitKeeps
  <1>4. CASE /\ GoOn(p, "risk") \/ handler' = [handler EXCEPT ![p].left = Tail(@)]
             /\ UNCHANGED admitted
    <2>1. Quiet(p)
      BY <1>4, QuietForms
    <2>2. troubles \in Nat /\ \A w \in Windows : counter'[w].count >= counter[w].count
      BY <1>2, LoadsAreCounts, LimitsAssumption DEF RequestsAreTyped
    <2>3. QED
      BY <1>1, <1>2, <1>4, <2>1, <2>2, QuietKeeps
  <1>5. QED
    BY <1>1, <1>3, <1>4 DEF AfterTtl, Decide

LEMMA BumpKeeps ==
  ASSUME RequestsAreTyped, CountersAreCounts, WindowsCount, NEW p \in Handlers, BumpWindow(p)
  PROVE  CountersAreCounts' /\ WindowsCount'
  <1> DEFINE v == Key(p)
             counted == handler[p].counted \cup {v}
  <1>1. handler[p].at = "incr" /\ Incr(v) /\ UNCHANGED troubles /\ Guard(p) \notin Enterprise
    BY DEF BumpWindow, At, limitBounds
  <1>2. v \in Windows
    BY <1>1, KeyIsAWindow DEF Keyed
  <1>3. PICK r \in Handler : r = handler[p] /\ ~r.over
    BY <1>1 DEF RequestsAreTyped, Request, Guard
  <1>4. Limit[v] \in Nat \ {0}
    BY <1>2, LoadsAreCounts
  <1>5. \/ /\ Incremented(v) <= Limit[v] /\ UNCHANGED admitted
           /\ handler' = [handler EXCEPT ![p].at = "expire", ![p].counted = counted]
        \/ UNCHANGED admitted /\ \E await : GoOn(p, await)
        \/ Incremented(v) <= Limit[v] /\ NextWindow(p, counted)
    <2>1. Incremented(v) \in Nat
      BY <1>2, LoadsAreCounts DEF Incremented
    <2>2. Incremented(v) = 1 => Incremented(v) <= Limit[v]
      BY <1>4
    <2>3. ~(Incremented(v) > Limit[v]) => Incremented(v) <= Limit[v]
      BY <1>4, <2>1
    <2> HIDE DEF v, counted
    <2>4. QED
      BY <2>2, <2>3 DEF BumpWindow, v, counted
  <1> HIDE DEF v
  <1>6. ASSUME Incremented(v) <= Limit[v], UNCHANGED admitted, Alone(p),
               handler'[p].counted = counted
        PROVE  CountersAreCounts' /\ WindowsCount'
    <2>1. \A w \in Windows : Pends(p, w)' => Pends(p, w) \/ (w = v /\ Incremented(v) <= Limit[v])
      BY <1>3, <1>6 DEF Pends
    <2>2. QED
      BY <1>1, <1>2, <1>6, <2>1, CountKeeps
  <1>7. CASE /\ Incremented(v) <= Limit[v] /\ UNCHANGED admitted
             /\ handler' = [handler EXCEPT ![p].at = "expire", ![p].counted = counted]
    <2>1. handler'[p] = [r EXCEPT !.at = "expire", !.counted = counted] /\ Alone(p)
      BY <1>3, <1>7 DEF RequestsAreTyped, Alone
    <2> HIDE DEF counted
    <2>2. handler'[p].counted = counted
      BY <1>3, <2>1 DEF Handler
    <2>3. QED
      BY <1>6, <1>7, <2>1, <2>2
  <1>8. CASE UNCHANGED admitted /\ \E await : GoOn(p, await)
    <2>1. Quiet(p)
      BY <1>8, QuietForms
    <2>2. QED
      BY <1>1, <1>2, <1>8, <2>1, CountKeeps DEF Quiet
  <1>9. CASE Incremented(v) <= Limit[v] /\ NextWindow(p, counted)
    <2>1. CASE Admit(p, counted)
      BY <1>1, <1>2, <1>3, <1>9, <2>1, CountAndAdmitKeeps
    <2>2. CASE /\ handler' = [handler EXCEPT ![p].at = "incr", ![p].left = Tail(@), ![p].counted = counted]
               /\ UNCHANGED admitted
      <3>1. PICK rest : rest = Tail(r.left)
        OBVIOUS
      <3>2. handler'[p] = [r EXCEPT !.at = "incr", !.left = rest, !.counted = counted] /\ Alone(p)
        BY <1>3, <2>2, <3>1 DEF RequestsAreTyped, Alone
      <3> HIDE DEF counted
      <3>3. handler'[p].counted = counted
        BY <1>3, <3>2 DEF Handler
      <3>4. QED
        BY <1>6, <1>9, <2>2, <3>2, <3>3
    <2>3. QED
      BY <1>9, <2>1, <2>2 DEF NextWindow
  <1> HIDE DEF counted
  <1>10. QED
    BY <1>5, <1>7, <1>8, <1>9

LEMMA CountRequestKeeps ==
  ASSUME RequestsAreTyped, CountersAreCounts, WindowsCount, NEW p \in Handlers, CountRequest(p)
  PROVE  CountersAreCounts' /\ WindowsCount'
  <1> DEFINE v == Key(p)
             over == handler[p].over \/ Incremented(v) > Limit[v]
             counted == handler[p].counted \cup {v}
  <1>1. handler[p].at = "incr" /\ Incr(v) /\ UNCHANGED <<admitted, troubles>>
    BY DEF CountRequest, CountOver, At, limitBounds
  <1>2. v \in Windows
    BY <1>1, KeyIsAWindow DEF Keyed
  <1>3. PICK r \in Handler : r = handler[p]
    BY DEF RequestsAreTyped, Request
  <1>4. Alone(p) /\ handler'[p].over = over /\ handler'[p].counted = counted
    <2>1. PICK last, keys : /\ last = (IF LastKey(p) THEN "ttl" ELSE "incr")
                            /\ keys = (IF LastKey(p) THEN WindowsOf[Guard(p)] ELSE Tail(r.left))
      OBVIOUS
    <2>2. handler' = [handler EXCEPT ![p].over = over,
            ![p].counted = @ \cup {v},
            ![p].at = IF LastKey(p) THEN "ttl" ELSE "incr",
            ![p].left = IF LastKey(p) THEN WindowsOf[Guard(p)] ELSE Tail(@)]
      BY DEF CountRequest, CountOver
    <2> HIDE DEF over, v
    <2>3. Alone(p)
      BY <2>2 DEF Alone, RequestsAreTyped
    <2>4. handler'[p] = [r EXCEPT !.over = over, !.counted = counted, !.at = last, !.left = keys]
      BY <1>3, <2>1, <2>2 DEF RequestsAreTyped, Handler
    <2> HIDE DEF counted
    <2>5. QED
      BY <1>3, <2>3, <2>4 DEF Handler
  <1>5. Incremented(v) \in Nat /\ Limit[v] \in Nat
    BY <1>2, LoadsAreCounts DEF Incremented
  <1>6. \A w \in Windows : Pends(p, w)' => Pends(p, w) \/ (w = v /\ Incremented(v) <= Limit[v])
    <2>1. ~over => ~handler[p].over /\ Incremented(v) <= Limit[v]
      BY <1>5
    <2> HIDE DEF over
    <2>2. QED
      BY <1>4, <2>1 DEF Pends
  <1> HIDE DEF v, over, counted
  <1>7. QED
    BY <1>1, <1>2, <1>4, <1>6, CountKeeps

LEMMA CountersKept ==
  ASSUME RequestsAreTyped, CountersAreCounts, WindowsCount, NEW p \in Handlers, LimitsContinue(p)
  PROVE  CountersAreCounts' /\ WindowsCount'
  <1>1. CASE BumpWindow(p) \/ CountRequest(p) \/ RepairTtl(p) \/ SetExpiry(p)
    BY <1>1, BumpKeeps, CountRequestKeeps, RepairKeeps, NextWindowKeeps
  <1>2. CASE \/ LookForBlock(p) \/ RecordCommunicationBlock(p) \/ NoteRisk(p) \/ ExpireRisk(p)
             \/ ApplyBlock(p) \/ LoginFails(p) \/ LoginSucceeds(p)
             \/ ClearRisk(p) \/ ClearIpBlock(p) \/ ClearIdentifierBlock(p)
    <2>1. UNCHANGED <<admitted, troubles>>
      BY <1>2 DEF LookForBlock, RecordCommunicationBlock, NoteRisk, ExpireRisk, ApplyBlock,
                  LoginFails, LoginSucceeds, ClearRisk, ClearIpBlock, ClearIdentifierBlock, limitBounds
    <2>2. Quiet(p)
      BY <1>2, QuietForms
         DEF LookForBlock, RecordCommunicationBlock, NoteRisk, ExpireRisk, ApplyBlock,
             LoginFails, LoginSucceeds, ClearRisk, ClearIpBlock, ClearIdentifierBlock
    <2>3. UNCHANGED counter \/ Incr("risk") \/ Expire("risk") \/ Del("risk")
      BY <1>2 DEF LookForBlock, RecordCommunicationBlock, NoteRisk, ExpireRisk, ApplyBlock,
                  LoginFails, LoginSucceeds, ClearRisk, ClearIpBlock, ClearIdentifierBlock
    <2>4. "risk" \in Counters /\ "risk" \notin Windows /\ Windows \subseteq Counters
      BY DEF Counters, Windows
    <2>5. Incremented("risk") \in Nat
      BY LimitsAssumption, <2>4 DEF Incremented, Ceiling, CountersAreCounts
    <2>6. /\ counter' \in [Counters -> [count : Nat, ends : BOOLEAN]]
          /\ \A w \in Windows : counter'[w].count = counter[w].count
      <3>1. CASE UNCHANGED counter
        BY <3>1 DEF CountersAreCounts
      <3>2. CASE Incr("risk")
        BY <2>4, <2>5, <3>2 DEF Incr, CountersAreCounts
      <3>3. CASE Expire("risk")
        BY <3>3, ExpireTypes
      <3>4. CASE Del("risk")
        BY <2>4, <3>4 DEF Del, NoCounter, CountersAreCounts
      <3>5. QED
        BY <2>3, <3>1, <3>2, <3>3, <3>4
    <2>7. troubles \in Nat /\ \A w \in Windows : counter'[w].count >= counter[w].count
      BY <2>6, LoadsAreCounts, LimitsAssumption DEF RequestsAreTyped
    <2>8. QED
      BY <2>1, <2>2, <2>6, <2>7, QuietKeeps
  <1>3. QED
    BY <1>1, <1>2
       DEF LimitsContinue, CheckCommunicationAbuseLimits, EnterpriseRateLimit,
           NoteRiskAndMaybeBlock, ClearLoginAbuseState

(* A command that throws lets one request more pass at most.                *)
LEMMA ThrowKeeps ==
  ASSUME RequestsAreTyped, CountersAreCounts, WindowsCount, NEW p \in Handlers, CommandThrows(p)
  PROVE  CountersAreCounts' /\ WindowsCount'
  <1>1. UNCHANGED counter /\ troubles' = troubles + 1 /\ troubles \in Nat
    BY LimitsAssumption DEF CommandThrows, RequestsAreTyped
  <1>2. ASSUME NEW w \in Windows PROVE counter'[w].count >= counter[w].count
    BY <1>1, LoadsAreCounts
  <1>3. CASE Admit(p, GuardWindows(p))
    <2>1. /\ Alone(p) /\ \A w \in Windows : ~Pends(p, w)'
          /\ admitted' \in [Windows -> Nat]
          /\ \A w \in Windows : admitted'[w] = IF w \in GuardWindows(p) THEN admitted[w] + 1 ELSE admitted[w]
      BY <1>3, AdmitGoes
    <2>2. CountersAreCounts'
      BY <1>1, <2>1 DEF CountersAreCounts
    <2>3. \A w \in Windows : Load(w)' \in Nat /\ Loads(w)
      BY <1>1, <1>2, <2>1, <2>2, LoadChanges DEF Loads
    <2>4. QED
      BY <1>1, <2>2, <2>3, LoadsKeep
  <1>4. CASE (Finish(p) \/ ToWindows(p)) /\ UNCHANGED admitted
    <2>1. Quiet(p)
      BY <1>4, QuietForms
    <2>2. counter' \in [Counters -> [count : Nat, ends : BOOLEAN]]
      BY <1>1 DEF CountersAreCounts
    <2>3. QED
      BY <1>1, <1>2, <1>4, <2>1, <2>2, QuietKeeps
  <1>5. QED
    BY <1>3, <1>4 DEF CommandThrows

LEMMA TimeKeeps ==
  ASSUME RequestsAreTyped, CountersAreCounts, WindowsCount, TimePasses
  PROVE  CountersAreCounts' /\ WindowsCount'
  <1>1. UNCHANGED troubles /\ troubles \in Nat
    BY LimitsAssumption DEF TimePasses, WindowEnds, BlockEnds, RequestsAreTyped, limitBounds
  <1>2. CASE \E b \in Blocks : BlockEnds(b)
    BY <1>2 DEF BlockEnds, CountersAreCounts, WindowsCount, Load, Pending, Pends, limitBounds
  <1>3. ASSUME NEW k \in Counters, WindowEnds(k)
        PROVE  CountersAreCounts' /\ WindowsCount'
    <2>1. CountersAreCounts'
      BY <1>3 DEF WindowEnds, Del, NoCounter, CountersAreCounts
    <2>2. ASSUME NEW q \in Handlers, NEW w \in Windows
          PROVE  Pends(q, w)' <=> Pends(q, w) /\ w # k
      <3>1. PICK r \in Handler : r = handler[q]
        BY DEF RequestsAreTyped, Request
      <3>2. handler'[q] = [r EXCEPT !.counted = r.counted \ {k}]
        BY <1>3, <3>1 DEF WindowEnds
      <3>3. handler'[q].counted = handler[q].counted \ {k} /\ handler'[q].over = handler[q].over
        BY <3>1, <3>2 DEF Handler
      <3>4. QED
        BY <3>3 DEF Pends
    <2>3. ASSUME NEW w \in Windows PROVE Load(w)' \in Nat /\ Loads(w)
      <3>1. CASE w = k
        <4>1. Pending(w)' = {}
          BY <2>2, <3>1 DEF Pending
        <4>2. admitted'[w] = 0
          BY <1>3, <3>1 DEF WindowEnds
        <4>3. Load(w)' = 0
          BY <4>1, <4>2, FS_EmptySet DEF Load
        <4>4. QED
          BY <4>3 DEF Loads
      <3>2. CASE w # k
        <4>1. Pending(w)' = Pending(w)
          BY <2>2, <3>2 DEF Pending
        <4>2. admitted'[w] = admitted[w] /\ counter'[w] = counter[w]
          BY <1>3, <3>2 DEF WindowEnds, Del, CountersAreCounts, Counters
        <4>3. Load(w)' = Load(w) /\ Load(w) \in Nat /\ counter[w].count \in Nat
          BY <4>1, <4>2, LoadsAreCounts DEF Load
        <4>4. QED
          BY <4>2, <4>3 DEF Loads
      <3>3. QED
        BY <3>1, <3>2
    <2>4. QED
      BY <1>1, <2>1, <2>3, LoadsKeep
  <1>4. QED
    BY <1>2, <1>3 DEF TimePasses

----------------------------------------------------------------------------
(* Events *)

(* A step that leaves the rows and the messages alone, and the requests     *)
(* that send, keeps what is known of them.                                  *)
LEMMA EventsKept ==
  ASSUME EventsAreTyped, OneSender, EventsAreAttended,
         troubles \in Nat, troubles' \in Nat, troubles' >= troubles, UNCHANGED <<event, sends>>,
         \A q \in Handlers : At(q, "send")' => /\ At(q, "send")
                                               /\ EventOf(q)' = EventOf(q) /\ sending'[q] = sending[q],
         sending' \in [Handlers -> [Channels -> {"none", "unasked"} \cup Answers]],
         \A q \in Handlers : At(q, "send") => At(q, "send")' \/ troubles' > 0
  PROVE  EventsAreTyped' /\ OneSender' /\ EventsAreAttended'
  <1>1. EventsAreTyped'
    BY DEF EventsAreTyped
  <1>2. \A e \in Events, q \in Handlers : Sends(q, e)' => Sends(q, e)
    BY DEF Sends
  <1>3. OneSender'
    <2>1. ASSUME NEW e \in Events, event'[e] = "none"
          PROVE  (\A c \in Channels : sends'[e][c] = 0) /\ \A q \in Handlers : ~Sends(q, e)'
      BY <1>2, <2>1 DEF OneSender
    <2>2. \A e \in Events : \A q, r \in Handlers : Sends(q, e)' /\ Sends(r, e)' => q = r
      BY <1>2 DEF OneSender
    <2>3. ASSUME NEW q \in Handlers, At(q, "send")', NEW c \in Channels, sending'[q][c] = "none"
          PROVE  sends'[EventOf(q)'][c] = 0
      BY <2>3 DEF OneSender
    <2>4. QED
      BY <2>1, <2>2, <2>3 DEF OneSender
  <1>4. EventsAreAttended'
    <2>1. ASSUME NEW e \in Events, event'[e] = "PROCESSING", ~(troubles' > 0)
          PROVE  \E q \in Handlers : EventOf(q)' = e /\ At(q, "send")'
      <3>1. PICK q \in Handlers : EventOf(q) = e /\ At(q, "send")
        BY <2>1 DEF EventsAreAttended
      <3>2. At(q, "send")' /\ EventOf(q)' = EventOf(q)
        BY <2>1, <3>1
      <3>3. QED
        BY <3>1, <3>2
    <2>2. QED
      BY <2>1 DEF EventsAreAttended
  <1>5. QED
    BY <1>1, <1>3, <1>4

LEMMA GuardsKeepEvents ==
  ASSUME EventsAreTyped, OneSender, EventsRunOnce, EventsAreAttended, RequestsAreTyped,
         NEW p \in Handlers, GuardMove(p), UNCHANGED eventVars,
         troubles' \in Nat, troubles' >= troubles
  PROVE  EventsAreTyped' /\ OneSender' /\ EventsRunOnce' /\ EventsAreAttended'
  <1>1. UNCHANGED <<event, sending, sends>>
    BY DEF eventVars
  <1>2. \A q \in Handlers : handler[q].at = "send" => q # p
    BY DEF GuardMove, GuardAwaits
  <1>3. \A q \in Handlers : handler'[q].at = "send" => q # p
    BY DEF GuardMove, GuardAwaits
  <1>4. \A q \in Handlers : At(q, "send")' => /\ At(q, "send")
                                              /\ EventOf(q)' = EventOf(q) /\ sending'[q] = sending[q]
    BY <1>1, <1>3 DEF At, EventOf, GuardMove
  <1>5. \A q \in Handlers : At(q, "send") => At(q, "send")'
    BY <1>2 DEF At, GuardMove
  <1>6. sending' \in [Handlers -> [Channels -> {"none", "unasked"} \cup Answers]]
    BY <1>1 DEF EventsAreTyped
  <1>7. troubles \in Nat
    BY LimitsAssumption DEF RequestsAreTyped
  <1>8. EventsRunOnce'
    BY <1>1 DEF EventsRunOnce
  <1>9. QED
    BY <1>1, <1>4, <1>5, <1>6, <1>7, <1>8, EventsKept

(* A request that leaves without having sent, or with a trouble             *)
LEMMA LeavingKeeps ==
  ASSUME EventsAreTyped, OneSender, EventsRunOnce, EventsAreAttended, RequestsAreTyped,
         NEW p \in Handlers, Finish(p), UNCHANGED <<event, sends>>,
         \/ ~At(p, "send") /\ UNCHANGED <<sending, troubles>>
         \/ sending' = [sending EXCEPT ![p] = NothingSent] /\ troubles' = troubles + 1
  PROVE  EventsAreTyped' /\ OneSender' /\ EventsRunOnce' /\ EventsAreAttended'
  <1>1. handler'[p].at = "idle" /\ \A q \in Handlers \ {p} : handler'[q] = handler[q]
    BY IdleIsARequest DEF Finish, RequestsAreTyped
  <1>2. troubles \in Nat /\ troubles' \in Nat /\ troubles' >= troubles /\ (At(p, "send") => troubles' > 0)
    BY LimitsAssumption DEF RequestsAreTyped
  <1>3. \A q \in Handlers \ {p} : sending'[q] = sending[q]
    BY DEF EventsAreTyped
  <1>4. \A q \in Handlers : At(q, "send")' => /\ At(q, "send")
                                              /\ EventOf(q)' = EventOf(q) /\ sending'[q] = sending[q]
    BY <1>1, <1>3 DEF At, EventOf
  <1>5. \A q \in Handlers : At(q, "send") => At(q, "send")' \/ troubles' > 0
    BY <1>1, <1>2 DEF At
  <1>6. sending' \in [Handlers -> [Channels -> {"none", "unasked"} \cup Answers]]
    BY DEF EventsAreTyped, NothingSent
  <1>7. EventsRunOnce'
    BY DEF EventsRunOnce
  <1>8. QED
    BY <1>2, <1>4, <1>5, <1>6, <1>7, EventsKept

LEMMA LeavingIsTyped ==
  ASSUME RequestsAreTyped, NEW p \in Handlers, Finish(p), UNCHANGED starts,
         troubles' \in 0 .. MaxTroubles
  PROVE  RequestsAreTyped'
  BY IdleIsARequest DEF RequestsAreTyped, Finish
(* A request goes from one step of an event to the next.                    *)
LEMMA EventMoves ==
  ASSUME RequestsAreTyped, NEW p \in Handlers, handler[p].at \in EventAwaits,
         NEW await \in EventAwaits, Goto(p, await), UNCHANGED <<starts, troubles>>
  PROVE  /\ RequestsAreTyped'
         /\ At(p, await)' /\ EventOf(p)' = EventOf(p)
         /\ \A q \in Handlers \ {p} : handler'[q] = handler[q]
  <1> DEFINE r == [handler[p] EXCEPT !.at = await]
  <1>1. handler[p] \in Handler /\ handler[p].guard = "event" /\ handler[p].event \in Events
        /\ (handler[p].over => handler[p].guard \in Enterprise)
    BY DEF RequestsAreTyped, Request
  <1>2. r \in Handler /\ r.at = await /\ r.guard = "event" /\ r.event = handler[p].event
        /\ r.over = handler[p].over
    BY <1>1 DEF Handler
  <1>3. r.at \notin Keyed /\ r.at # "expire"
    BY <1>2 DEF Keyed, EventAwaits
  <1>4. handler'[p] = r /\ \A q \in Handlers \ {p} : handler'[q] = handler[q]
    BY DEF Goto, RequestsAreTyped
  <1>5. handler' = [q \in Handlers |-> handler'[q]]
    BY DEF Goto, RequestsAreTyped
  <1> HIDE DEF r
  <1>6. r \in Request
    BY <1>1, <1>2, <1>3 DEF Request
  <1>7. \A q \in Handlers : handler'[q] \in Request
    BY <1>4, <1>6 DEF RequestsAreTyped
  <1>8. handler' \in [Handlers -> Request]
    BY <1>5, <1>7
  <1>9. QED
    BY <1>2, <1>4, <1>8 DEF RequestsAreTyped, At, EventOf

LEMMA EventOfIsAnEvent ==
  ASSUME RequestsAreTyped, NEW p \in Handlers, handler[p].at \in EventAwaits
  PROVE  EventOf(p) \in Events
  BY DEF RequestsAreTyped, Request, EventOf

EventInv == RequestsAreTyped /\ EventsAreTyped /\ OneSender /\ EventsRunOnce /\ EventsAreAttended

LEMMA FindKeeps ==
  ASSUME EventInv, NEW p \in Handlers, FindEvent(p)
  PROVE  EventInv'
  <1> USE DEF EventInv
  <1>1. handler[p].at = "find" /\ handler[p].at \in EventAwaits /\ "create" \in EventAwaits
    BY DEF FindEvent, At, EventAwaits
  <1>2. CASE Finish(p)
    <2>1. ~At(p, "send") /\ UNCHANGED <<starts, troubles, event, sending, sends>>
      BY <1>1 DEF FindEvent, At, UnchangedLimits
    <2>2. troubles' \in 0 .. MaxTroubles
      BY <2>1 DEF RequestsAreTyped
    <2>3. QED
      BY <1>2, <2>1, <2>2, LeavingKeeps, LeavingIsTyped
  <1>3. CASE Goto(p, "create")
    <2>1. UNCHANGED <<starts, troubles, event, sending, sends>>
      BY DEF FindEvent, UnchangedLimits
    <2>2. /\ RequestsAreTyped' /\ At(p, "create")'
          /\ \A q \in Handlers \ {p} : handler'[q] = handler[q]
      BY <1>1, <1>3, <2>1, EventMoves
    <2>3. \A q \in Handlers : At(q, "send")' <=> At(q, "send")
      BY <1>1, <2>2 DEF At
    <2>4. \A q \in Handlers : At(q, "send") => EventOf(q)' = EventOf(q) /\ sending'[q] = sending[q]
      BY <1>1, <2>1, <2>2 DEF At, EventOf
    <2>5. sending' \in [Handlers -> [Channels -> {"none", "unasked"} \cup Answers]]
      BY <2>1 DEF EventsAreTyped
    <2>6. troubles \in Nat /\ troubles' \in Nat /\ troubles' >= troubles
      BY <2>1, LimitsAssumption DEF RequestsAreTyped
    <2>7. EventsRunOnce'
      BY <2>1 DEF EventsRunOnce
    <2>8. QED
      BY <2>1, <2>2, <2>3, <2>4, <2>5, <2>6, <2>7, EventsKept
  <1>4. QED
    BY <1>2, <1>3 DEF FindEvent, AnswerDuplicate

LEMMA InsertKeeps ==
  ASSUME EventInv, NEW p \in Handlers, At(p, "create"), event[EventOf(p)] = "none",
         InsertEvent(p), UNCHANGED <<starts, troubles, sends>>
  PROVE  EventInv'
  <1> USE DEF EventInv
  <1> DEFINE E == EventOf(p)
  <1>1. handler[p].at = "create" /\ handler[p].at \in EventAwaits /\ "send" \in EventAwaits
    BY DEF At, EventAwaits
  <1>2. E \in Events
    BY <1>1, EventOfIsAnEvent
  <1>3. Goto(p, "send")
    BY DEF InsertEvent
  <1>4. /\ RequestsAreTyped' /\ At(p, "send")' /\ EventOf(p)' = E
        /\ \A q \in Handlers \ {p} : handler'[q] = handler[q]
    BY <1>1, <1>3, EventMoves
  <1>5. event' = [event EXCEPT ![E] = "PROCESSING"]
    BY DEF InsertEvent
  <1>6. PICK channels \in ChannelSets :
          sending' = [sending EXCEPT ![p] = [c \in Channels |-> IF c \in channels THEN "none" ELSE "unasked"]]
    BY DEF InsertEvent
  <1> HIDE DEF E
  <1>7. EventsAreTyped'
    <2>1. event' \in [Events -> {"none", "PROCESSING"} \cup Finished] /\ sends' \in [Events -> [Channels -> Nat]]
      BY <1>5 DEF EventsAreTyped
    <2>2. sending' \in [Handlers -> [Channels -> {"none", "unasked"} \cup Answers]]
      BY <1>6 DEF EventsAreTyped
    <2>3. QED
      BY <2>1, <2>2 DEF EventsAreTyped
  <1>8. /\ event'[E] = "PROCESSING" /\ \A e \in Events \ {E} : event'[e] = event[e]
        /\ \A q \in Handlers \ {p} : sending'[q] = sending[q]
    BY <1>2, <1>5, <1>6 DEF EventsAreTyped
  <1>9. (\A c \in Channels : sends[E][c] = 0) /\ \A q \in Handlers : ~Sends(q, E)
    BY <1>2 DEF OneSender, E
  <1>10. \A q \in Handlers \ {p}, e \in Events : Sends(q, e)' <=> Sends(q, e)
    BY <1>4 DEF Sends, At, EventOf
  <1>11. \A e \in Events : Sends(p, e)' => e = E
    BY <1>4 DEF Sends
  <1>12. OneSender'
    <2>1. ASSUME NEW e \in Events, event'[e] = "none"
          PROVE  (\A c \in Channels : sends'[e][c] = 0) /\ \A q \in Handlers : ~Sends(q, e)'
      <3>1. e # E /\ event[e] = "none"
        BY <1>8, <2>1
      <3>2. QED
        BY <1>10, <1>11, <2>1, <3>1 DEF OneSender
    <2>2. ASSUME NEW e \in Events, NEW q \in Handlers, NEW r \in Handlers, Sends(q, e)', Sends(r, e)'
          PROVE  q = r
      <3>1. CASE e = E
        BY <1>9, <1>10, <2>2, <3>1
      <3>2. CASE e # E
        BY <1>10, <1>11, <2>2, <3>2 DEF OneSender
      <3>3. QED
        BY <3>1, <3>2
    <2>3. ASSUME NEW q \in Handlers, At(q, "send")', NEW c \in Channels, sending'[q][c] = "none"
          PROVE  sends'[EventOf(q)'][c] = 0
      <3>1. CASE q = p
        BY <1>4, <1>9, <3>1
      <3>2. CASE q # p
        BY <1>4, <1>8, <2>3, <3>2 DEF OneSender, At, EventOf
      <3>3. QED
        BY <3>1, <3>2
    <2>4. QED
      BY <2>1, <2>2, <2>3 DEF OneSender
  <1>13. EventsAreAttended'
    <2>1. ASSUME NEW e \in Events, event'[e] = "PROCESSING", ~(troubles' > 0)
          PROVE  \E q \in Handlers : EventOf(q)' = e /\ At(q, "send")'
      <3>1. CASE e = E
        BY <1>4, <3>1
      <3>2. CASE e # E
        <4>1. PICK q \in Handlers : EventOf(q) = e /\ At(q, "send")
          BY <1>8, <2>1, <3>2 DEF EventsAreAttended
        <4>2. q # p
          BY <1>1, <4>1 DEF At
        <4>3. QED
          BY <1>4, <4>1, <4>2 DEF At, EventOf
      <3>3. QED
        BY <3>1, <3>2
    <2>2. QED
      BY <2>1 DEF EventsAreAttended
  <1>14. EventsRunOnce'
    BY DEF EventsRunOnce
  <1>15. QED
    BY <1>4, <1>7, <1>12, <1>13, <1>14

LEMMA CreateKeeps ==
  ASSUME EventInv, NEW p \in Handlers, CreateEvent(p)
  PROVE  EventInv'
  <1>1. UNCHANGED <<starts, troubles, sends>> /\ At(p, "create")
    BY DEF CreateEvent, UnchangedLimits
  <1>2. CASE event[EventOf(p)] = "none"
    BY <1>1, <1>2, InsertKeeps DEF CreateEvent
  <1>3. CASE event[EventOf(p)] # "none"
    <2>1. Finish(p) /\ UNCHANGED <<event, sending>> /\ ~At(p, "send")
      BY <1>1, <1>3 DEF CreateEvent, At
    <2>2. troubles' \in 0 .. MaxTroubles
      BY <1>1 DEF EventInv, RequestsAreTyped
    <2>3. QED
      BY <1>1, <2>1, <2>2, LeavingKeeps, LeavingIsTyped DEF EventInv
  <1>4. QED
    BY <1>2, <1>3

LEMMA SendKeeps ==
  ASSUME EventInv, NEW p \in Handlers, NEW c \in Channels, NEW answer \in Answers,
         SendChannel(p, c, answer)
  PROVE  EventInv'
  <1> USE DEF EventInv
  <1> DEFINE E == EventOf(p)
             n == IF answer = "accepted" THEN 1 ELSE 0
  <1>1. UNCHANGED <<handler, starts, troubles, event>> /\ At(p, "send") /\ sending[p][c] = "none"
    BY DEF SendChannel, limitVars, limitBounds
  <1>2. E \in Events
    BY <1>1, EventOfIsAnEvent DEF At, EventAwaits
  <1>3. sends[E][c] = 0
    BY <1>1 DEF OneSender
  <1>4. n \in Nat /\ n <= 1
    OBVIOUS
  <1>5. sends' = [sends EXCEPT ![E][c] = n]
    BY <1>3 DEF SendChannel
  <1>6. sending' = [sending EXCEPT ![p][c] = answer]
    BY DEF SendChannel
  <1>7. RequestsAreTyped' /\ \A q \in Handlers : At(q, "send")' = At(q, "send") /\ EventOf(q)' = EventOf(q)
    BY <1>1 DEF RequestsAreTyped, At, EventOf
  <1> HIDE DEF E, n
  <1>8. EventsAreTyped'
    <2>1. sends' \in [Events -> [Channels -> Nat]]
      BY <1>2, <1>4, <1>5 DEF EventsAreTyped
    <2>2. sending' \in [Handlers -> [Channels -> {"none", "unasked"} \cup Answers]]
      BY <1>6 DEF EventsAreTyped
    <2>3. QED
      BY <1>1, <2>1, <2>2 DEF EventsAreTyped
  <1>9. /\ sends'[E][c] = n
        /\ \A e \in Events, d \in Channels : e # E \/ d # c => sends'[e][d] = sends[e][d]
    BY <1>2, <1>5 DEF EventsAreTyped
  <1>10. /\ sending'[p][c] = answer
         /\ \A q \in Handlers, d \in Channels : q # p \/ d # c => sending'[q][d] = sending[q][d]
    BY <1>6 DEF EventsAreTyped
  <1>11. \A q \in Handlers, e \in Events : Sends(q, e)' <=> Sends(q, e)
    BY <1>7 DEF Sends
  <1>12. OneSender'
    <2>1. ASSUME NEW e \in Events, event'[e] = "none"
          PROVE  (\A d \in Channels : sends'[e][d] = 0) /\ \A q \in Handlers : ~Sends(q, e)'
      <3>1. event[e] = "none"
        BY <1>1, <2>1
      <3>2. ~Sends(p, e) /\ Sends(p, E)
        BY <1>1, <3>1 DEF OneSender, Sends, E
      <3>3. QED
        BY <1>9, <1>11, <3>1, <3>2 DEF OneSender
    <2>2. \A e \in Events : \A q, r \in Handlers : Sends(q, e)' /\ Sends(r, e)' => q = r
      BY <1>11 DEF OneSender
    <2>3. ASSUME NEW q \in Handlers, At(q, "send")', NEW d \in Channels, sending'[q][d] = "none"
          PROVE  sends'[EventOf(q)'][d] = 0
      <3>1. At(q, "send") /\ EventOf(q)' = EventOf(q) /\ EventOf(q) \in Events
        BY <1>7, <2>3, EventOfIsAnEvent DEF At, EventAwaits
      <3>2. answer # "none"
        BY DEF Answers
      <3>3. ~(q = p /\ d = c) /\ sending[q][d] = "none"
        BY <1>10, <2>3, <3>2
      <3>4. sends[EventOf(q)][d] = 0
        BY <3>1, <3>3 DEF OneSender
      <3>5. EventOf(q) = E => q = p
        BY <1>1, <1>2, <3>1 DEF OneSender, Sends, E
      <3>6. QED
        BY <1>9, <3>1, <3>3, <3>4, <3>5
    <2>4. QED
      BY <2>1, <2>2, <2>3 DEF OneSender
  <1>13. EventsRunOnce'
    <2>1. ASSUME NEW e \in Events, NEW d \in Channels
          PROVE  sends'[e][d] <= 1
      BY <1>4, <1>9 DEF EventsRunOnce
    <2>2. QED
      BY <2>1 DEF EventsRunOnce
  <1>14. EventsAreAttended'
    BY <1>1, <1>7 DEF EventsAreAttended
  <1>15. QED
    BY <1>7, <1>8, <1>12, <1>13, <1>14

LEMMA SaveKeeps ==
  ASSUME EventInv, NEW p \in Handlers, NEW status \in Finished, Save(p, status)
  PROVE  EventInv'
  <1> USE DEF EventInv
  <1> DEFINE E == EventOf(p)
  <1>1. UNCHANGED <<starts, troubles, sends>> /\ At(p, "send") /\ Finish(p)
    BY DEF Save, UnchangedLimits
  <1>2. E \in Events
    BY <1>1, EventOfIsAnEvent DEF At, EventAwaits
  <1>3. event' = [event EXCEPT ![E] = status] /\ sending' = [sending EXCEPT ![p] = NothingSent]
    BY DEF Save
  <1>4. troubles' \in 0 .. MaxTroubles
    BY <1>1 DEF RequestsAreTyped
  <1>5. RequestsAreTyped'
    BY <1>1, <1>4, LeavingIsTyped
  <1>6. handler'[p].at = "idle" /\ \A q \in Handlers \ {p} : handler'[q] = handler[q]
    BY <1>1, IdleIsARequest DEF Finish, RequestsAreTyped
  <1>7. Sends(p, E)
    BY <1>1 DEF Sends
  <1> HIDE DEF E
  <1>8. /\ event'[E] = status /\ \A e \in Events \ {E} : event'[e] = event[e]
        /\ \A q \in Handlers \ {p} : sending'[q] = sending[q]
    BY <1>2, <1>3 DEF EventsAreTyped
  <1>9. EventsAreTyped'
    <2>1. event' \in [Events -> {"none", "PROCESSING"} \cup Finished]
      BY <1>3 DEF EventsAreTyped
    <2>2. sending' \in [Handlers -> [Channels -> {"none", "unasked"} \cup Answers]]
      BY <1>3 DEF EventsAreTyped, NothingSent
    <2>3. QED
      BY <1>1, <2>1, <2>2 DEF EventsAreTyped
  <1>10. \A q \in Handlers : At(q, "send")' => q # p /\ At(q, "send") /\ EventOf(q)' = EventOf(q)
    BY <1>6 DEF At, EventOf
  <1>11. status # "none" /\ status # "PROCESSING"
    BY DEF Finished
  <1>12. \A e \in Events : event'[e] \in {"none", "PROCESSING"} => e # E /\ event'[e] = event[e]
    BY <1>8, <1>11
  <1>13. OneSender'
    <2>1. ASSUME NEW e \in Events, event'[e] = "none"
          PROVE  (\A c \in Channels : sends'[e][c] = 0) /\ \A q \in Handlers : ~Sends(q, e)'
      <3>1. event[e] = "none"
        BY <1>12, <2>1
      <3>2. QED
        BY <1>1, <1>10, <3>1 DEF OneSender, Sends
    <2>2. \A e \in Events : \A q, r \in Handlers : Sends(q, e)' /\ Sends(r, e)' => q = r
      BY <1>10 DEF OneSender, Sends
    <2>3. \A q \in Handlers : At(q, "send")' =>
            \A c \in Channels : sending'[q][c] = "none" => sends'[EventOf(q)'][c] = 0
      BY <1>1, <1>8, <1>10 DEF OneSender
    <2>4. QED
      BY <2>1, <2>2, <2>3 DEF OneSender
  <1>14. EventsAreAttended'
    <2>1. ASSUME NEW e \in Events, event'[e] = "PROCESSING", ~(troubles' > 0)
          PROVE  \E q \in Handlers : EventOf(q)' = e /\ At(q, "send")'
      <3>1. e # E /\ event[e] = "PROCESSING"
        BY <1>12, <2>1
      <3>2. PICK q \in Handlers : EventOf(q) = e /\ At(q, "send")
        BY <1>1, <2>1, <3>1 DEF EventsAreAttended
      <3>3. q # p
        BY <3>1, <3>2 DEF E
      <3>4. QED
        BY <1>6, <3>2, <3>3 DEF At, EventOf
    <2>2. QED
      BY <2>1 DEF EventsAreAttended
  <1>15. EventsRunOnce'
    BY <1>1 DEF EventsRunOnce
  <1>16. QED
    BY <1>5, <1>9, <1>13, <1>14, <1>15

LEMMA TroublesKeep ==
  ASSUME EventInv, NEW p \in Handlers, DatabaseThrows(p) \/ Die(p)
  PROVE  EventInv'
  <1>1. /\ Finish(p) /\ UNCHANGED <<starts, event, sends>>
        /\ sending' = [sending EXCEPT ![p] = NothingSent] /\ troubles' = troubles + 1 /\ troubles < MaxTroubles
    BY DEF DatabaseThrows, Die, Crash, UnchangedLimits
  <1>2. troubles' \in 0 .. MaxTroubles
    BY <1>1, LimitsAssumption DEF EventInv, RequestsAreTyped
  <1>3. QED
    BY <1>1, <1>2, LeavingKeeps, LeavingIsTyped DEF EventInv

(* What a guard does, from its first step to its last                       *)
LEMMA GuardsKeep ==
  ASSUME EventInv, NEW p \in Handlers, GuardMove(p), UNCHANGED eventVars,
         starts' \in 0 .. MaxStarts, troubles' \in 0 .. MaxTroubles, troubles' >= troubles
  PROVE  EventInv'
  <1>1. RequestsAreTyped'
    BY DEF GuardMove, RequestsAreTyped
  <1>2. troubles' \in Nat
    BY LimitsAssumption
  <1>3. QED
    BY <1>1, <1>2, GuardsKeepEvents DEF EventInv
LEMMA BoundsStay ==
  ASSUME NEW p \in Handlers, LimitsContinue(p)
  PROVE  UNCHANGED <<starts, troubles>>
  BY DEF LimitsContinue, CheckCommunicationAbuseLimits, EnterpriseRateLimit,
         NoteRiskAndMaybeBlock, ClearLoginAbuseState, LookForBlock, BumpWindow, SetExpiry,
         RecordCommunicationBlock, CountRequest, CountOver, RepairTtl, NoteRisk, ExpireRisk, ApplyBlock,
         LoginFails, LoginSucceeds, ClearRisk, ClearIpBlock, ClearIdentifierBlock, limitBounds

----------------------------------------------------------------------------
(* The invariant *)

CountersInv == CountersAreCounts /\ WindowsCount

LEMMA InvInitially == Init => IInv
  <1> SUFFICES ASSUME Init PROVE IInv
    OBVIOUS
  <1> USE DEF Init, LimitsInit
  <1>1. CountersAreCounts
    BY DEF CountersAreCounts, NoCounter
  <1>2. RequestsAreTyped
    BY IdleIsARequest, LimitsAssumption DEF RequestsAreTyped
  <1>3. EventsAreTyped
    BY DEF EventsAreTyped, NothingSent
  <1>4. \A p \in Handlers : ~At(p, "send")
    BY IdleIsARequest DEF At
  <1>5. OneSender
    BY <1>4 DEF OneSender, Sends
  <1>6. EventsRunOnce /\ EventsAreAttended
    BY DEF EventsRunOnce, EventsAreAttended
  <1>7. WindowsCount
    <2>1. ASSUME NEW w \in Windows
          PROVE  Load(w) <= counter[w].count + troubles /\ Load(w) <= Limit[w] + troubles
      <3>1. Pending(w) = {}
        BY DEF Pending, Pends, Idle
      <3>2. Load(w) = 0 /\ counter[w].count \in Nat /\ Limit[w] \in Nat
        BY <1>1, <3>1, FS_EmptySet, LoadsAreCounts DEF Load
      <3>3. QED
        BY <3>2
    <2>2. QED
      BY <2>1 DEF WindowsCount
  <1>8. QED
    BY <1>1, <1>2, <1>3, <1>5, <1>6, <1>7 DEF IInv

LEMMA CountersStay ==
  ASSUME CountersInv, RequestsAreTyped, NEW p \in Handlers, Quiet(p),
         UNCHANGED <<counter, admitted>>, troubles' = troubles \/ troubles' = troubles + 1
  PROVE  CountersInv'
  <1>1. counter' \in [Counters -> [count : Nat, ends : BOOLEAN]]
        /\ \A w \in Windows : counter'[w].count >= counter[w].count
    BY LoadsAreCounts DEF CountersInv, CountersAreCounts
  <1>2. troubles \in Nat /\ troubles' \in Nat /\ troubles' >= troubles
    BY LimitsAssumption DEF RequestsAreTyped
  <1>3. QED
    BY <1>1, <1>2, QuietKeeps DEF CountersInv

(* The end of a window changes no request but in what is noted of it.       *)
LEMMA WindowsEndForRequests ==
  ASSUME EventInv, TimePasses, UNCHANGED eventVars
  PROVE  EventInv'
  <1>1. UNCHANGED <<starts, troubles, event, sending, sends>>
    BY DEF TimePasses, WindowEnds, BlockEnds, limitBounds, eventVars
  <1>2. ASSUME NEW q \in Handlers
        PROVE  /\ handler'[q] \in Request
               /\ handler'[q].at = handler[q].at /\ handler'[q].event = handler[q].event
    <2>1. PICK r \in Request : r = handler[q]
      BY DEF EventInv, RequestsAreTyped
    <2>2. ASSUME NEW k \in Counters, WindowEnds(k)
          PROVE  /\ handler'[q] \in Request
                 /\ handler'[q].at = handler[q].at /\ handler'[q].event = handler[q].event
      <3>1. PICK x : x = [r EXCEPT !.counted = r.counted \ {k}]
        OBVIOUS
      <3>2. handler'[q] = x
        BY <2>1, <2>2, <3>1 DEF WindowEnds
      <3>3. /\ x \in Handler /\ x.at = r.at /\ x.event = r.event /\ x.guard = r.guard
            /\ x.left = r.left /\ x.over = r.over
        BY <3>1 DEF Request, Handler
      <3>4. x \in Request
        BY <3>3 DEF Request
      <3>5. QED
        BY <2>1, <3>2, <3>3, <3>4
    <2>3. CASE UNCHANGED handler
      BY <2>1, <2>3
    <2>4. QED
      BY <2>2, <2>3 DEF TimePasses, BlockEnds
  <1>3. handler' = [q \in Handlers |-> handler'[q]]
    BY DEF TimePasses, WindowEnds, BlockEnds, EventInv, RequestsAreTyped
  <1>4. RequestsAreTyped'
    <2>1. handler' \in [Handlers -> Request]
      BY <1>2, <1>3
    <2>2. QED
      BY <1>1, <2>1 DEF EventInv, RequestsAreTyped
  <1>5. \A q \in Handlers : (At(q, "send")' <=> At(q, "send")) /\ EventOf(q)' = EventOf(q)
    BY <1>2 DEF At, EventOf
  <1>6. EventsAreTyped' /\ EventsRunOnce'
    BY <1>1 DEF EventInv, EventsAreTyped, EventsRunOnce
  <1>7. troubles \in Nat /\ troubles' \in Nat /\ troubles' >= troubles
    BY <1>1, LimitsAssumption DEF EventInv, RequestsAreTyped
  <1>8. sending' \in [Handlers -> [Channels -> {"none", "unasked"} \cup Answers]]
    BY <1>6 DEF EventsAreTyped
  <1>9. OneSender' /\ EventsAreAttended'
    BY <1>1, <1>5, <1>7, <1>8, EventsKept DEF EventInv
  <1>10. QED
    BY <1>4, <1>6, <1>9 DEF EventInv

LEMMA InvPreserved == IInv /\ [Next]_vars => IInv'
  <1> SUFFICES ASSUME CountersInv, EventInv, [Next]_vars
               PROVE  CountersInv' /\ EventInv'
    BY DEF IInv, CountersInv, EventInv
  <1> DEFINE Goal == CountersInv' /\ EventInv'
             Bounds == starts' \in 0 .. MaxStarts /\ troubles' \in 0 .. MaxTroubles /\ troubles' >= troubles
  <1>1. RequestsAreTyped
    BY DEF EventInv
  <1>2. troubles \in Nat /\ troubles \in 0 .. MaxTroubles /\ starts \in 0 .. MaxStarts
    BY <1>1, LimitsAssumption DEF RequestsAreTyped
  <1>3. ASSUME NEW p \in Handlers, Quiet(p), UNCHANGED <<counter, admitted>>,
               troubles' = troubles \/ troubles' = troubles + 1
        PROVE  CountersInv'
    BY <1>1, <1>3, CountersStay
  <1>4. ASSUME NEW p \in Handlers, NEW guard \in DOMAIN WindowsOf, NEW e \in Events \cup {None},
               guard = "event" => e \in Events, StartRequest(p, guard, e), UNCHANGED eventVars
        PROVE  Goal
    <2>1. GuardMove(p) /\ starts' \in 0 .. MaxStarts
      BY <1>1, <1>4, StartMoves
    <2>2. UNCHANGED <<counter, admitted, troubles>>
      BY <1>4 DEF StartRequest
    <2>3. troubles' \in 0 .. MaxTroubles /\ troubles' >= troubles
      BY <1>2, <2>2
    <2>4. Quiet(p)
      <3>1. handler'[p].counted = {} /\ Alone(p)
        BY <1>1, <1>4 DEF StartRequest, Idle, Alone, RequestsAreTyped
      <3>2. QED
        BY <3>1 DEF Quiet, Pends
    <2>5. QED
      BY <1>3, <1>4, <2>1, <2>2, <2>3, <2>4, GuardsKeep
  <1>5. ASSUME NEW p \in Handlers, StartGuard(p), UNCHANGED eventVars PROVE Goal
    <2>1. PICK guard \in Guards \ {"event"} : StartRequest(p, guard, None)
      BY <1>5 DEF StartGuard
    <2>2. guard \in DOMAIN WindowsOf /\ guard # "event"
      BY LimitsAssumption
    <2>3. QED
      BY <1>4, <1>5, <2>1, <2>2
  <1>6. ASSUME NEW p \in Handlers, NEW e \in Events, Submit(p, e) PROVE Goal
    <2>1. "event" \in DOMAIN WindowsOf
      BY DEF WindowsOf
    <2>2. StartRequest(p, "event", e) /\ UNCHANGED eventVars
      BY <1>6 DEF Submit
    <2>3. QED
      BY <1>4, <2>1, <2>2
  <1>7. ASSUME NEW p \in Handlers, Continue(p) PROVE Goal
    <2>1. CASE FindEvent(p) \/ CreateEvent(p) \/ SendApprovedChannels(p)
      <3>1. UNCHANGED <<counter, admitted>>
        BY <2>1 DEF FindEvent, CreateEvent, SendApprovedChannels, SendChannel, SaveEventResult, Save,
                    UnchangedLimits, limitVars
      <3>2. UNCHANGED troubles
        BY <2>1 DEF FindEvent, CreateEvent, SendApprovedChannels, SendChannel, SaveEventResult, Save,
                    UnchangedLimits, limitVars, limitBounds
      <3>3. Quiet(p)
        <4>1. CASE UNCHANGED handler
          BY <4>1 DEF Quiet, Alone, Pends
        <4>2. CASE Finish(p) \/ \E await : Goto(p, await)
          BY <1>1, <4>2, QuietForms
        <4>3. QED
          BY <2>1, <4>1, <4>2
          DEF FindEvent, AnswerDuplicate, CreateEvent, InsertEvent, SendApprovedChannels, SendChannel,
              SaveEventResult, Save, limitVars
      <3>4. CountersInv'
        BY <1>3, <3>1, <3>2, <3>3
      <3>5. CASE FindEvent(p) \/ CreateEvent(p)
        BY <3>5, <3>4, FindKeeps, CreateKeeps
      <3>6. ASSUME NEW c \in Channels, NEW answer \in Answers, SendChannel(p, c, answer) PROVE Goal
        BY <3>6, <3>4, SendKeeps
      <3>7. CASE SaveEventResult(p)
        <4>1. {"QUEUED_OR_SENT", "BLOCKED", "FAILED"} \subseteq Finished
          BY DEF Finished
        <4>2. QED
          BY <3>7, <3>4, <4>1, SaveKeeps DEF SaveEventResult
      <3>8. QED
        BY <2>1, <3>5, <3>6, <3>7 DEF SendApprovedChannels
    <2>2. CASE LimitsContinue(p) /\ UNCHANGED eventVars
      <3>1. CountersInv'
        BY <1>1, <2>2, CountersKept DEF CountersInv
      <3>2. GuardMove(p) /\ Bounds
        BY <1>1, <1>2, <2>2, GuardsMove, BoundsStay
      <3>3. QED
        BY <2>2, <3>1, <3>2, GuardsKeep
    <2>3. QED
      BY <1>7, <2>1, <2>2 DEF Continue
  <1>8. ASSUME UNCHANGED <<handler, starts, troubles, eventVars>> PROVE EventInv'
    BY <1>8 DEF EventInv, RequestsAreTyped, EventsAreTyped, OneSender, Sends, EventsRunOnce,
                EventsAreAttended, At, EventOf, eventVars
  <1>9. CASE TimePasses /\ UNCHANGED eventVars
    BY <1>1, <1>9, TimeKeeps, WindowsEndForRequests DEF CountersInv
  <1>10. ASSUME NEW p \in Handlers, CommandThrows(p), UNCHANGED eventVars PROVE Goal
    <2>1. UNCHANGED starts /\ troubles' = troubles + 1 /\ troubles < MaxTroubles
      BY <1>10 DEF CommandThrows
    <2>2. Bounds
      BY <1>2, <2>1, LimitsAssumption
    <2>3. QED
      BY <1>1, <1>10, <2>1, <2>2, ThrowMoves, ThrowKeeps, GuardsKeep DEF CountersInv
  <1>11. ASSUME NEW p \in Handlers, DatabaseThrows(p) \/ Die(p) PROVE Goal
    <2>1. UNCHANGED <<counter, admitted>> /\ Finish(p) /\ troubles' = troubles + 1
      BY <1>11 DEF DatabaseThrows, Die, Crash, UnchangedLimits
    <2>2. Quiet(p)
      BY <1>1, <2>1, QuietForms
    <2>3. QED
      BY <1>3, <1>11, <2>1, <2>2, TroublesKeep
  <1>12. CASE UNCHANGED vars
    <2>1. CountersInv'
      BY <1>12 DEF CountersInv, CountersAreCounts, WindowsCount, Load, Pending, Pends, vars, limitVars, limitBounds
    <2>2. QED
      BY <1>8, <1>12, <2>1 DEF vars, limitVars, limitBounds, eventVars
  <1>13. QED
    BY <1>5, <1>6, <1>7, <1>9, <1>10, <1>11, <1>12 DEF Next

LEMMA InvAlways == Spec => []IInv
  BY InvInitially, InvPreserved, PTL DEF Spec

----------------------------------------------------------------------------
(* Theorems *)

(* A window lets through no more than its limit, and one more for each      *)
(* command that threw, however many requests overlap, whichever windows end *)
(* meanwhile, and whichever guards fail open.  What makes it so is that a   *)
(* request in flight takes its place when it is counted: the requests let   *)
(* through and those pending make the count of the window.                  *)
THEOREM LimitsAlwaysHold == Spec => []LimitsHold
  <1>1. IInv => LimitsHold
    <2>1. SUFFICES ASSUME IInv, NEW w \in Windows PROVE admitted[w] <= Limit[w] + troubles
      BY DEF LimitsHold
    <2>2. /\ Cardinality(Pending(w)) \in Nat /\ admitted[w] \in Nat /\ Limit[w] \in Nat
          /\ Load(w) <= Limit[w] + troubles
      BY <2>1, LoadsAreCounts DEF IInv, WindowsCount
    <2>3. troubles \in Nat
      BY <2>1, LimitsAssumption DEF IInv, RequestsAreTyped
    <2>4. QED
      BY <2>2, <2>3 DEF Load
  <1>2. QED
    BY <1>1, InvAlways, PTL

(* A channel gets one message of an event at most, however many requests    *)
(* post it.                                                                 *)
THEOREM EventsAlwaysRunOnce == Spec => []EventsRunOnce
  <1>1. IInv => EventsRunOnce
    BY DEF IInv
  <1>2. QED
    BY <1>1, InvAlways, PTL

(* While no request died or threw, a PROCESSING row has its sender.         *)
THEOREM EventsAreAlwaysAttended == Spec => []EventsAreAttended
  <1>1. IInv => EventsAreAttended
    BY DEF IInv
  <1>2. QED
    BY <1>1, InvAlways, PTL

----------------------------------------------------------------------------
(* Counters that end *)

(* The counters a request r has incremented and will give a TTL             *)
Owed(r) ==
  CASE r.at = "expire" -> {Head(r.left)}
    [] r.at = "risk.expire" -> {"risk"}
    [] r.at = "ttl" -> {r.left[i] : i \in DOMAIN r.left}
    [] r.at = "incr" /\ r.guard \in Enterprise ->
         {w \in Windows : \E i \in DOMAIN WindowsOf[r.guard] : WindowsOf[r.guard][i] = w}
           \ {r.left[i] : i \in DOMAIN r.left}
    [] OTHER -> {}

(* enterpriseRateLimit counts in the order of its windows, each once.       *)
InOrder(r) ==
  r.guard \in Enterprise =>
    /\ r.at # "expire"
    /\ r.at = "incr" => \/ r.left = WindowsOf[r.guard]
                        \/ r.guard = "login" /\ r.left = <<"identifier">>

GuardsCountInOrder == \A p \in Handlers : InOrder(handler[p])

(* A counter without end                                                    *)
Open(k) == counter[k].count > 0 /\ ~counter[k].ends

ExpiryInv == GuardsCountInOrder /\ OpenWindowsEnd

(* A step of p leaves no counter open that p does not owe its end, but what *)
(* another left open.                                                       *)
Settles(p) ==
  /\ InOrder(handler'[p])
  /\ \A k \in Counters : Open(k)' => \/ k \in Owed(handler'[p])
                                     \/ Open(k) /\ k \notin Owed(handler[p])

LEMMA OwedIsExpired ==
  ASSUME NEW p \in Handlers
  PROVE  WillExpire(p) = Owed(handler[p]) /\ WillExpire(p)' = Owed(handler'[p])
  BY DEF WillExpire, GuardWindows, Owed, At, Key, Guard

LEMMA SettlingKeeps ==
  ASSUME RequestsAreTyped, ExpiryInv, NEW p \in Handlers, Settles(p),
         \A q \in Handlers \ {p} : handler'[q] = handler[q], UNCHANGED troubles
  PROVE  ExpiryInv'
  <1>1. GuardsCountInOrder'
    BY DEF ExpiryInv, GuardsCountInOrder, Settles
  <1>2. ASSUME NEW k \in Counters, Open(k)', ~(troubles' > 0)
        PROVE  \E q \in Handlers : k \in Owed(handler'[q])
    <2>1. CASE k \in Owed(handler'[p])
      BY <2>1
    <2>2. CASE Open(k) /\ k \notin Owed(handler[p])
      <3>1. PICK q \in Handlers : k \in Owed(handler[q])
        BY <1>2, <2>2, OwedIsExpired DEF ExpiryInv, OpenWindowsEnd, Open
      <3>2. q # p
        BY <2>2, <3>1
      <3>3. QED
        BY <3>1, <3>2
    <2>3. QED
      BY <1>2, <2>1, <2>2 DEF Settles
  <1>3. OpenWindowsEnd'
    BY <1>2, OwedIsExpired DEF OpenWindowsEnd, Open
  <1>4. QED
    BY <1>1, <1>3 DEF ExpiryInv

LEMMA NothingOwed ==
  ASSUME NEW r, r.at \notin {"incr", "expire", "ttl", "risk.expire"}
  PROVE  InOrder(r) /\ Owed(r) = {}
  BY DEF InOrder, Owed

(* A step that counts nothing, of a request that owes nothing               *)
LEMMA QuietSettles ==
  ASSUME NEW p \in Handlers, UNCHANGED counter, Owed(handler[p]) = {}, InOrder(handler'[p])
  PROVE  Settles(p)
  BY DEF Settles, Open

LEMMA GoOnGoes ==
  ASSUME RequestsAreTyped, NEW p \in Handlers, NEW await, GoOn(p, await)
  PROVE  handler'[p].at = await
  BY DEF RequestsAreTyped, Request, Handler, GoOn, Idle

LEMMA AdmitRests ==
  ASSUME RequestsAreTyped, NEW p \in Handlers, NEW windows, Admit(p, windows)
  PROVE  InOrder(handler'[p])
  <1>1. Passed(Guard(p)) \in {"login", "find", "idle"}
    BY DEF Passed
  <1>2. handler'[p].at = Passed(Guard(p))
    BY GoOnGoes DEF Admit
  <1>3. QED
    BY <1>1, <1>2, NothingOwed

LEMMA FinishRests ==
  ASSUME RequestsAreTyped, NEW p \in Handlers, Finish(p)
  PROVE  InOrder(handler'[p])
  BY NothingOwed DEF Finish, RequestsAreTyped, Idle

LEMMA GotoGoes ==
  ASSUME RequestsAreTyped, NEW p \in Handlers, NEW await, Goto(p, await)
  PROVE  handler'[p].at = await /\ handler'[p].left = handler[p].left
         /\ handler'[p].guard = handler[p].guard
  BY DEF RequestsAreTyped, Request, Handler, Goto

LEMMA ToWindowsGoes ==
  ASSUME RequestsAreTyped, NEW p \in Handlers, ToWindows(p)
  PROVE  InOrder(handler'[p])
  <1>1. handler'[p].at = "incr" /\ handler'[p].guard = handler[p].guard
        /\ handler'[p].left = WindowsOf[handler[p].guard]
    BY DEF ToWindows, Guard, RequestsAreTyped, Request, Handler
  <1>2. QED
    BY <1>1 DEF InOrder

LEMMA NextWindowGoes ==
  ASSUME RequestsAreTyped, NEW p \in Handlers, Guard(p) \notin Enterprise,
         NEW counted, NextWindow(p, counted)
  PROVE  InOrder(handler'[p])
  <1>1. CASE LastKey(p)
    BY <1>1, AdmitRests DEF NextWindow
  <1>2. CASE ~LastKey(p)
    <2>1. handler'[p].guard = handler[p].guard
      BY <1>2 DEF NextWindow, RequestsAreTyped, Request, Handler
    <2>2. QED
      BY <2>1 DEF InOrder, Guard
  <1>3. QED
    BY <1>1, <1>2

LEMMA IncrementedCounts ==
  ASSUME CountersAreCounts, NEW k \in Counters
  PROVE  Incremented(k) = 1 \/ counter[k].count > 0
  <1>1. counter[k].count \in Nat /\ Ceiling[k] \in Nat \ {0}
    BY LimitsAssumption DEF CountersAreCounts, Ceiling, Counters
  <1>2. QED
    BY <1>1 DEF Incremented

LEMMA IncrOpens ==
  ASSUME CountersAreCounts, NEW w, Incr(w), NEW k \in Counters, Open(k)'
  PROVE  Open(k) \/ (k = w /\ Incremented(w) = 1)
  <1>1. CASE k = w
    <2>1. counter'[k].ends = counter[k].ends
      BY <1>1 DEF Incr, CountersAreCounts
    <2>2. QED
      BY <1>1, <2>1, IncrementedCounts DEF Open
  <1>2. CASE k # w
    <2>1. counter'[k] = counter[k]
      BY <1>2 DEF Incr, CountersAreCounts
    <2>2. QED
      BY <1>2, <2>1 DEF Open
  <1>3. QED
    BY <1>1, <1>2

LEMMA ExpireCloses ==
  ASSUME CountersAreCounts, NEW w, Expire(w), NEW k \in Counters, Open(k)'
  PROVE  k # w /\ Open(k)
  <1>1. CASE k = w
    <2>1. /\ counter'[k].ends = (counter[k].ends \/ counter[k].count > 0)
          /\ counter'[k].count = counter[k].count
      BY <1>1 DEF Expire, CountersAreCounts
    <2>2. QED
      BY <2>1 DEF Open
  <1>2. CASE k # w
    <2>1. counter'[k] = counter[k]
      BY <1>2 DEF Expire, CountersAreCounts
    <2>2. QED
      BY <1>2, <2>1 DEF Open
  <1>3. QED
    BY <1>1, <1>2

LEMMA LookSettles ==
  ASSUME RequestsAreTyped, NEW p \in Handlers, LookForBlock(p)
  PROVE  Settles(p)
  <1>1. handler[p].at = "blocked" /\ UNCHANGED counter
    BY DEF LookForBlock, At
  <1>2. ASSUME handler' = [handler EXCEPT ![p].left = Tail(@)] PROVE InOrder(handler'[p])
    <2>1. handler'[p].at = "blocked"
      BY <1>1, <1>2 DEF RequestsAreTyped, Request, Handler
    <2>2. QED
      BY <2>1, NothingOwed
  <1>3. InOrder(handler'[p])
    BY <1>1, <1>2, FinishRests, ToWindowsGoes DEF LookForBlock
  <1>4. QED
    BY <1>1, <1>3, NothingOwed, QuietSettles

LEMMA BumpSettles ==
  ASSUME RequestsAreTyped, CountersAreCounts, NEW p \in Handlers, BumpWindow(p)
  PROVE  Settles(p)
  <1> DEFINE w == Key(p)
             counted == handler[p].counted \cup {w}
             Expires == handler' = [handler EXCEPT ![p].at = "expire", ![p].counted = counted]
  <1>1. handler[p].at = "incr" /\ Guard(p) \notin Enterprise /\ Incr(w)
    BY DEF BumpWindow, At
  <1>2. Owed(handler[p]) = {}
    BY <1>1 DEF Owed, Guard
  <1>3. Expires => /\ handler'[p].at = "expire" /\ handler'[p].left = handler[p].left
                   /\ handler'[p].guard = handler[p].guard
    <2>1. PICK r \in Handler : r = handler[p]
      BY DEF RequestsAreTyped, Request
    <2> HIDE DEF counted
    <2>2. Expires => handler'[p] = [r EXCEPT !.at = "expire", !.counted = counted]
      BY <2>1 DEF RequestsAreTyped
    <2>3. QED
      BY <2>1, <2>2 DEF Handler
  <1>4. InOrder(handler'[p])
    <2>1. CASE Expires
      BY <1>1, <1>3, <2>1 DEF InOrder, Guard
    <2>2. ASSUME NEW await \in {"record", "idle"}, GoOn(p, await) PROVE InOrder(handler'[p])
      BY <2>2, GoOnGoes, NothingOwed
    <2>3. CASE NextWindow(p, counted)
      BY <1>1, <2>3, NextWindowGoes
    <2>4. QED
      BY <2>1, <2>2, <2>3 DEF BumpWindow
  <1>5. Incremented(w) = 1 => w \in Owed(handler'[p])
    <2>1. ASSUME Incremented(w) = 1 PROVE w \in Owed(handler'[p])
      <3>1. Expires
        <4>1. w \in Windows
          BY <1>1, KeyIsAWindow DEF Keyed
        <4>2. ~(Incremented(w) > Limit[w])
          BY <2>1, <4>1, LimitsAssumption
        <4>3. QED
          BY <2>1, <4>2 DEF BumpWindow
      <3>2. handler'[p].at = "expire" /\ handler'[p].left = handler[p].left
        BY <1>3, <3>1
      <3>3. QED
        BY <3>2 DEF Owed, Key
    <2>2. QED
      BY <2>1
  <1> HIDE DEF w, counted
  <1>6. QED
    BY <1>1, <1>2, <1>4, <1>5, IncrOpens DEF Settles

LEMMA ExpirySettles ==
  ASSUME RequestsAreTyped, CountersAreCounts, GuardsCountInOrder, NEW p \in Handlers, SetExpiry(p)
  PROVE  Settles(p)
  <1> DEFINE w == Key(p)
  <1>1. handler[p].at = "expire" /\ Expire(w) /\ NextWindow(p, handler[p].counted)
    BY DEF SetExpiry, At
  <1>2. Owed(handler[p]) = {w}
    BY <1>1 DEF Owed, Key
  <1>3. Guard(p) \notin Enterprise
    BY <1>1 DEF GuardsCountInOrder, InOrder, Guard
  <1> HIDE DEF w
  <1>4. InOrder(handler'[p])
    BY <1>1, <1>3, NextWindowGoes
  <1>5. QED
    BY <1>1, <1>2, <1>4, ExpireCloses DEF Settles

(* The three places a request of enterpriseRateLimit counts at              *)
LEMMA CountSettles ==
  ASSUME RequestsAreTyped, CountersAreCounts, GuardsCountInOrder, NEW p \in Handlers, CountRequest(p)
  PROVE  Settles(p)
  <1> DEFINE w == Key(p)
             counted == handler[p].counted \cup {w}
             over == handler[p].over \/ Incremented(w) > Limit[w]
  <1>1. PICK r : /\ r = handler[p] /\ r.at = "incr" /\ r.guard \in Enterprise /\ InOrder(r)
                 /\ r \in Handler
    BY DEF CountRequest, CountOver, At, Guard, GuardsCountInOrder, RequestsAreTyped, Request
  <1>2. Incr(w) /\ w = Head(r.left)
    BY <1>1 DEF CountRequest, CountOver, Key
  <1>3. PICK x : /\ x = handler'[p] /\ x.guard = r.guard
                 /\ x.at = (IF Len(r.left) = 1 THEN "ttl" ELSE "incr")
                 /\ x.left = (IF Len(r.left) = 1 THEN WindowsOf[r.guard] ELSE Tail(r.left))
    <2>1. handler' = [handler EXCEPT ![p].over = over, ![p].counted = @ \cup {w},
            ![p].at = IF LastKey(p) THEN "ttl" ELSE "incr",
            ![p].left = IF LastKey(p) THEN WindowsOf[Guard(p)] ELSE Tail(@)]
      BY DEF CountRequest, CountOver
    <2> HIDE DEF over, w
    <2>2. PICK last, keys : /\ last = (IF Len(r.left) = 1 THEN "ttl" ELSE "incr")
                            /\ keys = (IF Len(r.left) = 1 THEN WindowsOf[r.guard] ELSE Tail(r.left))
      OBVIOUS
    <2>3. handler' = [handler EXCEPT ![p] = [r EXCEPT !.over = over, !.counted = counted, !.at = last, !.left = keys]]
      BY <1>1, <2>1, <2>2 DEF LastKey, Guard, RequestsAreTyped, Request, Handler
    <2> HIDE DEF counted
    <2>4. handler'[p] = [r EXCEPT !.over = over, !.counted = counted, !.at = last, !.left = keys]
      BY <2>3 DEF RequestsAreTyped
    <2>5. PICK x : x = [r EXCEPT !.over = over, !.counted = counted, !.at = last, !.left = keys] /\ x = handler'[p]
      BY <2>4
    <2>6. x.guard = r.guard /\ x.at = last /\ x.left = keys
      BY <1>1, <2>5 DEF Handler
    <2>7. QED
      BY <2>2, <2>5, <2>6
  <1> HIDE DEF w, over, counted
  <1>4. /\ WindowsOf["login"] = <<"ip", "identifier">> /\ WindowsOf["public"] = <<"ip">>
        /\ {"ip", "identifier"} \subseteq Windows
    BY DEF WindowsOf, Windows
  <1>5. InOrder(x) /\ w \in Owed(x) /\ Owed(r) \subseteq Owed(x)
    <2>1. CASE r.guard = "login" /\ r.left = <<"ip", "identifier">>
      <3>1. w = "ip" /\ x.guard = "login" /\ x.at = "incr" /\ x.left = <<"identifier">>
        BY <1>2, <1>3, <2>1
      <3>2. InOrder(x)
        BY <3>1 DEF InOrder
      <3>3. Owed(x) = {v \in Windows : \E i \in DOMAIN WindowsOf["login"] : WindowsOf["login"][i] = v}
                        \ {x.left[i] : i \in DOMAIN x.left}
        BY <3>1 DEF Owed, Enterprise
      <3>4. "ip" \in Owed(x)
        <4>1. DOMAIN x.left = {1} /\ x.left[1] = "identifier"
          BY <3>1
        <4>2. 1 \in DOMAIN WindowsOf["login"] /\ WindowsOf["login"][1] = "ip"
          BY <1>4
        <4>3. QED
          BY <1>4, <3>3, <4>1, <4>2
      <3>5. Owed(r) = {}
        <4>1. Owed(r) = {v \in Windows : \E i \in DOMAIN WindowsOf["login"] : WindowsOf["login"][i] = v}
                          \ {r.left[i] : i \in DOMAIN r.left}
          BY <1>1, <2>1 DEF Owed, Enterprise
        <4>2. r.left = WindowsOf["login"]
          BY <1>4, <2>1
        <4>3. QED
          BY <4>1, <4>2
      <3>6. QED
        BY <3>1, <3>2, <3>4, <3>5
    <2>2. CASE r.guard = "login" /\ r.left = <<"identifier">>
      <3>1. w = "identifier" /\ x.guard = "login" /\ x.at = "ttl" /\ x.left = <<"ip", "identifier">>
        BY <1>2, <1>3, <1>4, <2>2
      <3>2. InOrder(x)
        BY <3>1 DEF InOrder
      <3>3. Owed(x) = {x.left[i] : i \in DOMAIN x.left}
        BY <3>1 DEF Owed
      <3>4. "ip" \in Owed(x) /\ "identifier" \in Owed(x)
        <4>1. 1 \in DOMAIN x.left /\ 2 \in DOMAIN x.left /\ x.left[1] = "ip" /\ x.left[2] = "identifier"
          BY <3>1
        <4>2. QED
          BY <3>3, <4>1
      <3>5. Owed(r) \subseteq {"ip", "identifier"}
        <4>1. Owed(r) = {v \in Windows : \E i \in DOMAIN WindowsOf["login"] : WindowsOf["login"][i] = v}
                          \ {r.left[i] : i \in DOMAIN r.left}
          BY <1>1, <2>2 DEF Owed, Enterprise
        <4>2. \A i \in DOMAIN WindowsOf["login"] : WindowsOf["login"][i] \in {"ip", "identifier"}
          BY <1>4
        <4>3. QED
          BY <4>1, <4>2
      <3>6. QED
        BY <3>1, <3>2, <3>4, <3>5
    <2>3. CASE r.guard = "public" /\ r.left = <<"ip">>
      <3>1. w = "ip" /\ x.guard = "public" /\ x.at = "ttl" /\ x.left = <<"ip">>
        BY <1>2, <1>3, <1>4, <2>3
      <3>2. InOrder(x)
        BY <3>1 DEF InOrder
      <3>3. Owed(x) = {x.left[i] : i \in DOMAIN x.left}
        BY <3>1 DEF Owed
      <3>4. "ip" \in Owed(x)
        <4>1. 1 \in DOMAIN x.left /\ x.left[1] = "ip"
          BY <3>1
        <4>2. QED
          BY <3>3, <4>1
      <3>5. Owed(r) = {}
        <4>1. Owed(r) = {v \in Windows : \E i \in DOMAIN WindowsOf["public"] : WindowsOf["public"][i] = v}
                          \ {r.left[i] : i \in DOMAIN r.left}
          BY <1>1, <2>3 DEF Owed, Enterprise
        <4>2. r.left = WindowsOf["public"]
          BY <1>4, <2>3
        <4>3. QED
          BY <4>1, <4>2
      <3>6. QED
        BY <3>1, <3>2, <3>4, <3>5
    <2>4. QED
      BY <1>1, <1>4, <2>1, <2>2, <2>3 DEF InOrder, Enterprise
  <1>6. QED
    BY <1>1, <1>2, <1>3, <1>5, IncrOpens DEF Settles

LEMMA RestOfKeys ==
  ASSUME NEW S, NEW q \in Seq(S), q # <<>>
  PROVE  /\ \A i \in DOMAIN q : q[i] = Head(q) \/ \E j \in DOMAIN Tail(q) : Tail(q)[j] = q[i]
         /\ Len(q) = 1 => {q[i] : i \in DOMAIN q} = {Head(q)}
  <1>1. /\ Tail(q) \in Seq(S) /\ Len(Tail(q)) = Len(q) - 1 /\ Head(q) = q[1]
        /\ \A i \in 1 .. Len(Tail(q)) : Tail(q)[i] = q[i + 1]
    BY HeadTailProperties
  <1>2. DOMAIN q = 1 .. Len(q) /\ DOMAIN Tail(q) = 1 .. Len(Tail(q)) /\ Len(q) \in Nat \ {0}
    BY <1>1, EmptySeq
  <1>3. ASSUME NEW i \in DOMAIN q
        PROVE  q[i] = Head(q) \/ \E j \in DOMAIN Tail(q) : Tail(q)[j] = q[i]
    <2>1. CASE i = 1
      BY <1>1, <2>1
    <2>2. CASE i # 1
      <3>1. i - 1 \in 1 .. Len(Tail(q)) /\ (i - 1) + 1 = i
        BY <1>1, <1>2, <2>2
      <3>2. Tail(q)[i - 1] = q[i]
        BY <1>1, <3>1
      <3>3. QED
        BY <1>2, <3>1, <3>2
    <2>3. QED
      BY <2>1, <2>2
  <1>4. Len(q) = 1 => DOMAIN q = {1}
    BY <1>2
  <1>5. QED
    BY <1>1, <1>3, <1>4

LEMMA RepairSettles ==
  ASSUME RequestsAreTyped, CountersAreCounts, NEW p \in Handlers, RepairTtl(p)
  PROVE  Settles(p)
  <1> DEFINE w == Key(p)
  <1>1. PICK r : r = handler[p] /\ r \in Handler /\ r.at = "ttl" /\ r.left # <<>>
    BY DEF RepairTtl, At, RequestsAreTyped, Request, Keyed
  <1>2. PICK q : q = r.left /\ q \in Seq(Blocks \cup Windows) /\ q # <<>>
    BY <1>1 DEF Handler
  <1>3. Expire(w) /\ w = Head(q)
    BY <1>1, <1>2 DEF RepairTtl, Key
  <1>4. Owed(r) = {q[i] : i \in DOMAIN q}
    BY <1>1, <1>2 DEF Owed
  <1> HIDE DEF w
  <1>5. CASE ~LastKey(p) /\ handler' = [handler EXCEPT ![p].left = Tail(@)]
    <2>1. PICK x : x = handler'[p] /\ x.at = "ttl" /\ x.left = Tail(q)
      BY <1>1, <1>2, <1>5 DEF RequestsAreTyped, Request, Handler
    <2>2. Owed(x) = {Tail(q)[i] : i \in DOMAIN Tail(q)} /\ InOrder(x)
      BY <2>1 DEF Owed, InOrder
    <2>3. Owed(r) \subseteq {w} \cup Owed(x)
      <3>1. \A i \in DOMAIN q : q[i] = Head(q) \/ \E j \in DOMAIN Tail(q) : Tail(q)[j] = q[i]
        BY <1>2, RestOfKeys
      <3>2. QED
        BY <1>3, <1>4, <2>2, <3>1
    <2>4. QED
      BY <1>1, <1>3, <2>1, <2>2, <2>3, ExpireCloses DEF Settles
  <1>6. CASE LastKey(p)
    <2>1. InOrder(handler'[p])
      <3>1. Admit(p, handler[p].counted) \/ GoOn(p, "risk")
        BY <1>6 DEF RepairTtl, AfterTtl, Decide
      <3>2. QED
        BY <3>1, AdmitRests, GoOnGoes, NothingOwed
    <2>2. Owed(r) = {w}
      BY <1>1, <1>2, <1>3, <1>4, <1>6, RestOfKeys DEF LastKey
    <2>3. QED
      BY <1>1, <1>3, <2>1, <2>2, ExpireCloses DEF Settles
  <1>7. QED
    BY <1>5, <1>6 DEF RepairTtl, AfterTtl

LEMMA RiskSettles ==
  ASSUME RequestsAreTyped, CountersAreCounts, NEW p \in Handlers,
         NoteRisk(p) \/ ExpireRisk(p) \/ ClearRisk(p)
  PROVE  Settles(p)
  <1>1. CASE NoteRisk(p)
    <2>1. Owed(handler[p]) = {} /\ Incr("risk")
      BY <1>1 DEF NoteRisk, At, Owed
    <2>2. PICK await : /\ GoOn(p, await) /\ await \in {"risk.expire", "apply", "idle"}
                       /\ Incremented("risk") = 1 => await = "risk.expire"
      BY <1>1 DEF NoteRisk
    <2>3. handler'[p].at = await
      BY <2>2, GoOnGoes
    <2>4. InOrder(handler'[p])
      BY <2>2, <2>3 DEF InOrder
    <2>5. Incremented("risk") = 1 => "risk" \in Owed(handler'[p])
      BY <2>2, <2>3 DEF Owed
    <2>6. QED
      BY <2>1, <2>4, <2>5, IncrOpens DEF Settles
  <1>2. CASE ExpireRisk(p)
    <2>1. Owed(handler[p]) = {"risk"} /\ Expire("risk")
      BY <1>2 DEF ExpireRisk, At, Owed
    <2>2. InOrder(handler'[p])
      <3>1. PICK await : GoOn(p, await) /\ await \in {"apply", "idle"}
        BY <1>2 DEF ExpireRisk
      <3>2. QED
        BY <3>1, GoOnGoes, NothingOwed
    <2>3. QED
      BY <2>1, <2>2, ExpireCloses DEF Settles
  <1>3. CASE ClearRisk(p)
    <2>1. handler[p].at = "clear.risk" /\ Goto(p, "clear.ip") /\ Del("risk")
      BY <1>3 DEF ClearRisk, At
    <2>2. Owed(handler[p]) = {} /\ InOrder(handler'[p])
      BY <2>1, GotoGoes, NothingOwed
    <2>3. ASSUME NEW k \in Counters, Open(k)' PROVE Open(k)
      <3>1. k = "risk" => counter'[k].count = 0
        BY <2>1 DEF Del, NoCounter, CountersAreCounts
      <3>2. k # "risk" => counter'[k] = counter[k]
        BY <2>1 DEF Del, CountersAreCounts
      <3>3. QED
        BY <2>3, <3>1, <3>2 DEF Open
    <2>4. QED
      BY <2>2, <2>3 DEF Settles
  <1>4. QED
    BY <1>1, <1>2, <1>3

LEMMA GuardsSettle ==
  ASSUME RequestsAreTyped, CountersAreCounts, GuardsCountInOrder, NEW p \in Handlers, LimitsContinue(p)
  PROVE  Settles(p)
  <1>1. ASSUME \/ RecordCommunicationBlock(p) \/ ApplyBlock(p) \/ ClearIdentifierBlock(p)
        PROVE  Settles(p)
    <2>1. handler[p].at \in {"record", "apply", "clear.identifier"} /\ Finish(p) /\ UNCHANGED counter
      BY <1>1 DEF RecordCommunicationBlock, ApplyBlock, ClearIdentifierBlock, At
    <2>2. QED
      BY <2>1, FinishRests, NothingOwed, QuietSettles
  <1>2. ASSUME LoginFails(p) \/ LoginSucceeds(p) \/ ClearIpBlock(p)
        PROVE  Settles(p)
    <2>1. handler[p].at \in {"login", "clear.ip"} /\ UNCHANGED counter
      BY <1>2 DEF LoginFails, LoginSucceeds, ClearIpBlock, At
    <2>2. PICK await : Goto(p, await) /\ await \in {"risk", "clear.risk", "clear.identifier"}
      BY <1>2 DEF LoginFails, LoginSucceeds, ClearIpBlock
    <2>3. InOrder(handler'[p])
      BY <2>2, GotoGoes, NothingOwed
    <2>4. QED
      BY <2>1, <2>3, NothingOwed, QuietSettles
  <1>3. QED
    BY <1>1, <1>2, LookSettles, BumpSettles, ExpirySettles, CountSettles, RepairSettles, RiskSettles
       DEF LimitsContinue, CheckCommunicationAbuseLimits, EnterpriseRateLimit,
           NoteRiskAndMaybeBlock, ClearLoginAbuseState

LEMMA StartSettles ==
  ASSUME RequestsAreTyped, NEW p \in Handlers, NEW guard, NEW e, StartRequest(p, guard, e)
  PROVE  Settles(p)
  <1>1. handler[p].at = "idle" /\ UNCHANGED counter
    BY DEF StartRequest, At
  <1>2. PICK keys, await : /\ handler'[p] = [Idle EXCEPT !.at = await, !.guard = guard,
                                                         !.left = keys, !.event = e]
                           /\ \/ await = "blocked"
                              \/ await = "incr" /\ BlocksOf[guard] = <<>>
    BY DEF StartRequest, RequestsAreTyped
  <1>3. handler'[p].at = await /\ handler'[p].guard = guard
    BY <1>2 DEF Idle
  <1>4. BlocksOf["login"] # <<>> /\ BlocksOf["public"] # <<>>
    BY DEF BlocksOf
  <1>5. InOrder(handler'[p])
    BY <1>2, <1>3, <1>4 DEF InOrder, Enterprise
  <1>6. QED
    BY <1>1, <1>5, NothingOwed, QuietSettles

LEMMA ThrowRests ==
  ASSUME RequestsAreTyped, NEW p \in Handlers, CommandThrows(p)
  PROVE  InOrder(handler'[p])
  BY ToWindowsGoes, AdmitRests, FinishRests DEF CommandThrows

LEMMA TimeCloses ==
  ASSUME RequestsAreTyped, CountersAreCounts, ExpiryInv, TimePasses
  PROVE  ExpiryInv'
  <1>0. UNCHANGED troubles
    BY DEF TimePasses, WindowEnds, BlockEnds, limitBounds
  <1>1. ASSUME NEW p \in Handlers
        PROVE  Owed(handler'[p]) = Owed(handler[p]) /\ (InOrder(handler[p]) => InOrder(handler'[p]))
    <2>1. PICK r \in Handler : r = handler[p]
      BY DEF RequestsAreTyped, Request
    <2>2. ASSUME NEW k \in Counters, WindowEnds(k)
          PROVE  Owed(handler'[p]) = Owed(handler[p]) /\ (InOrder(handler[p]) => InOrder(handler'[p]))
      <3>1. PICK x : x = [r EXCEPT !.counted = r.counted \ {k}]
        OBVIOUS
      <3>2. handler'[p] = x
        BY <2>1, <2>2, <3>1 DEF WindowEnds
      <3>3. x.at = r.at /\ x.guard = r.guard /\ x.left = r.left
        BY <3>1 DEF Handler
      <3>4. Owed(x) = Owed(r) /\ (InOrder(r) => InOrder(x))
        BY <3>3 DEF Owed, InOrder
      <3>5. QED
        BY <2>1, <3>2, <3>4
    <2>3. CASE UNCHANGED handler
      BY <2>3
    <2>4. QED
      BY <2>2, <2>3 DEF TimePasses, BlockEnds
  <1>2. ASSUME NEW k \in Counters, Open(k)' PROVE Open(k)
    <2>1. CASE UNCHANGED counter
      BY <1>2, <2>1 DEF Open
    <2>2. ASSUME NEW j \in Counters, WindowEnds(j) PROVE Open(k)
      <3>1. k = j => counter'[k].count = 0
        BY <2>2 DEF WindowEnds, Del, NoCounter, CountersAreCounts
      <3>2. k # j => counter'[k] = counter[k]
        BY <2>2 DEF WindowEnds, Del, CountersAreCounts
      <3>3. QED
        BY <1>2, <3>1, <3>2 DEF Open
    <2>3. QED
      BY <2>1, <2>2 DEF TimePasses, BlockEnds
  <1>3. GuardsCountInOrder'
    BY <1>1 DEF ExpiryInv, GuardsCountInOrder
  <1>4. OpenWindowsEnd'
    <2>1. \A p \in Handlers : WillExpire(p)' = WillExpire(p)
      BY <1>1, OwedIsExpired
    <2>2. QED
      BY <1>0, <1>2, <2>1 DEF ExpiryInv, OpenWindowsEnd, Open
  <1>5. QED
    BY <1>3, <1>4 DEF ExpiryInv

(* A command that throws, or a request that dies, is a trouble.             *)
LEMMA TroubleExcuses ==
  ASSUME RequestsAreTyped, ExpiryInv, NEW p \in Handlers, InOrder(handler'[p]),
         \A q \in Handlers \ {p} : handler'[q] = handler[q], troubles' = troubles + 1
  PROVE  ExpiryInv'
  <1>1. troubles' > 0
    BY LimitsAssumption DEF RequestsAreTyped
  <1>2. QED
    BY <1>1 DEF ExpiryInv, GuardsCountInOrder, OpenWindowsEnd

LEMMA ExpiryStep ==
  ASSUME IInv, ExpiryInv, [Next]_vars
  PROVE  ExpiryInv'
  <1>1. RequestsAreTyped /\ CountersAreCounts /\ GuardsCountInOrder
    BY DEF IInv, ExpiryInv
  <1>2. ASSUME NEW p \in Handlers, NEW guard, NEW e, StartRequest(p, guard, e) PROVE ExpiryInv'
    <2>1. (\A q \in Handlers \ {p} : handler'[q] = handler[q]) /\ UNCHANGED troubles
      BY <1>1, <1>2 DEF StartRequest, RequestsAreTyped
    <2>2. QED
      BY <1>1, <1>2, <2>1, StartSettles, SettlingKeeps
  <1>3. ASSUME NEW p \in Handlers, Finish(p) PROVE \A q \in Handlers \ {p} : handler'[q] = handler[q]
    BY <1>1, <1>3 DEF Finish, RequestsAreTyped
  <1>4. ASSUME NEW p \in Handlers, FindEvent(p) \/ CreateEvent(p) \/ SendApprovedChannels(p)
        PROVE  ExpiryInv'
    <2>1. handler[p].at \in EventAwaits /\ UNCHANGED <<counter, troubles>>
      BY <1>4 DEF FindEvent, CreateEvent, SendApprovedChannels, SendChannel, SaveEventResult, Save,
                  UnchangedLimits, limitVars, limitBounds, At, EventAwaits
    <2>2. /\ InOrder(handler'[p])
          /\ \A q \in Handlers \ {p} : handler'[q] = handler[q]
      <3>1. CASE UNCHANGED handler
        BY <1>1, <3>1 DEF GuardsCountInOrder
      <3>2. CASE Finish(p)
        BY <1>1, <1>3, <3>2, FinishRests
      <3>3. ASSUME NEW await \in {"create", "send"}, Goto(p, await)
            PROVE  InOrder(handler'[p]) /\ \A q \in Handlers \ {p} : handler'[q] = handler[q]
        <4>1. InOrder(handler'[p])
          BY <1>1, <3>3, GotoGoes, NothingOwed
        <4>2. QED
          BY <1>1, <3>3, <4>1 DEF Goto, RequestsAreTyped
      <3>4. QED
        BY <1>4, <3>1, <3>2, <3>3
        DEF FindEvent, AnswerDuplicate, CreateEvent, InsertEvent, SendApprovedChannels, SendChannel,
            SaveEventResult, Save, limitVars
    <2>3. Owed(handler[p]) = {}
      BY <2>1, NothingOwed DEF EventAwaits
    <2>4. QED
      BY <1>1, <2>1, <2>2, <2>3, QuietSettles, SettlingKeeps
  <1>5. ASSUME NEW p \in Handlers, LimitsContinue(p) PROVE ExpiryInv'
    <2>1. \A q \in Handlers \ {p} : handler'[q] = handler[q]
      BY <1>1, <1>5, GuardsMove DEF GuardMove
    <2>2. UNCHANGED troubles
      BY <1>5, BoundsStay
    <2>3. QED
      BY <1>1, <1>5, <2>1, <2>2, GuardsSettle, SettlingKeeps
  <1>6. ASSUME NEW p \in Handlers, CommandThrows(p) PROVE ExpiryInv'
    <2>1. (\A q \in Handlers \ {p} : handler'[q] = handler[q]) /\ troubles' = troubles + 1
      BY <1>1, <1>6, ThrowMoves DEF GuardMove, CommandThrows
    <2>2. QED
      BY <1>1, <1>6, <2>1, ThrowRests, TroubleExcuses
  <1>7. ASSUME NEW p \in Handlers, DatabaseThrows(p) \/ Die(p) PROVE ExpiryInv'
    <2>1. Finish(p) /\ troubles' = troubles + 1
      BY <1>7 DEF DatabaseThrows, Die, Crash
    <2>2. QED
      BY <1>1, <1>3, <2>1, FinishRests, TroubleExcuses
  <1>8. CASE UNCHANGED vars
    <2>1. UNCHANGED <<handler, counter, troubles>>
      BY <1>8 DEF vars, limitVars, limitBounds
    <2>2. \A p \in Handlers : WillExpire(p)' = WillExpire(p)
      BY <2>1, OwedIsExpired
    <2>3. QED
      BY <2>1, <2>2 DEF ExpiryInv, GuardsCountInOrder, OpenWindowsEnd
  <1>9. QED
    BY <1>1, <1>2, <1>4, <1>5, <1>6, <1>7, <1>8, TimeCloses DEF Next, StartGuard, Submit, Continue

(* Every counter has a TTL or a request that will give it one, whatever     *)
(* increments, expires and clears it, while no command threw and no request *)
(* died.                                                                    *)
THEOREM OpenWindowsAlwaysEnd == Spec => []OpenWindowsEnd
  <1>1. Init => ExpiryInv
    <2>1. SUFFICES ASSUME Init PROVE ExpiryInv
      OBVIOUS
    <2>2. GuardsCountInOrder
      BY <2>1, NothingOwed DEF Init, LimitsInit, GuardsCountInOrder, Idle
    <2>3. OpenWindowsEnd
      BY <2>1 DEF Init, LimitsInit, OpenWindowsEnd, NoCounter
    <2>4. QED
      BY <2>2, <2>3 DEF ExpiryInv
  <1>2. IInv /\ ExpiryInv /\ [Next]_vars => ExpiryInv'
    BY ExpiryStep
  <1>3. ExpiryInv => OpenWindowsEnd
    BY DEF ExpiryInv
  <1>4. QED
    BY <1>1, <1>2, <1>3, InvAlways, PTL DEF Spec

=============================================================================
