--------------------------- MODULE ExternalEvents ---------------------------
(***************************************************************************)
(* The events other services post to have a message sent, behind their     *)
(* rate limit (module AbuseLimits, whose other requests run next to them). *)
(* A row per idempotency key, unique in the database, stands for an event  *)
(* from before its messages are dispatched.  A dispatch is one step with   *)
(* the three answers module Deliveries has for it.                         *)
(***************************************************************************)
EXTENDS AbuseLimits

CONSTANTS
  Events   \* what one client posts: an event with its idempotency key

Channels == {"sms", "email"}
ChannelSets == SUBSET Channels \ {{}}

Answers == {"accepted", "blocked", "failed"}

Finished == {"QUEUED_OR_SENT", "BLOCKED", "FAILED"}

VARIABLES
  event,      \* ExternalCommunicationEvent: the status of the row of each key
  sending,    \* per request: what the dispatch to each channel answered
  sends       \* history: accepted messages per event and channel

eventVars == <<event, sending, sends>>
vars == <<limitVars, eventVars>>

(* "none" is a channel that has not answered, "unasked" one not asked for.  *)
NothingSent == [c \in Channels |-> "unasked"]

Handler ==
  [at : GuardAwaits \cup EventAwaits, guard : DOMAIN WindowsOf, left : Seq(Blocks \cup Windows),
   over : BOOLEAN, counted : SUBSET Windows, event : Events \cup {None}]

TypeOK ==
  /\ CountersAreTyped
  /\ block \subseteq Blocks
  /\ handler \in [Handlers -> Handler]
  /\ admitted \in [Windows -> Nat]
  /\ starts \in 0 .. MaxStarts /\ troubles \in 0 .. MaxTroubles
  /\ event \in [Events -> {"none", "PROCESSING"} \cup Finished]
  /\ sending \in [Handlers -> [Channels -> {"none", "unasked"} \cup Answers]]
  /\ sends \in [Events -> [Channels -> Nat]]

Init ==
  /\ LimitsInit
  /\ event = [e \in Events |-> "none"]
  /\ sending = [p \in Handlers |-> NothingSent]
  /\ sends = [e \in Events |-> [c \in Channels |-> 0]]

----------------------------------------------------------------------------
(* Handlers *)

EventOf(p) == handler[p].event

UnchangedLimits == UNCHANGED <<counter, block, admitted, starts>>

(* POST /events of a client that authenticateExternalCommunicationClient    *)
(* lets pass (another changes nothing here), up to the first of the windows *)
(* that enforceClientEventRateLimit counts it in                            *)
Submit(p, e) == StartRequest(p, "event", e) /\ UNCHANGED eventVars

(* ALREADY_ACCEPTED, whatever has become of the event                       *)
AnswerDuplicate(p) == Finish(p)

(* getExistingEvent                                                         *)
FindEvent(p) ==
  /\ At(p, "find")
  /\ IF event[EventOf(p)] = "none"
     THEN Goto(p, "create") ELSE AnswerDuplicate(p)
  /\ UnchangedLimits /\ UNCHANGED <<troubles, event, sending, sends>>

InsertEvent(p) ==
  /\ event' = [event EXCEPT ![EventOf(p)] = "PROCESSING"]
  /\ \E channels \in ChannelSets :
       sending' = [sending EXCEPT ![p] = [c \in Channels |-> IF c \in channels THEN "none" ELSE "unasked"]]
  /\ Goto(p, "send")

(* Variant: without the unique index                                        *)
CreateAnyEvent(p) ==
  /\ At(p, "create")
  /\ InsertEvent(p)
  /\ UnchangedLimits /\ UNCHANGED <<troubles, sends>>

(* The insert fails if another request made the row in the meantime.        *)
CreateEvent(p) ==
  /\ At(p, "create")
  /\ IF event[EventOf(p)] = "none"
     THEN InsertEvent(p)
     ELSE Finish(p) /\ UNCHANGED <<event, sending>>
  /\ UnchangedLimits /\ UNCHANGED <<troubles, sends>>

(* sendApprovedChannels: the channels asked for, at the same time           *)
SendChannel(p, c, answer) ==
  /\ At(p, "send")
  /\ sending[p][c] = "none"
  /\ sending' = [sending EXCEPT ![p][c] = answer]
  /\ sends' = [sends EXCEPT ![EventOf(p)][c] = IF answer = "accepted" THEN @ + 1 ELSE @]
  /\ UNCHANGED <<limitVars, event>>

AllAnswered(p) == \A c \in Channels : sending[p][c] # "none"

Answered(p, answer) == \E c \in Channels : sending[p][c] = answer

Save(p, status) ==
  /\ At(p, "send") /\ AllAnswered(p)
  /\ event' = [event EXCEPT ![EventOf(p)] = status]
  /\ sending' = [sending EXCEPT ![p] = NothingSent]
  /\ Finish(p)
  /\ UnchangedLimits /\ UNCHANGED <<troubles, sends>>

(* Variant: saves what was accepted only                                    *)
SaveEventAccepted(p) ==
  IF Answered(p, "accepted") THEN Save(p, "QUEUED_OR_SENT") ELSE Save(p, "PROCESSING")

(* saveEventResult, then the answer: 202, 429 or 503                        *)
SaveEventResult(p) ==
  CASE Answered(p, "accepted") -> Save(p, "QUEUED_OR_SENT")
    [] ~Answered(p, "accepted") /\ Answered(p, "blocked") -> Save(p, "BLOCKED")
    [] OTHER -> Save(p, "FAILED")

(* A database call throws: 500, and the row stays as it is.                 *)
DatabaseThrows(p) ==
  /\ troubles < MaxTroubles
  /\ handler[p].at \in EventAwaits
  /\ troubles' = troubles + 1
  /\ sending' = [sending EXCEPT ![p] = NothingSent]
  /\ Finish(p)
  /\ UnchangedLimits /\ UNCHANGED <<event, sends>>

Die(p) ==
  /\ Crash(p)
  /\ sending' = [sending EXCEPT ![p] = NothingSent]
  /\ UNCHANGED <<event, sends>>

----------------------------------------------------------------------------
(* Specification *)

SendApprovedChannels(p) ==
  \/ \E c \in Channels, answer \in Answers : SendChannel(p, c, answer)
  \/ SaveEventResult(p)

Continue(p) ==
  \/ FindEvent(p) \/ CreateEvent(p) \/ SendApprovedChannels(p)
  \/ LimitsContinue(p) /\ UNCHANGED eventVars

Next ==
  \/ \E p \in Handlers : StartGuard(p) /\ UNCHANGED eventVars
  \/ \E p \in Handlers, e \in Events : Submit(p, e)
  \/ \E p \in Handlers : Continue(p)
  \/ TimePasses /\ UNCHANGED eventVars
  \/ \E p \in Handlers : CommandThrows(p) /\ UNCHANGED eventVars
  \/ \E p \in Handlers : DatabaseThrows(p) \/ Die(p)

Spec == Init /\ [][Next]_vars

----------------------------------------------------------------------------
(* Properties *)

(* However often an event is posted, at once or after the first answer,     *)
(* a channel gets one message of it at most.                                *)
EventsRunOnce == \A e \in Events, c \in Channels : sends[e][c] <= 1

(* A row says PROCESSING only while a request works on it, or for ever if   *)
(* that request died or threw: no other request takes the event up again.   *)
EventsAreAttended ==
  \A e \in Events :
    event[e] = "PROCESSING" => troubles > 0 \/ \E p \in Handlers : EventOf(p) = e /\ At(p, "send")

=============================================================================
