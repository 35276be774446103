------------------------- MODULE CommunicationQueue -------------------------
(***************************************************************************)
(* The Redis queue of e-mails, text messages and notifications: enqueued by *)
(* the API under a deduplication key, moved to a processing list by a       *)
(* worker, then acknowledged, delayed for another attempt or moved to the   *)
(* dead letters.                                                            *)
(*                                                                          *)
(* A list entry is a job with its number of failed attempts, the two parts  *)
(* of the stored text that change.  Every Redis command is a step of its    *)
(* own; worker[w].at names the next one.                                    *)
(*                                                                          *)
(* Abstracted: what a delivery does beyond succeeding or failing, the       *)
(* back-off (a delayed entry becomes due in time), metrics.                 *)
(***************************************************************************)
EXTENDS FiniteSets, Integers, Sequences

CONSTANTS
  Jobs,         \* identifiers of jobs
  Payloads,     \* what jobs may carry
  Workers,      \* worker processes
  MaxAttempts,  \* attempts before a job is a dead letter
  BatchSize,    \* due entries promoted at once
  Faults,       \* whether a command may throw in enqueue and acknowledge
  KeysExpire,   \* whether deduplication keys and job states live out
  MaxCrashes,   \* BOUND on how often a worker dies
  MaxTries,     \* BOUND on attempts after which no more entries go stale
  None          \* no payload, no entry

ASSUME ConstantsAssumption ==
  /\ IsFiniteSet(Jobs)
  /\ MaxAttempts \in Nat \ {0} /\ BatchSize \in Nat \ {0}
  /\ Faults \in BOOLEAN /\ KeysExpire \in BOOLEAN
  /\ MaxCrashes \in Nat /\ MaxTries \in Nat
  /\ None \notin Payloads

VARIABLES
  queue,       \* QUEUE_KEY, the next job to reserve first
  processing,  \* PROCESSING_KEY, how many copies of each entry
  delayed,     \* DELAYED_KEY
  due,         \* delayed entries whose time has come
  dlq,         \* DLQ_KEY
  dedupe,      \* payloads with a deduplication key
  record,      \* the state stored for each job
  stale,       \* jobs whose stored state is older than staleAfterMs
  payload,     \* what each accepted job carries
  pushing,     \* jobs whose key is set and which are not yet in the queue
  worker,      \* the worker processes
  tries,       \* history: deliveries attempted for each job
  sent,        \* history: deliveries that succeeded
  crashes      \* how often a worker has died

store == <<queue, processing, delayed, due, dlq>>
keys == <<dedupe, record, stale>>
history == <<tries, sent>>
vars == <<store, keys, payload, pushing, worker, history, crashes>>

Entry == [job : Jobs, attempts : 0 .. MaxAttempts - 1]

Awaits ==
  {"promote", "promote.move", "recover", "recover.next", "recover.drop",
   "recover.remove", "recover.push", "reserve", "reserve.state", "deliver",
   "ack.remove", "ack.key", "ack.state", "retry.remove", "retry.add", "retry.state",
   "dlq.remove", "dlq.push", "dlq.state"}

(* scan: the entries a worker has listed; entry: the one it works on        *)
Worker == [at : Awaits, scan : SUBSET Entry, entry : Entry \cup {None}]

AtLoopStart == [at |-> "promote", scan |-> {}, entry |-> None]

TypeOK ==
  /\ queue \in Seq(Entry)
  /\ processing \in [Entry -> Nat]
  /\ delayed \subseteq Entry /\ due \subseteq delayed
  /\ dlq \subseteq Entry
  /\ dedupe \subseteq Payloads
  /\ record \in [Jobs -> {"none", "processing", "retrying", "sent", "dlq"}]
  /\ stale \subseteq Jobs
  /\ payload \in [Jobs -> Payloads \cup {None}]
  /\ pushing \subseteq Jobs
  /\ worker \in [Workers -> Worker]
  /\ tries \in [Jobs -> Nat] /\ sent \in [Jobs -> Nat]
  /\ crashes \in 0 .. MaxCrashes

Init ==
  /\ queue = <<>>
  /\ processing = [e \in Entry |-> 0]
  /\ delayed = {} /\ due = {} /\ dlq = {}
  /\ dedupe = {} /\ stale = {}
  /\ record = [j \in Jobs |-> "none"]
  /\ payload = [j \in Jobs |-> None]
  /\ pushing = {}
  /\ worker = [w \in Workers |-> AtLoopStart]
  /\ tries = [j \in Jobs |-> 0] /\ sent = [j \in Jobs |-> 0]
  /\ crashes = 0

----------------------------------------------------------------------------
(* Helpers *)

At(w, await) == worker[w].at = await

EntryOf(w) == worker[w].entry

JobOf(w) == worker[w].entry.job

Goto(w, await) == worker' = [worker EXCEPT ![w].at = await]

Work(w, await, e) == worker' = [worker EXCEPT ![w].at = await, ![w].entry = e]

NextRound(w) == worker' = [worker EXCEPT ![w] = AtLoopStart]

(* LREM: one copy, if there is any                                          *)
RemoveFromProcessing(e) ==
  processing' = [processing EXCEPT ![e] = IF @ > 0 THEN @ - 1 ELSE 0]

LPush(e) == queue' = Append(queue, e)

WriteState(j, s) ==
  record' = [record EXCEPT ![j] = s] /\ stale' = stale \ {j}

(* The order in which entries listed together are pushed                    *)
Orders(S) == {f \in [1 .. Cardinality(S) -> S] : \A i, j \in DOMAIN f : f[i] = f[j] => i = j}

----------------------------------------------------------------------------
(* The API *)

(* SET NX; where the key is there already the answer is "deduped".          *)
EnqueueCommunicationJob(j, c) ==
  /\ payload[j] = None /\ c \notin dedupe
  /\ payload' = [payload EXCEPT ![j] = c]
  /\ dedupe' = dedupe \cup {c}
  /\ pushing' = pushing \cup {j}
  /\ UNCHANGED <<store, record, stale, worker, history, crashes>>

PushJob(j) ==
  /\ j \in pushing
  /\ pushing' = pushing \ {j}
  /\ \/ LPush([job |-> j, attempts |-> 0])
     \/ Faults /\ UNCHANGED queue
  /\ UNCHANGED <<processing, delayed, due, dlq, keys, payload, worker, history, crashes>>

----------------------------------------------------------------------------
(* promoteDueCommunicationJobs *)

(* As many due entries as a batch may hold: those due for longest, which    *)
(* the model leaves open.                                                   *)
Batches ==
  {listed \in SUBSET due :
     Cardinality(listed) = BatchSize \/ (listed = due /\ Cardinality(due) < BatchSize)}

ListDue(w) ==
  /\ At(w, "promote")
  /\ \E listed \in Batches :
       worker' = [worker EXCEPT ![w].at = IF due = {} THEN "recover" ELSE "promote.move",
                                ![w].scan = listed]
  /\ UNCHANGED <<store, keys, payload, pushing, history, crashes>>

(* Variant: without ZREM                                                    *)
PromoteDueKeeping(w) ==
  LET listed == worker[w].scan
  IN /\ At(w, "promote.move")
     /\ \E order \in Orders(listed) : queue' = queue \o order
     /\ worker' = [worker EXCEPT ![w].at = "recover", ![w].scan = {}]
     /\ UNCHANGED <<processing, delayed, due, dlq, keys, payload, pushing, history, crashes>>

(* Variant: one of the entries removed is pushed.                           *)
PromoteDueFirst(w) ==
  LET listed == worker[w].scan
  IN /\ At(w, "promote.move")
     /\ delayed' = delayed \ listed /\ due' = due \ listed
     /\ \E order \in Orders(listed) : queue' = queue \o Tail(order)
     /\ worker' = [worker EXCEPT ![w].at = "recover", ![w].scan = {}]
     /\ UNCHANGED <<processing, dlq, keys, payload, pushing, history, crashes>>

(* A transaction: what another worker has already promoted is pushed again. *)
PromoteDue(w) ==
  LET listed == worker[w].scan
  IN /\ At(w, "promote.move")
     /\ delayed' = delayed \ listed /\ due' = due \ listed
     /\ \E order \in Orders(listed) : queue' = queue \o order
     /\ worker' = [worker EXCEPT ![w].at = "recover", ![w].scan = {}]
     /\ UNCHANGED <<processing, dlq, keys, payload, pushing, history, crashes>>

----------------------------------------------------------------------------
(* recoverStalledCommunicationJobs *)

ListProcessing(w) ==
  /\ At(w, "recover")
  /\ worker' = [worker EXCEPT ![w].at = "recover.next",
                              ![w].scan = {e \in Entry : processing[e] > 0}]
  /\ UNCHANGED <<store, keys, payload, pushing, history, crashes>>

(* Variant: only a job recorded as being processed is recovered.            *)
InspectListedProcessing(w) ==
  /\ At(w, "recover.next")
  /\ \/ worker[w].scan = {} /\ Goto(w, "reserve")
     \/ \E e \in worker[w].scan :
          worker' = [worker EXCEPT
            ![w].scan = @ \ {e}, ![w].entry = e,
            ![w].at = CASE record[e.job] \in {"sent", "dlq"} -> "recover.drop"
                        [] record[e.job] = "processing" /\ e.job \in stale -> "recover.remove"
                        [] OTHER -> "recover.next"]
  /\ UNCHANGED <<store, keys, payload, pushing, history, crashes>>

(* An entry whose job has no state yet, or a fresh one, is left alone.      *)
InspectListed(w) ==
  /\ At(w, "recover.next")
  /\ \/ worker[w].scan = {} /\ Goto(w, "reserve")
     \/ \E e \in worker[w].scan :
          worker' = [worker EXCEPT
            ![w].scan = @ \ {e}, ![w].entry = e,
            ![w].at = CASE record[e.job] \in {"sent", "dlq"} -> "recover.drop"
                        [] record[e.job] \in {"processing", "retrying"} /\ e.job \in stale
                             -> "recover.remove"
                        [] OTHER -> "recover.next"]
  /\ UNCHANGED <<store, keys, payload, pushing, history, crashes>>

DropFinished(w) ==
  /\ At(w, "recover.drop")
  /\ RemoveFromProcessing(EntryOf(w))
  /\ Goto(w, "recover.next")
  /\ UNCHANGED <<queue, delayed, due, dlq, keys, payload, pushing, history, crashes>>

(* Variant: without LREM                                                    *)
CopyStalled(w) ==
  /\ At(w, "recover.remove")
  /\ Goto(w, "recover.push")
  /\ UNCHANGED <<store, keys, payload, pushing, history, crashes>>

RemoveStalled(w) ==
  /\ At(w, "recover.remove")
  /\ RemoveFromProcessing(EntryOf(w))
  /\ Goto(w, "recover.push")
  /\ UNCHANGED <<queue, delayed, due, dlq, keys, payload, pushing, history, crashes>>

RequeueStalled(w) ==
  /\ At(w, "recover.push")
  /\ LPush(EntryOf(w))
  /\ Goto(w, "recover.next")
  /\ UNCHANGED <<processing, delayed, due, dlq, keys, payload, pushing, history, crashes>>

----------------------------------------------------------------------------
(* reserveNextCommunicationJob and handleJob *)

(* BRPOPLPUSH, or its timeout                                               *)
Reserve(w) ==
  /\ At(w, "reserve")
  /\ IF queue = <<>>
       THEN NextRound(w) /\ UNCHANGED <<queue, processing>>
       ELSE /\ queue' = Tail(queue)
            /\ processing' = [processing EXCEPT ![Head(queue)] = @ + 1]
            /\ Work(w, "reserve.state", Head(queue))
  /\ UNCHANGED <<delayed, due, dlq, keys, payload, pushing, history, crashes>>

RecordReservation(w) ==
  /\ At(w, "reserve.state")
  /\ WriteState(JobOf(w), "processing")
  /\ Goto(w, "deliver")
  /\ UNCHANGED <<store, dedupe, payload, pushing, history, crashes>>

(* Variant: one attempt too few                                             *)
FailureAwaitEarly(e) ==
  IF e.attempts + 2 < MaxAttempts THEN "retry.remove" ELSE "dlq.remove"

(* The catch block of handleJob                                             *)
FailureAwait(e) ==
  IF e.attempts + 1 < MaxAttempts THEN "retry.remove" ELSE "dlq.remove"

Deliver(w) ==
  /\ At(w, "deliver")
  /\ tries' = [tries EXCEPT ![JobOf(w)] = @ + 1]
  /\ \/ sent' = [sent EXCEPT ![JobOf(w)] = @ + 1] /\ Goto(w, "ack.remove")
     \/ Goto(w, FailureAwait(EntryOf(w))) /\ UNCHANGED sent
  /\ UNCHANGED <<store, keys, payload, pushing, crashes>>

(* acknowledgeCommunicationJob is inside the try block: if one of its three *)
(* commands throws, the delivered job fails.                                *)
AcknowledgeFails(w) ==
  /\ Faults /\ worker[w].at \in {"ack.remove", "ack.key", "ack.state"}
  /\ Goto(w, FailureAwait(EntryOf(w)))
  /\ UNCHANGED <<store, keys, payload, pushing, history, crashes>>

AckRemove(w) ==
  /\ At(w, "ack.remove")
  /\ RemoveFromProcessing(EntryOf(w))
  /\ Goto(w, "ack.key")
  /\ UNCHANGED <<queue, delayed, due, dlq, keys, payload, pushing, history, crashes>>

(* Variant: without DEL                                                     *)
AckKeepingKey(w) ==
  /\ At(w, "ack.key")
  /\ Goto(w, "ack.state")
  /\ UNCHANGED <<store, keys, payload, pushing, history, crashes>>

(* DEL, whichever job set the key                                           *)
AckReleaseKey(w) ==
  /\ At(w, "ack.key")
  /\ dedupe' = dedupe \ {payload[JobOf(w)]}
  /\ Goto(w, "ack.state")
  /\ UNCHANGED <<store, record, stale, payload, pushing, history, crashes>>

AckRecord(w) ==
  /\ At(w, "ack.state")
  /\ WriteState(JobOf(w), "sent")
  /\ NextRound(w)
  /\ UNCHANGED <<store, dedupe, payload, pushing, history, crashes>>

----------------------------------------------------------------------------
(* scheduleCommunicationRetry and moveCommunicationJobToDlq *)

RemoveFailed(w) ==
  /\ \/ At(w, "retry.remove") /\ Goto(w, "retry.add")
     \/ At(w, "dlq.remove") /\ Goto(w, "dlq.push")
  /\ RemoveFromProcessing(EntryOf(w))
  /\ UNCHANGED <<queue, delayed, due, dlq, keys, payload, pushing, history, crashes>>

DelayRetry(w) ==
  /\ At(w, "retry.add")
  /\ delayed' = delayed \cup {[EntryOf(w) EXCEPT !.attempts = @ + 1]}
  /\ Goto(w, "retry.state")
  /\ UNCHANGED <<queue, processing, due, dlq, keys, payload, pushing, history, crashes>>

PushDeadLetter(w) ==
  /\ At(w, "dlq.push")
  /\ dlq' = dlq \cup {EntryOf(w)}
  /\ Goto(w, "dlq.state")
  /\ UNCHANGED <<queue, processing, delayed, due, keys, payload, pushing, history, crashes>>

RecordFailure(w) ==
  /\ \/ At(w, "retry.state") /\ WriteState(JobOf(w), "retrying")
     \/ At(w, "dlq.state") /\ WriteState(JobOf(w), "dlq")
  /\ NextRound(w)
  /\ UNCHANGED <<store, dedupe, payload, pushing, history, crashes>>

----------------------------------------------------------------------------
(* Time and crashes *)

DelayElapses(e) ==
  /\ e \in delayed \ due
  /\ due' = due \cup {e}
  /\ UNCHANGED <<queue, processing, delayed, dlq, keys, payload, pushing, worker, history,
                 crashes>>

StateGoesStale(j) ==
  /\ record[j] # "none" /\ j \notin stale /\ tries[j] < MaxTries
  /\ stale' = stale \cup {j}
  /\ UNCHANGED <<store, dedupe, record, payload, pushing, worker, history, crashes>>

KeyExpires ==
  /\ KeysExpire
  /\ \/ /\ \E c \in dedupe : dedupe' = dedupe \ {c}
        /\ UNCHANGED <<record, stale>>
     \/ /\ \E j \in stale : /\ record' = [record EXCEPT ![j] = "none"]
                            /\ stale' = stale \ {j}
        /\ UNCHANGED dedupe
  /\ UNCHANGED <<store, payload, pushing, worker, history, crashes>>

(* A worker that dies, or whose command throws outside the try block, is    *)
(* restarted.                                                               *)
Crash(w) ==
  /\ crashes < MaxCrashes /\ ~At(w, "promote")
  /\ crashes' = crashes + 1
  /\ NextRound(w)
  /\ UNCHANGED <<store, keys, payload, pushing, history>>

----------------------------------------------------------------------------

Enqueue == \E j \in Jobs, c \in Payloads : EnqueueCommunicationJob(j, c)

(* One round of the worker's loop                                           *)
Loop(w) ==
  \/ ListDue(w) \/ PromoteDue(w)
  \/ ListProcessing(w) \/ InspectListed(w) \/ DropFinished(w) \/ RemoveStalled(w)
  \/ RequeueStalled(w)
  \/ Reserve(w) \/ RecordReservation(w) \/ Deliver(w)
  \/ AckRemove(w) \/ AckReleaseKey(w) \/ AckRecord(w)
  \/ RemoveFailed(w) \/ DelayRetry(w) \/ PushDeadLetter(w) \/ RecordFailure(w)

Next ==
  \/ Enqueue
  \/ \E j \in Jobs : PushJob(j) \/ StateGoesStale(j)
  \/ \E w \in Workers : Loop(w) \/ AcknowledgeFails(w) \/ Crash(w)
  \/ \E e \in Entry : DelayElapses(e)
  \/ KeyExpires

Spec == Init /\ [][Next]_vars

(* The worker's loop never pauses, requests finish and time passes.         *)
FairSpec ==
  /\ Spec
  /\ \A w \in Workers : WF_vars(Loop(w))
  /\ \A j \in Jobs : WF_vars(PushJob(j)) /\ WF_vars(StateGoesStale(j))
  /\ \A e \in Entry : WF_vars(DelayElapses(e))

----------------------------------------------------------------------------
(* Properties *)

Copies(j) ==
  Cardinality({i \in DOMAIN queue : queue[i].job = j})
    + Cardinality({e \in Entry : e.job = j /\ processing[e] > 0})
    + Cardinality({e \in delayed : e.job = j})
    + Cardinality({e \in dlq : e.job = j})

(* Commands that hold a job between removing it from one list and adding it *)
(* to another                                                               *)
Carried(j) ==
  \E w \in Workers :
    worker[w].at \in {"recover.push", "retry.add", "dlq.push"} /\ JobOf(w) = j

(* With one worker, a job is in one place at a time, wherever the worker    *)
(* dies and whatever command of an acknowledgement fails.                   *)
OneCopyOfAJob ==
  \A j \in Jobs : Copies(j) + (IF Carried(j) THEN 1 ELSE 0) <= 1

(* A dead letter was tried as often as its type allows: no crash, recovery, *)
(* expired state or other worker uses up an attempt that was not made.      *)
DeadLettersWereTried == \A e \in dlq : tries[e.job] >= MaxAttempts

(* With one worker that does not fail, a message goes out once, and not at  *)
(* all if it ends among the dead letters.                                   *)
SentOnceOrDead ==
  \A j \in Jobs : sent[j] + Cardinality({e \in dlq : e.job = j}) <= 1

(* With one worker that does not fail, a request answered "deduped" is one  *)
(* whose message is on its way, or among the dead letters.                  *)
DedupedMeansInFlight ==
  \A c \in dedupe : \E j \in Jobs :
    /\ payload[j] = c
    /\ \/ j \in pushing \/ Copies(j) > 0 \/ Carried(j)
       \/ \E w \in Workers : At(w, "ack.key") /\ JobOf(w) = j

(* With one worker that does not fail, every message that is accepted goes  *)
(* out or ends among the dead letters.                                      *)
AcceptedJobsEnd ==
  \A j \in Jobs : j \in pushing ~> record[j] \in {"sent", "dlq"}

(* An entry a dead worker left in the processing list is taken out of it,   *)
(* if the worker came as far as to record that it had it.                   *)
StalledJobsAreRecovered ==
  \A e \in Entry :
    processing[e] > 0 /\ record[e.job] \in {"processing", "retrying"} ~> processing[e] = 0

=============================================================================
