--------------------- MODULE CommunicationQueue_proofs ---------------------
(***************************************************************************)
(* A job is a dead letter only after MaxAttempts deliveries, for any number *)
(* of workers, crashes, recoveries and duplicates: every copy of an entry,  *)
(* in a list, in a listing or in a worker's hands, counts no more failed    *)
(* attempts than its job had deliveries.                                    *)
(*                                                                          *)
(* With one worker a job is in one place at a time, whatever dies or        *)
(* throws; if nothing does, it is sent once or becomes a dead letter, and   *)
(* its deduplication key stands for a message that is on its way.           *)
(***************************************************************************)
EXTENDS CommunicationQueue, FiniteSetTheorems, SequenceTheorems, TLAPS

(* Entries that count no more attempts than were made                       *)
Covered == {e \in Entry : tries[e.job] >= e.attempts}

Holding == Awaits \ {"promote", "promote.move", "recover", "recover.next", "reserve"}

Failing ==
  {"ack.remove", "ack.key", "ack.state", "retry.remove", "retry.add", "retry.state",
   "dlq.remove", "dlq.push", "dlq.state"}

ListsAreCovered ==
  /\ queue \in Seq(Covered)
  /\ \A e \in Entry : processing[e] > 0 => e \in Covered
  /\ delayed \subseteq Covered

(* The attempt a worker is about to count as failed was made.               *)
WorkerIsCovered(w) ==
  /\ worker[w].scan \subseteq Covered
  /\ worker[w].at \in Holding => worker[w].entry \in Covered
  /\ worker[w].at \in Failing => tries[worker[w].entry.job] >= worker[w].entry.attempts + 1
  /\ worker[w].at \in {"retry.remove", "retry.add"} =>
       worker[w].entry.attempts + 1 < MaxAttempts
  /\ worker[w].at \in {"dlq.remove", "dlq.push"} =>
       worker[w].entry.attempts + 1 >= MaxAttempts

TriesCoverAttempts ==
  /\ ListsAreCovered
  /\ \A w \in Workers : WorkerIsCovered(w)
  /\ DeadLettersWereTried

IInv == TypeOK /\ TriesCoverAttempts

----------------------------------------------------------------------------
(* Facts about the operators *)

LEMMA FiniteEntries == IsFiniteSet(Entry)
  <1>1. IsFiniteSet(Jobs \X (0 .. MaxAttempts - 1))
    <2>1. 0 \in Int /\ MaxAttempts - 1 \in Int
      BY ConstantsAssumption
    <2>2. IsFiniteSet(0 .. MaxAttempts - 1)
      BY <2>1, FS_Interval
    <2>3. IsFiniteSet(Jobs)
      BY ConstantsAssumption
    <2>4. QED
      BY <2>2, <2>3, FS_Product
  <1> DEFINE entry == [x \in Jobs \X (0 .. MaxAttempts - 1) |-> [job |-> x[1], attempts |-> x[2]]]
  <1>2. entry \in [Jobs \X (0 .. MaxAttempts - 1) -> Entry]
    BY DEF Entry
  <1>3. ASSUME NEW e \in Entry
        PROVE  \E x \in Jobs \X (0 .. MaxAttempts - 1) : entry[x] = e
    <2>1. e.job \in Jobs /\ e.attempts \in 0 .. MaxAttempts - 1
      BY <1>3 DEF Entry
    <2>2. <<e.job, e.attempts>> \in Jobs \X (0 .. MaxAttempts - 1)
      BY <2>1
    <2>3. entry[<<e.job, e.attempts>>] = [job |-> e.job, attempts |-> e.attempts]
      BY <2>2
    <2>4. e = [job |-> e.job, attempts |-> e.attempts]
      BY DEF Entry
    <2>5. QED
      BY <2>2, <2>3, <2>4
  <1>4. entry \in Surjection(Jobs \X (0 .. MaxAttempts - 1), Entry)
    BY <1>2, <1>3 DEF Surjection
  <1>5. QED
    BY <1>1, <1>4, FS_Surjection

(* Entries pushed together are pushed as a sequence of them.                *)
LEMMA OrdersAreSequences ==
  ASSUME NEW S \in SUBSET Entry, NEW order \in Orders(S)
  PROVE  order \in Seq(S)
  <1>1. Cardinality(S) \in Nat
    BY FiniteEntries, FS_Subset, FS_CardinalityType
  <1>2. order \in [1 .. Cardinality(S) -> S]
    BY DEF Orders
  <1>3. QED
    BY <1>1, <1>2, SeqDef

LEMMA EntryFields ==
  ASSUME NEW e \in Entry
  PROVE  e.job \in Jobs /\ e.attempts \in Nat /\ e.attempts < MaxAttempts
  BY ConstantsAssumption DEF Entry

LEMMA WorkerFields ==
  ASSUME TypeOK, NEW w \in Workers
  PROVE  /\ worker[w].at \in Awaits
         /\ worker[w].scan \in SUBSET Entry
         /\ worker[w].entry \in Entry \cup {None}
  BY DEF TypeOK, Worker

(* What a step that replaces the record of a worker leaves                  *)
Moved(w, await, S, e) ==
  /\ worker' \in [Workers -> Worker]
  /\ worker'[w].at = await /\ worker'[w].scan = S /\ worker'[w].entry = e
  /\ \A v \in Workers \ {w} : worker'[v] = worker[v]

LEMMA RecordMoves ==
  ASSUME TypeOK, NEW w \in Workers, NEW r \in Worker, worker' = [worker EXCEPT ![w] = r]
  PROVE  Moved(w, r.at, r.scan, r.entry)
  <1>1. worker \in [Workers -> Worker]
    BY DEF TypeOK
  <1>2. QED
    BY <1>1 DEF Moved

LEMMA GotoMoves ==
  ASSUME TypeOK, NEW w \in Workers, NEW await \in Awaits, Goto(w, await)
  PROVE  Moved(w, await, worker[w].scan, worker[w].entry)
  <1> DEFINE r == [worker[w] EXCEPT !.at = await]
  <1>1. /\ r \in Worker
        /\ r.at = await /\ r.scan = worker[w].scan /\ r.entry = worker[w].entry
    BY DEF TypeOK, Worker
  <1>2. worker' = [worker EXCEPT ![w] = r]
    BY DEF Goto
  <1> HIDE DEF r
  <1>3. QED
    BY <1>1, <1>2, RecordMoves

LEMMA NextRoundMoves ==
  ASSUME TypeOK, NEW w \in Workers, NextRound(w)
  PROVE  Moved(w, "promote", {}, None)
  <1>1. /\ AtLoopStart \in Worker
        /\ AtLoopStart.at = "promote" /\ AtLoopStart.scan = {} /\ AtLoopStart.entry = None
    BY DEF AtLoopStart, Worker, Awaits
  <1>2. worker' = [worker EXCEPT ![w] = AtLoopStart]
    BY DEF NextRound
  <1>3. QED
    BY <1>1, <1>2, RecordMoves

LEMMA WorkMoves ==
  ASSUME TypeOK, NEW w \in Workers, NEW await \in Awaits, NEW e \in Entry,
         Work(w, await, e)
  PROVE  Moved(w, await, worker[w].scan, e)
  <1> DEFINE r == [worker[w] EXCEPT !.at = await, !.entry = e]
  <1>1. /\ r \in Worker
        /\ r.at = await /\ r.scan = worker[w].scan /\ r.entry = e
    BY DEF TypeOK, Worker
  <1>2. worker' = [worker EXCEPT ![w] = r]
    BY DEF Work
  <1> HIDE DEF r
  <1>3. QED
    BY <1>1, <1>2, RecordMoves

LEMMA ListMoves ==
  ASSUME TypeOK, NEW w \in Workers, NEW await \in Awaits, NEW S \in SUBSET Entry,
         worker' = [worker EXCEPT ![w].at = await, ![w].scan = S]
  PROVE  Moved(w, await, S, worker[w].entry)
  <1> DEFINE r == [worker[w] EXCEPT !.at = await, !.scan = S]
  <1>1. /\ r \in Worker
        /\ r.at = await /\ r.scan = S /\ r.entry = worker[w].entry
    BY DEF TypeOK, Worker
  <1>2. worker' = [worker EXCEPT ![w] = r]
    OBVIOUS
  <1> HIDE DEF r
  <1>3. QED
    BY <1>1, <1>2, RecordMoves

LEMMA InspectMoves ==
  ASSUME TypeOK, NEW w \in Workers, NEW await \in Awaits, NEW S \in SUBSET Entry,
         NEW e \in Entry,
         worker' = [worker EXCEPT ![w].scan = S, ![w].entry = e, ![w].at = await]
  PROVE  Moved(w, await, S, e)
  <1> DEFINE r == [worker[w] EXCEPT !.scan = S, !.entry = e, !.at = await]
  <1>1. /\ r \in Worker
        /\ r.at = await /\ r.scan = S /\ r.entry = e
    BY DEF TypeOK, Worker
  <1>2. worker' = [worker EXCEPT ![w] = r]
    OBVIOUS
  <1> HIDE DEF r
  <1>3. QED
    BY <1>1, <1>2, RecordMoves

----------------------------------------------------------------------------
(* The invariant *)

(* A step that makes no attempt unmade: every list and every worker that is *)
(* left alone stays covered.                                                *)
LEMMA CoveredGrows ==
  ASSUME TypeOK, \A j \in Jobs : tries'[j] >= tries[j], tries' \in [Jobs -> Nat]
  PROVE  /\ Covered \subseteq Covered'
         /\ Seq(Covered) \subseteq Seq(Covered')
  <1>1. ASSUME NEW e \in Covered PROVE e \in Covered'
    <2>1. e \in Entry /\ tries[e.job] >= e.attempts
      BY DEF Covered
    <2>2. e.job \in Jobs /\ e.attempts \in Nat
      BY <2>1, EntryFields
    <2>3. tries[e.job] \in Nat /\ tries'[e.job] \in Nat /\ tries'[e.job] >= tries[e.job]
      BY <2>2 DEF TypeOK
    <2>4. tries'[e.job] >= e.attempts
      BY <2>1, <2>2, <2>3
    <2>5. QED
      BY <2>1, <2>4 DEF Covered
  <1>2. Covered \subseteq Covered'
    BY <1>1
  <1>3. ASSUME NEW s \in Seq(Covered) PROVE s \in Seq(Covered')
    <2>1. PICK n \in Nat : s \in [1 .. n -> Covered]
      BY SeqDef
    <2>2. s \in [1 .. n -> Covered']
      BY <1>2, <2>1
    <2>3. QED
      BY <2>2, SeqDef
  <1>4. QED
    BY <1>2, <1>3

LEMMA OthersStayCovered ==
  ASSUME TypeOK, TriesCoverAttempts, tries' \in [Jobs -> Nat],
         \A j \in Jobs : tries'[j] >= tries[j],
         NEW v \in Workers, worker'[v] = worker[v]
  PROVE  WorkerIsCovered(v)'
  <1>1. WorkerIsCovered(v)
    BY DEF TriesCoverAttempts
  <1>2. Covered \subseteq Covered'
    BY CoveredGrows
  <1>3. worker[v].at \in Failing => worker[v].entry \in Covered
    BY <1>1 DEF WorkerIsCovered, Failing, Holding, Awaits
  <1>4. worker[v].at \in Failing =>
          tries'[worker[v].entry.job] >= worker[v].entry.attempts + 1
    <2>1. SUFFICES ASSUME worker[v].at \in Failing
                   PROVE  tries'[worker[v].entry.job] >= worker[v].entry.attempts + 1
      OBVIOUS
    <2>2. worker[v].entry \in Entry /\ worker[v].entry.job \in Jobs
            /\ worker[v].entry.attempts \in Nat
      BY <1>3, <2>1, EntryFields DEF Covered
    <2>3. tries[worker[v].entry.job] >= worker[v].entry.attempts + 1
      BY <1>1, <2>1 DEF WorkerIsCovered
    <2>4. QED
      BY <2>2, <2>3 DEF TypeOK
  <1>5. QED
    BY <1>1, <1>2, <1>4 DEF WorkerIsCovered

(* What a worker that carries an entry knows of it                          *)
LEMMA HeldEntry ==
  ASSUME IInv, NEW w \in Workers, worker[w].at \in Holding
  PROVE  /\ EntryOf(w) \in Covered /\ EntryOf(w) \in Entry
         /\ JobOf(w) \in Jobs /\ EntryOf(w).attempts \in Nat
         /\ JobOf(w) = EntryOf(w).job /\ EntryOf(w) = worker[w].entry
  <1>1. worker[w].entry \in Covered
    BY DEF IInv, TriesCoverAttempts, WorkerIsCovered
  <1>2. worker[w].entry \in Entry
    BY <1>1 DEF Covered
  <1>3. QED
    BY <1>1, <1>2, EntryFields DEF EntryOf, JobOf

LEMMA RemovedFromProcessing ==
  ASSUME TypeOK, NEW e \in Entry, RemoveFromProcessing(e)
  PROVE  /\ processing' \in [Entry -> Nat]
         /\ \A f \in Entry : processing'[f] > 0 => processing[f] > 0
  BY DEF TypeOK, RemoveFromProcessing

LEMMA Pushed ==
  ASSUME NEW S, queue \in Seq(S), NEW e \in S, LPush(e)
  PROVE  queue' \in Seq(S)
  BY DEF LPush

LEMMA TypePreserved ==
  ASSUME IInv, [Next]_vars
  PROVE  TypeOK'
  <1> USE DEF At, store, keys, history, vars
  <1>0. TypeOK
    BY DEF IInv
  <1>1. CASE UNCHANGED vars
    BY <1>0, <1>1 DEF TypeOK
  <1>2. ASSUME NEW j \in Jobs, NEW c \in Payloads, EnqueueCommunicationJob(j, c)
        PROVE  TypeOK'
    BY <1>0, <1>2 DEF TypeOK, EnqueueCommunicationJob
  <1>3. ASSUME NEW j \in Jobs, PushJob(j) PROVE TypeOK'
    <2>1. [job |-> j, attempts |-> 0] \in Entry
      BY ConstantsAssumption DEF Entry
    <2>2. queue' \in Seq(Entry)
      BY <1>0, <1>3, <2>1, Pushed DEF PushJob, TypeOK
    <2>3. QED
      BY <1>0, <1>3, <2>2 DEF PushJob, TypeOK
  <1>4. ASSUME NEW j \in Jobs, StateGoesStale(j) PROVE TypeOK'
    BY <1>0, <1>4 DEF TypeOK, StateGoesStale
  <1>5. ASSUME NEW e \in Entry, DelayElapses(e) PROVE TypeOK'
    BY <1>0, <1>5 DEF TypeOK, DelayElapses
  <1>6. CASE KeyExpires
    <2>1. dedupe' \subseteq Payloads /\ stale' \subseteq Jobs
      BY <1>0, <1>6 DEF TypeOK, KeyExpires
    <2>2. record' \in [Jobs -> {"none", "processing", "retrying", "sent", "dlq"}]
      BY <1>0, <1>6 DEF TypeOK, KeyExpires
    <2>3. QED
      BY <1>0, <1>6, <2>1, <2>2 DEF TypeOK, KeyExpires
  <1>7. ASSUME NEW w \in Workers, Loop(w) \/ AcknowledgeFails(w) \/ Crash(w)
        PROVE  TypeOK'
    <2> USE <1>0
    <2>1. CASE ListDue(w)
      <3>1. worker' \in [Workers -> Worker]
        <4>1. PICK await \in {"recover", "promote.move"}, listed \in SUBSET due :
                worker' = [worker EXCEPT ![w].at = await, ![w].scan = listed]
          BY <2>1 DEF ListDue, Batches
        <4>2. await \in Awaits /\ listed \in SUBSET Entry
          BY <4>1 DEF Awaits, TypeOK
        <4>3. QED
          BY <4>1, <4>2, ListMoves DEF Moved
      <3>2. QED
        BY <2>1, <3>1 DEF ListDue, TypeOK
    <2>2. CASE PromoteDue(w)
      <3>1. PICK order \in Orders(worker[w].scan) : queue' = queue \o order
        BY <2>2 DEF PromoteDue
      <3>2. worker[w].scan \in SUBSET Entry
        BY WorkerFields
      <3>3. order \in Seq(Entry)
        BY <3>1, <3>2, OrdersAreSequences, SeqMonotonic
      <3>4. queue' \in Seq(Entry)
        BY <3>1, <3>3 DEF TypeOK
      <3>5. worker' \in [Workers -> Worker]
        <4>1. "recover" \in Awaits /\ {} \in SUBSET Entry
          BY DEF Awaits
        <4>2. worker' = [worker EXCEPT ![w].at = "recover", ![w].scan = {}]
          BY <2>2 DEF PromoteDue
        <4>3. QED
          BY <4>1, <4>2, ListMoves DEF Moved
      <3>6. QED
        BY <2>2, <3>4, <3>5 DEF PromoteDue, TypeOK
    <2>3. CASE ListProcessing(w)
      <3>1. worker' \in [Workers -> Worker]
        <4> DEFINE listed == {e \in Entry : processing[e] > 0}
        <4>1. "recover.next" \in Awaits /\ listed \in SUBSET Entry
          BY DEF Awaits
        <4>2. worker' = [worker EXCEPT ![w].at = "recover.next", ![w].scan = listed]
          BY <2>3 DEF ListProcessing
        <4> HIDE DEF listed
        <4>3. QED
          BY <4>1, <4>2, ListMoves DEF Moved
      <3>2. QED
        BY <2>3, <3>1 DEF ListProcessing, TypeOK
    <2>4. CASE InspectListed(w)
      <3>1. worker' \in [Workers -> Worker]
        <4>1. CASE Goto(w, "reserve")
          BY <4>1, GotoMoves DEF Moved, Awaits
        <4>2. CASE ~ Goto(w, "reserve")
          <5>1. PICK e \in worker[w].scan, await \in {"recover.drop", "recover.remove", "recover.next"} :
                  worker' = [worker EXCEPT ![w].scan = @ \ {e}, ![w].entry = e, ![w].at = await]
            BY <2>4, <4>2 DEF InspectListed
          <5>2. e \in Entry /\ worker[w].scan \ {e} \in SUBSET Entry /\ await \in Awaits
            BY <5>1, WorkerFields DEF Awaits
          <5>3. QED
            BY <5>1, <5>2, InspectMoves DEF Moved
        <4>3. QED
          BY <4>1, <4>2
      <3>2. QED
        BY <2>4, <3>1 DEF InspectListed, TypeOK
    <2>5. CASE DropFinished(w) \/ RemoveStalled(w) \/ AckRemove(w) \/ RemoveFailed(w)
      <3>1. worker[w].at \in Holding
        BY <2>5 DEF DropFinished, RemoveStalled, AckRemove, RemoveFailed, Holding, Awaits
      <3>2. processing' \in [Entry -> Nat]
        BY <2>5, <3>1, HeldEntry, RemovedFromProcessing
           DEF DropFinished, RemoveStalled, AckRemove, RemoveFailed
      <3>3. worker' \in [Workers -> Worker]
        BY <2>5, GotoMoves
           DEF DropFinished, RemoveStalled, AckRemove, RemoveFailed, Moved, Awaits
      <3>4. QED
        BY <2>5, <3>2, <3>3 DEF DropFinished, RemoveStalled, AckRemove, RemoveFailed, TypeOK
    <2>6. CASE RequeueStalled(w)
      <3>1. EntryOf(w) \in Entry
        BY <2>6, HeldEntry DEF RequeueStalled, Holding, Awaits
      <3>2. queue' \in Seq(Entry)
        BY <2>6, <3>1, Pushed DEF RequeueStalled, TypeOK
      <3>3. worker' \in [Workers -> Worker]
        BY <2>6, GotoMoves DEF RequeueStalled, Moved, Awaits
      <3>4. QED
        BY <2>6, <3>2, <3>3 DEF RequeueStalled, TypeOK
    <2>7. CASE Reserve(w)
      <3>1. CASE queue = <<>>
        <4>1. worker' \in [Workers -> Worker]
          BY <2>7, <3>1, NextRoundMoves DEF Reserve, Moved
        <4>2. QED
          BY <2>7, <3>1, <4>1 DEF Reserve, TypeOK
      <3>2. CASE queue # <<>>
        <4>1. Head(queue) \in Entry /\ Tail(queue) \in Seq(Entry)
          BY <3>2 DEF TypeOK
        <4>2. worker' \in [Workers -> Worker]
          BY <2>7, <3>2, <4>1, WorkMoves DEF Reserve, Moved, Awaits
        <4>3. processing' \in [Entry -> Nat]
          <5>1. processing' = [processing EXCEPT ![Head(queue)] = @ + 1]
            BY <2>7, <3>2 DEF Reserve
          <5>2. processing \in [Entry -> Nat]
            BY DEF TypeOK
          <5>3. processing[Head(queue)] + 1 \in Nat
            BY <4>1, <5>2
          <5>4. QED
            BY <5>1, <5>2, <5>3
        <4>4. QED
          BY <2>7, <3>2, <4>1, <4>2, <4>3 DEF Reserve, TypeOK
      <3>3. QED
        BY <3>1, <3>2
    <2>8. CASE RecordReservation(w) \/ AckRecord(w) \/ RecordFailure(w)
      <3>1. JobOf(w) \in Jobs
        BY <2>8, HeldEntry DEF RecordReservation, AckRecord, RecordFailure, Holding, Awaits
      <3>2. worker' \in [Workers -> Worker]
        BY <2>8, GotoMoves, NextRoundMoves
           DEF RecordReservation, AckRecord, RecordFailure, Moved, Awaits
      <3>3. /\ record' \in [Jobs -> {"none", "processing", "retrying", "sent", "dlq"}]
            /\ stale' \subseteq Jobs
        BY <2>8, <3>1 DEF RecordReservation, AckRecord, RecordFailure, WriteState, TypeOK
      <3>4. QED
        BY <2>8, <3>2, <3>3 DEF RecordReservation, AckRecord, RecordFailure, TypeOK
    <2>9. CASE Deliver(w)
      <3>1. JobOf(w) \in Jobs
        BY <2>9, HeldEntry DEF Deliver, Holding, Awaits
      <3>2. worker' \in [Workers -> Worker]
        BY <2>9, GotoMoves DEF Deliver, FailureAwait, Moved, Awaits
      <3>3. tries' \in [Jobs -> Nat] /\ sent' \in [Jobs -> Nat]
        BY <2>9, <3>1 DEF Deliver, TypeOK
      <3>4. QED
        BY <2>9, <3>2, <3>3 DEF Deliver, TypeOK
    <2>10. CASE AckReleaseKey(w)
      <3>1. worker' \in [Workers -> Worker]
        BY <2>10, GotoMoves DEF AckReleaseKey, Moved, Awaits
      <3>2. QED
        BY <2>10, <3>1 DEF AckReleaseKey, TypeOK
    <2>11. CASE DelayRetry(w)
      <3>1. worker[w].at = "retry.add" /\ EntryOf(w) \in Entry /\ EntryOf(w) = worker[w].entry
        BY <2>11, HeldEntry DEF DelayRetry, Holding, Awaits
      <3>2. EntryOf(w).attempts + 1 < MaxAttempts
        BY <3>1 DEF IInv, TriesCoverAttempts, WorkerIsCovered
      <3>3. [EntryOf(w) EXCEPT !.attempts = @ + 1] \in Entry
        BY <3>1, <3>2, ConstantsAssumption DEF Entry
      <3>4. worker' \in [Workers -> Worker]
        BY <2>11, GotoMoves DEF DelayRetry, Moved, Awaits
      <3>5. QED
        BY <2>11, <3>3, <3>4 DEF DelayRetry, TypeOK
    <2>12. CASE PushDeadLetter(w)
      <3>1. EntryOf(w) \in Entry
        BY <2>12, HeldEntry DEF PushDeadLetter, Holding, Awaits
      <3>2. worker' \in [Workers -> Worker]
        BY <2>12, GotoMoves DEF PushDeadLetter, Moved, Awaits
      <3>3. QED
        BY <2>12, <3>1, <3>2 DEF PushDeadLetter, TypeOK
    <2>13. CASE AcknowledgeFails(w)
      <3>1. worker' \in [Workers -> Worker]
        BY <2>13, GotoMoves DEF AcknowledgeFails, FailureAwait, Moved, Awaits
      <3>2. QED
        BY <2>13, <3>1 DEF AcknowledgeFails, TypeOK
    <2>14. CASE Crash(w)
      <3>1. worker' \in [Workers -> Worker]
        BY <2>14, NextRoundMoves DEF Crash, Moved
      <3>2. crashes' \in 0 .. MaxCrashes
        BY <2>14, ConstantsAssumption DEF Crash, TypeOK
      <3>3. QED
        BY <2>14, <3>1, <3>2 DEF Crash, TypeOK
    <2>15. QED
      BY <1>7, <2>1, <2>2, <2>3, <2>4, <2>5, <2>6, <2>7, <2>8, <2>9, <2>10, <2>11, <2>12,
         <2>13, <2>14 DEF Loop
  <1>8. QED
    BY <1>1, <1>2, <1>3, <1>4, <1>5, <1>6, <1>7 DEF Next, Enqueue

LEMMA TriesGrow ==
  ASSUME IInv, [Next]_vars
  PROVE  \A j \in Jobs : tries'[j] >= tries[j]
  <1> USE DEF history, vars
  <1>1. tries \in [Jobs -> Nat]
    BY DEF IInv, TypeOK
  <1>2. ASSUME NEW w \in Workers, Deliver(w) PROVE \A j \in Jobs : tries'[j] >= tries[j]
    BY <1>1, <1>2 DEF Deliver
  <1>3. CASE UNCHANGED tries
    BY <1>1, <1>3
  <1>4. (\E w \in Workers : Deliver(w)) \/ UNCHANGED tries
    BY DEF Next, Enqueue, EnqueueCommunicationJob, PushJob, StateGoesStale, DelayElapses,
           KeyExpires, Loop, AcknowledgeFails, Crash, ListDue, PromoteDue, ListProcessing,
           InspectListed, DropFinished, RemoveStalled, RequeueStalled, Reserve,
           RecordReservation, AckRemove, AckReleaseKey, AckRecord, RemoveFailed, DelayRetry,
           PushDeadLetter, RecordFailure
  <1>5. QED
    BY <1>2, <1>3, <1>4

(* What is pushed, reserved or delayed is covered where it comes from.      *)
LEMMA ListsPreserved ==
  ASSUME IInv, [Next]_vars
  PROVE  ListsAreCovered'
  <1> USE DEF At, store, keys, history, vars
  <1>0. TypeOK /\ TypeOK' /\ ListsAreCovered
    BY TypePreserved DEF IInv, TriesCoverAttempts
  <1>1. Covered \subseteq Covered' /\ Seq(Covered) \subseteq Seq(Covered')
    BY <1>0, CoveredGrows, TriesGrow DEF TypeOK
  <1>2. SUFFICES /\ queue' \in Seq(Covered')
                 /\ \A e \in Entry : processing'[e] > 0 => e \in Covered'
                 /\ delayed' \subseteq Covered'
    BY DEF ListsAreCovered
  <1>3. CASE UNCHANGED <<queue, processing, delayed>>
    BY <1>0, <1>1, <1>3 DEF ListsAreCovered
  <1>4. ASSUME NEW j \in Jobs, PushJob(j)
        PROVE  queue' \in Seq(Covered') /\ UNCHANGED <<processing, delayed>>
    <2>1. [job |-> j, attempts |-> 0] \in Covered
      BY <1>0, ConstantsAssumption DEF Covered, Entry, TypeOK
    <2>2. queue' \in Seq(Covered)
      BY <1>0, <1>4, <2>1, Pushed DEF PushJob, ListsAreCovered
    <2>3. QED
      BY <1>1, <1>4, <2>2 DEF PushJob
  <1>5. ASSUME NEW w \in Workers, PromoteDue(w)
        PROVE  /\ queue' \in Seq(Covered') /\ delayed' \subseteq delayed
               /\ UNCHANGED processing
    <2>1. PICK order \in Orders(worker[w].scan) : queue' = queue \o order
      BY <1>5 DEF PromoteDue
    <2>2. worker[w].scan \subseteq Covered /\ worker[w].scan \in SUBSET Entry
      BY <1>0, WorkerFields DEF IInv, TriesCoverAttempts, WorkerIsCovered
    <2>3. order \in Seq(Covered)
      BY <2>1, <2>2, OrdersAreSequences, SeqMonotonic
    <2>4. queue' \in Seq(Covered)
      BY <1>0, <2>1, <2>3 DEF ListsAreCovered
    <2>5. QED
      BY <1>1, <1>5, <2>4 DEF PromoteDue
  <1>6. ASSUME NEW w \in Workers,
               DropFinished(w) \/ RemoveStalled(w) \/ AckRemove(w) \/ RemoveFailed(w)
        PROVE  /\ \A e \in Entry : processing'[e] > 0 => processing[e] > 0
               /\ UNCHANGED <<queue, delayed>>
    <2>1. EntryOf(w) \in Entry
      BY <1>6, HeldEntry
         DEF DropFinished, RemoveStalled, AckRemove, RemoveFailed, Holding, Awaits
    <2>2. QED
      BY <1>0, <1>6, <2>1, RemovedFromProcessing
         DEF DropFinished, RemoveStalled, AckRemove, RemoveFailed
  <1>7. ASSUME NEW w \in Workers, RequeueStalled(w)
        PROVE  queue' \in Seq(Covered') /\ UNCHANGED <<processing, delayed>>
    <2>1. EntryOf(w) \in Covered
      BY <1>7, HeldEntry DEF RequeueStalled, Holding, Awaits
    <2>2. queue' \in Seq(Covered)
      BY <1>0, <1>7, <2>1, Pushed DEF RequeueStalled, ListsAreCovered
    <2>3. QED
      BY <1>1, <1>7, <2>2 DEF RequeueStalled
  <1>8. ASSUME NEW w \in Workers, Reserve(w), queue # <<>>
        PROVE  /\ queue' \in Seq(Covered') /\ UNCHANGED delayed
               /\ \A e \in Entry : processing'[e] > 0 => e \in Covered
    <2>1. Head(queue) \in Covered /\ Tail(queue) \in Seq(Covered)
      BY <1>0, <1>8 DEF ListsAreCovered
    <2>2. queue' = Tail(queue) /\ UNCHANGED delayed
            /\ processing' = [processing EXCEPT ![Head(queue)] = @ + 1]
      BY <1>8 DEF Reserve
    <2>3. ASSUME NEW e \in Entry, processing'[e] > 0 PROVE e \in Covered
      <3>1. CASE e = Head(queue)
        BY <2>1, <3>1
      <3>2. CASE e # Head(queue)
        BY <1>0, <2>2, <2>3, <3>2 DEF ListsAreCovered, TypeOK
      <3>3. QED
        BY <3>1, <3>2
    <2>4. QED
      BY <1>1, <2>1, <2>2, <2>3
  <1>9. ASSUME NEW w \in Workers, DelayRetry(w)
        PROVE  delayed' \subseteq Covered' /\ UNCHANGED <<queue, processing>>
    <2> DEFINE e == EntryOf(w)
               f == [e EXCEPT !.attempts = @ + 1]
    <2>1. worker[w].at = "retry.add" /\ e = worker[w].entry /\ e \in Entry /\ e.job \in Jobs
      BY <1>9, HeldEntry DEF DelayRetry, Holding, Awaits
    <2>2. e.attempts + 1 < MaxAttempts /\ tries[e.job] >= e.attempts + 1
      BY <2>1 DEF IInv, TriesCoverAttempts, WorkerIsCovered, Failing
    <2>3. f \in Entry /\ f.job = e.job /\ f.attempts = e.attempts + 1
      BY <2>1, <2>2, ConstantsAssumption DEF Entry
    <2>4. f \in Covered
      BY <2>2, <2>3 DEF Covered
    <2>5. delayed' = delayed \cup {f} /\ UNCHANGED <<queue, processing>>
      BY <1>9 DEF DelayRetry
    <2>6. QED
      BY <1>0, <1>1, <2>4, <2>5 DEF ListsAreCovered
  <1>10. \/ UNCHANGED <<queue, processing, delayed>>
         \/ \E j \in Jobs : PushJob(j)
         \/ \E w \in Workers :
              \/ PromoteDue(w) \/ RequeueStalled(w) \/ DelayRetry(w)
              \/ DropFinished(w) \/ RemoveStalled(w) \/ AckRemove(w) \/ RemoveFailed(w)
              \/ Reserve(w) /\ queue # <<>>
    BY DEF Next, Enqueue, EnqueueCommunicationJob, StateGoesStale, DelayElapses,
           KeyExpires, Loop, AcknowledgeFails, Crash, ListDue, ListProcessing,
           InspectListed, Reserve, RecordReservation, Deliver, AckReleaseKey, AckRecord,
           PushDeadLetter, RecordFailure
  <1>11. QED
    BY <1>0, <1>1, <1>3, <1>4, <1>5, <1>6, <1>7, <1>8, <1>9, <1>10 DEF ListsAreCovered

(* A dead letter is what its worker has just tried for the last time.       *)
LEMMA DeadLettersPreserved ==
  ASSUME IInv, [Next]_vars
  PROVE  DeadLettersWereTried'
  <1> USE DEF At, store, keys, history, vars
  <1>0. TypeOK /\ TypeOK' /\ DeadLettersWereTried
    BY TypePreserved DEF IInv, TriesCoverAttempts
  <1>1. ASSUME NEW e \in dlq PROVE tries'[e.job] >= MaxAttempts
    <2>1. e.job \in Jobs
      BY <1>0, EntryFields DEF TypeOK
    <2>2. tries[e.job] \in Nat /\ tries'[e.job] \in Nat /\ tries'[e.job] >= tries[e.job]
      BY <1>0, <2>1, TriesGrow DEF TypeOK
    <2>3. tries[e.job] >= MaxAttempts
      BY <1>0 DEF DeadLettersWereTried
    <2>4. QED
      BY <2>2, <2>3, ConstantsAssumption
  <1>2. ASSUME NEW w \in Workers, PushDeadLetter(w)
        PROVE  dlq' = dlq \cup {EntryOf(w)} /\ tries'[EntryOf(w).job] >= MaxAttempts
    <2>1. worker[w].at = "dlq.push" /\ EntryOf(w) = worker[w].entry /\ EntryOf(w) \in Entry
      BY <1>2, HeldEntry DEF PushDeadLetter, Holding, Awaits
    <2>2. /\ EntryOf(w).attempts + 1 >= MaxAttempts
          /\ tries[EntryOf(w).job] >= EntryOf(w).attempts + 1
      BY <2>1 DEF IInv, TriesCoverAttempts, WorkerIsCovered, Failing
    <2>3. EntryOf(w).attempts \in Nat /\ tries[EntryOf(w).job] \in Nat
      BY <1>0, <2>1, EntryFields DEF TypeOK
    <2>4. dlq' = dlq \cup {EntryOf(w)} /\ UNCHANGED tries
      BY <1>2 DEF PushDeadLetter
    <2>5. QED
      BY <2>2, <2>3, <2>4, ConstantsAssumption
  <1>3. (\E w \in Workers : PushDeadLetter(w)) \/ UNCHANGED dlq
    BY DEF Next, Enqueue, EnqueueCommunicationJob, PushJob, StateGoesStale, DelayElapses,
           KeyExpires, Loop, AcknowledgeFails, Crash, ListDue, PromoteDue, ListProcessing,
           InspectListed, DropFinished, RemoveStalled, RequeueStalled, Reserve, Deliver,
           RecordReservation, AckRemove, AckReleaseKey, AckRecord, RemoveFailed, DelayRetry,
           RecordFailure
  <1>4. QED
    BY <1>1, <1>2, <1>3 DEF DeadLettersWereTried

LEMMA MoverStaysCovered ==
  ASSUME IInv, [Next]_vars, NEW w \in Workers, NEW await, NEW S, NEW e,
         Moved(w, await, S, e),
         S \subseteq Covered',
         await \in Holding => e \in Covered',
         await \in Failing => tries'[e.job] >= e.attempts + 1,
         await \in {"retry.remove", "retry.add"} => e.attempts + 1 < MaxAttempts,
         await \in {"dlq.remove", "dlq.push"} => e.attempts + 1 >= MaxAttempts
  PROVE  \A v \in Workers : WorkerIsCovered(v)'
  <1>1. WorkerIsCovered(w)'
    BY DEF Moved, WorkerIsCovered
  <1>2. ASSUME NEW v \in Workers, v # w PROVE WorkerIsCovered(v)'
    <2>1. worker'[v] = worker[v]
      BY <1>2 DEF Moved
    <2>2. TypeOK /\ TriesCoverAttempts /\ tries' \in [Jobs -> Nat]
      BY TypePreserved DEF IInv, TypeOK
    <2>3. QED
      BY <2>1, <2>2, TriesGrow, OthersStayCovered
  <1>3. QED
    BY <1>1, <1>2

LEMMA WorkersPreserved ==
  ASSUME IInv, [Next]_vars
  PROVE  \A v \in Workers : WorkerIsCovered(v)'
  <1> USE DEF At, store, keys, history, vars
  <1>0. TypeOK /\ TypeOK' /\ ListsAreCovered /\ \A v \in Workers : WorkerIsCovered(v)
    BY TypePreserved DEF IInv, TriesCoverAttempts
  <1>1. Covered \subseteq Covered'
    BY <1>0, CoveredGrows, TriesGrow DEF TypeOK
  <1>2. CASE UNCHANGED worker
    BY <1>0, <1>2, OthersStayCovered, TriesGrow DEF IInv, TypeOK
  <1>3. ASSUME NEW w \in Workers, Loop(w) \/ AcknowledgeFails(w) \/ Crash(w)
        PROVE  \A v \in Workers : WorkerIsCovered(v)'
    <2> USE <1>0
    <2>0. /\ worker[w].scan \subseteq Covered' /\ worker[w].scan \in SUBSET Entry
          /\ {} \subseteq Covered' /\ {} \in SUBSET Entry
      BY <1>1, WorkerFields DEF WorkerIsCovered
    <2>1. CASE ListDue(w)
      <3>1. PICK await \in {"recover", "promote.move"}, listed \in SUBSET due :
              worker' = [worker EXCEPT ![w].at = await, ![w].scan = listed]
        BY <2>1 DEF ListDue, Batches
      <3>2. await \in Awaits /\ listed \in SUBSET Entry /\ listed \subseteq Covered'
        BY <1>1, <3>1 DEF Awaits, TypeOK, ListsAreCovered
      <3>3. Moved(w, await, listed, worker[w].entry)
        BY <3>1, <3>2, ListMoves
      <3>4. await \notin Holding \cup Failing
        BY <3>1 DEF Holding, Failing
      <3>5. QED
        BY <3>1, <3>2, <3>3, <3>4, MoverStaysCovered
    <2>2. CASE PromoteDue(w)
      <3>1. worker' = [worker EXCEPT ![w].at = "recover", ![w].scan = {}]
        BY <2>2 DEF PromoteDue
      <3>2. Moved(w, "recover", {}, worker[w].entry)
        BY <2>0, <3>1, ListMoves DEF Awaits
      <3>3. QED
        BY <2>0, <3>2, MoverStaysCovered DEF Holding, Failing
    <2>3. CASE ListProcessing(w)
      <3> DEFINE listed == {e \in Entry : processing[e] > 0}
      <3>1. worker' = [worker EXCEPT ![w].at = "recover.next", ![w].scan = listed]
        BY <2>3 DEF ListProcessing
      <3>2. listed \in SUBSET Entry /\ listed \subseteq Covered
        BY DEF ListsAreCovered
      <3> HIDE DEF listed
      <3>3. "recover.next" \in Awaits
        BY DEF Awaits
      <3>4. Moved(w, "recover.next", listed, worker[w].entry)
        BY <3>1, <3>2, <3>3, ListMoves
      <3>5. "recover.next" \notin Holding \cup Failing
        BY DEF Holding, Failing
      <3>6. listed \subseteq Covered'
        BY <1>1, <3>2
      <3>7. QED
        BY <3>4, <3>5, <3>6, MoverStaysCovered
    <2>4. CASE InspectListed(w)
      <3>1. CASE Goto(w, "reserve")
        BY <2>0, <3>1, GotoMoves, MoverStaysCovered DEF Awaits, Holding, Failing
      <3>2. CASE ~ Goto(w, "reserve")
        <4>1. PICK e \in worker[w].scan, await \in {"recover.drop", "recover.remove", "recover.next"} :
                worker' = [worker EXCEPT ![w].scan = @ \ {e}, ![w].entry = e, ![w].at = await]
          BY <2>4, <3>2 DEF InspectListed
        <4>2. e \in Entry /\ e \in Covered' /\ await \in Awaits /\ await \notin Failing
          BY <2>0, <4>1 DEF Awaits, Failing
        <4>3. worker[w].scan \ {e} \in SUBSET Entry /\ worker[w].scan \ {e} \subseteq Covered'
          BY <2>0
        <4>4. Moved(w, await, worker[w].scan \ {e}, e)
          BY <4>1, <4>2, <4>3, InspectMoves
        <4>5. QED
          BY <4>1, <4>2, <4>3, <4>4, MoverStaysCovered
      <3>3. QED
        BY <3>1, <3>2
    <2>5. ASSUME NEW await \in Awaits, Goto(w, await), worker[w].at \in Holding,
                 await \in Failing =>
                   tries'[worker[w].entry.job] >= worker[w].entry.attempts + 1,
                 await \in {"retry.remove", "retry.add"} =>
                   worker[w].entry.attempts + 1 < MaxAttempts,
                 await \in {"dlq.remove", "dlq.push"} =>
                   worker[w].entry.attempts + 1 >= MaxAttempts
          PROVE  \A v \in Workers : WorkerIsCovered(v)'
      <3>1. Moved(w, await, worker[w].scan, worker[w].entry)
        BY <2>5, GotoMoves
      <3>2. worker[w].entry \in Covered'
        BY <1>1, <2>5 DEF WorkerIsCovered
      <3>3. QED
        BY <2>0, <2>5, <3>1, <3>2, MoverStaysCovered
    <2>6. CASE DropFinished(w) \/ RemoveStalled(w) \/ RequeueStalled(w) \/ RecordReservation(w)
      <3>1. PICK await \in {"recover.next", "recover.push", "deliver"} : Goto(w, await)
        BY <2>6 DEF DropFinished, RemoveStalled, RequeueStalled, RecordReservation
      <3>2. /\ worker[w].at \in Holding /\ await \in Awaits /\ await \notin Failing
            /\ await \notin {"retry.remove", "retry.add", "dlq.remove", "dlq.push"}
        BY <2>6, <3>1
           DEF DropFinished, RemoveStalled, RequeueStalled, RecordReservation, Holding,
               Awaits, Failing
      <3>3. QED
        BY <2>5, <3>1, <3>2
    <2>7. CASE AckRemove(w) \/ AckReleaseKey(w) \/ RemoveFailed(w) \/ DelayRetry(w)
                 \/ PushDeadLetter(w)
      <3>1. PICK await \in {"ack.key", "ack.state", "retry.add", "dlq.push", "retry.state",
                            "dlq.state"} :
              /\ Goto(w, await)
              /\ await = "retry.add" => worker[w].at = "retry.remove"
              /\ await = "dlq.push" => worker[w].at = "dlq.remove"
        BY <2>7 DEF AckRemove, AckReleaseKey, RemoveFailed, DelayRetry, PushDeadLetter
      <3>2. /\ worker[w].at \in Holding /\ worker[w].at \in Failing /\ await \in Awaits
            /\ UNCHANGED tries
        BY <2>7, <3>1
           DEF AckRemove, AckReleaseKey, RemoveFailed, DelayRetry, PushDeadLetter, Holding,
               Awaits, Failing
      <3>3. /\ tries[worker[w].entry.job] >= worker[w].entry.attempts + 1
            /\ await = "retry.add" => worker[w].entry.attempts + 1 < MaxAttempts
            /\ await = "dlq.push" => worker[w].entry.attempts + 1 >= MaxAttempts
        BY <3>1, <3>2 DEF WorkerIsCovered
      <3>4. QED
        BY <2>5, <3>1, <3>2, <3>3
    <2>8. ASSUME worker[w].at \in Holding, Goto(w, FailureAwait(EntryOf(w))),
                 tries'[worker[w].entry.job] >= worker[w].entry.attempts + 1
          PROVE  \A v \in Workers : WorkerIsCovered(v)'
      <3>1. EntryOf(w) = worker[w].entry /\ worker[w].entry.attempts \in Nat
        BY <2>8, HeldEntry
      <3>2. CASE worker[w].entry.attempts + 1 < MaxAttempts
        <4>1. Goto(w, "retry.remove") /\ "retry.remove" \in Awaits
          BY <2>8, <3>1, <3>2 DEF FailureAwait, Awaits
        <4>2. QED
          BY <2>5, <2>8, <3>2, <4>1
      <3>3. CASE ~ (worker[w].entry.attempts + 1 < MaxAttempts)
        <4>1. Goto(w, "dlq.remove") /\ "dlq.remove" \in Awaits
          BY <2>8, <3>1, <3>3 DEF FailureAwait, Awaits
        <4>2. worker[w].entry.attempts + 1 >= MaxAttempts
          BY <3>1, <3>3, ConstantsAssumption
        <4>3. QED
          BY <2>5, <2>8, <4>1, <4>2
      <3>4. QED
        BY <3>2, <3>3
    <2>9. CASE Deliver(w)
      <3>1. worker[w].at = "deliver" /\ worker[w].at \in Holding
        BY <2>9 DEF Deliver, Holding, Awaits
      <3>2. /\ JobOf(w) = worker[w].entry.job /\ JobOf(w) \in Jobs
            /\ worker[w].entry.attempts \in Nat
            /\ tries[JobOf(w)] >= worker[w].entry.attempts
        BY <3>1, HeldEntry DEF Covered
      <3>3. tries'[JobOf(w)] = tries[JobOf(w)] + 1 /\ tries[JobOf(w)] \in Nat
        BY <2>9, <3>2 DEF Deliver, TypeOK
      <3>4. tries'[worker[w].entry.job] >= worker[w].entry.attempts + 1
        BY <3>2, <3>3
      <3>5. CASE Goto(w, "ack.remove")
        <4>1. "ack.remove" \in Awaits
          BY DEF Awaits
        <4>2. QED
          BY <2>5, <3>1, <3>4, <3>5, <4>1
      <3>6. CASE Goto(w, FailureAwait(EntryOf(w)))
        BY <2>8, <3>1, <3>4, <3>6
      <3>7. QED
        BY <2>9, <3>5, <3>6 DEF Deliver
    <2>10. CASE AcknowledgeFails(w)
      <3>1. /\ worker[w].at \in Holding /\ worker[w].at \in Failing
            /\ Goto(w, FailureAwait(EntryOf(w))) /\ UNCHANGED tries
        BY <2>10 DEF AcknowledgeFails, Holding, Failing, Awaits
      <3>2. tries'[worker[w].entry.job] >= worker[w].entry.attempts + 1
        BY <3>1 DEF WorkerIsCovered
      <3>3. QED
        BY <2>8, <3>1, <3>2
    <2>11. ASSUME NextRound(w) PROVE \A v \in Workers : WorkerIsCovered(v)'
      BY <2>0, <2>11, NextRoundMoves, MoverStaysCovered DEF Holding, Failing
    <2>12. CASE Reserve(w) /\ queue # <<>>
      <3>1. Head(queue) \in Covered /\ Head(queue) \in Entry
        BY <2>12 DEF ListsAreCovered, TypeOK
      <3>2. Work(w, "reserve.state", Head(queue))
        BY <2>12 DEF Reserve
      <3>3. Moved(w, "reserve.state", worker[w].scan, Head(queue))
        BY <3>1, <3>2, WorkMoves DEF Awaits
      <3>4. Head(queue) \in Covered' /\ "reserve.state" \notin Failing
        BY <1>1, <3>1 DEF Failing
      <3>5. QED
        BY <2>0, <3>3, <3>4, MoverStaysCovered
    <2>13. CASE AckRecord(w) \/ RecordFailure(w) \/ Crash(w) \/ (Reserve(w) /\ queue = <<>>)
      BY <2>11, <2>13 DEF AckRecord, RecordFailure, Crash, Reserve
    <2>14. QED
      BY <1>3, <2>1, <2>2, <2>3, <2>4, <2>6, <2>7, <2>9, <2>10, <2>12, <2>13 DEF Loop
  <1>4. \/ UNCHANGED worker
        \/ \E w \in Workers : Loop(w) \/ AcknowledgeFails(w) \/ Crash(w)
    BY DEF Next, Enqueue, EnqueueCommunicationJob, PushJob, StateGoesStale, DelayElapses,
           KeyExpires
  <1>5. QED
    BY <1>2, <1>3, <1>4

----------------------------------------------------------------------------
(* The theorems *)

(* What a worker holds, a list holds and a dead letter counts is covered in *)
(* every state: nothing that fails, dies, expires or is done twice counts   *)
(* an attempt that was not made.                                            *)
THEOREM InvCorrect == Spec => []IInv
  <1>1. Init => IInv
    <2> SUFFICES ASSUME Init PROVE IInv
      OBVIOUS
    <2>1. AtLoopStart \in Worker /\ AtLoopStart.scan = {} /\ AtLoopStart.at = "promote"
      BY DEF AtLoopStart, Worker, Awaits
    <2>2. worker \in [Workers -> Worker] /\ \A w \in Workers : worker[w] = AtLoopStart
      BY <2>1 DEF Init
    <2>3. TypeOK
      BY <2>2, ConstantsAssumption DEF Init, TypeOK
    <2>4. ListsAreCovered /\ DeadLettersWereTried
      BY DEF Init, ListsAreCovered, DeadLettersWereTried
    <2>5. \A w \in Workers : WorkerIsCovered(w)
      BY <2>1, <2>2 DEF WorkerIsCovered, Holding, Failing
    <2>6. QED
      BY <2>3, <2>4, <2>5 DEF IInv, TriesCoverAttempts
  <1>2. IInv /\ [Next]_vars => IInv'
    BY TypePreserved, ListsPreserved, DeadLettersPreserved, WorkersPreserved
       DEF IInv, TriesCoverAttempts
  <1>3. QED
    BY <1>1, <1>2, PTL DEF Spec

(* Every variable keeps its type (CommunicationQueueJob and the stored      *)
(* states), for any number of jobs and workers.                             *)
THEOREM TypeCorrect == Spec => []TypeOK
  <1>1. IInv => TypeOK
    BY DEF IInv
  <1>2. QED
    BY <1>1, InvCorrect, PTL

(* A job reaches the dead letters (moveCommunicationJobToDlq) only after as *)
(* many deliveries as its type allows, for any number of workers.           *)
THEOREM DeadLettersAreExhausted == Spec => []DeadLettersWereTried
  <1>1. IInv => DeadLettersWereTried
    BY DEF IInv, TriesCoverAttempts
  <1>2. QED
    BY <1>1, InvCorrect, PTL

----------------------------------------------------------------------------
(* One worker: every job is in one place *)

Reserved == {e \in Entry : processing[e] > 0}

(* q holds an entry of j; no two places of q do.                            *)
Queued(q, j) == \E i \in DOMAIN q : q[i].job = j

QueuedOnce(q, j) == \A i, k \in DOMAIN q : q[i].job = j /\ q[k].job = j => i = k

Among(S, j) == \E e \in S : e.job = j

AmongOnce(S, j) == \A e, f \in S : e.job = j /\ f.job = j => e = f

Nowhere(j) ==
  ~ Queued(queue, j) /\ ~ Among(Reserved, j) /\ ~ Among(delayed, j) /\ ~ Among(dlq, j)

OnePlace(j) ==
  /\ QueuedOnce(queue, j) /\ AmongOnce(Reserved, j)
  /\ AmongOnce(delayed, j) /\ AmongOnce(dlq, j)
  /\ Queued(queue, j) => ~ Among(Reserved, j) /\ ~ Among(delayed, j) /\ ~ Among(dlq, j)
  /\ Among(Reserved, j) => ~ Among(delayed, j) /\ ~ Among(dlq, j)
  /\ Among(delayed, j) => ~ Among(dlq, j)
  /\ Carried(j) => Nowhere(j)

(* No list and no worker has a job that is not yet in the queue.            *)
Untouched(w, j) == Nowhere(j) /\ (worker[w].at \in Holding => worker[w].entry.job # j)

Recovering == {"recover.next", "recover.drop", "recover.remove", "recover.push"}

Attempting == {"reserve.state", "deliver", "ack.remove"}

(* What the only worker has listed or reserved is still there when it comes *)
(* to remove it; where a command has thrown it may be gone already.         *)
HandInv(w) ==
  /\ worker[w].at = "promote.move" => worker[w].scan \subseteq delayed
  /\ worker[w].at \in Recovering => worker[w].scan \subseteq Reserved
  /\ worker[w].at \in {"recover.drop", "recover.remove"} =>
       worker[w].entry \in Reserved \ worker[w].scan
  /\ worker[w].at = "recover.push" => worker[w].entry \notin worker[w].scan
  /\ worker[w].at \in Attempting => worker[w].entry \in Reserved
  /\ worker[w].at \in {"ack.key", "ack.state"} => Nowhere(worker[w].entry.job)
  /\ worker[w].at \in {"retry.remove", "dlq.remove"} =>
       worker[w].entry \in Reserved \/ Nowhere(worker[w].entry.job)

SoleInv(w) ==
  /\ \A e \in Entry : processing[e] <= 1
  /\ \A j \in Jobs : OnePlace(j)
  /\ \A j \in Jobs : j \in pushing \/ payload[j] = None => Untouched(w, j)
  /\ \A j \in pushing : payload[j] # None
  /\ HandInv(w)


LEMMA QueuedPushed ==
  ASSUME NEW q \in Seq(Entry), NEW e \in Entry, NEW j
  PROVE  /\ Queued(Append(q, e), j) <=> Queued(q, j) \/ e.job = j
         /\ QueuedOnce(q, j) /\ (e.job = j => ~ Queued(q, j)) => QueuedOnce(Append(q, e), j)
  <1>1. /\ Len(q) \in Nat /\ DOMAIN q = 1 .. Len(q)
        /\ DOMAIN Append(q, e) = 1 .. Len(q) + 1
        /\ \A i \in 1 .. Len(q) : Append(q, e)[i] = q[i]
        /\ Append(q, e)[Len(q) + 1] = e
    OBVIOUS
  <1>2. \A i \in DOMAIN Append(q, e) : i \in DOMAIN q \/ i = Len(q) + 1
    BY <1>1
  <1>3. DOMAIN q \subseteq DOMAIN Append(q, e) /\ Len(q) + 1 \in DOMAIN Append(q, e)
    BY <1>1
  <1>4. QED
    BY <1>1, <1>2, <1>3 DEF Queued, QueuedOnce

LEMMA QueuedPopped ==
  ASSUME NEW q \in Seq(Entry), q # <<>>, NEW j
  PROVE  /\ Queued(q, j) <=> Queued(Tail(q), j) \/ Head(q).job = j
         /\ QueuedOnce(q, j) => /\ QueuedOnce(Tail(q), j)
                                /\ Head(q).job = j => ~ Queued(Tail(q), j)
  <1>1. /\ Len(q) \in Nat /\ DOMAIN q = 1 .. Len(q) /\ Len(q) >= 1 /\ Head(q) = q[1]
        /\ DOMAIN Tail(q) = 1 .. Len(q) - 1
        /\ \A i \in 1 .. Len(q) - 1 : Tail(q)[i] = q[i + 1]
    OBVIOUS
  <1>2. ASSUME NEW i \in DOMAIN q, i # 1 PROVE i - 1 \in DOMAIN Tail(q) /\ Tail(q)[i - 1] = q[i]
    BY <1>1, <1>2
  <1>3. ASSUME NEW i \in DOMAIN Tail(q)
        PROVE  i \in Nat /\ i + 1 \in DOMAIN q /\ i + 1 # 1 /\ Tail(q)[i] = q[i + 1]
    BY <1>1
  <1>4. Queued(q, j) <=> Queued(Tail(q), j) \/ Head(q).job = j
    <2>1. ASSUME Queued(q, j), Head(q).job # j PROVE Queued(Tail(q), j)
      <3>1. PICK i \in DOMAIN q : q[i].job = j
        BY <2>1 DEF Queued
      <3>2. i # 1
        BY <1>1, <2>1, <3>1
      <3>3. QED
        BY <1>2, <3>1, <3>2 DEF Queued
    <2>2. ASSUME Queued(Tail(q), j) PROVE Queued(q, j)
      BY <1>3, <2>2 DEF Queued
    <2>3. ASSUME Head(q).job = j PROVE Queued(q, j)
      <3>1. 1 \in DOMAIN q /\ q[1].job = j
        BY <1>1, <2>3
      <3>2. QED
        BY <3>1 DEF Queued
    <2>4. QED
      BY <2>1, <2>2, <2>3
  <1>5. ASSUME QueuedOnce(q, j) PROVE QueuedOnce(Tail(q), j)
    <2> SUFFICES ASSUME NEW i \in DOMAIN Tail(q), NEW k \in DOMAIN Tail(q),
                        Tail(q)[i].job = j, Tail(q)[k].job = j
                 PROVE  i = k
      BY DEF QueuedOnce
    <2>1. i + 1 = k + 1
      BY <1>3, <1>5 DEF QueuedOnce
    <2>2. QED
      BY <1>3, <2>1
  <1>6. ASSUME QueuedOnce(q, j), Head(q).job = j PROVE ~ Queued(Tail(q), j)
    BY <1>1, <1>3, <1>6 DEF QueuedOnce, Queued
  <1>7. QED
    BY <1>4, <1>5, <1>6

(* Every entry of the set is pushed, and none twice.                        *)
LEMMA OrdersAreBijections ==
  ASSUME NEW S \in SUBSET Entry, NEW order \in Orders(S)
  PROVE  /\ \A e \in S : \E i \in DOMAIN order : order[i] = e
         /\ \A i \in DOMAIN order : order[i] \in S
         /\ \A i, k \in DOMAIN order : order[i] = order[k] => i = k
  <1>1. IsFiniteSet(S) /\ Cardinality(S) \in Nat
    BY FiniteEntries, FS_Subset, FS_CardinalityType
  <1> DEFINE D == 1 .. Cardinality(S)
  <1>2. order \in [D -> S] /\ \A i, k \in DOMAIN order : order[i] = order[k] => i = k
    BY DEF Orders
  <1>3. order \in Injection(D, S)
    BY <1>2 DEF Injection, IsInjective
  <1>4. Cardinality(D) = Cardinality(S)
    <2>1. 1 \in Int /\ Cardinality(S) \in Int
      BY <1>1
    <2>2. Cardinality(D) = IF 1 > Cardinality(S) THEN 0 ELSE Cardinality(S) - 1 + 1
      BY <2>1, FS_Interval
    <2>3. QED
      BY <1>1, <2>2
  <1> HIDE DEF D
  <1>5. order \in Surjection(D, S)
    BY <1>1, <1>3, <1>4, FS_Injection
  <1>6. QED
    BY <1>2, <1>5 DEF Surjection

LEMMA QueuedTogether ==
  ASSUME NEW q \in Seq(Entry), NEW S \in SUBSET Entry, NEW order \in Orders(S), NEW j
  PROVE  /\ Queued(q \o order, j) <=> Queued(q, j) \/ Among(S, j)
         /\ QueuedOnce(q, j) /\ AmongOnce(S, j) /\ ~ (Queued(q, j) /\ Among(S, j))
              => QueuedOnce(q \o order, j)
  <1>1. order \in Seq(Entry)
    BY OrdersAreSequences, SeqMonotonic
  <1>2. /\ Len(q) \in Nat /\ DOMAIN q = 1 .. Len(q)
        /\ Len(order) \in Nat /\ DOMAIN order = 1 .. Len(order)
        /\ DOMAIN (q \o order) = 1 .. Len(q) + Len(order)
        /\ \A i \in 1 .. Len(q) + Len(order) :
             (q \o order)[i] = IF i <= Len(q) THEN q[i] ELSE order[i - Len(q)]
    BY <1>1
  <1>3. ASSUME NEW i \in DOMAIN (q \o order)
        PROVE  \/ i \in DOMAIN q /\ (q \o order)[i] = q[i]
               \/ /\ i - Len(q) \in DOMAIN order
                  /\ (q \o order)[i] = order[i - Len(q)]
    BY <1>2
  <1>4. ASSUME NEW i \in DOMAIN q PROVE i \in DOMAIN (q \o order) /\ (q \o order)[i] = q[i]
    BY <1>2
  <1>5. ASSUME NEW i \in DOMAIN order
        PROVE  Len(q) + i \in DOMAIN (q \o order) /\ (q \o order)[Len(q) + i] = order[i]
    BY <1>2
  <1>6. /\ \A e \in S : \E i \in DOMAIN order : order[i] = e
        /\ \A i \in DOMAIN order : order[i] \in S
        /\ \A i, k \in DOMAIN order : order[i] = order[k] => i = k
    BY OrdersAreBijections
  <1>7. Queued(q \o order, j) <=> Queued(q, j) \/ Among(S, j)
    <2>1. ASSUME Queued(q \o order, j) PROVE Queued(q, j) \/ Among(S, j)
      BY <1>3, <1>6, <2>1 DEF Queued, Among
    <2>2. ASSUME Queued(q, j) PROVE Queued(q \o order, j)
      BY <1>4, <2>2 DEF Queued
    <2>3. ASSUME Among(S, j) PROVE Queued(q \o order, j)
      <3>1. PICK e \in S : e.job = j
        BY <2>3 DEF Among
      <3>2. PICK i \in DOMAIN order : order[i] = e
        BY <1>6
      <3>3. (q \o order)[Len(q) + i].job = j
        BY <1>5, <3>1, <3>2
      <3>4. QED
        BY <1>5, <3>3 DEF Queued
    <2>4. QED
      BY <2>1, <2>2, <2>3
  <1>8. ASSUME QueuedOnce(q, j), AmongOnce(S, j), ~ (Queued(q, j) /\ Among(S, j)),
               NEW i \in DOMAIN (q \o order), NEW k \in DOMAIN (q \o order),
               (q \o order)[i].job = j, (q \o order)[k].job = j
        PROVE  i = k
    <2>1. CASE i \in DOMAIN q /\ (q \o order)[i] = q[i]
      <3>1. Queued(q, j)
        BY <1>8, <2>1 DEF Queued
      <3>2. k \in DOMAIN q /\ (q \o order)[k] = q[k]
        BY <1>3, <1>6, <1>8, <3>1 DEF Among
      <3>3. QED
        BY <1>8, <2>1, <3>2 DEF QueuedOnce
    <2>2. CASE i - Len(q) \in DOMAIN order /\ (q \o order)[i] = order[i - Len(q)]
      <3>1. order[i - Len(q)] \in S /\ Among(S, j)
        BY <1>6, <1>8, <2>2 DEF Among
      <3>2. k - Len(q) \in DOMAIN order /\ (q \o order)[k] = order[k - Len(q)]
        BY <1>3, <1>8, <3>1 DEF Queued
      <3>3. order[i - Len(q)] = order[k - Len(q)]
        BY <1>6, <1>8, <2>2, <3>2 DEF AmongOnce
      <3>4. i - Len(q) = k - Len(q)
        BY <1>6, <2>2, <3>2, <3>3
      <3>5. i \in Int /\ k \in Int /\ Len(q) \in Int
        BY <1>2
      <3>6. QED
        BY <3>4, <3>5
    <2>3. QED
      BY <1>3, <2>1, <2>2
  <1>9. QED
    BY <1>7, <1>8 DEF QueuedOnce


LEMMA AmongAdded ==
  ASSUME NEW S, NEW e, NEW j
  PROVE  /\ Among(S \cup {e}, j) <=> Among(S, j) \/ e.job = j
         /\ AmongOnce(S, j) /\ (e.job = j => ~ Among(S, j)) => AmongOnce(S \cup {e}, j)
  BY DEF Among, AmongOnce

LEMMA AmongLess ==
  ASSUME NEW S, NEW T \in SUBSET S, NEW j
  PROVE  /\ Among(S, j) <=> Among(S \ T, j) \/ Among(T, j)
         /\ AmongOnce(S, j) => /\ AmongOnce(S \ T, j) /\ AmongOnce(T, j)
                               /\ ~ (Among(S \ T, j) /\ Among(T, j))
  BY DEF Among, AmongOnce

LEMMA AmongRemoved ==
  ASSUME NEW S, NEW e, NEW j
  PROVE  /\ Among(S \ {e}, j) => Among(S, j)
         /\ e.job # j => (Among(S \ {e}, j) <=> Among(S, j))
         /\ AmongOnce(S, j) => AmongOnce(S \ {e}, j)
         /\ e \in S /\ AmongOnce(S, j) /\ e.job = j => ~ Among(S \ {e}, j)
         /\ e \in S /\ e.job = j => Among(S, j)
  BY DEF Among, AmongOnce

(* LREM: an entry that is listed once is gone.                              *)
LEMMA ReservationRemoved ==
  ASSUME TypeOK, \A f \in Entry : processing[f] <= 1,
         NEW e \in Entry, RemoveFromProcessing(e)
  PROVE  Reserved' = Reserved \ {e} /\ \A f \in Entry : processing'[f] <= 1
  <1>1. processing \in [Entry -> Nat] /\ processing[e] \in Nat /\ processing[e] <= 1
    BY DEF TypeOK
  <1>2. /\ \A f \in Entry \ {e} : processing'[f] = processing[f]
        /\ processing'[e] = IF processing[e] > 0 THEN processing[e] - 1 ELSE 0
    BY <1>1 DEF RemoveFromProcessing
  <1>3. processing'[e] = 0
    BY <1>1, <1>2
  <1>4. QED
    BY <1>2, <1>3 DEF Reserved

(* BRPOPLPUSH of an entry that is not in the processing list                *)
LEMMA ReservationMade ==
  ASSUME TypeOK, \A f \in Entry : processing[f] <= 1,
         NEW e \in Entry \ Reserved, processing' = [processing EXCEPT ![e] = @ + 1]
  PROVE  Reserved' = Reserved \cup {e} /\ \A f \in Entry : processing'[f] <= 1
  <1>1. processing \in [Entry -> Nat] /\ processing[e] \in Nat /\ ~ (processing[e] > 0)
    BY DEF TypeOK, Reserved
  <1>2. /\ \A f \in Entry \ {e} : processing'[f] = processing[f]
        /\ processing'[e] = processing[e] + 1
    BY <1>1
  <1>3. processing'[e] = 1
    BY <1>1, <1>2
  <1>4. QED
    BY <1>2, <1>3 DEF Reserved

CarryPlaces == {"recover.push", "retry.add", "dlq.push"}

LEMMA OnlyCarrier ==
  ASSUME NEW w, Workers = {w}
  PROVE  \A j : /\ Carried(j) <=> worker[w].at \in CarryPlaces /\ worker[w].entry.job = j
                /\ Carried(j)' <=> worker'[w].at \in CarryPlaces /\ worker'[w].entry.job = j
  BY DEF Carried, CarryPlaces, JobOf

(* Steps of the API and of time                                             *)
LEMMA OutsideKeepsSole ==
  ASSUME IInv, NEW w, Workers = {w}, SoleInv(w),
         \/ Enqueue \/ KeyExpires
         \/ \E j \in Jobs : PushJob(j) \/ StateGoesStale(j)
         \/ \E e \in Entry : DelayElapses(e)
  PROVE  SoleInv(w)'
  <1> USE DEF At, store, keys, history
  <1>0. TypeOK
    BY DEF IInv
  <1>1. UNCHANGED <<processing, delayed, dlq, worker>>
    BY DEF Enqueue, EnqueueCommunicationJob, KeyExpires, PushJob, StateGoesStale, DelayElapses
  <1>2. Reserved' = Reserved
    BY <1>1 DEF Reserved
  <1>3. ASSUME UNCHANGED queue
        PROVE  /\ \A j : (Nowhere(j)' <=> Nowhere(j)) /\ (OnePlace(j)' <=> OnePlace(j))
               /\ HandInv(w)' /\ \A j : Untouched(w, j)' <=> Untouched(w, j)
    <2>1. \A j : (Carried(j)' <=> Carried(j)) /\ (Nowhere(j)' <=> Nowhere(j))
      BY <1>1, <1>2, <1>3 DEF Carried, JobOf, Nowhere
    <2>2. \A j : OnePlace(j)' <=> OnePlace(j)
      BY <1>1, <1>2, <1>3, <2>1 DEF OnePlace
    <2>3. HandInv(w)'
      BY <1>1, <1>2, <2>1 DEF SoleInv, HandInv
    <2>4. QED
      BY <1>1, <2>1, <2>2, <2>3 DEF Untouched
  <1>4. CASE UNCHANGED <<queue, payload, pushing>>
    BY <1>1, <1>3, <1>4 DEF SoleInv
  <1>5. ASSUME NEW j \in Jobs, NEW c \in Payloads, EnqueueCommunicationJob(j, c)
        PROVE  SoleInv(w)'
    <2>1. /\ payload[j] = None /\ payload' = [payload EXCEPT ![j] = c]
          /\ pushing' = pushing \cup {j} /\ UNCHANGED queue
      BY <1>5 DEF EnqueueCommunicationJob
    <2>2. c # None /\ payload'[j] = c /\ \A i \in Jobs \ {j} : payload'[i] = payload[i]
      BY <1>0, <2>1, ConstantsAssumption DEF TypeOK
    <2>3. QED
      BY <1>0, <1>1, <1>3, <2>1, <2>2 DEF SoleInv, TypeOK
  <1>6. ASSUME NEW j \in Jobs, PushJob(j) PROVE SoleInv(w)'
    <2>1. /\ j \in pushing /\ pushing' = pushing \ {j} /\ UNCHANGED payload
      BY <1>6 DEF PushJob
    <2>2. payload[j] # None /\ Untouched(w, j)
      BY <2>1 DEF SoleInv
    <2>3. CASE UNCHANGED queue
      BY <1>1, <1>3, <2>1, <2>3 DEF SoleInv
    <2>4. CASE ~ UNCHANGED queue
      <3> DEFINE e == [job |-> j, attempts |-> 0]
      <3>1. queue' = Append(queue, e) /\ e \in Entry /\ e.job = j /\ queue \in Seq(Entry)
        BY <1>0, <1>6, <2>4, ConstantsAssumption DEF PushJob, LPush, Entry, TypeOK
      <3> HIDE DEF e
      <3>2. \A i : /\ Queued(queue', i) <=> Queued(queue, i) \/ i = j
                   /\ QueuedOnce(queue, i) /\ (i = j => ~ Queued(queue, i)) =>
                        QueuedOnce(queue', i)
        BY <3>1, QueuedPushed
      <3>3. \A i : (Carried(i)' <=> Carried(i)) /\ (i # j => (Nowhere(i)' <=> Nowhere(i)))
        BY <1>1, <1>2, <3>2 DEF Carried, JobOf, Nowhere
      <3>4. Nowhere(j) /\ ~ Carried(j)
        BY <2>2, OnlyCarrier DEF Untouched, Holding, Awaits, CarryPlaces
      <3>5. ASSUME NEW i \in Jobs PROVE OnePlace(i)'
        <4>1. OnePlace(i)
          BY DEF SoleInv
        <4>2. CASE i = j
          BY <1>1, <1>2, <3>2, <3>3, <3>4, <4>1, <4>2 DEF OnePlace, Nowhere
        <4>3. CASE i # j
          BY <1>1, <1>2, <3>2, <3>3, <4>1, <4>3 DEF OnePlace
        <4>4. QED
          BY <4>2, <4>3
      <3>6. HandInv(w)'
        <4>1. worker[w].at \in {"ack.key", "ack.state", "retry.remove", "dlq.remove"} =>
                worker[w].entry.job # j
          BY <2>2 DEF Untouched, Holding, Awaits
        <4>2. QED
          BY <1>1, <1>2, <3>3, <4>1 DEF SoleInv, HandInv
      <3>7. \A i \in Jobs : i \in pushing' \/ payload'[i] = None => Untouched(w, i)'
        BY <1>1, <2>1, <2>2, <3>3 DEF SoleInv, Untouched
      <3>8. QED
        BY <1>1, <2>1, <3>5, <3>6, <3>7 DEF SoleInv
    <2>5. QED
      BY <2>3, <2>4
  <1>7. QED
    BY <1>4, <1>5, <1>6 DEF Enqueue, KeyExpires, StateGoesStale, DelayElapses

(* A step of the worker that changes no list                                *)
LEMMA ListsAloneKeepSole ==
  ASSUME NEW w, Workers = {w}, SoleInv(w), UNCHANGED <<store, payload, pushing>>,
         HandInv(w)',
         worker[w].at \notin CarryPlaces, worker'[w].at \notin CarryPlaces,
         worker'[w].at \in Holding =>
           \/ worker[w].at \in Holding /\ worker'[w].entry = worker[w].entry
           \/ worker'[w].entry \in Reserved
  PROVE  SoleInv(w)'
  <1> USE DEF store
  <1>1. Reserved' = Reserved
    BY DEF Reserved
  <1>2. \A j : ~ Carried(j) /\ ~ Carried(j)' /\ (Nowhere(j)' <=> Nowhere(j))
    BY <1>1, OnlyCarrier DEF Nowhere
  <1>3. \A j : OnePlace(j) => OnePlace(j)'
    BY <1>1, <1>2 DEF OnePlace
  <1>4. \A j : Untouched(w, j) => Untouched(w, j)'
    BY <1>2 DEF Untouched, Nowhere, Among
  <1>5. QED
    BY <1>3, <1>4 DEF SoleInv

(* What the worker lists or finds is in the list it reads.                  *)
LEMMA ListingEffect ==
  ASSUME IInv, NEW w, Workers = {w}, SoleInv(w),
         ListDue(w) \/ ListProcessing(w) \/ InspectListed(w)
  PROVE  \E await \in {"promote.move", "recover", "recover.next", "recover.drop",
                        "recover.remove", "reserve"} :
           \E S, e : /\ Moved(w, await, S, e)
                     /\ await = "promote.move" => S \subseteq delayed
                     /\ await \in Recovering => S \subseteq Reserved
                     /\ await \in {"recover.drop", "recover.remove"} => e \in Reserved \ S
  <1> USE DEF At, keys, history
  <1>0. TypeOK /\ w \in Workers /\ worker[w].scan \in SUBSET Entry /\ HandInv(w)
    BY WorkerFields DEF IInv, SoleInv
  <1>1. CASE ListDue(w)
    <2>1. PICK await \in {"recover", "promote.move"}, listed \in SUBSET due :
            worker' = [worker EXCEPT ![w].at = await, ![w].scan = listed]
      BY <1>1 DEF ListDue, Batches
    <2>2. await \in Awaits /\ listed \in SUBSET Entry /\ listed \subseteq delayed
      BY <1>0, <2>1 DEF Awaits, TypeOK
    <2>3. Moved(w, await, listed, worker[w].entry)
      BY <1>0, <2>1, <2>2, ListMoves
    <2>4. QED
      BY <2>1, <2>2, <2>3 DEF Recovering
  <1>2. CASE ListProcessing(w)
    <2>1. worker' = [worker EXCEPT ![w].at = "recover.next", ![w].scan = Reserved]
      BY <1>2 DEF ListProcessing, Reserved
    <2>2. Reserved \in SUBSET Entry /\ "recover.next" \in Awaits
      BY DEF Reserved, Awaits
    <2>3. Moved(w, "recover.next", Reserved, worker[w].entry)
      BY <1>0, <2>1, <2>2, ListMoves
    <2>4. QED
      BY <2>3
  <1>3. CASE InspectListed(w)
    <2>0. worker[w].scan \subseteq Reserved
      BY <1>0, <1>3 DEF InspectListed, HandInv, Recovering
    <2>1. CASE Goto(w, "reserve")
      <3>1. Moved(w, "reserve", worker[w].scan, worker[w].entry)
        BY <1>0, <2>1, GotoMoves DEF Awaits
      <3>2. QED
        BY <3>1 DEF Recovering
    <2>2. CASE ~ Goto(w, "reserve")
      <3>1. PICK e \in worker[w].scan, await \in {"recover.drop", "recover.remove", "recover.next"} :
              worker' = [worker EXCEPT ![w].scan = @ \ {e}, ![w].entry = e, ![w].at = await]
        BY <1>3, <2>2 DEF InspectListed
      <3>2. e \in Entry /\ worker[w].scan \ {e} \in SUBSET Entry /\ await \in Awaits
        BY <1>0, <3>1 DEF Awaits
      <3>3. Moved(w, await, worker[w].scan \ {e}, e)
        BY <1>0, <3>1, <3>2, InspectMoves
      <3>4. e \in Reserved \ (worker[w].scan \ {e}) /\ worker[w].scan \ {e} \subseteq Reserved
        BY <2>0, <3>1
      <3>5. QED
        BY <3>1, <3>3, <3>4
    <2>3. QED
      BY <2>1, <2>2
  <1>4. QED
    BY <1>1, <1>2, <1>3

LEMMA ListingKeepsSole ==
  ASSUME IInv, NEW w, Workers = {w}, SoleInv(w),
         ListDue(w) \/ ListProcessing(w) \/ InspectListed(w)
  PROVE  SoleInv(w)'
  <1> USE DEF At, keys, history
  <1>1. /\ UNCHANGED <<store, payload, pushing>>
        /\ worker[w].at \in {"promote", "recover", "recover.next"}
    BY DEF ListDue, ListProcessing, InspectListed, store
  <1>2. Reserved' = Reserved /\ delayed' = delayed
    BY <1>1 DEF Reserved, store
  <1>3. ASSUME NEW await, NEW S, NEW e, Moved(w, await, S, e),
               await \in {"promote.move", "recover", "recover.next", "recover.drop",
                          "recover.remove", "reserve"},
               await = "promote.move" => S \subseteq delayed,
               await \in Recovering => S \subseteq Reserved,
               await \in {"recover.drop", "recover.remove"} => e \in Reserved \ S
        PROVE  SoleInv(w)'
    <2>1. worker'[w].at = await /\ worker'[w].scan = S /\ worker'[w].entry = e
      BY <1>3 DEF Moved
    <2>2. HandInv(w)'
      BY <1>2, <1>3, <2>1 DEF HandInv, Attempting
    <2>3. QED
      BY <1>1, <1>3, <2>1, <2>2, ListsAloneKeepSole DEF CarryPlaces, Holding, Awaits
  <1>4. QED
    BY <1>3, ListingEffect

(* What is promoted leaves the delayed entries for the queue.               *)
LEMMA PromotionEffect ==
  ASSUME IInv, NEW w, Workers = {w}, SoleInv(w), PromoteDue(w)
  PROVE  /\ worker[w].at = "promote.move" /\ worker'[w].at = "recover"
         /\ UNCHANGED <<processing, dlq, keys, payload, pushing, history>>
         /\ Reserved' = Reserved
         /\ \A j :
              /\ Queued(queue', j) \/ Among(delayed', j) <=> Queued(queue, j) \/ Among(delayed, j)
              /\ OnePlace(j) => /\ QueuedOnce(queue', j) /\ AmongOnce(delayed', j)
                                /\ ~ (Queued(queue', j) /\ Among(delayed', j))
  <1> USE DEF At
  <1> DEFINE S == worker[w].scan
  <1>0. TypeOK /\ w \in Workers /\ S \in SUBSET Entry /\ HandInv(w)
    BY WorkerFields DEF IInv, SoleInv
  <1>1. /\ worker[w].at = "promote.move" /\ S \subseteq delayed /\ delayed' = delayed \ S
        /\ UNCHANGED <<processing, dlq, keys, payload, pushing, history>>
        /\ worker' = [worker EXCEPT ![w].at = "recover", ![w].scan = {}]
    BY <1>0 DEF PromoteDue, HandInv
  <1>2. worker'[w].at = "recover"
    <2>1. "recover" \in Awaits /\ {} \in SUBSET Entry
      BY DEF Awaits
    <2>2. QED
      BY <1>0, <1>1, <2>1, ListMoves DEF Moved
  <1>3. PICK order \in Orders(S) : queue' = queue \o order
    BY DEF PromoteDue
  <1> HIDE DEF S
  <1>4. queue \in Seq(Entry) /\ Reserved' = Reserved
    BY <1>0, <1>1 DEF TypeOK, Reserved
  <1>5. \A j : /\ Queued(queue', j) <=> Queued(queue, j) \/ Among(S, j)
               /\ QueuedOnce(queue, j) /\ AmongOnce(S, j) /\ ~ (Queued(queue, j) /\ Among(S, j))
                    => QueuedOnce(queue', j)
    BY <1>0, <1>3, <1>4, QueuedTogether
  <1>6. \A j : /\ Among(delayed, j) <=> Among(delayed', j) \/ Among(S, j)
               /\ AmongOnce(delayed, j) => /\ AmongOnce(delayed', j) /\ AmongOnce(S, j)
                                           /\ ~ (Among(delayed', j) /\ Among(S, j))
    BY <1>1, AmongLess
  <1>7. QED
    BY <1>1, <1>2, <1>4, <1>5, <1>6 DEF OnePlace

LEMMA PromotionKeepsSole ==
  ASSUME IInv, NEW w, Workers = {w}, SoleInv(w), PromoteDue(w)
  PROVE  SoleInv(w)'
  <1>1. /\ worker[w].at = "promote.move" /\ worker'[w].at = "recover"
        /\ UNCHANGED <<processing, dlq, payload, pushing>>
        /\ Reserved' = Reserved
    BY PromotionEffect
  <1>2. \A j :
          /\ Queued(queue', j) \/ Among(delayed', j) <=> Queued(queue, j) \/ Among(delayed, j)
          /\ OnePlace(j) => /\ QueuedOnce(queue', j) /\ AmongOnce(delayed', j)
                            /\ ~ (Queued(queue', j) /\ Among(delayed', j))
    BY PromotionEffect
  <1>3. \A j : ~ Carried(j) /\ ~ Carried(j)'
    BY <1>1, OnlyCarrier DEF CarryPlaces
  <1>4. ASSUME NEW j \in Jobs PROVE OnePlace(j)'
    <2>1. OnePlace(j)
      BY DEF SoleInv
    <2>2. QED
      BY <1>1, <1>2, <1>3, <2>1 DEF OnePlace
  <1>5. \A j : Nowhere(j) => Nowhere(j)'
    BY <1>1, <1>2 DEF Nowhere
  <1>6. \A j : Untouched(w, j) => Untouched(w, j)'
    BY <1>1, <1>5 DEF Untouched, Holding
  <1>7. HandInv(w)'
    BY <1>1 DEF HandInv, Recovering, Attempting
  <1>8. QED
    BY <1>1, <1>4, <1>6, <1>7 DEF SoleInv

RemovingPlaces == {"recover.drop", "recover.remove", "ack.remove", "retry.remove", "dlq.remove"}

(* LREM of an entry that is in the processing list or nowhere               *)
LEMMA RemovalEffect ==
  ASSUME IInv, NEW w, Workers = {w}, SoleInv(w),
         DropFinished(w) \/ RemoveStalled(w) \/ AckRemove(w) \/ RemoveFailed(w)
  PROVE  /\ worker[w].at \in RemovingPlaces
         /\ worker'[w].at = CASE worker[w].at = "recover.drop" -> "recover.next"
                              [] worker[w].at = "recover.remove" -> "recover.push"
                              [] worker[w].at = "ack.remove" -> "ack.key"
                              [] worker[w].at = "retry.remove" -> "retry.add"
                              [] worker[w].at = "dlq.remove" -> "dlq.push"
         /\ worker'[w].entry = worker[w].entry /\ worker'[w].scan = worker[w].scan
         /\ worker[w].entry.job \in Jobs
         /\ UNCHANGED <<queue, delayed, dlq, keys, payload, pushing, history>>
         /\ Reserved' = Reserved \ {worker[w].entry}
         /\ \A f \in Entry : processing'[f] <= 1
         /\ \A j : j = worker[w].entry.job => Nowhere(j)'
  <1> USE DEF At
  <1>0. PICK e : e = worker[w].entry
    OBVIOUS
  <1>1. /\ worker[w].at \in RemovingPlaces /\ RemoveFromProcessing(EntryOf(w))
        /\ UNCHANGED <<queue, delayed, dlq, keys, payload, pushing, history>>
        /\ Goto(w, CASE worker[w].at = "recover.drop" -> "recover.next"
                     [] worker[w].at = "recover.remove" -> "recover.push"
                     [] worker[w].at = "ack.remove" -> "ack.key"
                     [] worker[w].at = "retry.remove" -> "retry.add"
                     [] worker[w].at = "dlq.remove" -> "dlq.push")
    BY DEF DropFinished, RemoveStalled, AckRemove, RemoveFailed, RemovingPlaces
  <1>2. TypeOK /\ w \in Workers /\ HandInv(w) /\ \A f \in Entry : processing[f] <= 1
    BY DEF IInv, SoleInv
  <1>3. EntryOf(w) = e /\ e \in Entry /\ e.job \in Jobs
    BY <1>0, <1>1, <1>2, HeldEntry DEF Holding, Awaits, RemovingPlaces
  <1>4. PICK await \in Awaits :
          /\ await = CASE worker[w].at = "recover.drop" -> "recover.next"
                       [] worker[w].at = "recover.remove" -> "recover.push"
                       [] worker[w].at = "ack.remove" -> "ack.key"
                       [] worker[w].at = "retry.remove" -> "retry.add"
                       [] worker[w].at = "dlq.remove" -> "dlq.push"
          /\ Goto(w, await)
    BY <1>1 DEF Awaits, RemovingPlaces
  <1>5. worker'[w].at = await /\ worker'[w].scan = worker[w].scan /\ worker'[w].entry = e
    BY <1>0, <1>2, <1>4, GotoMoves DEF Moved
  <1>6. Reserved' = Reserved \ {e} /\ \A f \in Entry : processing'[f] <= 1
    BY <1>1, <1>2, <1>3, ReservationRemoved
  <1>7. e \in Reserved \/ Nowhere(e.job)
    BY <1>0, <1>1, <1>2 DEF HandInv, Attempting, RemovingPlaces
  <1>8. Nowhere(e.job)'
    <2>1. OnePlace(e.job)
      BY <1>3 DEF SoleInv
    <2>2. CASE Nowhere(e.job)
      BY <1>1, <1>6, <2>2, AmongRemoved DEF Nowhere
    <2>3. CASE e \in Reserved
      <3>1. Among(Reserved, e.job) /\ ~ Among(Reserved', e.job)
        BY <1>6, <2>1, <2>3, AmongRemoved DEF OnePlace
      <3>2. QED
        BY <1>1, <2>1, <3>1 DEF OnePlace, Nowhere
    <2>4. QED
      BY <1>7, <2>2, <2>3
  <1>9. QED
    BY <1>0, <1>1, <1>3, <1>4, <1>5, <1>6, <1>8

LEMMA RemovalKeepsSole ==
  ASSUME IInv, NEW w, Workers = {w}, SoleInv(w),
         DropFinished(w) \/ RemoveStalled(w) \/ AckRemove(w) \/ RemoveFailed(w)
  PROVE  SoleInv(w)'
  <1>0. PICK e, S : e = worker[w].entry /\ S = worker[w].scan
    OBVIOUS
  <1>1. /\ worker[w].at \in RemovingPlaces /\ HandInv(w)
        /\ worker'[w].entry = e /\ worker'[w].scan = S
        /\ UNCHANGED <<queue, delayed, dlq, payload, pushing>>
        /\ Reserved' = Reserved \ {e} /\ \A f \in Entry : processing'[f] <= 1
        /\ Nowhere(e.job)'
    BY <1>0, RemovalEffect DEF SoleInv
  <1>2. worker'[w].at = CASE worker[w].at = "recover.drop" -> "recover.next"
                          [] worker[w].at = "recover.remove" -> "recover.push"
                          [] worker[w].at = "ack.remove" -> "ack.key"
                          [] worker[w].at = "retry.remove" -> "retry.add"
                          [] worker[w].at = "dlq.remove" -> "dlq.push"
    BY RemovalEffect
  <1>3. worker[w].at \in {"recover.drop", "recover.remove"} => S \subseteq Reserved /\ e \notin S
    BY <1>0, <1>1 DEF HandInv, Recovering
  <1>4. worker[w].at \in Holding /\ worker[w].at \notin CarryPlaces
    BY <1>1 DEF RemovingPlaces, Holding, Awaits, CarryPlaces
  <1>5. \A j : ~ Carried(j) /\ (Carried(j)' => e.job = j)
    BY <1>1, <1>4, OnlyCarrier
  <1>6. \A j : /\ Among(Reserved', j) => Among(Reserved, j)
               /\ AmongOnce(Reserved, j) => AmongOnce(Reserved', j)
    BY <1>1, AmongRemoved
  <1>7. ASSUME NEW j \in Jobs PROVE OnePlace(j)'
    <2>1. OnePlace(j)
      BY DEF SoleInv
    <2>2. Carried(j)' => Nowhere(j)'
      BY <1>1, <1>5
    <2>3. QED
      BY <1>1, <1>6, <2>1, <2>2 DEF OnePlace
  <1>8. \A j : Untouched(w, j) => Untouched(w, j)'
    BY <1>0, <1>1, <1>4, <1>6 DEF Untouched, Nowhere
  <1>9. HandInv(w)'
    BY <1>1, <1>2, <1>3 DEF HandInv, Attempting, Recovering, RemovingPlaces
  <1>10. QED
    BY <1>1, <1>7, <1>8, <1>9 DEF SoleInv

LEMMA RequeueKeepsSole ==
  ASSUME IInv, NEW w, Workers = {w}, SoleInv(w), RequeueStalled(w)
  PROVE  SoleInv(w)'
  <1> USE DEF At, keys, history
  <1> DEFINE e == worker[w].entry
             S == worker[w].scan
  <1>1. /\ worker[w].at = "recover.push" /\ queue' = Append(queue, EntryOf(w))
        /\ Goto(w, "recover.next")
        /\ UNCHANGED <<processing, delayed, dlq, payload, pushing>>
    BY DEF RequeueStalled, LPush
  <1>2. TypeOK /\ w \in Workers /\ HandInv(w) /\ queue \in Seq(Entry)
    BY DEF IInv, SoleInv, TypeOK
  <1>3. EntryOf(w) = e /\ e \in Entry /\ e.job \in Jobs
    BY <1>1, <1>2, HeldEntry DEF Holding, Awaits
  <1>4. worker'[w].at = "recover.next" /\ worker'[w].scan = S /\ worker'[w].entry = e
    BY <1>1, <1>2, GotoMoves DEF Moved, Awaits
  <1>5. S \subseteq Reserved /\ Reserved' = Reserved
    BY <1>1, <1>2 DEF HandInv, Recovering, Reserved
  <1>6. Carried(e.job) /\ \A j : (Carried(j) <=> e.job = j) /\ ~ Carried(j)'
    BY <1>1, <1>4, OnlyCarrier DEF CarryPlaces
  <1>7. worker[w].at \in Holding
    BY <1>1 DEF Holding, Awaits
  <1> HIDE DEF e, S
  <1>8. \A j : /\ Queued(queue', j) <=> Queued(queue, j) \/ e.job = j
               /\ QueuedOnce(queue, j) /\ (e.job = j => ~ Queued(queue, j)) =>
                    QueuedOnce(queue', j)
    BY <1>1, <1>2, <1>3, QueuedPushed
  <1>9. ASSUME NEW j \in Jobs PROVE OnePlace(j)'
    <2>1. OnePlace(j)
      BY DEF SoleInv
    <2>2. QED
      BY <1>1, <1>5, <1>6, <1>8, <2>1 DEF OnePlace, Nowhere
  <1>10. \A j : Untouched(w, j) => Untouched(w, j)'
    BY <1>1, <1>4, <1>5, <1>7, <1>8 DEF Untouched, Nowhere, e
  <1>11. HandInv(w)'
    BY <1>4, <1>5 DEF HandInv, Attempting
  <1>12. QED
    BY <1>1, <1>9, <1>10, <1>11 DEF SoleInv

(* What is reserved leaves the queue for the processing list.               *)
LEMMA ReserveEffect ==
  ASSUME IInv, NEW w, Workers = {w}, SoleInv(w), Reserve(w), queue # <<>>
  PROVE  \E e \in Entry :
           /\ worker[w].at = "reserve" /\ worker'[w].at = "reserve.state" /\ worker'[w].entry = e
           /\ UNCHANGED <<delayed, dlq, keys, payload, pushing, history>>
           /\ e.job \in Jobs /\ Queued(queue, e.job)
           /\ Reserved' = Reserved \cup {e} /\ \A f \in Entry : processing'[f] <= 1
           /\ \A j : /\ Queued(queue, j) <=> Queued(queue', j) \/ e.job = j
                     /\ QueuedOnce(queue, j) => /\ QueuedOnce(queue', j)
                                                /\ e.job = j => ~ Queued(queue', j)
  <1> USE DEF At
  <1>1. TypeOK /\ w \in Workers /\ queue \in Seq(Entry)
          /\ \A f \in Entry : processing[f] <= 1
    BY DEF IInv, SoleInv, TypeOK
  <1>2. worker[w].at = "reserve" /\ UNCHANGED <<delayed, dlq, keys, payload, pushing, history>>
    BY DEF Reserve
  <1>3. PICK e : e = Head(queue)
    OBVIOUS
  <1>4. e \in Entry /\ e.job \in Jobs
    <2>1. e \in Entry
      BY <1>1, <1>3
    <2>2. QED
      BY <2>1, EntryFields
  <1>5. /\ queue' = Tail(queue) /\ Work(w, "reserve.state", e)
        /\ processing' = [processing EXCEPT ![e] = @ + 1]
    BY <1>3 DEF Reserve
  <1>6. worker'[w].at = "reserve.state" /\ worker'[w].entry = e
    BY <1>1, <1>4, <1>5, WorkMoves DEF Moved, Awaits
  <1>7. \A j : /\ Queued(queue, j) <=> Queued(queue', j) \/ e.job = j
               /\ QueuedOnce(queue, j) => /\ QueuedOnce(queue', j)
                                          /\ e.job = j => ~ Queued(queue', j)
    BY <1>1, <1>3, <1>5, QueuedPopped
  <1>8. Queued(queue, e.job) /\ e \notin Reserved
    BY <1>4, <1>7 DEF SoleInv, OnePlace, Among
  <1>9. Reserved' = Reserved \cup {e} /\ \A f \in Entry : processing'[f] <= 1
    BY <1>1, <1>4, <1>5, <1>8, ReservationMade
  <1>10. QED
    BY <1>2, <1>4, <1>6, <1>7, <1>8, <1>9

LEMMA ReserveKeepsSole ==
  ASSUME IInv, NEW w, Workers = {w}, SoleInv(w), Reserve(w)
  PROVE  SoleInv(w)'
  <1>1. CASE queue = <<>>
    <2>1. /\ UNCHANGED <<store, payload, pushing>> /\ NextRound(w)
          /\ worker[w].at = "reserve" /\ TypeOK /\ w \in Workers
      BY <1>1 DEF Reserve, store, At, IInv
    <2>2. worker'[w].at = "promote"
      BY <2>1, NextRoundMoves DEF Moved
    <2>3. HandInv(w)'
      BY <2>2 DEF HandInv, Recovering, Attempting
    <2>4. QED
      BY <2>1, <2>2, <2>3, ListsAloneKeepSole DEF CarryPlaces, Holding
  <1>2. CASE queue # <<>>
    <2>1. PICK e \in Entry :
           /\ worker[w].at = "reserve" /\ worker'[w].at = "reserve.state" /\ worker'[w].entry = e
           /\ UNCHANGED <<delayed, dlq, keys, payload, pushing, history>>
           /\ e.job \in Jobs /\ Queued(queue, e.job)
           /\ Reserved' = Reserved \cup {e} /\ \A f \in Entry : processing'[f] <= 1
           /\ \A j : /\ Queued(queue, j) <=> Queued(queue', j) \/ e.job = j
                     /\ QueuedOnce(queue, j) => /\ QueuedOnce(queue', j)
                                                /\ e.job = j => ~ Queued(queue', j)
      BY <1>2, ReserveEffect
    <2>2. \A j : /\ Among(Reserved', j) <=> Among(Reserved, j) \/ e.job = j
                 /\ AmongOnce(Reserved, j) /\ (e.job = j => ~ Among(Reserved, j)) =>
                      AmongOnce(Reserved', j)
      BY <2>1, AmongAdded
    <2>3. \A j : ~ Carried(j) /\ ~ Carried(j)'
      BY <2>1, OnlyCarrier DEF CarryPlaces
    <2>4. ASSUME NEW j \in Jobs PROVE OnePlace(j)'
      <3>1. OnePlace(j) /\ OnePlace(e.job)
        BY <2>1 DEF SoleInv
      <3>2. QED
        BY <2>1, <2>2, <2>3, <3>1 DEF OnePlace
    <2>5. \A j : Untouched(w, j) => Untouched(w, j)'
      BY <2>1, <2>2 DEF Untouched, Nowhere
    <2>6. HandInv(w)'
      BY <2>1 DEF HandInv, Recovering, Attempting
    <2>7. QED
      BY <2>1, <2>4, <2>5, <2>6 DEF SoleInv
  <1>3. QED
    BY <1>1, <1>2

(* A step between two commands that change lists                            *)
LEMMA WorkKeepsSole ==
  ASSUME IInv, NEW w, Workers = {w}, SoleInv(w),
         \/ RecordReservation(w) \/ Deliver(w) \/ AckReleaseKey(w) \/ AcknowledgeFails(w)
         \/ AckRecord(w) \/ RecordFailure(w)
  PROVE  SoleInv(w)'
  <1> USE DEF At, keys, history
  <1>0. TypeOK /\ w \in Workers /\ HandInv(w)
    BY DEF IInv, SoleInv
  <1>1. /\ UNCHANGED <<store, payload, pushing>>
        /\ worker[w].at \in {"reserve.state", "deliver", "ack.remove", "ack.key", "ack.state",
                             "retry.state", "dlq.state"}
    BY DEF RecordReservation, Deliver, AckReleaseKey, AcknowledgeFails, AckRecord, RecordFailure
  <1>2. worker[w].at \in Holding /\ worker[w].at \notin CarryPlaces
    BY <1>1 DEF Holding, Awaits, CarryPlaces
  <1>3. Reserved' = Reserved /\ \A j : Nowhere(j)' <=> Nowhere(j)
    BY <1>1 DEF Reserved, Nowhere, store
  <1>4. CASE NextRound(w)
    <2>1. worker'[w].at = "promote"
      BY <1>0, <1>4, NextRoundMoves DEF Moved
    <2>2. HandInv(w)'
      BY <2>1 DEF HandInv, Recovering, Attempting
    <2>3. QED
      BY <1>1, <1>2, <2>1, <2>2, ListsAloneKeepSole DEF CarryPlaces, Holding
  <1>5. ASSUME NEW await \in {"deliver", "ack.remove", "ack.state", "retry.remove", "dlq.remove"},
               Goto(w, await),
               await \in {"deliver", "ack.remove"} => worker[w].at \in {"reserve.state", "deliver"},
               await = "ack.state" => worker[w].at = "ack.key",
               worker[w].at \notin {"retry.state", "dlq.state"}
        PROVE  SoleInv(w)'
    <2>1. await \in Awaits /\ await \notin CarryPlaces
      BY DEF Awaits, CarryPlaces
    <2>2. worker'[w].at = await /\ worker'[w].entry = worker[w].entry
      BY <1>0, <1>5, <2>1, GotoMoves DEF Moved
    <2>3. worker[w].entry \in Reserved \/ Nowhere(worker[w].entry.job)
      BY <1>0, <1>1, <1>5 DEF HandInv, Attempting
    <2>4. /\ worker[w].at \in Attempting => worker[w].entry \in Reserved
          /\ worker[w].at = "ack.key" => Nowhere(worker[w].entry.job)
      BY <1>0 DEF HandInv
    <2>5. HandInv(w)'
      BY <1>3, <1>5, <2>2, <2>3, <2>4 DEF HandInv, Recovering, Attempting
    <2>6. QED
      BY <1>1, <1>2, <2>1, <2>2, <2>5, ListsAloneKeepSole
  <1>6. \/ NextRound(w)
        \/ \E await \in {"deliver", "ack.remove", "ack.state", "retry.remove", "dlq.remove"} :
             /\ Goto(w, await)
             /\ await \in {"deliver", "ack.remove"} => worker[w].at \in {"reserve.state", "deliver"}
             /\ await = "ack.state" => worker[w].at = "ack.key"
             /\ worker[w].at \notin {"retry.state", "dlq.state"}
    BY DEF RecordReservation, Deliver, AckReleaseKey, AcknowledgeFails, AckRecord, RecordFailure,
           FailureAwait
  <1>7. QED
    BY <1>4, <1>5, <1>6

(* An attempt that failed becomes a delayed entry or a dead letter.         *)
LEMMA FailureEffect ==
  ASSUME IInv, NEW w, Workers = {w}, DelayRetry(w) \/ PushDeadLetter(w)
  PROVE  /\ worker[w].at \in {"retry.add", "dlq.push"}
         /\ worker'[w].at \in {"retry.state", "dlq.state"}
         /\ worker'[w].entry = worker[w].entry /\ worker[w].entry.job \in Jobs
         /\ UNCHANGED <<queue, processing, keys, payload, pushing, history>>
         /\ Reserved' = Reserved
         /\ \A j :
              /\ Among(delayed', j) \/ Among(dlq', j) <=>
                   Among(delayed, j) \/ Among(dlq, j) \/ worker[w].entry.job = j
              /\ OnePlace(j) => /\ AmongOnce(delayed', j) /\ AmongOnce(dlq', j)
                                /\ ~ (Among(delayed', j) /\ Among(dlq', j))
  <1> USE DEF At
  <1>1. TypeOK /\ w \in Workers
    BY DEF IInv
  <1>2. /\ worker[w].at \in {"retry.add", "dlq.push"}
        /\ UNCHANGED <<queue, processing, keys, payload, pushing, history>>
    BY DEF DelayRetry, PushDeadLetter
  <1>3. EntryOf(w) = worker[w].entry /\ EntryOf(w) \in Entry /\ worker[w].entry.job \in Jobs
    BY <1>1, <1>2, HeldEntry DEF Holding, Awaits
  <1>4. PICK e \in {EntryOf(w), [EntryOf(w) EXCEPT !.attempts = @ + 1]},
             await \in {"retry.state", "dlq.state"} :
          /\ e.job = worker[w].entry.job /\ Goto(w, await)
          /\ \/ delayed' = delayed \cup {e} /\ UNCHANGED dlq
             \/ dlq' = dlq \cup {e} /\ UNCHANGED delayed
    <2>1. CASE DelayRetry(w)
      <3> DEFINE f == [EntryOf(w) EXCEPT !.attempts = @ + 1]
      <3>1. f.job = worker[w].entry.job
        BY <1>3 DEF Entry
      <3>2. Goto(w, "retry.state") /\ delayed' = delayed \cup {f} /\ UNCHANGED dlq
        BY <2>1 DEF DelayRetry
      <3>3. f \in {EntryOf(w), [EntryOf(w) EXCEPT !.attempts = @ + 1]}
        OBVIOUS
      <3> HIDE DEF f
      <3>4. QED
        BY <3>1, <3>2, <3>3
    <2>2. CASE PushDeadLetter(w)
      <3>1. Goto(w, "dlq.state") /\ dlq' = dlq \cup {EntryOf(w)} /\ UNCHANGED delayed
        BY <2>2 DEF PushDeadLetter
      <3>2. EntryOf(w).job = worker[w].entry.job
        BY <1>3
      <3>3. QED
        BY <3>1, <3>2
    <2>3. QED
      BY <2>1, <2>2
  <1>5. worker'[w].at = await /\ worker'[w].entry = worker[w].entry
    BY <1>1, <1>4, GotoMoves DEF Moved, Awaits
  <1>6. Reserved' = Reserved
    BY <1>2 DEF Reserved
  <1>7. \A j : Carried(j) <=> e.job = j
    BY <1>2, <1>4, OnlyCarrier DEF CarryPlaces
  <1>8. \A j : /\ Among(delayed \cup {e}, j) <=> Among(delayed, j) \/ e.job = j
               /\ AmongOnce(delayed, j) /\ (e.job = j => ~ Among(delayed, j)) =>
                    AmongOnce(delayed \cup {e}, j)
               /\ Among(dlq \cup {e}, j) <=> Among(dlq, j) \/ e.job = j
               /\ AmongOnce(dlq, j) /\ (e.job = j => ~ Among(dlq, j)) =>
                    AmongOnce(dlq \cup {e}, j)
    BY AmongAdded
  <1>9. ASSUME NEW j
        PROVE  /\ Among(delayed', j) \/ Among(dlq', j) <=>
                    Among(delayed, j) \/ Among(dlq, j) \/ e.job = j
               /\ OnePlace(j) => /\ AmongOnce(delayed', j) /\ AmongOnce(dlq', j)
                                 /\ ~ (Among(delayed', j) /\ Among(dlq', j))
    <2>1. CASE delayed' = delayed \cup {e} /\ UNCHANGED dlq
      BY <1>7, <1>8, <2>1 DEF OnePlace, Nowhere
    <2>2. CASE dlq' = dlq \cup {e} /\ UNCHANGED delayed
      BY <1>7, <1>8, <2>2 DEF OnePlace, Nowhere
    <2>3. QED
      BY <1>4, <2>1, <2>2
  <1>10. QED
    BY <1>2, <1>3, <1>4, <1>5, <1>6, <1>9

LEMMA FailureKeepsSole ==
  ASSUME IInv, NEW w, Workers = {w}, SoleInv(w), DelayRetry(w) \/ PushDeadLetter(w)
  PROVE  SoleInv(w)'
  <1>0. PICK e : e = worker[w].entry
    OBVIOUS
  <1>1. /\ worker[w].at \in {"retry.add", "dlq.push"}
        /\ worker'[w].at \in {"retry.state", "dlq.state"}
        /\ worker'[w].entry = e
        /\ UNCHANGED <<queue, processing, payload, pushing>>
        /\ Reserved' = Reserved
    BY <1>0, FailureEffect
  <1>2. \A j :
          /\ Among(delayed', j) \/ Among(dlq', j) <=> Among(delayed, j) \/ Among(dlq, j) \/ e.job = j
          /\ OnePlace(j) => /\ AmongOnce(delayed', j) /\ AmongOnce(dlq', j)
                            /\ ~ (Among(delayed', j) /\ Among(dlq', j))
    BY <1>0, FailureEffect
  <1>3. \A j : (Carried(j) <=> e.job = j) /\ ~ Carried(j)'
    BY <1>0, <1>1, OnlyCarrier DEF CarryPlaces
  <1>4. ASSUME NEW j \in Jobs PROVE OnePlace(j)'
    <2>1. OnePlace(j)
      BY DEF SoleInv
    <2>2. QED
      BY <1>1, <1>2, <1>3, <2>1 DEF OnePlace, Nowhere
  <1>5. ASSUME NEW j, Untouched(w, j) PROVE Untouched(w, j)'
    <2>1. e.job # j /\ Nowhere(j)
      BY <1>0, <1>1, <1>5 DEF Untouched, Holding, Awaits
    <2>2. Nowhere(j)'
      BY <1>1, <1>2, <2>1 DEF Nowhere
    <2>3. QED
      BY <1>1, <2>1, <2>2 DEF Untouched
  <1>6. HandInv(w)'
    BY <1>1 DEF HandInv, Recovering, Attempting
  <1>7. QED
    BY <1>1, <1>4, <1>5, <1>6 DEF SoleInv

LEMMA CrashKeepsSole ==
  ASSUME IInv, NEW w, Workers = {w}, SoleInv(w), Crash(w)
  PROVE  SoleInv(w)'
  <1> USE DEF keys, history
  <1>1. TypeOK /\ w \in Workers /\ UNCHANGED <<store, payload, pushing>> /\ NextRound(w)
    BY DEF IInv, Crash
  <1>2. worker'[w].at = "promote"
    BY <1>1, NextRoundMoves DEF Moved
  <1>3. Reserved' = Reserved
    BY <1>1 DEF Reserved, store
  <1>4. \A j : (Nowhere(j)' <=> Nowhere(j)) /\ ~ Carried(j)'
    BY <1>1, <1>2, <1>3, OnlyCarrier DEF Nowhere, store, CarryPlaces
  <1>5. \A j : OnePlace(j) => OnePlace(j)'
    BY <1>1, <1>3, <1>4 DEF OnePlace, store
  <1>6. HandInv(w)' /\ \A j : Untouched(w, j) => Untouched(w, j)'
    BY <1>2, <1>4 DEF HandInv, Recovering, Attempting, Untouched, Holding
  <1>7. QED
    BY <1>1, <1>5, <1>6 DEF SoleInv, store

LEMMA NextKeepsSole ==
  ASSUME IInv, NEW w, Workers = {w}, SoleInv(w), [Next]_vars
  PROVE  SoleInv(w)'
  <1>1. CASE UNCHANGED vars
    <2>1. UNCHANGED <<queue, processing, delayed, dlq, payload, pushing, worker>>
      BY <1>1 DEF vars, store
    <2>2. Reserved' = Reserved
      BY <2>1 DEF Reserved
    <2>3. \A j : (Carried(j)' <=> Carried(j)) /\ (Nowhere(j)' <=> Nowhere(j))
      BY <2>1, <2>2 DEF Carried, JobOf, Nowhere
    <2>4. \A j : OnePlace(j)' <=> OnePlace(j)
      BY <2>1, <2>2, <2>3 DEF OnePlace
    <2>5. HandInv(w)' <=> HandInv(w)
      BY <2>1, <2>2, <2>3 DEF HandInv
    <2>6. QED
      BY <2>1, <2>3, <2>4, <2>5 DEF SoleInv, Untouched
  <1>2. CASE Next
    BY <1>2, OutsideKeepsSole, ListingKeepsSole, PromotionKeepsSole, RemovalKeepsSole,
       RequeueKeepsSole, ReserveKeepsSole, WorkKeepsSole, FailureKeepsSole, CrashKeepsSole
       DEF Next, Loop
  <1>3. QED
    BY <1>1, <1>2

LEMMA InitIsSole ==
  ASSUME Init, NEW w, Workers = {w}
  PROVE  SoleInv(w)
  <1>1. worker[w].at = "promote"
    BY DEF Init, AtLoopStart
  <1>2. Reserved = {} /\ queue = <<>> /\ delayed = {} /\ dlq = {} /\ pushing = {}
    BY DEF Init, Reserved
  <1>3. \A j : Nowhere(j) /\ OnePlace(j)
    <2>1. DOMAIN queue = {}
      BY <1>2
    <2>2. QED
      BY <1>2, <2>1 DEF Nowhere, OnePlace, Queued, QueuedOnce, Among, AmongOnce
  <1>4. HandInv(w) /\ \A j : Untouched(w, j)
    BY <1>1, <1>3 DEF HandInv, Recovering, Attempting, Untouched, Holding
  <1>5. \A e \in Entry : processing[e] <= 1
    BY DEF Init
  <1>6. QED
    BY <1>2, <1>3, <1>4, <1>5 DEF SoleInv

----------------------------------------------------------------------------
(* One worker that does not fail *)

(* Only the worker's own reservation is in the processing list, and a job   *)
(* that was sent is in no other place.                                      *)
SteadyInv(w) ==
  /\ worker[w].at # "recover.push"
  /\ \A e \in Reserved :
       worker[w].at \in Attempting \cup {"retry.remove", "dlq.remove"} /\ worker[w].entry = e
  /\ worker[w].at \in {"retry.remove", "dlq.remove"} => worker[w].entry \in Reserved
  /\ \A j \in Jobs : sent[j] <= 1
  /\ \A j \in Jobs : sent[j] > 0 =>
       /\ j \notin pushing /\ payload[j] # None
       /\ ~ Queued(queue, j) /\ ~ Among(delayed, j) /\ ~ Among(dlq, j) /\ ~ Carried(j)
       /\ Among(Reserved, j) => worker[w].at = "ack.remove"

(* Where the message of a deduplication key is                              *)
InFlight(w, j) ==
  \/ j \in pushing \/ ~ Nowhere(j) \/ Carried(j)
  \/ worker[w].at = "ack.key" /\ worker[w].entry.job = j

KeysInv(w) == \A c \in dedupe : \E j \in Jobs : payload[j] = c /\ InFlight(w, j)

NoFaults == ~ Faults /\ MaxCrashes = 0

LEMMA OutsideKeepsSteady ==
  ASSUME IInv, NEW w, Workers = {w}, SoleInv(w), SteadyInv(w), NoFaults,
         \/ Enqueue \/ KeyExpires
         \/ \E j \in Jobs : PushJob(j) \/ StateGoesStale(j)
         \/ \E e \in Entry : DelayElapses(e)
  PROVE  SteadyInv(w)' /\ \A j : InFlight(w, j) => InFlight(w, j)'
  <1> USE DEF At, store, keys, history
  <1>0. TypeOK
    BY DEF IInv
  <1>1. UNCHANGED <<processing, delayed, dlq, worker, sent>>
    BY DEF Enqueue, EnqueueCommunicationJob, KeyExpires, PushJob, StateGoesStale, DelayElapses
  <1>2. Reserved' = Reserved /\ \A j : Carried(j)' <=> Carried(j)
    BY <1>1 DEF Reserved, Carried, JobOf
  <1>3. ASSUME NEW j \in Jobs, PushJob(j)
        PROVE  SteadyInv(w)' /\ \A i : InFlight(w, i) => InFlight(w, i)'
    <2>1. /\ j \in pushing /\ pushing' = pushing \ {j} /\ UNCHANGED payload
          /\ queue' = Append(queue, [job |-> j, attempts |-> 0])
      BY <1>3 DEF PushJob, NoFaults, LPush
    <2>2. [job |-> j, attempts |-> 0] \in Entry /\ queue \in Seq(Entry)
      BY <1>0, ConstantsAssumption DEF Entry, TypeOK
    <2>3. \A i : Queued(queue', i) <=> Queued(queue, i) \/ i = j
      BY <2>1, <2>2, QueuedPushed
    <2>4. SteadyInv(w)'
      BY <1>1, <1>2, <2>1, <2>3 DEF SteadyInv
    <2>5. \A i : InFlight(w, i) => InFlight(w, i)'
      BY <1>1, <1>2, <2>1, <2>3 DEF InFlight, Nowhere
    <2>6. QED
      BY <2>4, <2>5
  <1>4. ASSUME NEW j \in Jobs, NEW c \in Payloads, EnqueueCommunicationJob(j, c)
        PROVE  SteadyInv(w)' /\ \A i : InFlight(w, i) => InFlight(w, i)'
    <2>1. /\ payload[j] = None /\ payload' = [payload EXCEPT ![j] = c]
          /\ pushing' = pushing \cup {j} /\ UNCHANGED queue
      BY <1>4 DEF EnqueueCommunicationJob
    <2>2. c # None /\ payload'[j] = c /\ \A i \in Jobs \ {j} : payload'[i] = payload[i]
      BY <1>0, <2>1, ConstantsAssumption DEF TypeOK
    <2>3. ~ (sent[j] > 0)
      BY <2>1 DEF SteadyInv
    <2>4. SteadyInv(w)'
      BY <1>1, <1>2, <2>1, <2>2, <2>3 DEF SteadyInv
    <2>5. \A i : InFlight(w, i) => InFlight(w, i)'
      BY <1>1, <1>2, <2>1 DEF InFlight, Nowhere
    <2>6. QED
      BY <2>4, <2>5
  <1>5. CASE UNCHANGED <<queue, payload, pushing>>
    <2>1. SteadyInv(w)'
      BY <1>1, <1>2, <1>5 DEF SteadyInv
    <2>2. \A i : InFlight(w, i) => InFlight(w, i)'
      BY <1>1, <1>2, <1>5 DEF InFlight, Nowhere
    <2>3. QED
      BY <2>1, <2>2
  <1>6. QED
    BY <1>3, <1>4, <1>5 DEF Enqueue, KeyExpires, StateGoesStale, DelayElapses

(* A step of the worker while nothing is reserved, that changes no list     *)
LEMMA IdleKeepsSteady ==
  ASSUME NEW w, Workers = {w}, SteadyInv(w), Reserved = {},
         UNCHANGED <<store, payload, pushing, sent>>,
         worker[w].at \notin CarryPlaces, worker'[w].at \notin CarryPlaces,
         worker'[w].at \notin {"retry.remove", "dlq.remove"}
  PROVE  /\ SteadyInv(w)'
         /\ \A j : /\ ~ (worker[w].at = "ack.key" /\ worker[w].entry.job = j)
                   /\ InFlight(w, j)
                   => InFlight(w, j)'
  <1> USE DEF store
  <1>1. Reserved' = Reserved
    BY DEF Reserved
  <1>2. \A j : ~ Carried(j) /\ ~ Carried(j)' /\ (Nowhere(j)' <=> Nowhere(j))
    BY <1>1, OnlyCarrier DEF Nowhere
  <1>3. SteadyInv(w)'
    BY <1>1, <1>2 DEF SteadyInv, CarryPlaces, Among
  <1>4. QED
    BY <1>2, <1>3 DEF InFlight

LEMMA LoopKeepsSteady ==
  ASSUME IInv, NEW w, Workers = {w}, SoleInv(w), SteadyInv(w), NoFaults,
         Loop(w) \/ AcknowledgeFails(w) \/ Crash(w)
  PROVE  /\ SteadyInv(w)'
         /\ \A j : /\ ~ (AckReleaseKey(w) /\ worker[w].entry.job = j)
                   /\ InFlight(w, j)
                   => InFlight(w, j)'
  <1> USE DEF At
  <1>0. TypeOK /\ w \in Workers /\ HandInv(w)
    BY DEF IInv, SoleInv
  <1>1. ~ AcknowledgeFails(w) /\ ~ Crash(w)
    BY <1>0 DEF NoFaults, AcknowledgeFails, Crash, TypeOK
  <1>2. ~ DropFinished(w) /\ ~ RemoveStalled(w) /\ ~ RequeueStalled(w)
    BY <1>0 DEF HandInv, SteadyInv, Attempting, DropFinished, RemoveStalled, RequeueStalled
  <1>3. worker[w].at \notin Attempting \cup {"retry.remove", "dlq.remove"} => Reserved = {}
    BY DEF SteadyInv
  <1>4. CASE ListDue(w) \/ ListProcessing(w) \/ InspectListed(w)
    <2>1. /\ worker[w].at \in {"promote", "recover", "recover.next"}
          /\ UNCHANGED <<store, payload, pushing, sent>>
      BY <1>4 DEF ListDue, ListProcessing, InspectListed, history
    <2>2. worker'[w].at \in {"promote.move", "recover", "recover.next", "recover.drop",
                             "recover.remove", "reserve"}
      BY <1>4, ListingEffect DEF Moved
    <2>3. Reserved = {}
      BY <1>3, <2>1 DEF Attempting
    <2>4. QED
      BY <2>1, <2>2, <2>3, IdleKeepsSteady DEF CarryPlaces
  <1>5. CASE PromoteDue(w)
    <2>1. /\ worker[w].at = "promote.move" /\ worker'[w].at = "recover"
          /\ UNCHANGED <<processing, dlq, payload, pushing, sent>> /\ Reserved' = Reserved
          /\ \A j : Queued(queue', j) \/ Among(delayed', j) <=>
                      Queued(queue, j) \/ Among(delayed, j)
      BY <1>5, PromotionEffect DEF history
    <2>2. \A j : ~ Carried(j) /\ ~ Carried(j)'
      BY <2>1, OnlyCarrier DEF CarryPlaces
    <2>3. Reserved = {} /\ \A j : ~ Among(Reserved, j)
      BY <1>3, <2>1 DEF Attempting, Among
    <2>4. SteadyInv(w)'
      BY <2>1, <2>2, <2>3 DEF SteadyInv
    <2>5. \A j : InFlight(w, j) => InFlight(w, j)'
      BY <2>1, <2>2 DEF InFlight, Nowhere
    <2>6. QED
      BY <2>4, <2>5
  <1>6. CASE AckRemove(w) \/ RemoveFailed(w)
    <2>0. PICK e : e = worker[w].entry
      OBVIOUS
    <2>1. /\ worker[w].at \in {"ack.remove", "retry.remove", "dlq.remove"}
          /\ worker'[w].at \in {"ack.key", "retry.add", "dlq.push"}
          /\ worker'[w].at = "ack.key" <=> worker[w].at = "ack.remove"
          /\ worker'[w].entry = e /\ e.job \in Jobs
          /\ UNCHANGED <<queue, delayed, dlq, payload, pushing, sent>>
          /\ Reserved' = Reserved \ {e} /\ Nowhere(e.job)'
      <3>1. worker[w].at \in {"ack.remove", "retry.remove", "dlq.remove"}
        BY <1>6 DEF AckRemove, RemoveFailed
      <3>2. QED
        BY <1>6, <2>0, <3>1, RemovalEffect DEF history
    <2>2. e \in Reserved /\ Reserved' = {}
      BY <1>0, <2>0, <2>1 DEF SteadyInv, HandInv, Attempting
    <2>3. \A j : ~ Carried(j) /\ (Carried(j)' <=> worker'[w].at # "ack.key" /\ e.job = j)
      BY <2>1, OnlyCarrier DEF CarryPlaces
    <2>4. Among(Reserved, e.job) /\ \A j : ~ Among(Reserved', j)
      BY <2>2 DEF Among
    <2>5. SteadyInv(w)'
      BY <2>1, <2>2, <2>3, <2>4 DEF SteadyInv
    <2>6. \A j : Among(Reserved, j) => e.job = j
      BY <2>0 DEF SteadyInv, Among
    <2>7. \A j : InFlight(w, j) => InFlight(w, j)'
      BY <2>1, <2>3, <2>6 DEF InFlight, Nowhere
    <2>8. QED
      BY <2>5, <2>7
  <1>7. CASE Reserve(w)
    <2>1. CASE queue = <<>>
      <3>1. /\ worker[w].at = "reserve" /\ worker'[w].at = "promote"
            /\ UNCHANGED <<store, payload, pushing, sent>>
        BY <1>0, <1>7, <2>1, NextRoundMoves DEF Reserve, Moved, store, history
      <3>2. Reserved = {}
        BY <1>3, <3>1 DEF Attempting
      <3>3. SteadyInv(w)' /\ \A j : InFlight(w, j) => InFlight(w, j)'
        BY <3>1, <3>2, IdleKeepsSteady DEF CarryPlaces
      <3>4. QED
        BY <3>3
    <2>2. CASE queue # <<>>
      <3>1. PICK e \in Entry :
              /\ worker[w].at = "reserve" /\ worker'[w].at = "reserve.state"
              /\ worker'[w].entry = e
              /\ UNCHANGED <<delayed, dlq, payload, pushing, sent>>
              /\ e.job \in Jobs /\ Queued(queue, e.job)
              /\ Reserved' = Reserved \cup {e}
              /\ \A j : Queued(queue, j) <=> Queued(queue', j) \/ e.job = j
        BY <1>7, <2>2, ReserveEffect DEF history
      <3>2. Reserved = {} /\ Reserved' = {e} /\ \A j : Among(Reserved', j) <=> e.job = j
        BY <1>3, <3>1 DEF Attempting, Among
      <3>3. \A j : ~ Carried(j) /\ ~ Carried(j)'
        BY <3>1, OnlyCarrier DEF CarryPlaces
      <3>4. SteadyInv(w)'
        BY <3>1, <3>2, <3>3 DEF SteadyInv, Attempting
      <3>5. \A j : InFlight(w, j) => InFlight(w, j)'
        BY <3>1, <3>2, <3>3 DEF InFlight, Nowhere, Among
      <3>6. QED
        BY <3>4, <3>5
    <2>3. QED
      BY <2>1, <2>2
  <1>8. CASE AckReleaseKey(w) \/ AckRecord(w) \/ RecordFailure(w)
    <2>1. /\ worker[w].at \in {"ack.key", "ack.state", "retry.state", "dlq.state"}
          /\ worker[w].at = "ack.key" => AckReleaseKey(w)
          /\ UNCHANGED <<store, payload, pushing, sent>>
      BY <1>8 DEF AckReleaseKey, AckRecord, RecordFailure, history
    <2>2. worker'[w].at \in {"ack.state", "promote"}
      BY <1>0, <1>8, GotoMoves, NextRoundMoves
         DEF AckReleaseKey, AckRecord, RecordFailure, Moved, Awaits
    <2>3. Reserved = {}
      BY <1>3, <2>1 DEF Attempting
    <2>4. QED
      BY <2>1, <2>2, <2>3, IdleKeepsSteady DEF CarryPlaces
  <1>9. CASE RecordReservation(w) \/ Deliver(w)
    <2>0. PICK e : e = worker[w].entry
      OBVIOUS
    <2>1. /\ worker[w].at \in {"reserve.state", "deliver"}
          /\ UNCHANGED <<store, payload, pushing>>
      BY <1>9 DEF RecordReservation, Deliver
    <2>2. e \in Entry /\ e.job \in Jobs /\ e = EntryOf(w) /\ JobOf(w) = e.job
      BY <1>0, <2>0, <2>1, HeldEntry DEF Holding, Awaits
    <2>3. /\ worker'[w].at \in {"deliver", "ack.remove", "retry.remove", "dlq.remove"}
          /\ worker'[w].entry = e
      BY <1>0, <1>9, <2>0, GotoMoves DEF RecordReservation, Deliver, FailureAwait, Moved, Awaits
    <2>4. Reserved' = Reserved /\ Reserved = {e} /\ \A j : Among(Reserved, j) <=> e.job = j
      <3>1. e \in Reserved /\ Reserved' = Reserved
        BY <1>0, <2>0, <2>1 DEF HandInv, Attempting, Reserved, store
      <3>2. Reserved = {e}
        BY <2>0, <3>1 DEF SteadyInv
      <3>3. QED
        BY <3>1, <3>2 DEF Among
    <2>5. \A j : ~ Carried(j) /\ ~ Carried(j)' /\ (Nowhere(j)' <=> Nowhere(j))
      BY <2>1, <2>3, <2>4, OnlyCarrier DEF CarryPlaces, Nowhere, store
    <2>6. /\ ~ (sent[e.job] > 0) /\ sent[e.job] \in Nat
          /\ e.job \notin pushing /\ payload[e.job] # None
          /\ ~ Queued(queue, e.job) /\ ~ Among(delayed, e.job) /\ ~ Among(dlq, e.job)
      <3>1. ~ (sent[e.job] > 0) /\ sent[e.job] \in Nat
        BY <1>0, <2>1, <2>2, <2>4 DEF SteadyInv, TypeOK
      <3>2. OnePlace(e.job) /\ ~ Nowhere(e.job)
        BY <2>2, <2>4 DEF SoleInv, Nowhere
      <3>3. e.job \notin pushing /\ payload[e.job] # None
        BY <2>2, <3>2 DEF SoleInv, Untouched
      <3>4. QED
        BY <2>4, <3>1, <3>2, <3>3 DEF OnePlace
    <2>7. /\ \A j \in Jobs \ {e.job} : sent'[j] = sent[j]
          /\ sent'[e.job] <= 1
          /\ sent'[e.job] > 0 => worker'[w].at = "ack.remove"
      <3>1. CASE UNCHANGED sent
        BY <2>6, <3>1
      <3>2. CASE sent' = [sent EXCEPT ![e.job] = @ + 1] /\ Goto(w, "ack.remove")
        <4>1. sent \in [Jobs -> Nat] /\ "ack.remove" \in Awaits
          BY <1>0 DEF TypeOK, Awaits
        <4>2. worker'[w].at = "ack.remove"
          BY <1>0, <3>2, <4>1, GotoMoves DEF Moved
        <4>3. sent[e.job] = 0
          BY <2>6
        <4>4. QED
          BY <2>2, <3>2, <4>1, <4>2, <4>3
      <3>3. QED
        BY <1>9, <2>2, <3>1, <3>2 DEF RecordReservation, Deliver, history
    <2>8. SteadyInv(w)'
      <3>1. \A j \in Jobs : sent'[j] <= 1
        BY <2>7 DEF SteadyInv
      <3>2. \A i \in Reserved' :
              worker'[w].at \in Attempting \cup {"retry.remove", "dlq.remove"}
                /\ worker'[w].entry = i
        BY <2>3, <2>4 DEF Attempting
      <3>3. ASSUME NEW j \in Jobs, sent'[j] > 0
            PROVE  /\ j \notin pushing' /\ payload'[j] # None
                   /\ ~ Queued(queue', j) /\ ~ Among(delayed', j) /\ ~ Among(dlq', j)
                   /\ ~ Carried(j)'
                   /\ Among(Reserved', j) => worker'[w].at = "ack.remove"
        <4>1. CASE j = e.job
          BY <2>1, <2>5, <2>6, <2>7, <3>3, <4>1 DEF store
        <4>2. CASE j # e.job
          BY <2>1, <2>4, <2>5, <2>7, <3>3, <4>2 DEF SteadyInv, store
        <4>3. QED
          BY <4>1, <4>2
      <3>4. QED
        BY <2>3, <2>4, <3>1, <3>2, <3>3 DEF SteadyInv
    <2>9. \A j : InFlight(w, j) => InFlight(w, j)'
      BY <2>1, <2>5 DEF InFlight
    <2>10. QED
      BY <2>8, <2>9
  <1>10. CASE DelayRetry(w) \/ PushDeadLetter(w)
    <2>0. PICK e : e = worker[w].entry
      OBVIOUS
    <2>1. /\ worker[w].at \in {"retry.add", "dlq.push"}
          /\ worker'[w].at \in {"retry.state", "dlq.state"}
          /\ e.job \in Jobs
          /\ UNCHANGED <<queue, processing, payload, pushing, sent>> /\ Reserved' = Reserved
          /\ \A j : Among(delayed', j) \/ Among(dlq', j) <=>
                      Among(delayed, j) \/ Among(dlq, j) \/ e.job = j
      BY <1>10, <2>0, FailureEffect DEF history
    <2>2. \A j : (Carried(j) <=> e.job = j) /\ ~ Carried(j)'
      BY <2>0, <2>1, OnlyCarrier DEF CarryPlaces
    <2>3. Reserved = {}
      BY <1>3, <2>1 DEF Attempting
    <2>4. SteadyInv(w)'
      BY <2>1, <2>2, <2>3 DEF SteadyInv, Among
    <2>5. \A j : InFlight(w, j) => InFlight(w, j)'
      BY <2>1, <2>2 DEF InFlight, Nowhere
    <2>6. QED
      BY <2>4, <2>5
  <1>11. QED
    BY <1>1, <1>2, <1>4, <1>5, <1>6, <1>7, <1>8, <1>9, <1>10 DEF Loop

LEMMA NextKeepsSteady ==
  ASSUME IInv, NEW w, Workers = {w}, SoleInv(w), SteadyInv(w), KeysInv(w), NoFaults,
         [Next]_vars
  PROVE  SteadyInv(w)' /\ KeysInv(w)'
  <1> USE DEF store, keys, history
  <1>0. TypeOK /\ w \in Workers
    BY DEF IInv
  <1>1. CASE UNCHANGED vars
    <2>1. UNCHANGED <<queue, processing, delayed, dlq, payload, pushing, worker, sent, dedupe>>
      BY <1>1 DEF vars
    <2>2. Reserved' = Reserved /\ \A j : Carried(j)' <=> Carried(j)
      BY <2>1 DEF Reserved, Carried, JobOf
    <2>3. SteadyInv(w)'
      BY <2>1, <2>2 DEF SteadyInv
    <2>4. \A j : InFlight(w, j)' <=> InFlight(w, j)
      BY <2>1, <2>2 DEF InFlight, Nowhere
    <2>5. QED
      BY <2>1, <2>3, <2>4 DEF KeysInv
  <1>2. ASSUME NEW j \in Jobs, NEW c \in Payloads, EnqueueCommunicationJob(j, c)
        PROVE  SteadyInv(w)' /\ KeysInv(w)'
    <2>1. SteadyInv(w)' /\ \A i : InFlight(w, i) => InFlight(w, i)'
      BY <1>2, OutsideKeepsSteady DEF Enqueue
    <2>2. /\ payload[j] = None /\ payload' = [payload EXCEPT ![j] = c]
          /\ dedupe' = dedupe \cup {c} /\ j \in pushing'
      BY <1>2 DEF EnqueueCommunicationJob
    <2>3. payload'[j] = c /\ \A i \in Jobs : payload[i] # None => payload'[i] = payload[i]
      BY <1>0, <2>2 DEF TypeOK
    <2>4. \A d \in dedupe : d # None
      BY <1>0, ConstantsAssumption DEF TypeOK
    <2>5. InFlight(w, j)'
      BY <2>2 DEF InFlight
    <2>6. QED
      BY <2>1, <2>2, <2>3, <2>4, <2>5 DEF KeysInv
  <1>3. CASE KeyExpires \/ (\E j \in Jobs : PushJob(j) \/ StateGoesStale(j))
               \/ \E e \in Entry : DelayElapses(e)
    <2>1. SteadyInv(w)' /\ \A i : InFlight(w, i) => InFlight(w, i)'
      BY <1>3, OutsideKeepsSteady
    <2>2. dedupe' \subseteq dedupe /\ UNCHANGED payload
      BY <1>3 DEF KeyExpires, PushJob, StateGoesStale, DelayElapses
    <2>3. QED
      BY <2>1, <2>2 DEF KeysInv
  <1>4. CASE AckReleaseKey(w)
    <2>1. /\ SteadyInv(w)'
          /\ \A i : worker[w].entry.job # i /\ InFlight(w, i) => InFlight(w, i)'
      BY <1>4, LoopKeepsSteady DEF Loop
    <2>2. dedupe' = dedupe \ {payload[worker[w].entry.job]} /\ UNCHANGED payload
      BY <1>4 DEF AckReleaseKey, JobOf
    <2>3. QED
      BY <2>1, <2>2 DEF KeysInv
  <1>5. CASE (Loop(w) \/ AcknowledgeFails(w) \/ Crash(w)) /\ ~ AckReleaseKey(w)
    <2>1. SteadyInv(w)' /\ \A i : InFlight(w, i) => InFlight(w, i)'
      BY <1>5, LoopKeepsSteady
    <2>2. UNCHANGED <<dedupe, payload>>
      BY <1>5 DEF AcknowledgeFails, Crash, Loop, ListDue, PromoteDue, ListProcessing,
                  InspectListed, DropFinished, RemoveStalled, RequeueStalled, Reserve,
                  RecordReservation, Deliver, AckRemove, AckRecord, RemoveFailed, DelayRetry,
                  PushDeadLetter, RecordFailure
    <2>3. QED
      BY <2>1, <2>2 DEF KeysInv
  <1>6. CASE Next
    <2>1. \/ \E j \in Jobs, c \in Payloads : EnqueueCommunicationJob(j, c)
          \/ KeyExpires \/ (\E j \in Jobs : PushJob(j) \/ StateGoesStale(j))
          \/ \E e \in Entry : DelayElapses(e)
          \/ Loop(w) \/ AcknowledgeFails(w) \/ Crash(w)
      BY <1>6 DEF Next, Enqueue
    <2>2. CASE \E j \in Jobs, c \in Payloads : EnqueueCommunicationJob(j, c)
      BY <1>2, <2>2
    <2>3. CASE KeyExpires \/ (\E j \in Jobs : PushJob(j) \/ StateGoesStale(j))
                 \/ \E e \in Entry : DelayElapses(e)
      BY <1>3, <2>3
    <2>4. CASE Loop(w) \/ AcknowledgeFails(w) \/ Crash(w)
      BY <1>4, <1>5, <2>4
    <2>5. QED
      BY <2>1, <2>2, <2>3, <2>4
  <1>7. QED
    BY <1>1, <1>6

LEMMA InitIsSteady ==
  ASSUME Init, NEW w, Workers = {w}
  PROVE  SteadyInv(w) /\ KeysInv(w)
  <1>1. worker[w].at = "promote"
    BY DEF Init, AtLoopStart
  <1>2. Reserved = {} /\ dedupe = {} /\ \A j \in Jobs : sent[j] = 0
    BY DEF Init, Reserved
  <1>3. QED
    BY <1>1, <1>2 DEF SteadyInv, KeysInv

----------------------------------------------------------------------------
(* Counting *)

LEMMA AtMostOne ==
  ASSUME NEW S, IsFiniteSet(S), \A x, y \in S : x = y
  PROVE  Cardinality(S) = IF S = {} THEN 0 ELSE 1
  <1>1. CASE S = {}
    BY <1>1, FS_EmptySet
  <1>2. CASE S # {}
    <2>1. PICK x \in S : TRUE
      BY <1>2
    <2>2. S = {x}
      BY <2>1
    <2>3. QED
      BY <1>2, <2>2, FS_Singleton
  <1>3. QED
    BY <1>1, <1>2

LEMMA CountAmong ==
  ASSUME NEW S \in SUBSET Entry, NEW j, AmongOnce(S, j)
  PROVE  Cardinality({e \in S : e.job = j}) = IF Among(S, j) THEN 1 ELSE 0
  <1> DEFINE T == {e \in S : e.job = j}
  <1>1. IsFiniteSet(T)
    BY FiniteEntries, FS_Subset
  <1>2. \A x, y \in T : x = y
    BY DEF AmongOnce
  <1>3. T = {} <=> ~ Among(S, j)
    BY DEF Among
  <1> HIDE DEF T
  <1>4. Cardinality(T) = IF T = {} THEN 0 ELSE 1
    BY <1>1, <1>2, AtMostOne
  <1>5. QED
    BY <1>3, <1>4 DEF T

LEMMA CountQueued ==
  ASSUME NEW q \in Seq(Entry), NEW j, QueuedOnce(q, j)
  PROVE  Cardinality({i \in DOMAIN q : q[i].job = j}) = IF Queued(q, j) THEN 1 ELSE 0
  <1> DEFINE T == {i \in DOMAIN q : q[i].job = j}
  <1>1. IsFiniteSet(T)
    <2>1. Len(q) \in Nat /\ DOMAIN q = 1 .. Len(q)
      OBVIOUS
    <2>2. IsFiniteSet(1 .. Len(q))
      BY <2>1, FS_Interval
    <2>3. QED
      BY <2>1, <2>2, FS_Subset
  <1>2. \A x, y \in T : x = y
    BY DEF QueuedOnce
  <1>3. T = {} <=> ~ Queued(q, j)
    BY DEF Queued
  <1> HIDE DEF T
  <1>4. Cardinality(T) = IF T = {} THEN 0 ELSE 1
    BY <1>1, <1>2, AtMostOne
  <1>5. QED
    BY <1>3, <1>4 DEF T

LEMMA CopiesCounted ==
  ASSUME TypeOK, NEW j, OnePlace(j)
  PROVE  /\ Copies(j) = IF Nowhere(j) THEN 0 ELSE 1
         /\ Cardinality({e \in dlq : e.job = j}) = IF Among(dlq, j) THEN 1 ELSE 0
  <1>1. /\ queue \in Seq(Entry) /\ Reserved \in SUBSET Entry
        /\ delayed \in SUBSET Entry /\ dlq \in SUBSET Entry
    BY DEF TypeOK, Reserved
  <1>2. {e \in Entry : e.job = j /\ processing[e] > 0} = {e \in Reserved : e.job = j}
    BY DEF Reserved
  <1>3. /\ Cardinality({i \in DOMAIN queue : queue[i].job = j}) =
             IF Queued(queue, j) THEN 1 ELSE 0
        /\ Cardinality({e \in Reserved : e.job = j}) = IF Among(Reserved, j) THEN 1 ELSE 0
        /\ Cardinality({e \in delayed : e.job = j}) = IF Among(delayed, j) THEN 1 ELSE 0
        /\ Cardinality({e \in dlq : e.job = j}) = IF Among(dlq, j) THEN 1 ELSE 0
    BY <1>1, CountQueued, CountAmong DEF OnePlace
  <1>4. Copies(j) = (IF Queued(queue, j) THEN 1 ELSE 0)
                      + (IF Among(Reserved, j) THEN 1 ELSE 0)
                      + (IF Among(delayed, j) THEN 1 ELSE 0)
                      + (IF Among(dlq, j) THEN 1 ELSE 0)
    BY <1>2, <1>3 DEF Copies
  <1>5. QED
    BY <1>3, <1>4 DEF OnePlace, Nowhere

----------------------------------------------------------------------------
(* The theorems about one worker *)

(* With one worker, a job is in one place at a time: in the queue, in the   *)
(* processing list, among the delayed entries, among the dead letters or in *)
(* the hands of a command between two of them, for any number of jobs and   *)
(* of crashes and whatever command of an acknowledgement throws             *)
(* (recoverStalledCommunicationJobs, scheduleCommunicationRetry,            *)
(* moveCommunicationJobToDlq).                                              *)
THEOREM JobsHaveOneCopy ==
  ASSUME NEW w, Workers = {w}
  PROVE  Spec => []OneCopyOfAJob
  <1>1. Init => SoleInv(w)
    BY InitIsSole
  <1>2. IInv /\ SoleInv(w) /\ [Next]_vars => SoleInv(w)'
    BY NextKeepsSole
  <1>3. IInv /\ SoleInv(w) => OneCopyOfAJob
    <2> SUFFICES ASSUME IInv, SoleInv(w), NEW j \in Jobs
                 PROVE  Copies(j) + (IF Carried(j) THEN 1 ELSE 0) <= 1
      BY DEF OneCopyOfAJob
    <2>1. OnePlace(j) /\ TypeOK
      BY DEF SoleInv, IInv
    <2>2. Copies(j) = IF Nowhere(j) THEN 0 ELSE 1
      BY <2>1, CopiesCounted
    <2>3. QED
      BY <2>1, <2>2 DEF OnePlace
  <1>4. QED
    BY <1>1, <1>2, <1>3, InvCorrect, PTL DEF Spec

LEMMA SteadyCorrect ==
  ASSUME NEW w, Workers = {w}, NoFaults
  PROVE  Spec => [](IInv /\ SoleInv(w) /\ SteadyInv(w) /\ KeysInv(w))
  <1>1. Init => SoleInv(w) /\ SteadyInv(w) /\ KeysInv(w)
    BY InitIsSole, InitIsSteady
  <1>2. IInv /\ SoleInv(w) /\ SteadyInv(w) /\ KeysInv(w) /\ [Next]_vars
          => SoleInv(w)' /\ SteadyInv(w)' /\ KeysInv(w)'
    BY NextKeepsSole, NextKeepsSteady
  <1>3. QED
    BY <1>1, <1>2, InvCorrect, PTL DEF Spec

(* With one worker that neither dies nor fails to acknowledge, a job is     *)
(* delivered once at most, and not at all if it ends among the dead letters *)
(* (handleJob), for any number of jobs and attempts, whatever expires.      *)
THEOREM JobsAreSentOnceOrDead ==
  ASSUME NEW w, Workers = {w}, NoFaults
  PROVE  Spec => []SentOnceOrDead
  <1>1. IInv /\ SoleInv(w) /\ SteadyInv(w) => SentOnceOrDead
    <2> SUFFICES ASSUME IInv, SoleInv(w), SteadyInv(w), NEW j \in Jobs
                 PROVE  sent[j] + Cardinality({e \in dlq : e.job = j}) <= 1
      BY DEF SentOnceOrDead
    <2>1. OnePlace(j) /\ TypeOK
      BY DEF SoleInv, IInv
    <2>2. Cardinality({e \in dlq : e.job = j}) = IF Among(dlq, j) THEN 1 ELSE 0
      BY <2>1, CopiesCounted
    <2>3. sent[j] \in Nat /\ sent[j] <= 1 /\ (sent[j] > 0 => ~ Among(dlq, j))
      BY <2>1 DEF SteadyInv, TypeOK
    <2>4. QED
      BY <2>2, <2>3
  <1>2. QED
    BY <1>1, SteadyCorrect, PTL

(* With one worker that neither dies nor fails to acknowledge, a request    *)
(* answered "deduped" (enqueueCommunicationJob) is one whose message is on  *)
(* its way or among the dead letters: no acknowledgement and no expired key *)
(* leaves a key behind that stands for nothing.                             *)
THEOREM DedupedJobsAreInFlight ==
  ASSUME NEW w, Workers = {w}, NoFaults
  PROVE  Spec => []DedupedMeansInFlight
  <1>1. IInv /\ SoleInv(w) /\ KeysInv(w) => DedupedMeansInFlight
    <2> SUFFICES ASSUME IInv, SoleInv(w), KeysInv(w), NEW c \in dedupe
                 PROVE  \E j \in Jobs :
                          /\ payload[j] = c
                          /\ \/ j \in pushing \/ Copies(j) > 0 \/ Carried(j)
                             \/ \E v \in Workers : At(v, "ack.key") /\ JobOf(v) = j
      BY DEF DedupedMeansInFlight
    <2>1. PICK j \in Jobs : payload[j] = c /\ InFlight(w, j)
      BY DEF KeysInv
    <2>2. Copies(j) = IF Nowhere(j) THEN 0 ELSE 1
      BY CopiesCounted DEF SoleInv, IInv
    <2>3. ~ Nowhere(j) => Copies(j) > 0
      BY <2>2
    <2>4. worker[w].at = "ack.key" /\ worker[w].entry.job = j =>
            \E v \in Workers : At(v, "ack.key") /\ JobOf(v) = j
      BY DEF At, JobOf
    <2>5. QED
      BY <2>1, <2>3, <2>4 DEF InFlight
  <1>2. QED
    BY <1>1, SteadyCorrect, PTL

=============================================================================
