----------------------------- MODULE Deliveries -----------------------------
(***************************************************************************)
(* The delivery of one message and the log it leaves: a request dispatches *)
(* a message to the queue (or delivers it itself when there is no queue),  *)
(* a worker delivers it to one provider after another and writes one row   *)
(* of CommunicationDeliveryLog, and a row that failed is delivered again   *)
(* by the worker's scan or by an administrator.                            *)
(*                                                                         *)
(* process[p].at names the next await of what p runs.  The row a retry     *)
(* read before it claimed it is a local variable (seen), as in the code.   *)
(*                                                                         *)
(* Abstracted: the queue is the set of messages that wait (module          *)
(* CommunicationQueue has its commands), which providers are candidates    *)
(* (module ProviderRouting) is their number, recipients, the attempt chain *)
(* and audit rows are left out.                                            *)
(***************************************************************************)
EXTENDS FiniteSets, Naturals

CONSTANTS
  Messages,       \* messages to dispatch
  Kinds,          \* what they may be: a template, if known, and a purpose
  Logs,           \* identifiers of CommunicationDeliveryLog rows
  Workers,        \* communication workers
  Requests,       \* slots for HTTP handlers: dispatches and administrators
  MaxAttempts,    \* attempts of a queued job
  MaxRetries,     \* DEFAULT_MAX_RETRIES
  BatchSize,      \* due rows a scan lists at most
  MaxCandidates,  \* BOUND on the candidates of one delivery
  MaxManual,      \* BOUND on retries administrators ask for
  MaxFaults,      \* BOUND on calls that throw
  MaxCrashes,     \* BOUND on workers that die
  None            \* the SQL NULL

NoTemplate == "none"

(* Template keys by what they carry: a link or a code that expires, or not. *)
TemplatePolicy ==
  [email_verification |-> FALSE, password_reset |-> FALSE, magic_link |-> FALSE,
   two_factor_code |-> FALSE, otp_login |-> FALSE, admin_invitation |-> FALSE,
   password_changed |-> TRUE, welcome |-> TRUE, account_reactivated |-> TRUE,
   role_updated |-> TRUE, login_alert |-> TRUE, security_alert |-> TRUE,
   account_suspended |-> TRUE]

PurposePolicy ==
  [LOGIN |-> FALSE, REGISTER |-> FALSE, PASSWORD_RESET |-> FALSE,
   PAYMENT_VERIFY |-> FALSE, ADMIN_INVITE |-> FALSE, GENERAL |-> TRUE]

(* Whether a message may be sent again later.                               *)
ResolveRetryPolicy(kind) ==
  IF kind.template \in DOMAIN TemplatePolicy THEN TemplatePolicy[kind.template]
                                             ELSE PurposePolicy[kind.purpose]

ASSUME ConstantsAssumption ==
  /\ Kinds \subseteq [template : {NoTemplate} \cup DOMAIN TemplatePolicy,
                      purpose : DOMAIN PurposePolicy]
  /\ MaxAttempts \in Nat \ {0} /\ MaxRetries \in Nat \ {0} /\ BatchSize \in Nat \ {0}
  /\ MaxCandidates \in Nat
  /\ MaxManual \in Nat /\ MaxFaults \in Nat /\ MaxCrashes \in Nat
  /\ IsFiniteSet(Workers) /\ IsFiniteSet(Requests) /\ Workers \cap Requests = {}
  /\ None \notin Messages \cup Logs \cup Workers \cup Requests

VARIABLES
  message,   \* what has become of each message
  log,       \* CommunicationDeliveryLog
  process,   \* workers and handlers in flight
  scan,      \* due rows of each worker's last listing still to claim
  accepted,  \* history: how often a retry of a row was accepted by a provider
  late,      \* history: how often the scan caught an error of a row's retry that a
             \* provider had accepted, or whose outcome was already in the row
  manual,    \* retries administrators have asked for
  faults,    \* calls that threw
  crashes    \* workers that died

bounds == <<manual, faults, crashes>>
history == <<accepted, late>>
vars == <<message, log, process, scan, history, bounds>>

Processes == Workers \cup Requests

RowStatus == {"none", "SENT", "BLOCKED", "FAILED", "RETRY_SCHEDULED", "RETRYING",
              "DEAD_LETTER", "CANCELLED"}

(* max and count are maxRetries and retryCount; payload: resendPayload is   *)
(* set; due: nextRetryAt has passed.                                        *)
Row ==
  [status : RowStatus, of : Messages \cup {None}, isRetryable : BOOLEAN,
   max : {0, MaxRetries}, count : Nat, payload : BOOLEAN, due : BOOLEAN]

NoRow == [status |-> "none", of |-> None, isRetryable |-> FALSE, max |-> 0, count |-> 0,
          payload |-> FALSE, due |-> FALSE]

Awaits == {"idle", "candidates", "attempt", "finalize", "settle",
           "read", "abuse", "claim", "write", "release"}

(* mode: why p delivers; left: candidates still to try; allLimited: so far  *)
(* every candidate was over its limit; ok: the last provider accepted;      *)
(* late: it releases a row after such a late error                          *)
Process ==
  [at : Awaits, mode : {"queue", "direct", "scan", "manual"}, of : Messages \cup {None},
   row : Logs \cup {None}, seen : [count : Nat, max : {0, MaxRetries}], left : Nat,
   allLimited : BOOLEAN, ok : BOOLEAN, late : BOOLEAN]

Idle == [at |-> "idle", mode |-> "queue", of |-> None, row |-> None,
         seen |-> [count |-> 0, max |-> 0], left |-> 0, allLimited |-> TRUE, ok |-> FALSE,
         late |-> FALSE]

(* answer: what the caller of the dispatch was told                         *)
Message ==
  [state : {"new", "queued", "working", "done", "dead"}, kind : Kinds \cup {None},
   channel : {"EMAIL", "SMS"}, attempts : 0 .. MaxAttempts,
   answer : {"none", "accepted", "blocked", "failed"}]

NewMessage == [state |-> "new", kind |-> None, channel |-> "EMAIL", attempts |-> 0,
               answer |-> "none"]

TypeOK ==
  /\ message \in [Messages -> Message]
  /\ log \in [Logs -> Row]
  /\ process \in [Processes -> Process]
  /\ scan \in [Workers -> SUBSET Logs]
  /\ accepted \in [Logs -> Nat] /\ late \in [Logs -> Nat]
  /\ manual \in 0 .. MaxManual /\ faults \in 0 .. MaxFaults /\ crashes \in 0 .. MaxCrashes

Init ==
  /\ message = [m \in Messages |-> NewMessage]
  /\ log = [d \in Logs |-> NoRow]
  /\ process = [p \in Processes |-> Idle]
  /\ scan = [w \in Workers |-> {}]
  /\ accepted = [d \in Logs |-> 0] /\ late = [d \in Logs |-> 0]
  /\ manual = 0 /\ faults = 0 /\ crashes = 0

----------------------------------------------------------------------------
(* Helpers *)

At(p, await) == process[p].at = await

Local(p) == process[p]

Goto(p, await) == process' = [process EXCEPT ![p].at = await]

Finish(p) == process' = [process EXCEPT ![p] = Idle]

Delivering(p) == Local(p).mode \in {"queue", "direct"}

FreeLogs == {d \in Logs : log[d].status = "none"}

(* BOUND: a delivery starts only while there is a row for each in flight    *)
SpareLogs == Cardinality({p \in Processes : ~At(p, "idle") /\ Delivering(p)}) < Cardinality(FreeLogs)

NewLog(row) ==
  /\ FreeLogs # {}
  /\ LET d == CHOOSE x \in FreeLogs : TRUE
     IN log' = [log EXCEPT ![d] = row]

Scheduled(d) == log[d].status = "RETRY_SCHEDULED"

Claimable == {"FAILED", "DEAD_LETTER", "RETRY_SCHEDULED"}

----------------------------------------------------------------------------
(* dispatchEmail, dispatchSms *)

(* Blocked by the abuse limits, queued, or, without a queue, delivered by   *)
(* the request itself.                                                      *)
Dispatch(p, m, channel, kind) ==
  LET Becomes(state, answer) ==
        message' = [message EXCEPT ![m] =
          [@ EXCEPT !.channel = channel, !.kind = kind, !.state = state, !.answer = answer]]
  IN /\ At(p, "idle") /\ message[m].state = "new"
     /\ \/ /\ NewLog([NoRow EXCEPT !.status = "BLOCKED", !.of = m])
           /\ Becomes("done", "blocked")
           /\ UNCHANGED process
        \/ /\ Becomes("queued", "accepted")
           /\ UNCHANGED <<log, process>>
        \/ /\ SpareLogs
           /\ Becomes("working", "none")
           /\ process' = [process EXCEPT ![p] =
                [Idle EXCEPT !.at = "candidates", !.mode = "direct", !.of = m]]
           /\ UNCHANGED log
     /\ UNCHANGED <<scan, history, bounds>>

DispatchEmail(p, m) == \E kind \in Kinds : Dispatch(p, m, "EMAIL", kind)

(* Text messages carry no template key.                                     *)
DispatchSms(p, m) ==
  \E kind \in Kinds : kind.template = NoTemplate /\ Dispatch(p, m, "SMS", kind)

----------------------------------------------------------------------------
(* deliverQueuedEmail, deliverQueuedSms: try the candidates in turn, write  *)
(* one row, and tell the queue or the caller                                *)

Reserve(w, m) ==
  /\ At(w, "idle") /\ scan[w] = {} /\ SpareLogs
  /\ message[m].state = "queued"
  /\ message' = [message EXCEPT ![m].state = "working"]
  /\ process' = [process EXCEPT ![w] = [Idle EXCEPT !.at = "candidates", !.of = m]]
  /\ UNCHANGED <<log, scan, history, bounds>>

(* What follows when there is nobody left to try.                           *)
EndOfLoop(p) == IF Delivering(p) THEN "finalize" ELSE "write"

TryCandidates(p, n) ==
  process' = [process EXCEPT ![p].at = IF n = 0 THEN EndOfLoop(p) ELSE "attempt",
                             ![p].left = n, ![p].allLimited = n > 0]

(* A channel that is switched off gets no row; a retry counts it as failed. *)
FindCandidates(p) ==
  /\ At(p, "candidates")
  /\ \/ \E n \in 0 .. MaxCandidates : TryCandidates(p, n)
     \/ /\ Delivering(p)
        /\ process' = [process EXCEPT ![p].at = "settle", ![p].allLimited = FALSE]
  /\ UNCHANGED <<message, log, scan, history, bounds>>

NextCandidate(p) == IF Local(p).left = 1 THEN EndOfLoop(p) ELSE "attempt"

(* checkProviderRateLimit refuses the next candidate.                       *)
SkipLimited(p) ==
  /\ At(p, "attempt")
  /\ process' = [process EXCEPT ![p].left = @ - 1, ![p].at = NextCandidate(p)]
  /\ UNCHANGED <<message, log, scan, history, bounds>>

Send(p, ok) ==
  /\ At(p, "attempt")
  /\ process' = [process EXCEPT ![p].at = IF ok THEN EndOfLoop(p) ELSE NextCandidate(p),
                                ![p].ok = ok, ![p].left = @ - 1, ![p].allLimited = FALSE]
  /\ accepted' = IF ok /\ ~Delivering(p) THEN [accepted EXCEPT ![Local(p).row] = @ + 1]
                                         ELSE accepted
  /\ UNCHANGED <<message, log, scan, late, bounds>>

(* finalizeDeliveryLog                                                      *)
CreateLog(p) ==
  LET retryable == ResolveRetryPolicy(message[Local(p).of].kind)
      again == retryable /\ ~Local(p).ok
  IN NewLog([NoRow EXCEPT
       !.status = IF Local(p).ok THEN "SENT" ELSE IF again THEN "RETRY_SCHEDULED" ELSE "FAILED",
       !.of = Local(p).of, !.isRetryable = retryable, !.payload = again,
       !.max = IF retryable THEN MaxRetries ELSE 0])

FinalizeDeliveryLog(p) ==
  /\ At(p, "finalize")
  /\ CreateLog(p)
  /\ Goto(p, "settle")
  /\ UNCHANGED <<message, scan, history, bounds>>

(* A queued job is acknowledged, tried again or given up; a request answers *)
Settle(p) ==
  LET m == Local(p).of
      tried == message[m].attempts + 1
  IN /\ At(p, "settle")
     /\ message' = [message EXCEPT ![m] =
          IF Local(p).mode = "direct"
          THEN [@ EXCEPT !.state = "done",
                  !.answer = IF Local(p).ok THEN "accepted"
                             ELSE IF Local(p).allLimited THEN "blocked" ELSE "failed"]
          ELSE [@ EXCEPT !.attempts = IF Local(p).ok THEN message[m].attempts ELSE tried,
                  !.state = IF Local(p).ok THEN "done"
                            ELSE IF tried < MaxAttempts THEN "queued" ELSE "dead"]]
     /\ Finish(p)
     /\ UNCHANGED <<log, scan, history, bounds>>

----------------------------------------------------------------------------
(* executeRetry: by the scan, which has claimed the row, or by an           *)
(* administrator, who claims it after reading it                            *)

Retry(p, mode, d) ==
  process' = [process EXCEPT ![p] = [Idle EXCEPT !.at = "read", !.mode = mode, !.row = d]]

(* processDueRetries lists due rows, as many as a batch may hold (those due *)
(* for longest, which the model leaves open),                               *)
ListDue(w) ==
  LET due == {d \in Logs : Scheduled(d) /\ log[d].due}
  IN /\ At(w, "idle") /\ scan[w] = {} /\ due # {}
     /\ \E listed \in SUBSET due :
          /\ Cardinality(listed) = BatchSize \/ (listed = due /\ Cardinality(due) < BatchSize)
          /\ scan' = [scan EXCEPT ![w] = listed]
     /\ UNCHANGED <<message, log, process, history, bounds>>

(* Variant: claims what it listed                                           *)
ClaimListed(w, d) ==
  /\ At(w, "idle") /\ d \in scan[w]
  /\ scan' = [scan EXCEPT ![w] = @ \ {d}]
  /\ log' = [log EXCEPT ![d].status = "RETRYING"]
  /\ Retry(w, "scan", d)
  /\ UNCHANGED <<message, history, bounds>>

(* and claims one after the other, where it is still scheduled.             *)
ClaimDue(w, d) ==
  /\ At(w, "idle") /\ d \in scan[w]
  /\ scan' = [scan EXCEPT ![w] = @ \ {d}]
  /\ \/ /\ Scheduled(d)
        /\ log' = [log EXCEPT ![d].status = "RETRYING"]
        /\ Retry(w, "scan", d)
     \/ /\ ~Scheduled(d)
        /\ UNCHANGED <<log, process>>
  /\ UNCHANGED <<message, history, bounds>>

AssertRetryable(d) == log[d].isRetryable /\ log[d].status \in Claimable

RetryDeliveryLogNow(a, d) ==
  /\ At(a, "idle") /\ manual < MaxManual
  /\ AssertRetryable(d)
  /\ manual' = manual + 1
  /\ Retry(a, "manual", d)
  /\ UNCHANGED <<message, log, scan, history, faults, crashes>>

ReadLog(p) ==
  LET row == log[Local(p).row]
  IN /\ At(p, "read") /\ row.payload
     /\ process' = [process EXCEPT ![p].at = "abuse", ![p].of = row.of,
                                   ![p].seen = [count |-> row.count, max |-> row.max]]
     /\ UNCHANGED <<message, log, scan, history, bounds>>

(* checkCommunicationAbuseLimits refuses: blockExistingRetryLog             *)
BlockRow(p) ==
  LET d == Local(p).row
  IN log' = IF log[d].status \in Claimable \cup {"RETRYING"}
            THEN [log EXCEPT ![d].status = "BLOCKED", ![d].isRetryable = FALSE, ![d].max = 0,
                             ![d].due = FALSE]
            ELSE log

BlockRetry(p) ==
  /\ At(p, "abuse")
  /\ BlockRow(p)
  /\ Finish(p)
  /\ UNCHANGED <<message, scan, history, bounds>>

(* Variant: claims what it read                                             *)
ClaimWhatWasRead(p) ==
  /\ At(p, "claim")
  /\ log' = [log EXCEPT ![Local(p).row].status = "RETRYING"]
  /\ Goto(p, "candidates")
  /\ UNCHANGED <<message, scan, history, bounds>>

PassAbuse(p) ==
  /\ At(p, "abuse")
  /\ Goto(p, IF Local(p).mode = "manual" THEN "claim" ELSE "candidates")
  /\ UNCHANGED <<message, log, scan, history, bounds>>

ClaimManually(p) ==
  LET d == Local(p).row
  IN /\ At(p, "claim")
     /\ IF log[d].status \in Claimable
        THEN /\ log' = [log EXCEPT ![d].status = "RETRYING"]
             /\ Goto(p, "candidates")
        ELSE Finish(p) /\ UNCHANGED log
     /\ UNCHANGED <<message, scan, history, bounds>>

WriteFailure(p, count, exhausted) ==
  LET d == Local(p).row
  IN log' = [log EXCEPT ![d].status = IF exhausted THEN "DEAD_LETTER" ELSE "RETRY_SCHEDULED",
                        ![d].count = count, ![d].due = FALSE]

WriteSuccess(p) ==
  log' = [log EXCEPT ![Local(p).row].status = "SENT", ![Local(p).row].due = FALSE]

(* The row is written whatever it has become since it was read.             *)
WriteRow(p) ==
  LET count == Local(p).seen.count + 1
  IN IF Local(p).ok THEN WriteSuccess(p)
                    ELSE WriteFailure(p, count, count >= Local(p).seen.max)

WriteRetry(p) ==
  /\ At(p, "write")
  /\ WriteRow(p)
  /\ Finish(p)
  /\ UNCHANGED <<message, scan, history, bounds>>

(* Variant: also while the retry is under way                               *)
CancelAnyRetry(d) ==
  /\ log[d].status \in {"RETRY_SCHEDULED", "RETRYING"}
  /\ log' = [log EXCEPT ![d].status = "CANCELLED", ![d].due = FALSE]
  /\ UNCHANGED <<message, process, scan, history, bounds>>

(* Variant: only logs the error                                             *)
ReleaseNothing(w) ==
  /\ At(w, "release")
  /\ Finish(w)
  /\ UNCHANGED <<message, log, scan, history, bounds>>

(* The catch of processDueRetries puts a row back that is still claimed.    *)
ReleaseAfterError(w) ==
  LET d == Local(w).row
  IN /\ At(w, "release")
     /\ log' = IF log[d].status = "RETRYING"
               THEN [log EXCEPT ![d].status = "RETRY_SCHEDULED", ![d].due = FALSE]
               ELSE log
     /\ Finish(w)
     /\ UNCHANGED <<message, scan, history, bounds>>

CancelRetry(d) ==
  /\ Scheduled(d)
  /\ log' = [log EXCEPT ![d].status = "CANCELLED", ![d].due = FALSE]
  /\ UNCHANGED <<message, process, scan, history, bounds>>

----------------------------------------------------------------------------
(* Errors, time and crashes *)

(* An error ends what p runs: a job fails or a request answers so, the scan *)
(* catches it, an administrator's retry is gone.                            *)
Thrown(p, isLate) ==
  /\ faults < MaxFaults
  /\ faults' = faults + 1
  /\ process' = [process EXCEPT ![p] =
       CASE Delivering(p) -> [@ EXCEPT !.at = "settle", !.allLimited = FALSE, !.ok = FALSE]
         [] Local(p).mode = "scan" -> [@ EXCEPT !.at = "release", !.late = isLate]
         [] Local(p).mode = "manual" -> Idle]
  /\ late' = IF isLate /\ Local(p).mode = "scan" THEN [late EXCEPT ![Local(p).row] = @ + 1]
                                                 ELSE late
  /\ UNCHANGED <<message, scan, accepted, manual, crashes>>

(* A read, the routing, an adapter or a write throws and does nothing.  At  *)
(* "write" with ok the provider has accepted: updateProviderHealth or the   *)
(* update to SENT throws.                                                   *)
Throw(p) ==
  /\ Local(p).at \in {"candidates", "attempt", "finalize", "read", "abuse", "claim", "write"}
  /\ Thrown(p, At(p, "write") /\ Local(p).ok)
  /\ UNCHANGED log

(* The row is written, then its audit row throws. A first delivery has one  *)
(* when it schedules a retry.                                               *)
AuditThrows(p) ==
  /\ \/ /\ At(p, "finalize") /\ CreateLog(p)
        /\ ~Local(p).ok /\ ResolveRetryPolicy(message[Local(p).of].kind)
     \/ At(p, "abuse") /\ BlockRow(p)
     \/ At(p, "write") /\ WriteRow(p)
  /\ Thrown(p, TRUE)

(* processDueRetries itself throws, where it claims or in its catch: the    *)
(* rest of the listing is dropped, and a row to release stays claimed.      *)
ScanThrows(w) ==
  /\ faults < MaxFaults
  /\ At(w, "release") \/ (At(w, "idle") /\ scan[w] # {})
  /\ faults' = faults + 1
  /\ scan' = [scan EXCEPT ![w] = {}]
  /\ Finish(w)
  /\ UNCHANGED <<message, log, history, manual, crashes>>

RetryComesDue(d) ==
  /\ Scheduled(d) /\ ~log[d].due
  /\ log' = [log EXCEPT ![d].due = TRUE]
  /\ UNCHANGED <<message, process, scan, history, bounds>>

(* The queue gives a dead worker's job to another one; the caller of a      *)
(* server that dies gets no answer.                                         *)
Crash(p) ==
  /\ crashes < MaxCrashes /\ ~At(p, "idle")
  /\ crashes' = crashes + 1
  /\ message' = CASE Local(p).mode = "queue" -> [message EXCEPT ![Local(p).of].state = "queued"]
                  [] Local(p).mode = "direct" -> [message EXCEPT ![Local(p).of].state = "done"]
                  [] OTHER -> message
  /\ process' = [process EXCEPT ![p] = Idle]
  /\ scan' = [w \in Workers |-> IF w = p THEN {} ELSE scan[w]]
  /\ UNCHANGED <<log, history, manual, faults>>

----------------------------------------------------------------------------
(* Specification *)

DeliveryLoop(p) ==
  FindCandidates(p) \/ SkipLimited(p) \/ (\E ok \in BOOLEAN : Send(p, ok))

DeliverQueuedEmail(p) ==
  /\ Delivering(p) /\ Local(p).of # None /\ message[Local(p).of].channel = "EMAIL"
  /\ DeliveryLoop(p) \/ FinalizeDeliveryLog(p)

DeliverQueuedSms(p) ==
  /\ Delivering(p) /\ Local(p).of # None /\ message[Local(p).of].channel = "SMS"
  /\ DeliveryLoop(p) \/ FinalizeDeliveryLog(p)

ExecuteRetry(p) ==
  /\ ~Delivering(p)
  /\ \/ ReadLog(p) \/ BlockRetry(p) \/ PassAbuse(p) \/ ClaimManually(p)
     \/ DeliveryLoop(p) \/ WriteRetry(p)

Continue(p) ==
  DeliverQueuedEmail(p) \/ DeliverQueuedSms(p) \/ Settle(p) \/ ExecuteRetry(p) \/ ReleaseAfterError(p)

ProcessDueRetries(w) == ListDue(w) \/ \E d \in Logs : ClaimDue(w, d)

Administrate == \E d \in Logs : CancelRetry(d) \/ \E a \in Requests : RetryDeliveryLogNow(a, d)

Background ==
  \/ \E p \in Processes : Continue(p) \/ Throw(p) \/ AuditThrows(p) \/ Crash(p)
  \/ \E w \in Workers : ProcessDueRetries(w) \/ ScanThrows(w) \/ \E m \in Messages : Reserve(w, m)
  \/ \E d \in Logs : RetryComesDue(d)

Next ==
  \/ \E p \in Requests, m \in Messages : DispatchEmail(p, m) \/ DispatchSms(p, m)
  \/ Administrate
  \/ Background

Spec == Init /\ [][Next]_vars

WorkersRun ==
  /\ \A p \in Processes : WF_vars(Continue(p))
  /\ \A w \in Workers : WF_vars(ProcessDueRetries(w)) /\ \A m \in Messages : WF_vars(Reserve(w, m))
  /\ \A d \in Logs : WF_vars(RetryComesDue(d))

FairSpec == Spec /\ WorkersRun

----------------------------------------------------------------------------
(* Properties *)

(* What p may send: the scan claims before executeRetry, an administrator   *)
(* in the middle of it. A scan that releases a row after a late error is    *)
(* done with it.                                                            *)
Holds(p, d) ==
  /\ Local(p).row = d
  /\ \/ Local(p).mode = "scan" /\ ~Local(p).late
     \/ Local(p).mode = "manual" /\ Local(p).at \notin {"read", "abuse", "claim"}

(* Two workers, or a worker and an administrator, never send one row at the *)
(* same time, however old the listing or the read a claim follows. Each     *)
(* process beyond the first is paid for by a late error: the catch of the   *)
(* scan looks at the status only, so it gives away what another has claimed *)
(* since the failed retry gave it back.                                     *)
ClaimsExclude ==
  \A d \in Logs : Cardinality({p \in Processes : Holds(p, d)}) <= 1 + late[d]

(* Nor one after the other: a provider accepts a retry of a row once, by    *)
(* whichever path, wherever an error strikes or a process dies, and once    *)
(* more for each late error, which gives back a row that was sent and is    *)
(* not yet marked so.                                                       *)
RowsAreResentOnce == \A d \in Logs : accepted[d] <= 1 + late[d]

(* What was sent or cancelled is never sent, scheduled or blocked again by  *)
(* a handler that saw it earlier, where no late error gave the row away.    *)
ClosedRowsStayClosed ==
  [][\A d \in Logs : log[d].status \in {"SENT", "CANCELLED"} /\ late[d] = 0
                      => log'[d].status = log[d].status]_vars

(* The claim of a process that died, of an administrator whose retry threw, *)
(* or of a scan whose release threw: nothing takes it back.                 *)
Abandoned(d) ==
  /\ log[d].status = "RETRYING" /\ ~ \E p \in Processes : Local(p).row = d
  /\ crashes > 0 \/ (manual > 0 /\ faults > 0) \/ faults > 1

(* A scheduled retry comes to an end: retries are counted, a failure or an  *)
(* error gives the row back, and the scan comes to every row; but a process *)
(* that dies leaves its row behind.                                         *)
ScheduledRetriesEnd ==
  \A d \in Logs :
    Scheduled(d) ~> \/ log[d].status \in {"SENT", "BLOCKED", "CANCELLED", "DEAD_LETTER"}
                    \/ Abandoned(d)

=============================================================================
