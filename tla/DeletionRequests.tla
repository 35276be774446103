-------------------------- MODULE DeletionRequests --------------------------
(***************************************************************************)
(* Account and data deletion requests: created by the account, by a public *)
(* form or by the provider's callback; reviewed, cancelled and retried;    *)
(* processed by the worker, by a status poll or by the callback.           *)
(*                                                                         *)
(* A handler is a slot p; handler[p].at names its next await.  Every       *)
(* review handler reads the row, checks its status and writes it back      *)
(* without looking again; only processing claims the row conditionally.    *)
(*                                                                         *)
(* Abstracted: hashes and confirmation codes (a row is known by its        *)
(* identifier), audit rows, and the fields erased; an e-mail address with  *)
(* an owner finds its account until the account is erased.  The provider   *)
(* of a data request is the same one throughout, or none.                  *)
(***************************************************************************)
EXTENDS FiniteSets, Naturals

CONSTANTS
  DeletionRequests,  \* identifiers of DeletionRequest rows
  Users,             \* accounts
  Emails,            \* addresses a request may name
  OwnerOf,           \* the account registered under an address, if any
  Handlers,          \* slots for HTTP handlers in flight
  Worker,            \* the deletion worker; where it is also the only
                     \* handler, handlers do not overlap
  BatchSize,         \* due requests a scan lists at most
  Faults,            \* whether a database call may throw
  Crashes,           \* whether a process may die between two awaits
  None               \* the SQL NULL

ASSUME ConstantsAssumption ==
  /\ OwnerOf \in [Emails -> Users \cup {None}]
  /\ BatchSize \in Nat \ {0} /\ Faults \in BOOLEAN /\ Crashes \in BOOLEAN
  /\ None \notin Users \cup Emails \cup DeletionRequests

VARIABLES
  request,       \* DeletionRequest rows
  handler,       \* handlers in flight, the worker among them
  batch,         \* due requests of the worker's last scan still to process
  erased,        \* accounts anonymised
  disconnected   \* accounts whose provider identity was removed

vars == <<request, handler, batch, erased, disconnected>>

Processes == Handlers \cup {Worker}

ActiveStatuses == {"PENDING_REVIEW", "SCHEDULED", "PROCESSING", "FAILED"}

Status == ActiveStatuses \cup {"unused", "COMPLETED", "CANCELLED", "REJECTED"}

Row ==
  [status   : Status,
   type     : {"ACCOUNT", "DATA"},
   user     : Users \cup {None},
   email    : Emails \cup {None},
   provider : BOOLEAN,                      \* names the identity provider
   grace    : {"none", "running", "over"}]  \* gracePeriodDeadlineAt and now

Awaits ==
  {"idle", "insert", "insert.callback", "process.read", "process.claim",
   "process.start", "process.run", "process.erase", "process.complete",
   "process.event", "process.fail", "cancel", "approve", "reject", "retry"}

NoRow == [status |-> "unused", type |-> "ACCOUNT", user |-> None, email |-> None,
          provider |-> FALSE, grace |-> "none"]

(* row: the request a handler works on; draft: the one it is to insert      *)
Handler == [at : Awaits, row : DeletionRequests \cup {None}, draft : Row]

Idle == [at |-> "idle", row |-> None, draft |-> NoRow]

TypeOK ==
  /\ request \in [DeletionRequests -> Row]
  /\ handler \in [Processes -> Handler]
  /\ batch \subseteq DeletionRequests
  /\ erased \subseteq Users
  /\ disconnected \subseteq Users

Init ==
  /\ request = [r \in DeletionRequests |-> NoRow]
  /\ handler = [p \in Processes |-> Idle]
  /\ batch = {}
  /\ erased = {}
  /\ disconnected = {}

----------------------------------------------------------------------------
(* Helpers *)

At(p, await) == handler[p].at = await

RowOf(p) == request[handler[p].row]

Goto(p, await) == handler' = [handler EXCEPT ![p].at = await]

Finish(p) == handler' = [handler EXCEPT ![p] = Idle]

Ready(p) == At(p, "idle") /\ (p = Worker => batch = {})

Begin(p, await, r) ==
  /\ At(p, "idle")
  /\ handler' = [handler EXCEPT ![p] = [Idle EXCEPT !.at = await, !.row = r]]

SetStatus(r, status) == request' = [request EXCEPT ![r].status = status]

Due(r) == request[r].status = "SCHEDULED" /\ request[r].grace = "over"

Cancellable(r) == request[r].status = "SCHEDULED" /\ request[r].grace = "running"

(* Erasing an account clears its address.                                   *)
UserByEmail(e) ==
  IF e = None \/ OwnerOf[e] \in erased THEN None ELSE OwnerOf[e]

(* A filter that is null does not constrain the search.                     *)
ActiveDuplicates(draft) ==
  {r \in DeletionRequests :
     /\ request[r].status \in ActiveStatuses
     /\ request[r].type = draft.type
     /\ draft.provider => request[r].provider
     /\ draft.user # None => request[r].user = draft.user
     /\ draft.email # None => request[r].email = draft.email}

Open(r) == request[r].status # "unused"

----------------------------------------------------------------------------
(* createDeletionRequest: look for an active duplicate, then insert         *)

CreateDeletionRequest(p, draft, insert, found) ==
  /\ handler' = [handler EXCEPT ![p] =
       [at |-> IF found = None THEN insert ELSE "process.read",
        row |-> found, draft |-> draft]]
  /\ UNCHANGED <<request, batch, erased, disconnected>>

(* A duplicate is answered with the existing request and nothing is written *)
RequestAuthenticatedAccountDeletion(p, u) ==
  LET draft == [NoRow EXCEPT !.status = "SCHEDULED", !.user = u, !.grace = "running"]
  IN /\ u \notin erased
     /\ ActiveDuplicates(draft) = {}
     /\ CreateDeletionRequest(p, draft, "insert", None)

RequestPublicDeletion(p, e, type, provider) ==
  LET draft == [NoRow EXCEPT !.status = "PENDING_REVIEW", !.type = type,
                             !.user = UserByEmail(e), !.email = e, !.provider = provider]
  IN /\ ActiveDuplicates(draft) = {}
     /\ CreateDeletionRequest(p, draft, "insert", None)

(* The provider names a user it knows, whose identity is still linked here  *)
(* or not, and perhaps an address; the request found or inserted is then    *)
(* processed without waiting.                                               *)
RequestMetaDeletion(p, u, e) ==
  LET draft == [NoRow EXCEPT !.status = "SCHEDULED", !.type = "DATA",
                             !.user = IF u # None THEN u ELSE UserByEmail(e),
                             !.email = e, !.provider = TRUE, !.grace = "over"]
  IN /\ u \notin erased \cup disconnected
     /\ \/ /\ ActiveDuplicates(draft) = {}
           /\ CreateDeletionRequest(p, draft, "insert.callback", None)
        \/ \E r \in ActiveDuplicates(draft) :
             CreateDeletionRequest(p, draft, "insert.callback", r)

InsertRequest(p) ==
  /\ At(p, "insert") \/ At(p, "insert.callback")
  /\ \E r \in DeletionRequests :
       /\ request[r].status = "unused"
       /\ request' = [request EXCEPT ![r] = handler[p].draft]
       /\ IF At(p, "insert")
            THEN Finish(p)
            ELSE handler' = [handler EXCEPT ![p].at = "process.read", ![p].row = r]
  /\ UNCHANGED <<batch, erased, disconnected>>

----------------------------------------------------------------------------
(* Review: the user, who may cancel within the grace period, and the        *)
(* administrator                                                            *)

CancelDeletionRequest(p, r) ==
  /\ Cancellable(r)
  /\ Begin(p, "cancel", r)
  /\ UNCHANGED <<request, batch, erased, disconnected>>

ApproveDeletionRequest(p, r) ==
  /\ request[r].status \in {"PENDING_REVIEW", "FAILED"}
  /\ Begin(p, "approve", r)
  /\ UNCHANGED <<request, batch, erased, disconnected>>

(* Variant: only a completed request counts as closed.                      *)
RejectUnlessCompleted(p, r) ==
  /\ Open(r) /\ request[r].status # "COMPLETED"
  /\ Begin(p, "reject", r)
  /\ UNCHANGED <<request, batch, erased, disconnected>>

RejectDeletionRequest(p, r) ==
  /\ Open(r) /\ request[r].status \notin {"COMPLETED", "CANCELLED"}
  /\ Begin(p, "reject", r)
  /\ UNCHANGED <<request, batch, erased, disconnected>>

RetryDeletionRequest(p, r) ==
  /\ request[r].status = "FAILED"
  /\ Begin(p, "retry", r)
  /\ UNCHANGED <<request, batch, erased, disconnected>>

(* The write each review handler makes, whatever the row has become         *)
CommitCancel(p) ==
  /\ At(p, "cancel")
  /\ SetStatus(handler[p].row, "CANCELLED")
  /\ Finish(p)
  /\ UNCHANGED <<batch, erased, disconnected>>

(* The waiting time starts anew.                                            *)
CommitApprove(p) ==
  /\ At(p, "approve")
  /\ request' = [request EXCEPT ![handler[p].row].status = "SCHEDULED",
                                ![handler[p].row].grace = "running"]
  /\ Finish(p)
  /\ UNCHANGED <<batch, erased, disconnected>>

CommitReject(p) ==
  /\ At(p, "reject")
  /\ SetStatus(handler[p].row, "REJECTED")
  /\ Finish(p)
  /\ UNCHANGED <<batch, erased, disconnected>>

(* A retry is due at once.                                                  *)
CommitRetry(p) ==
  /\ At(p, "retry")
  /\ request' = [request EXCEPT ![handler[p].row].status = "SCHEDULED",
                                ![handler[p].row].grace = "over"]
  /\ Finish(p)
  /\ UNCHANGED <<batch, erased, disconnected>>

----------------------------------------------------------------------------
(* Processing *)

(* Variant: any scheduled request is processed when its status is asked.    *)
GetStatusOfScheduled(p, r) ==
  /\ request[r].status = "SCHEDULED"
  /\ Begin(p, "process.read", r)
  /\ UNCHANGED <<request, batch, erased, disconnected>>

(* A status poll of a due request processes it.                             *)
GetDeletionStatus(p, r) ==
  /\ Due(r)
  /\ Begin(p, "process.read", r)
  /\ UNCHANGED <<request, batch, erased, disconnected>>

(* Of the due requests, the worker lists as many as a batch may hold (those *)
(* due for longest, which the model leaves open), and takes them one at a   *)
(* time.                                                                    *)
ScanDueRequests ==
  LET due == {r \in DeletionRequests : Due(r)}
  IN /\ Ready(Worker) /\ due # {}
     /\ batch' \in SUBSET due
     /\ \/ Cardinality(batch') = BatchSize
        \/ Cardinality(batch') < BatchSize /\ batch' = due
     /\ UNCHANGED <<request, handler, erased, disconnected>>

TakeFromBatch ==
  /\ \E r \in batch :
       /\ Begin(Worker, "process.read", r)
       /\ batch' = batch \ {r}
  /\ UNCHANGED <<request, erased, disconnected>>

ReadForProcessing(p) ==
  /\ At(p, "process.read")
  /\ IF RowOf(p).status \in {"COMPLETED", "CANCELLED", "REJECTED"}
       THEN Finish(p) ELSE Goto(p, "process.claim")
  /\ UNCHANGED <<request, batch, erased, disconnected>>

(* updateMany with the claimable statuses in its WHERE                      *)
Claim(p) ==
  /\ At(p, "process.claim")
  /\ IF RowOf(p).status \in {"SCHEDULED", "FAILED", "PENDING_REVIEW"}
       THEN SetStatus(handler[p].row, "PROCESSING") /\ Goto(p, "process.start")
       ELSE Finish(p) /\ UNCHANGED request
  /\ UNCHANGED <<batch, erased, disconnected>>

(* Re-reading the row and recording the start come before the try block: a  *)
(* throw there leaves the row as it is.                                     *)
StartProcessing(p) ==
  /\ At(p, "process.start")
  /\ Goto(p, "process.run") \/ (Faults /\ Finish(p))
  /\ UNCHANGED <<request, batch, erased, disconnected>>

(* Variant: the request is completed, then its data deleted.                *)
RunProcessingLate(p) ==
  /\ At(p, "process.run")
  /\ Goto(p, "process.complete")
  /\ UNCHANGED <<request, batch, erased, disconnected>>

(* The first step deletes the identities: of the account, with its sessions *)
(* and roles in one transaction, or of the provider.                        *)
RunProcessing(p) ==
  /\ At(p, "process.run")
  /\ LET row == RowOf(p)
     IN \/ /\ row.type = "ACCOUNT" \/ row.provider
           /\ disconnected' = disconnected \cup ({row.user} \ {None})
           /\ Goto(p, IF row.type = "ACCOUNT" /\ row.user # None
                      THEN "process.erase" ELSE "process.complete")
        \/ /\ Faults \/ (row.type = "DATA" /\ ~row.provider)
           /\ Goto(p, "process.fail")
           /\ UNCHANGED disconnected
  /\ UNCHANGED <<request, batch, erased>>

(* The second anonymises the account; the avatar and an event follow.       *)
EraseAccount(p) ==
  /\ At(p, "process.erase")
  /\ \/ /\ erased' = erased \cup {RowOf(p).user}
        /\ Goto(p, "process.complete") \/ (Faults /\ Goto(p, "process.fail"))
     \/ Faults /\ Goto(p, "process.fail") /\ UNCHANGED erased
  /\ UNCHANGED <<request, batch, disconnected>>

(* finalizeRequest writes the status, then an event; a throw in either      *)
(* reaches the catch block.                                                 *)
CompleteProcessing(p) ==
  /\ At(p, "process.complete")
  /\ \/ SetStatus(handler[p].row, "COMPLETED") /\ Goto(p, "process.event")
     \/ Faults /\ Goto(p, "process.fail") /\ UNCHANGED request
  /\ UNCHANGED <<batch, erased, disconnected>>

RecordCompletion(p) ==
  /\ At(p, "process.event")
  /\ Finish(p) \/ (Faults /\ Goto(p, "process.fail"))
  /\ UNCHANGED <<request, batch, erased, disconnected>>

(* Variant: the failed request stays claimed.                               *)
FailProcessingSilently(p) ==
  /\ At(p, "process.fail")
  /\ Finish(p)
  /\ UNCHANGED <<request, batch, erased, disconnected>>

FailProcessing(p) ==
  /\ At(p, "process.fail")
  /\ SetStatus(handler[p].row, "FAILED")
  /\ Finish(p)
  /\ UNCHANGED <<batch, erased, disconnected>>

----------------------------------------------------------------------------

(* The clock passes a deadline.                                             *)
GraceEnds(r) ==
  /\ request[r].grace = "running"
  /\ request' = [request EXCEPT ![r].grace = "over"]
  /\ UNCHANGED <<handler, batch, erased, disconnected>>

Crash(p) ==
  /\ Crashes /\ ~At(p, "idle")
  /\ Finish(p)
  /\ batch' = IF p = Worker THEN {} ELSE batch
  /\ UNCHANGED <<request, erased, disconnected>>

Review(p) ==
  \E r \in DeletionRequests :
    \/ CancelDeletionRequest(p, r) \/ ApproveDeletionRequest(p, r)
    \/ RejectDeletionRequest(p, r) \/ RetryDeletionRequest(p, r)
    \/ GetDeletionStatus(p, r)

(* BOUND: a request is made only while there is an identifier for each      *)
(* handler that is about to insert one.                                     *)
SpareRows ==
  Cardinality({r \in DeletionRequests : request[r].status = "unused"})
    > Cardinality({p \in Handlers : At(p, "insert") \/ At(p, "insert.callback")})

Ask(p) ==
  /\ SpareRows
  /\ \/ \E u \in Users : RequestAuthenticatedAccountDeletion(p, u)
     \/ \E e \in Emails, type \in {"ACCOUNT", "DATA"}, provider \in BOOLEAN :
          RequestPublicDeletion(p, e, type, provider)
     \/ \E u \in Users \cup {None}, e \in Emails \cup {None} : RequestMetaDeletion(p, u, e)

Continue(p) ==
  \/ InsertRequest(p)
  \/ CommitCancel(p) \/ CommitApprove(p) \/ CommitReject(p) \/ CommitRetry(p)
  \/ ReadForProcessing(p) \/ Claim(p)
  \/ StartProcessing(p) \/ RunProcessing(p) \/ EraseAccount(p)
  \/ CompleteProcessing(p) \/ RecordCompletion(p) \/ FailProcessing(p)

WorkerLoop == ScanDueRequests \/ TakeFromBatch

Next ==
  \/ \E p \in Handlers : Ready(p) /\ (Ask(p) \/ Review(p))
  \/ \E p \in Processes : Continue(p) \/ Crash(p)
  \/ WorkerLoop
  \/ \E r \in DeletionRequests : GraceEnds(r)

Spec == Init /\ [][Next]_vars

(* The worker scans forever; a handler's awaits settle; the clock runs.     *)
FairSpec ==
  /\ Spec
  /\ WF_vars(WorkerLoop)
  /\ \A p \in Processes : WF_vars(Continue(p))
  /\ \A r \in DeletionRequests : WF_vars(GraceEnds(r))

----------------------------------------------------------------------------
(* Properties *)

(* What a request that reads COMPLETED promised has been done, every step   *)
(* of it, whoever processed it, whatever failed on the way and whatever     *)
(* reviews ran against it.                                                  *)
CompletedMeansDeleted ==
  \A r \in DeletionRequests :
    request[r].status = "COMPLETED" /\ request[r].user # None =>
      /\ request[r].user \in disconnected
      /\ request[r].type = "ACCOUNT" => request[r].user \in erased

(* As long as handlers do not overlap, and wherever one of them dies or     *)
(* fails, a cancelled request is closed for good, and a completed one can   *)
(* only be marked FAILED (by finalizeRequest, when its event is lost).      *)
ClosedStaysClosed ==
  [][\A r \in DeletionRequests :
       /\ request[r].status = "CANCELLED" => request'[r].status = "CANCELLED"
       /\ request[r].status = "COMPLETED" => request'[r].status \in {"COMPLETED", "FAILED"}]_vars

(* As long as handlers do not overlap, an account is claimed for erasure    *)
(* only from a request that is scheduled and past its grace period: there   *)
(* is no way around the review and the waiting time.                        *)
AccountsWaitTheirGrace ==
  [][\A r \in DeletionRequests :
       request[r].type = "ACCOUNT" /\ request[r].status # "PROCESSING"
         /\ request'[r].status = "PROCESSING"
         => Due(r)]_vars

(* A request that is due is dealt with, unless a process dies or a database *)
(* call fails, even while reviews, polls and callbacks run against it.      *)
DueRequestsAreProcessed ==
  \A r \in DeletionRequests :
    Due(r) ~> request[r].status \notin {"SCHEDULED", "PROCESSING"}

=============================================================================
