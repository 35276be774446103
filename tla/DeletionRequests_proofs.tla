----------------------- MODULE DeletionRequests_proofs -----------------------
(***************************************************************************)
(* A completed request has been carried out, for any number of requests,   *)
(* accounts and handlers, whatever fails, dies or is reviewed meanwhile.   *)
(***************************************************************************)
EXTENDS DeletionRequests, TLAPS

Inserting == {"insert", "insert.callback"}

(* What a request asks for has been done to its account.                    *)
CarriedOut(r) ==
  request[r].user # None =>
    /\ request[r].user \in disconnected
    /\ request[r].type = "ACCOUNT" => request[r].user \in erased

(* What a handler remembers: the row it works on exists, what it is about   *)
(* to insert is not closed, and it completes only what it has carried out.  *)
Sound(x) ==
  /\ x.at \notin Inserting \cup {"idle"} => x.row \in DeletionRequests /\ Open(x.row)
  /\ x.at \in Inserting => x.draft.status \in {"SCHEDULED", "PENDING_REVIEW"}
  /\ x.at = "process.erase" => request[x.row].user \in disconnected
  /\ x.at = "process.complete" => CarriedOut(x.row)

HandlersAreSound == \A p \in Processes : Sound(handler[p])

BatchIsOpen == \A r \in batch : Open(r)

IInv == TypeOK /\ HandlersAreSound /\ BatchIsOpen /\ CompletedMeansDeleted

(* A step keeps what is known of a row: an existing one stays, for the same *)
(* account, and is completed only when it has been carried out.             *)
RowsAreKept ==
  /\ request' \in [DeletionRequests -> Row]
  /\ erased \subseteq erased' /\ erased' \subseteq Users
  /\ disconnected \subseteq disconnected' /\ disconnected' \subseteq Users
  /\ \A r \in DeletionRequests :
       /\ Open(r) => /\ Open(r)'
                     /\ request'[r].user = request[r].user
                     /\ request'[r].type = request[r].type
       /\ request'[r].status = "COMPLETED" => request[r].status = "COMPLETED" \/ CarriedOut(r)'

USE DEF Inserting

LEMMA IdleIsHandler == Idle \in Handler /\ NoRow \in Row
  BY DEF Idle, NoRow, Handler, Row, Awaits, Status, ActiveStatuses

LEMMA CarriedStaysCarried ==
  ASSUME RowsAreKept, NEW r \in DeletionRequests, Open(r), CarriedOut(r)
  PROVE  CarriedOut(r)'
  BY DEF RowsAreKept, CarriedOut

LEMMA SoundStaysSound ==
  ASSUME RowsAreKept, NEW x \in Handler, Sound(x)
  PROVE  Sound(x)'
  BY CarriedStaysCarried DEF RowsAreKept, Sound

LEMMA CompletedIsKept ==
  ASSUME IInv, RowsAreKept
  PROVE  CompletedMeansDeleted'
  <1>1. SUFFICES ASSUME NEW r \in DeletionRequests, request'[r].status = "COMPLETED"
                 PROVE  CarriedOut(r)'
    BY DEF CompletedMeansDeleted, CarriedOut
  <1>2. CASE request[r].status = "COMPLETED"
    BY <1>2, CarriedStaysCarried DEF IInv, CompletedMeansDeleted, CarriedOut, Open
  <1>3. QED
    BY <1>1, <1>2 DEF RowsAreKept

(* A step of one handler.                                                   *)
LEMMA HandlerStep ==
  ASSUME IInv, RowsAreKept, NEW p \in Processes, NEW x \in Handler, Sound(x)',
         handler' = [handler EXCEPT ![p] = x], batch' \subseteq batch
  PROVE  IInv'
  <1>1. TypeOK'
    BY DEF IInv, TypeOK, RowsAreKept
  <1>2. HandlersAreSound'
    <2>1. SUFFICES ASSUME NEW q \in Processes PROVE Sound(handler[q])'
      BY DEF HandlersAreSound
    <2>2. CASE q = p
      <3>1. handler'[q] = x
        BY <2>2 DEF IInv, TypeOK
      <3>2. QED
        BY <3>1 DEF Sound
    <2>3. CASE q # p
      <3>1. PICK y \in Handler : handler[q] = y /\ handler'[q] = y /\ Sound(y)
        BY <2>3 DEF IInv, TypeOK, HandlersAreSound
      <3>2. Sound(y)'
        BY <3>1, SoundStaysSound
      <3>3. QED
        BY <3>1, <3>2 DEF Sound
    <2>4. QED
      BY <2>2, <2>3
  <1>3. BatchIsOpen'
    BY DEF IInv, TypeOK, BatchIsOpen, RowsAreKept
  <1>4. QED
    BY <1>1, <1>2, <1>3, CompletedIsKept DEF IInv

(* A step that leaves the rows and the accounts alone.                      *)
LEMMA SameRowsAreKept ==
  ASSUME IInv, UNCHANGED <<request, erased, disconnected>>
  PROVE  RowsAreKept
  BY DEF IInv, TypeOK, RowsAreKept, Open

LEMMA ReadingStep ==
  ASSUME IInv, NEW p \in Processes, NEW x \in Handler, Sound(x),
         handler' = [handler EXCEPT ![p] = x], batch' \subseteq batch,
         UNCHANGED <<request, erased, disconnected>>
  PROVE  IInv'
  BY SameRowsAreKept, SoundStaysSound, HandlerStep

LEMMA StatusOfRow ==
  ASSUME NEW row \in Row, NEW status \in Status,
         NEW new, new = [row EXCEPT !.status = status]
  PROVE  new \in Row /\ new.status = status /\ new.user = row.user /\ new.type = row.type
  BY DEF Row

LEMMA GraceOfRow ==
  ASSUME NEW row \in Row, NEW grace \in {"none", "running", "over"},
         NEW new, new = [row EXCEPT !.grace = grace]
  PROVE  new \in Row /\ new.status = row.status /\ new.user = row.user /\ new.type = row.type
  BY DEF Row

(* A row gets a status, a deadline or both.                                 *)
LEMMA WritingStep ==
  ASSUME IInv, NEW p \in Processes, NEW x \in Handler,
         NEW r \in DeletionRequests, Open(r),
         NEW status \in Status \ {"unused"}, NEW grace \in {"none", "running", "over"},
         request' = [request EXCEPT ![r] = [request[r] EXCEPT !.status = status, !.grace = grace]],
         status = "COMPLETED" => CarriedOut(r),
         x.at = "idle" \/ (x.row = r /\ x.at \notin Inserting \cup {"process.erase", "process.complete"}),
         handler' = [handler EXCEPT ![p] = x],
         UNCHANGED <<batch, erased, disconnected>>
  PROVE  IInv'
  <1>1. request[r] \in Row /\ request'[r] = [request[r] EXCEPT !.status = status, !.grace = grace]
        /\ \A s \in DeletionRequests \ {r} : request'[s] = request[s]
    BY DEF IInv, TypeOK
  <1>2. request'[r] \in Row /\ request'[r].status = status
        /\ request'[r].user = request[r].user /\ request'[r].type = request[r].type
    <2>1. PICK old, new, later : /\ old = request[r]
                                 /\ new = [old EXCEPT !.status = status]
                                 /\ later = [new EXCEPT !.grace = grace]
      OBVIOUS
    <2>2. request'[r] = later /\ old \in Row
      BY <1>1, <2>1
    <2>3. new \in Row /\ new.status = status /\ new.user = old.user /\ new.type = old.type
      BY <2>1, <2>2, StatusOfRow
    <2>4. later \in Row /\ later.status = new.status /\ later.user = new.user
          /\ later.type = new.type
      BY <2>1, <2>3, GraceOfRow
    <2>5. QED
      BY <2>1, <2>2, <2>3, <2>4
  <1>3. request' \in [DeletionRequests -> Row]
    BY <1>2 DEF IInv, TypeOK
  <1>4. RowsAreKept
    BY <1>1, <1>2, <1>3 DEF RowsAreKept, IInv, TypeOK, Open, CarriedOut
  <1>5. Sound(x)'
    BY <1>2 DEF Sound, Open
  <1>6. QED
    BY <1>4, <1>5, HandlerStep
----------------------------------------------------------------------------
(* Requests *)

LEMMA CreateKeeps ==
  ASSUME IInv, NEW p \in Processes, NEW draft \in Row, NEW insert \in Inserting,
         NEW found \in DeletionRequests \cup {None},
         found # None => Open(found),
         draft.status \in {"SCHEDULED", "PENDING_REVIEW"},
         CreateDeletionRequest(p, draft, insert, found)
  PROVE  IInv'
  <1> DEFINE x == [at |-> IF found = None THEN insert ELSE "process.read",
                   row |-> found, draft |-> draft]
  <1>1. x \in Handler /\ Sound(x)
    BY ConstantsAssumption DEF Handler, Awaits, Sound
  <1>2. QED
    BY <1>1, ReadingStep DEF CreateDeletionRequest

LEMMA OwnerIsUser ==
  ASSUME NEW e \in Emails \cup {None}
  PROVE  UserByEmail(e) \in Users \cup {None}
  BY ConstantsAssumption DEF UserByEmail

LEMMA AskKeeps ==
  ASSUME IInv, NEW p \in Processes, Ask(p)
  PROVE  IInv'
  <1>0. None \notin DeletionRequests
    BY ConstantsAssumption
  <1>1. ASSUME NEW u \in Users, RequestAuthenticatedAccountDeletion(p, u)
        PROVE  IInv'
    <2> DEFINE draft == [NoRow EXCEPT !.status = "SCHEDULED", !.user = u, !.grace = "running"]
    <2>1. draft \in Row /\ draft.status = "SCHEDULED"
      BY DEF NoRow, Row, Status, ActiveStatuses
    <2>2. CreateDeletionRequest(p, draft, "insert", None)
      BY <1>1 DEF RequestAuthenticatedAccountDeletion
    <2>3. QED
      BY <2>1, <2>2, CreateKeeps
  <1>2. ASSUME NEW e \in Emails, NEW type \in {"ACCOUNT", "DATA"}, NEW provider \in BOOLEAN,
               RequestPublicDeletion(p, e, type, provider)
        PROVE  IInv'
    <2> DEFINE draft == [NoRow EXCEPT !.status = "PENDING_REVIEW", !.type = type,
                             !.user = UserByEmail(e), !.email = e, !.provider = provider]
    <2>1. draft \in Row /\ draft.status = "PENDING_REVIEW"
      BY OwnerIsUser DEF NoRow, Row, Status, ActiveStatuses
    <2>2. CreateDeletionRequest(p, draft, "insert", None)
      BY <1>2 DEF RequestPublicDeletion
    <2>3. QED
      BY <2>1, <2>2, CreateKeeps
  <1>3. ASSUME NEW u \in Users \cup {None}, NEW e \in Emails \cup {None},
               RequestMetaDeletion(p, u, e)
        PROVE  IInv'
    <2> DEFINE draft == [NoRow EXCEPT !.status = "SCHEDULED", !.type = "DATA",
                             !.user = IF u # None THEN u ELSE UserByEmail(e),
                             !.email = e, !.provider = TRUE, !.grace = "over"]
    <2>1. draft \in Row /\ draft.status = "SCHEDULED"
      BY OwnerIsUser DEF NoRow, Row, Status, ActiveStatuses
    <2>2. PICK found \in {None} \cup ActiveDuplicates(draft) :
            CreateDeletionRequest(p, draft, "insert.callback", found)
      BY <1>3 DEF RequestMetaDeletion
    <2>3. found \in DeletionRequests \cup {None} /\ (found # None => Open(found))
      BY DEF ActiveDuplicates, ActiveStatuses, Open
    <2>4. QED
      BY <2>1, <2>2, <2>3, CreateKeeps
  <1>4. QED
    BY <1>1, <1>2, <1>3 DEF Ask

LEMMA InsertKeeps ==
  ASSUME IInv, NEW p \in Processes, InsertRequest(p)
  PROVE  IInv'
  <1>1. PICK r \in DeletionRequests :
          /\ request[r].status = "unused"
          /\ request' = [request EXCEPT ![r] = handler[p].draft]
          /\ IF At(p, "insert")
               THEN Finish(p)
               ELSE handler' = [handler EXCEPT ![p].at = "process.read", ![p].row = r]
    BY DEF InsertRequest
  <1>2. /\ handler[p] \in Handler /\ handler[p].draft \in Row
        /\ handler[p].draft.status \in {"SCHEDULED", "PENDING_REVIEW"}
    BY DEF InsertRequest, At, IInv, TypeOK, HandlersAreSound, Sound, Handler
  <1>3. RowsAreKept
    BY <1>1, <1>2 DEF InsertRequest, RowsAreKept, IInv, TypeOK, Open
  <1>4. CASE At(p, "insert")
    <2>1. Sound(Idle)'
      BY DEF Sound, Idle
    <2>2. QED
      BY <1>1, <1>3, <1>4, <2>1, IdleIsHandler, HandlerStep DEF Finish, InsertRequest
  <1>5. CASE ~At(p, "insert")
    <2>1. PICK x \in Handler : /\ x = [handler[p] EXCEPT !.at = "process.read", !.row = r]
                               /\ handler' = [handler EXCEPT ![p] = x]
      BY <1>1, <1>2, <1>5 DEF Handler, Awaits, IInv, TypeOK
    <2>2. Sound(x)'
      <3>1. request'[r].status # "unused"
        BY <1>1, <1>2 DEF IInv, TypeOK
      <3>2. x.at = "process.read" /\ x.row = r
        BY <1>2, <2>1 DEF Handler
      <3>3. QED
        BY <3>1, <3>2 DEF Sound, Open
    <2>3. QED
      BY <1>3, <2>1, <2>2, HandlerStep DEF InsertRequest
  <1>6. QED
    BY <1>4, <1>5
----------------------------------------------------------------------------
(* Reviews *)

LEMMA BeginKeeps ==
  ASSUME IInv, NEW p \in Processes, NEW r \in DeletionRequests, Open(r),
         NEW await \in {"cancel", "approve", "reject", "retry", "process.read"},
         Begin(p, await, r), batch' \subseteq batch,
         UNCHANGED <<request, erased, disconnected>>
  PROVE  IInv'
  <1> DEFINE x == [Idle EXCEPT !.at = await, !.row = r]
  <1>1. x \in Handler /\ x.at = await /\ x.row = r
    BY IdleIsHandler DEF Handler, Awaits
  <1>2. Sound(x)
    BY <1>1 DEF Sound
  <1>3. QED
    BY <1>1, <1>2, ReadingStep DEF Begin

LEMMA ReviewKeeps ==
  ASSUME IInv, NEW p \in Processes, Review(p)
  PROVE  IInv'
  <1>1. PICK r \in DeletionRequests :
          \/ CancelDeletionRequest(p, r) \/ ApproveDeletionRequest(p, r)
          \/ RejectDeletionRequest(p, r) \/ RetryDeletionRequest(p, r)
          \/ GetDeletionStatus(p, r)
    BY DEF Review
  <1>2. CASE CancelDeletionRequest(p, r)
    BY <1>2, BeginKeeps DEF CancelDeletionRequest, Cancellable, Open
  <1>3. CASE ApproveDeletionRequest(p, r)
    BY <1>3, BeginKeeps DEF ApproveDeletionRequest, Open
  <1>4. CASE RejectDeletionRequest(p, r)
    BY <1>4, BeginKeeps DEF RejectDeletionRequest
  <1>5. CASE RetryDeletionRequest(p, r)
    BY <1>5, BeginKeeps DEF RetryDeletionRequest, Open
  <1>6. CASE GetDeletionStatus(p, r)
    BY <1>6, BeginKeeps DEF GetDeletionStatus, Due, Open
  <1>7. QED
    BY <1>1, <1>2, <1>3, <1>4, <1>5, <1>6

(* A handler past its check works on an existing row.                       *)
LEMMA WorkingHandler ==
  ASSUME IInv, NEW p \in Processes, handler[p].at \notin Inserting \cup {"idle"}
  PROVE  /\ handler[p] \in Handler
         /\ handler[p].row \in DeletionRequests
         /\ Open(handler[p].row)
         /\ request[handler[p].row] \in Row
  BY DEF IInv, TypeOK, HandlersAreSound, Sound

(* The write of a review, and of a failure: the handler ends with it.       *)
LEMMA CommitKeeps ==
  ASSUME IInv, NEW p \in Processes, handler[p].at \notin Inserting \cup {"idle"},
         NEW status \in {"CANCELLED", "SCHEDULED", "REJECTED", "FAILED"},
         NEW grace \in {"none", "running", "over"},
         request' = [request EXCEPT ![handler[p].row] =
                       [request[handler[p].row] EXCEPT !.status = status, !.grace = grace]],
         Finish(p), UNCHANGED <<batch, erased, disconnected>>
  PROVE  IInv'
  <1>1. status \in Status \ {"unused"} /\ status # "COMPLETED"
    BY DEF Status, ActiveStatuses
  <1>2. Idle \in Handler /\ Idle.at = "idle"
    BY IdleIsHandler DEF Idle
  <1>3. QED
    BY <1>1, <1>2, WorkingHandler, WritingStep DEF Finish

LEMMA StatusIsARow ==
  ASSUME IInv, NEW r \in DeletionRequests, NEW status, SetStatus(r, status)
  PROVE  /\ request[r].grace \in {"none", "running", "over"}
         /\ request' = [request EXCEPT ![r] =
              [request[r] EXCEPT !.status = status, !.grace = request[r].grace]]
  <1>1. request[r] \in Row
    BY DEF IInv, TypeOK
  <1>2. [request[r] EXCEPT !.status = status, !.grace = request[r].grace]
          = [request[r] EXCEPT !.status = status]
    BY <1>1 DEF Row
  <1>3. QED
    BY <1>1, <1>2 DEF SetStatus, Row

LEMMA StatusCommitKeeps ==
  ASSUME IInv, NEW p \in Processes, handler[p].at \notin Inserting \cup {"idle"},
         NEW status \in {"CANCELLED", "SCHEDULED", "REJECTED", "FAILED"},
         SetStatus(handler[p].row, status),
         Finish(p), UNCHANGED <<batch, erased, disconnected>>
  PROVE  IInv'
  <1>1. PICK r \in DeletionRequests : r = handler[p].row
    BY WorkingHandler
  <1>2. /\ request[r].grace \in {"none", "running", "over"}
        /\ request' = [request EXCEPT ![r] =
             [request[r] EXCEPT !.status = status, !.grace = request[r].grace]]
    BY <1>1, StatusIsARow
  <1>3. QED
    BY <1>1, <1>2, CommitKeeps

LEMMA CommitsKeep ==
  ASSUME IInv, NEW p \in Processes,
         CommitCancel(p) \/ CommitApprove(p) \/ CommitReject(p) \/ CommitRetry(p)
           \/ FailProcessing(p)
  PROVE  IInv'
  <1>1. CASE CommitCancel(p)
    BY <1>1, StatusCommitKeeps DEF CommitCancel, At
  <1>2. CASE CommitApprove(p)
    BY <1>2, CommitKeeps DEF CommitApprove, At
  <1>3. CASE CommitReject(p)
    BY <1>3, StatusCommitKeeps DEF CommitReject, At
  <1>4. CASE CommitRetry(p)
    BY <1>4, CommitKeeps DEF CommitRetry, At
  <1>5. CASE FailProcessing(p)
    BY <1>5, StatusCommitKeeps DEF FailProcessing, At
  <1>6. QED
    BY <1>1, <1>2, <1>3, <1>4, <1>5
----------------------------------------------------------------------------
(* Processing *)

LEMMA FinishKeeps ==
  ASSUME IInv, NEW p \in Processes, Finish(p), batch' \subseteq batch,
         UNCHANGED <<request, erased, disconnected>>
  PROVE  IInv'
  <1>1. Sound(Idle)
    BY DEF Sound, Idle
  <1>2. QED
    BY <1>1, IdleIsHandler, ReadingStep DEF Finish

(* A handler goes on with its row; only what was carried out is completed.  *)
LEMMA GotoIsAHandler ==
  ASSUME IInv, NEW p \in Processes, handler[p].at \notin Inserting \cup {"idle"},
         NEW await \in {"process.claim", "process.start", "process.run",
                        "process.erase", "process.complete", "process.event",
                        "process.fail"},
         Goto(p, await)
  PROVE  \E x \in Handler : /\ handler' = [handler EXCEPT ![p] = x]
                            /\ x.row = handler[p].row /\ x.at = await
  <1> DEFINE x == [handler[p] EXCEPT !.at = await]
  <1>1. x \in Handler /\ x.row = handler[p].row /\ x.at = await
    BY WorkingHandler DEF Handler, Awaits
  <1>2. handler' = [handler EXCEPT ![p] = x]
    BY DEF Goto, IInv, TypeOK
  <1>3. QED
    BY <1>1, <1>2

LEMMA GotoKeeps ==
  ASSUME IInv, NEW p \in Processes, handler[p].at \notin Inserting \cup {"idle"},
         NEW await \in {"process.claim", "process.start", "process.run",
                        "process.event", "process.fail"},
         Goto(p, await), UNCHANGED <<request, batch, erased, disconnected>>
  PROVE  IInv'
  <1>1. PICK x \in Handler : /\ handler' = [handler EXCEPT ![p] = x]
                             /\ x.row = handler[p].row /\ x.at = await
    BY GotoIsAHandler
  <1>2. Sound(x)
    BY <1>1, WorkingHandler DEF Sound
  <1>3. QED
    BY <1>1, <1>2, ReadingStep

LEMMA StatusStep ==
  ASSUME IInv, NEW p \in Processes, handler[p].at \notin Inserting \cup {"idle"},
         NEW status \in Status \ {"unused"}, SetStatus(handler[p].row, status),
         status = "COMPLETED" => CarriedOut(handler[p].row),
         NEW x \in Handler, handler' = [handler EXCEPT ![p] = x],
         x.row = handler[p].row, x.at \in {"process.start", "process.event"},
         UNCHANGED <<batch, erased, disconnected>>
  PROVE  IInv'
  <1>1. PICK r \in DeletionRequests : r = handler[p].row /\ Open(r)
    BY WorkingHandler
  <1>2. PICK grace \in {"none", "running", "over"} :
          request' = [request EXCEPT ![r] =
             [request[r] EXCEPT !.status = status, !.grace = grace]]
    BY <1>1, StatusIsARow
  <1>3. QED
    BY <1>1, <1>2, WritingStep

LEMMA ClaimKeeps ==
  ASSUME IInv, NEW p \in Processes, Claim(p)
  PROVE  IInv'
  <1>1. handler[p].at = "process.claim"
    BY DEF Claim, At
  <1>2. CASE Finish(p) /\ UNCHANGED request
    BY <1>2, FinishKeeps DEF Claim
  <1>3. CASE SetStatus(handler[p].row, "PROCESSING") /\ Goto(p, "process.start")
    <2>1. PICK x \in Handler : /\ handler' = [handler EXCEPT ![p] = x]
                               /\ x.row = handler[p].row /\ x.at = "process.start"
      BY <1>1, <1>3, GotoIsAHandler
    <2>2. "PROCESSING" \in Status \ {"unused"}
      BY DEF Status, ActiveStatuses
    <2>3. QED
      BY <1>1, <1>3, <2>1, <2>2, StatusStep DEF Claim
  <1>4. QED
    BY <1>2, <1>3 DEF Claim

LEMMA RunKeeps ==
  ASSUME IInv, NEW p \in Processes, RunProcessing(p)
  PROVE  IInv'
  <1> DEFINE r == handler[p].row
             next == IF request[r].type = "ACCOUNT" /\ request[r].user # None
                     THEN "process.erase" ELSE "process.complete"
  <1>1. /\ handler[p].at = "process.run" /\ UNCHANGED <<request, batch, erased>>
        /\ r \in DeletionRequests /\ Open(r) /\ request[r] \in Row
    BY WorkingHandler DEF RunProcessing, At
  <1>2. CASE Goto(p, "process.fail") /\ UNCHANGED disconnected
    BY <1>1, <1>2, GotoKeeps
  <1>3. CASE /\ disconnected' = disconnected \cup ({request[r].user} \ {None})
             /\ Goto(p, next)
    <2>1. PICK x \in Handler : /\ handler' = [handler EXCEPT ![p] = x]
                               /\ x.row = r /\ x.at = next
      BY <1>1, <1>3, GotoIsAHandler
    <2>2. request[r].user \in Users \cup {None}
      BY <1>1 DEF Row
    <2>3. RowsAreKept
      BY <1>1, <1>3, <2>2 DEF RowsAreKept, IInv, TypeOK, Open
    <2>4. Sound(x)'
      BY <1>1, <1>3, <2>1 DEF Sound, CarriedOut, Open
    <2>5. QED
      BY <1>1, <2>1, <2>3, <2>4, HandlerStep
  <1>4. QED
    BY <1>2, <1>3 DEF RunProcessing, RowOf

LEMMA EraseKeeps ==
  ASSUME IInv, NEW p \in Processes, EraseAccount(p)
  PROVE  IInv'
  <1> DEFINE r == handler[p].row
  <1>1. /\ handler[p].at = "process.erase" /\ UNCHANGED <<request, batch, disconnected>>
        /\ r \in DeletionRequests /\ Open(r) /\ request[r] \in Row
    BY WorkingHandler DEF EraseAccount, At
  <1>2. CASE Goto(p, "process.fail") /\ UNCHANGED erased
    BY <1>1, <1>2, GotoKeeps
  <1>3. CASE /\ erased' = erased \cup {request[r].user}
             /\ Goto(p, "process.complete") \/ Goto(p, "process.fail")
    <2>1. PICK x \in Handler : /\ handler' = [handler EXCEPT ![p] = x] /\ x.row = r
                               /\ x.at \in {"process.complete", "process.fail"}
      BY <1>1, <1>3, GotoIsAHandler
    <2>2. request[r].user \in Users /\ request[r].user \in disconnected
      BY <1>1 DEF IInv, TypeOK, HandlersAreSound, Sound
    <2>3. RowsAreKept
      BY <1>1, <1>3, <2>2 DEF RowsAreKept, IInv, TypeOK, Open
    <2>4. Sound(x)'
      BY <1>1, <1>3, <2>1, <2>2 DEF Sound, CarriedOut, Open
    <2>5. QED
      BY <1>1, <2>1, <2>3, <2>4, HandlerStep
  <1>4. QED
    BY <1>2, <1>3 DEF EraseAccount, RowOf

LEMMA CompleteKeeps ==
  ASSUME IInv, NEW p \in Processes, CompleteProcessing(p)
  PROVE  IInv'
  <1>1. handler[p].at = "process.complete"
    BY DEF CompleteProcessing, At
  <1>2. CASE Goto(p, "process.fail") /\ UNCHANGED request
    BY <1>1, <1>2, GotoKeeps DEF CompleteProcessing
  <1>3. CASE SetStatus(handler[p].row, "COMPLETED") /\ Goto(p, "process.event")
    <2>1. PICK x \in Handler : /\ handler' = [handler EXCEPT ![p] = x]
                               /\ x.row = handler[p].row /\ x.at = "process.event"
      BY <1>1, <1>3, GotoIsAHandler
    <2>2. "COMPLETED" \in Status \ {"unused"}
      BY DEF Status
    <2>3. CarriedOut(handler[p].row)
      BY <1>1 DEF IInv, HandlersAreSound, Sound
    <2>4. QED
      BY <1>1, <1>3, <2>1, <2>2, <2>3, StatusStep DEF CompleteProcessing
  <1>4. QED
    BY <1>2, <1>3 DEF CompleteProcessing

LEMMA ContinueKeeps ==
  ASSUME IInv, NEW p \in Processes, Continue(p)
  PROVE  IInv'
  <1>1. CASE ReadForProcessing(p)
    BY <1>1, FinishKeeps, GotoKeeps DEF ReadForProcessing, At
  <1>2. CASE StartProcessing(p)
    BY <1>2, FinishKeeps, GotoKeeps DEF StartProcessing, At
  <1>3. CASE RecordCompletion(p)
    BY <1>3, FinishKeeps, GotoKeeps DEF RecordCompletion, At
  <1>4. QED
    BY <1>1, <1>2, <1>3, InsertKeeps, CommitsKeep, ClaimKeeps, RunKeeps, EraseKeeps, CompleteKeeps
    DEF Continue
----------------------------------------------------------------------------
(* The worker, the clock and deaths *)

LEMMA WorkerKeeps ==
  ASSUME IInv, WorkerLoop
  PROVE  IInv'
  <1>1. CASE ScanDueRequests
    <2>1. batch' \subseteq DeletionRequests /\ \A r \in batch' : Open(r)
      BY <1>1 DEF ScanDueRequests, Due, Open
    <2>2. QED
      BY <1>1, <2>1 DEF ScanDueRequests, IInv, TypeOK, HandlersAreSound, Sound, CarriedOut,
        BatchIsOpen, CompletedMeansDeleted, Open
  <1>2. CASE TakeFromBatch
    <2>1. PICK r \in batch : Begin(Worker, "process.read", r) /\ batch' = batch \ {r}
      BY <1>2 DEF TakeFromBatch
    <2>2. r \in DeletionRequests /\ Open(r) /\ Worker \in Processes
      BY DEF IInv, TypeOK, BatchIsOpen, Processes
    <2>3. QED
      BY <1>2, <2>1, <2>2, BeginKeeps DEF TakeFromBatch
  <1>3. QED
    BY <1>1, <1>2 DEF WorkerLoop

LEMMA GraceKeeps ==
  ASSUME IInv, NEW r \in DeletionRequests, GraceEnds(r)
  PROVE  IInv'
  <1>1. request[r] \in Row /\ request'[r] = [request[r] EXCEPT !.grace = "over"]
        /\ \A s \in DeletionRequests \ {r} : request'[s] = request[s]
    BY DEF GraceEnds, IInv, TypeOK
  <1>2. request'[r] \in Row /\ request'[r].status = request[r].status
        /\ request'[r].user = request[r].user /\ request'[r].type = request[r].type
    BY <1>1 DEF Row
  <1>3. RowsAreKept
    BY <1>1, <1>2 DEF GraceEnds, RowsAreKept, IInv, TypeOK, Open
  <1>4. HandlersAreSound'
    BY <1>3, SoundStaysSound DEF GraceEnds, IInv, TypeOK, HandlersAreSound
  <1>5. QED
    BY <1>3, <1>4, CompletedIsKept DEF GraceEnds, RowsAreKept, IInv, TypeOK, BatchIsOpen

LEMMA CrashKeeps ==
  ASSUME IInv, NEW p \in Processes, Crash(p)
  PROVE  IInv'
  BY FinishKeeps DEF Crash

LEMMA StutterKeeps ==
  ASSUME IInv, UNCHANGED vars
  PROVE  IInv'
  BY DEF vars, IInv, TypeOK, HandlersAreSound, Sound, CarriedOut, BatchIsOpen,
    CompletedMeansDeleted, Open

LEMMA InvInitially == Init => IInv
  BY IdleIsHandler DEF Init, IInv, TypeOK, HandlersAreSound, Sound, BatchIsOpen,
    CompletedMeansDeleted, Idle, NoRow

LEMMA InvPreserved == IInv /\ [Next]_vars => IInv'
  <1>1. SUFFICES ASSUME IInv, [Next]_vars PROVE IInv'
    OBVIOUS
  <1>2. ASSUME NEW p \in Handlers, Ask(p) \/ Review(p) PROVE IInv'
    BY <1>1, <1>2, AskKeeps, ReviewKeeps DEF Processes
  <1>3. ASSUME NEW p \in Processes, Continue(p) \/ Crash(p) PROVE IInv'
    BY <1>1, <1>3, ContinueKeeps, CrashKeeps
  <1>4. QED
    BY <1>1, <1>2, <1>3, WorkerKeeps, GraceKeeps, StutterKeeps DEF Next

LEMMA InvAlways == Spec => []IInv
  BY InvInitially, InvPreserved, PTL DEF Spec
----------------------------------------------------------------------------
(* Handlers that do not overlap: the worker's slot is the only one.  What   *)
(* it found when it checked a row is still true when it writes, and what it *)
(* listed is still due.                                                     *)

Serial == Handlers \subseteq {Worker}

StatusIsKnown(x) ==
  /\ x.at = "idle" => x.row = None
  /\ x.at = "cancel" => request[x.row].status = "SCHEDULED"
  /\ x.at = "approve" => request[x.row].status \in {"PENDING_REVIEW", "FAILED"}
  /\ x.at = "reject" => request[x.row].status \notin {"COMPLETED", "CANCELLED"}
  /\ x.at = "retry" => request[x.row].status = "FAILED"
  /\ x.at \in {"process.read", "process.claim"} /\ request[x.row].type = "ACCOUNT" => Due(x.row)
  /\ x.at \in {"process.start", "process.run", "process.erase", "process.complete"} =>
       request[x.row].status = "PROCESSING"
  /\ x.at = "process.event" => request[x.row].status = "COMPLETED"
  /\ x.at = "process.fail" => request[x.row].status \in {"PROCESSING", "COMPLETED"}
  /\ x.at = "insert.callback" => x.draft.type = "DATA"

SerialPart ==
  /\ \A r \in batch : Due(r)
  /\ StatusIsKnown(handler[Worker])
  /\ handler[Worker].row \notin batch

SerialInv == IInv /\ SerialPart

(* The two action properties, for one step.                                 *)
ClosedStep ==
  \A r \in DeletionRequests :
    /\ request[r].status = "CANCELLED" => request'[r].status = "CANCELLED"
    /\ request[r].status = "COMPLETED" => request'[r].status \in {"COMPLETED", "FAILED"}

GraceStep ==
  \A r \in DeletionRequests :
    request[r].type = "ACCOUNT" /\ request[r].status # "PROCESSING"
      /\ request'[r].status = "PROCESSING"
      => Due(r)

SerialGoal == SerialPart' /\ ClosedStep /\ GraceStep

LEMMA WorkersSlot ==
  ASSUME IInv
  PROVE  /\ Worker \in Processes /\ handler[Worker] \in Handler
         /\ \A x : handler' = [handler EXCEPT ![Worker] = x] => handler'[Worker] = x
  BY DEF IInv, TypeOK, Processes

LEMMA IdleKnowsNothing ==
  /\ Idle.row \notin DeletionRequests /\ Idle \in Handler
  /\ StatusIsKnown(Idle)
  /\ StatusIsKnown(Idle)'
  BY ConstantsAssumption, IdleIsHandler DEF Idle, StatusIsKnown

LEMMA QuietStep ==
  ASSUME SerialInv, NEW x, handler' = [handler EXCEPT ![Worker] = x], StatusIsKnown(x),
         x.row \notin batch', batch' \subseteq batch, UNCHANGED request
  PROVE  SerialGoal
  <1>1. handler'[Worker] = x
    BY WorkersSlot DEF SerialInv
  <1>2. StatusIsKnown(handler[Worker])'
    BY <1>1 DEF StatusIsKnown, Due
  <1>3. QED
    BY <1>1, <1>2 DEF SerialInv, SerialPart, SerialGoal, ClosedStep, GraceStep, Due

LEMMA RowStep ==
  ASSUME SerialInv, NEW r \in DeletionRequests, r \notin batch,
         NEW x, handler' = [handler EXCEPT ![Worker] = x], StatusIsKnown(x)',
         x.row \notin batch, batch' = batch,
         \A s \in DeletionRequests \ {r} : request'[s] = request[s],
         request[r].status = "CANCELLED" => request'[r].status = "CANCELLED",
         request[r].status = "COMPLETED" => request'[r].status \in {"COMPLETED", "FAILED"},
         \/ request'[r].status # "PROCESSING"
         \/ request[r].type = "DATA"
         \/ Due(r)
  PROVE  SerialGoal
  <1>1. handler'[Worker] = x
    BY WorkersSlot DEF SerialInv
  <1>2. StatusIsKnown(handler[Worker])'
    BY <1>1 DEF StatusIsKnown, Due
  <1>3. \A s \in batch' : Due(s)'
    BY DEF SerialInv, SerialPart, IInv, TypeOK, Due
  <1>4. ClosedStep /\ GraceStep
    BY DEF ClosedStep, GraceStep
  <1>5. QED
    BY <1>1, <1>2, <1>3, <1>4 DEF SerialGoal, SerialPart

LEMMA SerialFinish ==
  ASSUME SerialInv, Finish(Worker), batch' \subseteq batch, UNCHANGED request
  PROVE  SerialGoal
  <1>1. batch' \subseteq DeletionRequests
    BY DEF SerialInv, IInv, TypeOK
  <1>2. QED
    BY <1>1, IdleKnowsNothing, QuietStep DEF Finish

LEMMA SerialBegin ==
  ASSUME SerialInv, NEW r \in DeletionRequests,
         NEW await \in {"cancel", "approve", "reject", "retry", "process.read"},
         Begin(Worker, await, r), StatusIsKnown([Idle EXCEPT !.at = await, !.row = r]),
         batch' \subseteq batch, r \notin batch', UNCHANGED request
  PROVE  SerialGoal
  <1>1. PICK x : x = [Idle EXCEPT !.at = await, !.row = r]
    OBVIOUS
  <1>2. x.row = r
    BY <1>1 DEF Idle
  <1>3. QED
    BY <1>1, <1>2, QuietStep DEF Begin

LEMMA SerialReview ==
  ASSUME SerialInv, batch = {}, Review(Worker)
  PROVE  SerialGoal
  <1>1. PICK r \in DeletionRequests :
          \/ CancelDeletionRequest(Worker, r) \/ ApproveDeletionRequest(Worker, r)
          \/ RejectDeletionRequest(Worker, r) \/ RetryDeletionRequest(Worker, r)
          \/ GetDeletionStatus(Worker, r)
    BY DEF Review
  <1>2. CASE CancelDeletionRequest(Worker, r)
    <2>1. StatusIsKnown([Idle EXCEPT !.at = "cancel", !.row = r])
      BY <1>2 DEF CancelDeletionRequest, Cancellable, StatusIsKnown, Idle
    <2>2. QED
      BY <1>2, <2>1, SerialBegin DEF CancelDeletionRequest
  <1>3. CASE ApproveDeletionRequest(Worker, r)
    <2>1. StatusIsKnown([Idle EXCEPT !.at = "approve", !.row = r])
      BY <1>3 DEF ApproveDeletionRequest, StatusIsKnown, Idle
    <2>2. QED
      BY <1>3, <2>1, SerialBegin DEF ApproveDeletionRequest
  <1>4. CASE RejectDeletionRequest(Worker, r)
    <2>1. StatusIsKnown([Idle EXCEPT !.at = "reject", !.row = r])
      BY <1>4 DEF RejectDeletionRequest, StatusIsKnown, Idle
    <2>2. QED
      BY <1>4, <2>1, SerialBegin DEF RejectDeletionRequest
  <1>5. CASE RetryDeletionRequest(Worker, r)
    <2>1. StatusIsKnown([Idle EXCEPT !.at = "retry", !.row = r])
      BY <1>5 DEF RetryDeletionRequest, StatusIsKnown, Idle
    <2>2. QED
      BY <1>5, <2>1, SerialBegin DEF RetryDeletionRequest
  <1>6. CASE GetDeletionStatus(Worker, r)
    <2>1. StatusIsKnown([Idle EXCEPT !.at = "process.read", !.row = r])
      BY <1>6 DEF GetDeletionStatus, StatusIsKnown, Idle
    <2>2. QED
      BY <1>6, <2>1, SerialBegin DEF GetDeletionStatus
  <1>7. QED
    BY <1>1, <1>2, <1>3, <1>4, <1>5, <1>6

LEMMA SerialAsk ==
  ASSUME SerialInv, batch = {}, Ask(Worker)
  PROVE  SerialGoal
  <1>1. PICK draft, insert, found :
          /\ CreateDeletionRequest(Worker, draft, insert, found)
          /\ \/ insert = "insert" /\ found = None
             \/ insert = "insert.callback" /\ draft.type = "DATA"
                /\ (found # None => request[found].type = "DATA")
    <2>1. ASSUME NEW u \in Users, RequestAuthenticatedAccountDeletion(Worker, u)
          PROVE  \E draft : CreateDeletionRequest(Worker, draft, "insert", None)
      BY <2>1 DEF RequestAuthenticatedAccountDeletion
    <2>2. ASSUME NEW e \in Emails, NEW type \in {"ACCOUNT", "DATA"}, NEW provider \in BOOLEAN,
                 RequestPublicDeletion(Worker, e, type, provider)
          PROVE  \E draft : CreateDeletionRequest(Worker, draft, "insert", None)
      BY <2>2 DEF RequestPublicDeletion
    <2>3. ASSUME NEW u \in Users \cup {None}, NEW e \in Emails \cup {None},
                 RequestMetaDeletion(Worker, u, e)
          PROVE  \E draft, found :
                   /\ CreateDeletionRequest(Worker, draft, "insert.callback", found)
                   /\ draft.type = "DATA"
                   /\ found # None => request[found].type = "DATA"
      <3>1. PICK draft : /\ draft = [NoRow EXCEPT !.status = "SCHEDULED", !.type = "DATA",
                             !.user = IF u # None THEN u ELSE UserByEmail(e),
                             !.email = e, !.provider = TRUE, !.grace = "over"]
        OBVIOUS
      <3>2. draft.type = "DATA"
        BY <3>1 DEF NoRow
      <3>3. \/ CreateDeletionRequest(Worker, draft, "insert.callback", None)
            \/ \E r \in ActiveDuplicates(draft) :
                 CreateDeletionRequest(Worker, draft, "insert.callback", r)
        BY <2>3, <3>1 DEF RequestMetaDeletion
      <3>4. \A r \in ActiveDuplicates(draft) : request[r].type = "DATA"
        BY <3>2 DEF ActiveDuplicates
      <3>5. QED
        BY <3>2, <3>3, <3>4
    <2>4. QED
      BY <2>1, <2>2, <2>3 DEF Ask
  <1>2. PICK x : x = [at |-> IF found = None THEN insert ELSE "process.read",
                      row |-> found, draft |-> draft]
    OBVIOUS
  <1>3. StatusIsKnown(x)
    BY <1>1, <1>2 DEF StatusIsKnown
  <1>4. QED
    BY <1>1, <1>2, <1>3, QuietStep DEF CreateDeletionRequest

LEMMA SerialInsert ==
  ASSUME SerialInv, InsertRequest(Worker)
  PROVE  SerialGoal
  <1>1. PICK r \in DeletionRequests :
          /\ request[r].status = "unused"
          /\ request' = [request EXCEPT ![r] = handler[Worker].draft]
          /\ IF At(Worker, "insert")
               THEN Finish(Worker)
               ELSE handler' = [handler EXCEPT ![Worker].at = "process.read", ![Worker].row = r]
    BY DEF InsertRequest
  <1>2. PICK x : /\ handler' = [handler EXCEPT ![Worker] = x]
                 /\ \/ x = Idle
                    \/ /\ x = [handler[Worker] EXCEPT !.at = "process.read", !.row = r]
                       /\ handler[Worker].at = "insert.callback"
    BY <1>1, WorkersSlot DEF InsertRequest, At, Finish, SerialInv, IInv, TypeOK
  <1>3. r \notin batch
    BY <1>1 DEF SerialInv, SerialPart, Due
  <1>4. request'[r] = handler[Worker].draft
        /\ \A s \in DeletionRequests \ {r} : request'[s] = request[s]
    BY <1>1 DEF SerialInv, IInv, TypeOK
  <1>5. request'[r].status \in {"SCHEDULED", "PENDING_REVIEW"}
    BY <1>4, WorkersSlot DEF InsertRequest, At, SerialInv, IInv, HandlersAreSound, Sound
  <1>6. StatusIsKnown(x)' /\ x.row \notin batch
    <2>1. CASE x = Idle
      BY <2>1, IdleKnowsNothing DEF SerialInv, IInv, TypeOK
    <2>2. CASE /\ x = [handler[Worker] EXCEPT !.at = "process.read", !.row = r]
               /\ handler[Worker].at = "insert.callback"
      <3>1. x.at = "process.read" /\ x.row = r
        BY <2>2, WorkersSlot DEF Handler, SerialInv
      <3>2. request'[r].type = "DATA"
        BY <1>4, <2>2 DEF SerialInv, SerialPart, StatusIsKnown
      <3>3. QED
        BY <1>3, <3>1, <3>2 DEF StatusIsKnown
    <2>3. QED
      BY <1>2, <2>1, <2>2
  <1>7. QED
    BY <1>1, <1>2, <1>3, <1>4, <1>5, <1>6, RowStep DEF InsertRequest

(* A write of the handler to its row.                                       *)
LEMMA SerialWrite ==
  ASSUME SerialInv, handler[Worker].at \notin Inserting \cup {"idle"},
         NEW status,
         \/ SetStatus(handler[Worker].row, status)
         \/ \E grace : request' = [request EXCEPT ![handler[Worker].row].status = status,
                                                  ![handler[Worker].row].grace = grace]
  PROVE  /\ handler[Worker].row \in DeletionRequests
         /\ handler[Worker].row \notin batch
         /\ \A s \in DeletionRequests \ {handler[Worker].row} : request'[s] = request[s]
         /\ request'[handler[Worker].row].status = status
  <1>1. PICK r \in DeletionRequests : r = handler[Worker].row /\ request[r] \in Row
    BY WorkingHandler, WorkersSlot DEF SerialInv
  <1>2. r \notin batch
    BY <1>1 DEF SerialInv, SerialPart
  <1>3. CASE SetStatus(r, status)
    BY <1>1, <1>2, <1>3 DEF SetStatus, SerialInv, IInv, TypeOK, Row
  <1>4. CASE \E grace : request' = [request EXCEPT ![r].status = status, ![r].grace = grace]
    <2>1. PICK grace : request' = [request EXCEPT ![r].status = status, ![r].grace = grace]
      BY <1>4
    <2>2. request'[r].status = status /\ \A s \in DeletionRequests \ {r} : request'[s] = request[s]
      BY <1>1, <2>1 DEF SerialInv, IInv, TypeOK, Row
    <2>3. QED
      BY <1>1, <1>2, <2>2
  <1>5. QED
    BY <1>1, <1>3, <1>4

LEMMA SerialCommits ==
  ASSUME SerialInv,
         CommitCancel(Worker) \/ CommitApprove(Worker) \/ CommitReject(Worker)
           \/ CommitRetry(Worker) \/ FailProcessing(Worker)
  PROVE  SerialGoal
  <1> DEFINE r == handler[Worker].row
  <1>1. PICK status \in {"CANCELLED", "SCHEDULED", "REJECTED", "FAILED"} :
          /\ handler[Worker].at \notin Inserting \cup {"idle"}
          /\ \/ SetStatus(r, status)
             \/ \E grace : request' = [request EXCEPT ![r].status = status, ![r].grace = grace]
          /\ request[r].status = "CANCELLED" => status = "CANCELLED"
          /\ request[r].status = "COMPLETED" => status \in {"COMPLETED", "FAILED"}
          /\ Finish(Worker) /\ batch' = batch
    <2>1. CASE CommitCancel(Worker)
      BY <2>1 DEF CommitCancel, At, SerialInv, SerialPart, StatusIsKnown
    <2>2. CASE CommitApprove(Worker)
      BY <2>2 DEF CommitApprove, At, SerialInv, SerialPart, StatusIsKnown
    <2>3. CASE CommitReject(Worker)
      BY <2>3 DEF CommitReject, At, SerialInv, SerialPart, StatusIsKnown
    <2>4. CASE CommitRetry(Worker)
      BY <2>4 DEF CommitRetry, At, SerialInv, SerialPart, StatusIsKnown
    <2>5. CASE FailProcessing(Worker)
      BY <2>5 DEF FailProcessing, At, SerialInv, SerialPart, StatusIsKnown
    <2>6. QED
      BY <2>1, <2>2, <2>3, <2>4, <2>5
  <1>2. /\ r \in DeletionRequests /\ r \notin batch
        /\ \A s \in DeletionRequests \ {r} : request'[s] = request[s]
        /\ request'[r].status = status
    BY <1>1, SerialWrite
  <1>3. Idle.row \notin batch
    BY IdleKnowsNothing DEF SerialInv, IInv, TypeOK
  <1>4. QED
    BY <1>1, <1>2, <1>3, IdleKnowsNothing, RowStep DEF Finish

LEMMA SerialGoto ==
  ASSUME SerialInv, handler[Worker].at \notin Inserting \cup {"idle"},
         NEW await \in {"process.claim", "process.start", "process.run",
                        "process.erase", "process.complete", "process.event",
                        "process.fail"},
         Goto(Worker, await)
  PROVE  \E x : /\ handler' = [handler EXCEPT ![Worker] = x]
                /\ x.row = handler[Worker].row /\ x.at = await /\ x.row \notin batch
  BY WorkersSlot, GotoIsAHandler DEF SerialInv, SerialPart

LEMMA SerialRead ==
  ASSUME SerialInv, ReadForProcessing(Worker)
  PROVE  SerialGoal
  <1>1. CASE Finish(Worker)
    BY <1>1, SerialFinish DEF ReadForProcessing
  <1>2. CASE Goto(Worker, "process.claim")
    <2>1. PICK x : /\ handler' = [handler EXCEPT ![Worker] = x] /\ x.row \notin batch
                   /\ x.row = handler[Worker].row /\ x.at = "process.claim"
      BY <1>2, SerialGoto DEF ReadForProcessing, At
    <2>2. StatusIsKnown(x)
      BY <2>1 DEF ReadForProcessing, At, SerialInv, SerialPart, StatusIsKnown
    <2>3. QED
      BY <2>1, <2>2, QuietStep DEF ReadForProcessing
  <1>3. QED
    BY <1>1, <1>2 DEF ReadForProcessing

LEMMA SerialClaim ==
  ASSUME SerialInv, Claim(Worker)
  PROVE  SerialGoal
  <1> DEFINE r == handler[Worker].row
  <1>1. handler[Worker].at = "process.claim" /\ batch' = batch
    BY DEF Claim, At
  <1>2. CASE Finish(Worker) /\ UNCHANGED request
    BY <1>1, <1>2, SerialFinish
  <1>3. CASE /\ request[r].status \in {"SCHEDULED", "FAILED", "PENDING_REVIEW"}
             /\ SetStatus(r, "PROCESSING") /\ Goto(Worker, "process.start")
    <2>1. PICK x : /\ handler' = [handler EXCEPT ![Worker] = x] /\ x.row \notin batch
                   /\ x.row = r /\ x.at = "process.start"
      BY <1>1, <1>3, SerialGoto
    <2>2. /\ r \in DeletionRequests /\ r \notin batch
          /\ \A s \in DeletionRequests \ {r} : request'[s] = request[s]
          /\ request'[r].status = "PROCESSING"
      BY <1>1, <1>3, SerialWrite
    <2>3. StatusIsKnown(x)'
      BY <2>1, <2>2 DEF StatusIsKnown
    <2>4. request[r].type = "DATA" \/ Due(r)
      BY <1>1, <2>2 DEF SerialInv, SerialPart, StatusIsKnown, IInv, TypeOK, Row
    <2>5. QED
      BY <1>1, <1>3, <2>1, <2>2, <2>3, <2>4, RowStep
  <1>4. QED
    BY <1>2, <1>3 DEF Claim, RowOf

LEMMA SerialProcess ==
  ASSUME SerialInv,
         StartProcessing(Worker) \/ RunProcessing(Worker) \/ EraseAccount(Worker)
           \/ RecordCompletion(Worker)
  PROVE  SerialGoal
  <1>1. CASE Finish(Worker)
    BY <1>1, SerialFinish DEF StartProcessing, RunProcessing, EraseAccount, RecordCompletion
  <1>2. CASE \E await \in {"process.run", "process.erase", "process.complete", "process.fail"} :
               Goto(Worker, await)
    <2>1. /\ UNCHANGED <<request, batch>>
          /\ \/ handler[Worker].at \in {"process.start", "process.run", "process.erase"}
             \/ handler[Worker].at = "process.event" /\ Goto(Worker, "process.fail")
             \/ Finish(Worker)
      BY DEF StartProcessing, RunProcessing, EraseAccount, RecordCompletion, At
    <2>2. CASE Finish(Worker)
      BY <1>1, <2>2
    <2>3. CASE handler[Worker].at \in {"process.start", "process.run", "process.erase"}
      <3>1. PICK x : /\ handler' = [handler EXCEPT ![Worker] = x] /\ x.row \notin batch
                     /\ x.row = handler[Worker].row
                     /\ x.at \in {"process.run", "process.erase", "process.complete", "process.fail"}
        BY <1>2, <2>3, SerialGoto
      <3>2. StatusIsKnown(x)
        BY <2>3, <3>1 DEF SerialInv, SerialPart, StatusIsKnown
      <3>3. QED
        BY <2>1, <3>1, <3>2, QuietStep
    <2>4. CASE handler[Worker].at = "process.event" /\ Goto(Worker, "process.fail")
      <3>1. PICK x : /\ handler' = [handler EXCEPT ![Worker] = x] /\ x.row \notin batch
                     /\ x.row = handler[Worker].row /\ x.at = "process.fail"
        BY <2>4, SerialGoto
      <3>2. StatusIsKnown(x)
        BY <2>4, <3>1 DEF SerialInv, SerialPart, StatusIsKnown
      <3>3. QED
        BY <2>1, <3>1, <3>2, QuietStep
    <2>5. QED
      BY <2>1, <2>2, <2>3, <2>4
  <1>3. QED
    BY <1>1, <1>2 DEF StartProcessing, RunProcessing, EraseAccount, RecordCompletion

LEMMA SerialComplete ==
  ASSUME SerialInv, CompleteProcessing(Worker)
  PROVE  SerialGoal
  <1> DEFINE r == handler[Worker].row
  <1>1. handler[Worker].at = "process.complete" /\ batch' = batch
        /\ request[r].status = "PROCESSING"
    BY DEF CompleteProcessing, At, SerialInv, SerialPart, StatusIsKnown
  <1>2. CASE Goto(Worker, "process.fail") /\ UNCHANGED request
    <2>1. PICK x : /\ handler' = [handler EXCEPT ![Worker] = x] /\ x.row \notin batch
                   /\ x.row = r /\ x.at = "process.fail"
      BY <1>1, <1>2, SerialGoto
    <2>2. StatusIsKnown(x)
      BY <1>1, <2>1 DEF StatusIsKnown
    <2>3. QED
      BY <1>1, <1>2, <2>1, <2>2, QuietStep
  <1>3. CASE SetStatus(r, "COMPLETED") /\ Goto(Worker, "process.event")
    <2>1. PICK x : /\ handler' = [handler EXCEPT ![Worker] = x] /\ x.row \notin batch
                   /\ x.row = r /\ x.at = "process.event"
      BY <1>1, <1>3, SerialGoto
    <2>2. /\ r \in DeletionRequests /\ r \notin batch
          /\ \A s \in DeletionRequests \ {r} : request'[s] = request[s]
          /\ request'[r].status = "COMPLETED"
      BY <1>1, <1>3, SerialWrite
    <2>3. StatusIsKnown(x)'
      BY <2>1, <2>2 DEF StatusIsKnown
    <2>4. QED
      BY <1>1, <1>3, <2>1, <2>2, <2>3, RowStep
  <1>4. QED
    BY <1>2, <1>3 DEF CompleteProcessing

LEMMA SerialScan ==
  ASSUME SerialInv, ScanDueRequests
  PROVE  SerialGoal
  <1>1. /\ batch' \subseteq {r \in DeletionRequests : Due(r)} /\ UNCHANGED <<request, handler>>
        /\ handler[Worker].at = "idle"
    BY DEF ScanDueRequests, Ready, At
  <1>2. handler[Worker].row \notin DeletionRequests
    BY <1>1, ConstantsAssumption DEF SerialInv, SerialPart, StatusIsKnown
  <1>3. QED
    BY <1>1, <1>2 DEF SerialInv, SerialPart, SerialGoal, StatusIsKnown, ClosedStep, GraceStep, Due

LEMMA SerialTake ==
  ASSUME SerialInv, TakeFromBatch
  PROVE  SerialGoal
  <1>1. PICK r \in batch : /\ Begin(Worker, "process.read", r) /\ batch' = batch \ {r}
                           /\ UNCHANGED request
    BY DEF TakeFromBatch
  <1>2. r \in DeletionRequests /\ Due(r)
    BY DEF SerialInv, SerialPart, IInv, TypeOK
  <1>3. StatusIsKnown([Idle EXCEPT !.at = "process.read", !.row = r])
    BY <1>2 DEF StatusIsKnown, Idle
  <1>4. QED
    BY <1>1, <1>2, <1>3, SerialBegin

LEMMA SerialGrace ==
  ASSUME SerialInv, NEW r \in DeletionRequests, GraceEnds(r)
  PROVE  SerialGoal
  <1>1. \A s \in DeletionRequests :
          /\ request'[s].status = request[s].status /\ request'[s].type = request[s].type
          /\ Due(s) => Due(s)'
    BY DEF GraceEnds, Due, SerialInv, IInv, TypeOK, Row
  <1>2. ClosedStep /\ GraceStep
    BY <1>1 DEF ClosedStep, GraceStep
  <1>3. StatusIsKnown(handler[Worker])'
    <2>1. CASE handler[Worker].at \in Inserting \cup {"idle"}
      BY <2>1 DEF GraceEnds, SerialInv, SerialPart, StatusIsKnown
    <2>2. CASE handler[Worker].at \notin Inserting \cup {"idle"}
      <3>1. handler[Worker].row \in DeletionRequests
        BY <2>2, WorkingHandler, WorkersSlot DEF SerialInv
      <3>2. QED
        BY <1>1, <3>1 DEF GraceEnds, SerialInv, SerialPart, StatusIsKnown
    <2>3. QED
      BY <2>1, <2>2
  <1>4. (\A s \in batch : Due(s))'
    BY <1>1 DEF GraceEnds, SerialInv, SerialPart, IInv, TypeOK
  <1>5. QED
    BY <1>2, <1>3, <1>4 DEF SerialGoal, GraceEnds, SerialInv, SerialPart

LEMMA SerialStep ==
  ASSUME Serial, SerialInv, [Next]_vars
  PROVE  SerialGoal
  <1>1. ASSUME NEW p \in Handlers, Ready(p), Ask(p) \/ Review(p) PROVE SerialGoal
    <2>1. p = Worker /\ batch = {}
      BY <1>1 DEF Serial, Ready
    <2>2. QED
      BY <1>1, <2>1, SerialAsk, SerialReview
  <1>2. ASSUME NEW p \in Processes, Continue(p) PROVE SerialGoal
    <2>1. p = Worker
      BY DEF Serial, Processes
    <2>2. QED
      BY <1>2, <2>1, SerialInsert, SerialCommits, SerialRead, SerialClaim, SerialProcess,
        SerialComplete DEF Continue
  <1>3. ASSUME NEW p \in Processes, Crash(p) PROVE SerialGoal
    <2>1. p = Worker
      BY DEF Serial, Processes
    <2>2. QED
      BY <1>3, <2>1, SerialFinish DEF Crash
  <1>4. CASE UNCHANGED vars
    BY <1>4 DEF vars, SerialInv, SerialPart, SerialGoal, StatusIsKnown, ClosedStep, GraceStep, Due
  <1>5. QED
    BY <1>1, <1>2, <1>3, <1>4, SerialScan, SerialTake, SerialGrace DEF Next, WorkerLoop

LEMMA SerialAlways ==
  ASSUME Serial
  PROVE  Spec => [][SerialGoal]_vars
  <1>1. Init => SerialInv
    BY InvInitially, IdleKnowsNothing DEF Init, SerialInv, SerialPart, Processes
  <1>2. SerialInv /\ [Next]_vars => SerialInv' /\ SerialGoal
    BY InvPreserved, SerialStep DEF SerialInv, SerialGoal
  <1>3. QED
    BY <1>1, <1>2, PTL DEF Spec
----------------------------------------------------------------------------
(* Theorems *)

(* A request that reads COMPLETED has been carried out: its account is      *)
(* erased or its provider disconnected.                                     *)
THEOREM CompletedAlwaysMeansDeleted == Spec => []CompletedMeansDeleted
  <1>1. IInv => CompletedMeansDeleted
    BY DEF IInv
  <1>2. QED
    BY <1>1, InvAlways, PTL

(* While handlers do not overlap, a cancelled request stays cancelled, and  *)
(* a completed one is at worst marked FAILED, whatever dies or fails.       *)
THEOREM ClosedAlwaysStaysClosed ==
  ASSUME Handlers \subseteq {Worker}
  PROVE  Spec => ClosedStaysClosed
  <1>1. SerialGoal => ClosedStep
    BY DEF SerialGoal
  <1>2. ClosedStaysClosed <=> [][ClosedStep]_vars
    BY PTL DEF ClosedStaysClosed, ClosedStep
  <1>3. QED
    BY <1>1, <1>2, SerialAlways, PTL DEF Serial

(* While handlers do not overlap, an account is claimed for erasure only    *)
(* from a scheduled request past its grace period.                          *)
THEOREM AccountsAlwaysWaitTheirGrace ==
  ASSUME Handlers \subseteq {Worker}
  PROVE  Spec => AccountsWaitTheirGrace
  <1>1. SerialGoal => GraceStep
    BY DEF SerialGoal
  <1>2. AccountsWaitTheirGrace <=> [][GraceStep]_vars
    BY PTL DEF AccountsWaitTheirGrace, GraceStep
  <1>3. QED
    BY <1>1, <1>2, SerialAlways, PTL DEF Serial

=============================================================================
