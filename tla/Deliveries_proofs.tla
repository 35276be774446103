-------------------------- MODULE Deliveries_proofs --------------------------
(***************************************************************************)
(* The claims of delivery rows, for any number of messages, rows, workers, *)
(* administrators, errors and deaths: a row is claimed by one process at a *)
(* time, a retry of it is accepted once, and what was sent or cancelled    *)
(* stays so, but for what each late error of a scan gives away.  Liveness  *)
(* is left to the run.                                                     *)
(***************************************************************************)
EXTENDS Deliveries, FiniteSetTheorems, TLAPS

Retrying == {"read", "abuse", "claim", "write"}

(* What may be said of a process alone: a retry has a row, a candidate to   *)
(* try is there, nothing was accepted before the last candidate was asked,  *)
(* only a scan releases, and only a first delivery settles.                 *)
Sound ==
  {x \in Process :
     /\ x.mode \in {"scan", "manual"} => x.row \in Logs
     /\ x.at = "attempt" => x.left > 0
     /\ x.at \in {"read", "abuse", "claim", "candidates", "attempt"} => x.ok = FALSE
     /\ x.at = "release" => x.mode = "scan" /\ (x.late \/ x.ok = FALSE)
     /\ x.late => x.at = "release"
     /\ x.at \in Retrying => x.mode \in {"scan", "manual"}
     /\ x.at \in {"finalize", "settle"} => x.mode \in {"queue", "direct"}}

RowsAreTyped ==
  /\ process \in [Processes -> Sound]
  /\ log \in [Logs -> Row]
  /\ accepted \in [Logs -> Nat]
  /\ late \in [Logs -> Nat]

(* Who may still have the row sent: a holder whose retry nobody accepted,   *)
(* and a scan that is to give the row back after a late error.              *)
MaySend(p, d) ==
  \/ Holds(p, d) /\ process[p].ok = FALSE
  \/ process[p].row = d /\ process[p].late = TRUE

HasSent(p, d) == Holds(p, d) /\ process[p].ok = TRUE

Senders(d) == {p \in Processes : MaySend(p, d)}

Done(d) == {p \in Processes : HasSent(p, d)}

(* A row that is not there yet, or may be claimed                           *)
IsOpen(d) == log[d].status \in Claimable \cup {"none"}

One(b) == IF b THEN 1 ELSE 0

(* A row was sent, is about to be sent or waits for it, once, and once more *)
(* for each late error; and a row without late errors that somebody holds   *)
(* says so, or was blocked by an administrator's retry that came between.   *)
Balanced(d) ==
  /\ accepted[d] + Cardinality(Senders(d)) + One(IsOpen(d)) <= 1 + late[d]
  /\ Cardinality(Done(d)) <= accepted[d]
  /\ late[d] = 0 =>
       \A p \in Processes : /\ Holds(p, d) => log[d].status \in {"RETRYING", "BLOCKED"}
                            /\ ~(process[p].row = d /\ process[p].late = TRUE)

ClaimInv == \A d \in Logs : Balanced(d)

(* A message that is delivered was dispatched, so its kind is known.        *)
Handles(p) == Delivering(p) /\ process[p].at # "idle"

Dispatched ==
  [state : {"new", "queued", "working", "done", "dead"}, kind : Kinds \cup {None},
   channel : {"EMAIL", "SMS"}, attempts : Nat, answer : {"none", "accepted", "blocked", "failed"}]

MessagesAreKnown ==
  /\ message \in [Messages -> Dispatched]
  /\ \A m \in Messages : message[m].state # "new" => message[m].kind \in Kinds
  /\ \A p \in Processes : Handles(p) => /\ process[p].of \in Messages
                                        /\ message[process[p].of].state # "new"

IInv == RowsAreTyped /\ MessagesAreKnown /\ ClaimInv

ClosedStay ==
  \A d \in Logs : log[d].status \in {"SENT", "CANCELLED"} /\ late[d] = 0
                  => log'[d].status = log[d].status

----------------------------------------------------------------------------
(* Counting *)

LEMMA ProcessesAreFinite == IsFiniteSet(Processes)
  BY ConstantsAssumption, FS_Union DEF Processes

(* A set that changes in one element changes by one at most.                *)
LEMMA OneChanges ==
  ASSUME NEW S, NEW T, IsFiniteSet(S), IsFiniteSet(T), NEW p, S \ {p} = T \ {p}
  PROVE  /\ Cardinality(S) \in Nat /\ Cardinality(T) \in Nat
         /\ Cardinality(T) = Cardinality(S) + One(p \in T) - One(p \in S)
  <1> DEFINE U == S \ {p}
  <1>1. IsFiniteSet(U) /\ Cardinality(U) \in Nat /\ Cardinality(S) \in Nat /\ Cardinality(T) \in Nat
    BY FS_Subset, FS_CardinalityType
  <1>2. Cardinality(U) = Cardinality(S) - One(p \in S)
    BY <1>1, FS_RemoveElement DEF One
  <1>3. Cardinality(U) = Cardinality(T) - One(p \in T)
    BY <1>1, FS_RemoveElement DEF One
  <1>4. One(p \in S) \in Nat /\ One(p \in T) \in Nat
    BY DEF One
  <1> HIDE DEF U
  <1>5. QED
    BY <1>1, <1>2, <1>3, <1>4

LEMMA CountsAreFinite ==
  ASSUME NEW d
  PROVE  /\ IsFiniteSet(Senders(d)) /\ Cardinality(Senders(d)) \in Nat
         /\ IsFiniteSet(Done(d)) /\ Cardinality(Done(d)) \in Nat
  BY ProcessesAreFinite, FS_Subset, FS_CardinalityType DEF Senders, Done

LEMMA CountsAreFiniteLater ==
  ASSUME NEW d
  PROVE  /\ IsFiniteSet(Senders(d)') /\ IsFiniteSet(Done(d)')
         /\ Cardinality(Senders(d)') \in Nat /\ Cardinality(Done(d)') \in Nat
  <1>1. Senders(d)' \subseteq Processes /\ Done(d)' \subseteq Processes
    BY DEF Senders, Done
  <1>2. QED
    BY <1>1, ProcessesAreFinite, FS_Subset, FS_CardinalityType

(* How many hold a row                                                      *)
Holders(d) == {p \in Processes : Holds(p, d)}

LEMMA HoldersAreCounted ==
  ASSUME RowsAreTyped, NEW d \in Logs, Balanced(d)
  PROVE  IsFiniteSet(Holders(d)) /\ Cardinality(Holders(d)) <= 1 + late[d]
  <1>1. Holders(d) \subseteq Senders(d) \cup Done(d)
    BY DEF Holders, Senders, Done, MaySend, HasSent, RowsAreTyped, Sound, Process
  <1>2. /\ IsFiniteSet(Senders(d) \cup Done(d))
        /\ Cardinality(Senders(d) \cup Done(d)) =
             Cardinality(Senders(d)) + Cardinality(Done(d)) - Cardinality(Senders(d) \cap Done(d))
    BY CountsAreFinite, FS_Union
  <1>3. Cardinality(Senders(d) \cap Done(d)) \in Nat
    BY CountsAreFinite, FS_Subset, FS_CardinalityType
  <1>4. /\ IsFiniteSet(Holders(d)) /\ Cardinality(Holders(d)) \in Nat
        /\ Cardinality(Holders(d)) <= Cardinality(Senders(d) \cup Done(d))
    BY <1>1, <1>2, FS_Subset, FS_CardinalityType
  <1>5. /\ accepted[d] \in Nat /\ late[d] \in Nat /\ One(IsOpen(d)) \in Nat
        /\ Cardinality(Senders(d)) \in Nat /\ Cardinality(Done(d)) \in Nat
    BY CountsAreFinite DEF RowsAreTyped, One
  <1>6. QED
    BY <1>2, <1>3, <1>4, <1>5 DEF Balanced

(* Without a late error there is one holder.                                *)
LEMMA OneHolder ==
  ASSUME RowsAreTyped, NEW d \in Logs, Balanced(d), late[d] = 0,
         NEW p \in Processes, NEW q \in Processes, Holds(p, d), Holds(q, d)
  PROVE  p = q
  <1> SUFFICES ASSUME p # q PROVE FALSE
    OBVIOUS
  <1>1. IsFiniteSet(Holders(d)) /\ Cardinality(Holders(d)) <= 1
    BY HoldersAreCounted
  <1>2. {p, q} \subseteq Holders(d)
    BY DEF Holders
  <1>3. Cardinality({p, q}) = 2 /\ IsFiniteSet({p, q})
    <2>1. IsFiniteSet({p}) /\ Cardinality({p}) = 1
      BY FS_Singleton
    <2>2. IsFiniteSet({p} \cup {q}) /\ Cardinality({p} \cup {q}) = 2
      BY <2>1, FS_AddElement
    <2>3. {p, q} = {p} \cup {q}
      OBVIOUS
    <2>4. QED
      BY <2>2, <2>3
  <1>4. QED
    BY <1>1, <1>2, <1>3, FS_Subset, FS_CardinalityType

----------------------------------------------------------------------------
(* Steps on the claims *)

OthersStay(p) == \A q \in Processes \ {p} : process'[q] = process[q]

LEMMA CountsMove ==
  ASSUME NEW p \in Processes, OthersStay(p), NEW d
  PROVE  /\ Cardinality(Senders(d)') = Cardinality(Senders(d)) + One(MaySend(p, d)') - One(MaySend(p, d))
         /\ Cardinality(Done(d)') = Cardinality(Done(d)) + One(HasSent(p, d)') - One(HasSent(p, d))
  <1>1. Senders(d) \ {p} = Senders(d)' \ {p} /\ Done(d) \ {p} = Done(d)' \ {p}
    BY DEF OthersStay, Senders, Done, MaySend, HasSent, Holds, Local
  <1>2. /\ p \in Senders(d) <=> MaySend(p, d)
        /\ p \in Senders(d)' <=> MaySend(p, d)'
        /\ p \in Done(d) <=> HasSent(p, d)
        /\ p \in Done(d)' <=> HasSent(p, d)'
    BY DEF Senders, Done
  <1>3. Cardinality(Senders(d)') = Cardinality(Senders(d)) + One(p \in Senders(d)') - One(p \in Senders(d))
    BY <1>1, OneChanges, CountsAreFinite, CountsAreFiniteLater
  <1>4. Cardinality(Done(d)') = Cardinality(Done(d)) + One(p \in Done(d)') - One(p \in Done(d))
    BY <1>1, OneChanges, CountsAreFinite, CountsAreFiniteLater
  <1>5. QED
    BY <1>2, <1>3, <1>4 DEF One

(* What one process does to one row keeps the balance.                      *)
LEMMA RowStep ==
  ASSUME RowsAreTyped, RowsAreTyped', NEW p \in Processes, OthersStay(p), NEW d \in Logs, Balanced(d),
         accepted'[d] + One(MaySend(p, d)') + One(IsOpen(d)') + late[d]
           <= accepted[d] + One(MaySend(p, d)) + One(IsOpen(d)) + late'[d],
         One(HasSent(p, d)') + accepted[d] <= One(HasSent(p, d)) + accepted'[d],
         late[d] <= late'[d],
         late'[d] = 0 =>
           /\ process'[p].row = d => process'[p].late = FALSE
           /\ \A q \in Processes : Holds(q, d)' => log'[d].status \in {"RETRYING", "BLOCKED"}
  PROVE  Balanced(d)'
  <1>1. /\ Cardinality(Senders(d)) \in Nat /\ Cardinality(Senders(d)') \in Nat
        /\ Cardinality(Done(d)) \in Nat /\ Cardinality(Done(d)') \in Nat
    BY CountsAreFinite, CountsAreFiniteLater
  <1>2. /\ accepted[d] \in Nat /\ accepted'[d] \in Nat /\ late[d] \in Nat /\ late'[d] \in Nat
    BY DEF RowsAreTyped
  <1>3. /\ One(MaySend(p, d)) \in Nat /\ One(MaySend(p, d)') \in Nat
        /\ One(HasSent(p, d)) \in Nat /\ One(HasSent(p, d)') \in Nat
        /\ One(IsOpen(d)) \in Nat /\ One(IsOpen(d)') \in Nat
    BY DEF One
  <1>4. /\ Cardinality(Senders(d)') = Cardinality(Senders(d)) + One(MaySend(p, d)') - One(MaySend(p, d))
        /\ Cardinality(Done(d)') = Cardinality(Done(d)) + One(HasSent(p, d)') - One(HasSent(p, d))
    BY CountsMove
  <1>5. /\ accepted[d] + Cardinality(Senders(d)) + One(IsOpen(d)) <= 1 + late[d]
        /\ Cardinality(Done(d)) <= accepted[d]
    BY DEF Balanced
  <1>6. accepted'[d] + Cardinality(Senders(d)') + One(IsOpen(d)') <= 1 + late'[d]
    BY <1>1, <1>2, <1>3, <1>4, <1>5
  <1>7. Cardinality(Done(d)') <= accepted'[d]
    BY <1>1, <1>2, <1>3, <1>4, <1>5
  <1>8. ASSUME late'[d] = 0, NEW q \in Processes
        PROVE  ~(process'[q].row = d /\ process'[q].late = TRUE)
    <2>1. late[d] = 0
      BY <1>2, <1>8
    <2>2. CASE q = p
      BY <1>8, <2>2
    <2>3. CASE q # p
      BY <2>1, <2>3 DEF Balanced, OthersStay
    <2>4. QED
      BY <2>2, <2>3
  <1>9. QED
    BY <1>6, <1>7, <1>8 DEF Balanced

(* p is no nearer to sending any row than it was.                           *)
KeepsOrDrops(p) ==
  \A e \in Logs : /\ Holds(p, e)' => Holds(p, e) /\ process'[p].ok = process[p].ok
                  /\ process'[p].row = e /\ process'[p].late = TRUE
                       => process[p].row = e /\ process[p].late = TRUE

(* A row keeps its status or is blocked; or it was open, or goes from a     *)
(* sender that lets go of it, and nobody holds it who says so.              *)
WrittenAway(p, e) ==
  \/ log'[e].status = log[e].status
  \/ log'[e].status = "BLOCKED"
  \/ /\ late[e] = 0 => \A q \in Processes : ~Holds(q, e)'
     /\ IsOpen(e)' => IsOpen(e) \/ (MaySend(p, e) /\ ~MaySend(p, e)')

LEMMA RowsKept ==
  ASSUME RowsAreTyped, RowsAreTyped', ClaimInv, NEW p \in Processes, OthersStay(p), KeepsOrDrops(p),
         UNCHANGED <<accepted, late>>, \A e \in Logs : WrittenAway(p, e)
  PROVE  ClaimInv'
  <1> SUFFICES ASSUME NEW e \in Logs PROVE Balanced(e)'
    BY DEF ClaimInv
  <1>1. (MaySend(p, e)' => MaySend(p, e)) /\ (HasSent(p, e)' => HasSent(p, e))
    BY DEF KeepsOrDrops, MaySend, HasSent
  <1>2. \A q \in Processes : Holds(q, e)' => Holds(q, e)
    BY DEF OthersStay, KeepsOrDrops, Holds, Local
  <1>3. IsOpen(e)' => IsOpen(e) \/ (MaySend(p, e) /\ ~MaySend(p, e)')
    BY DEF WrittenAway, IsOpen, Claimable
  <1>4. One(MaySend(p, e)') + One(IsOpen(e)') <= One(MaySend(p, e)) + One(IsOpen(e))
    BY <1>1, <1>3 DEF One
  <1>5. accepted'[e] = accepted[e] /\ late'[e] = late[e] /\ accepted[e] \in Nat /\ late[e] \in Nat
    BY DEF RowsAreTyped
  <1>6. One(HasSent(p, e)') <= One(HasSent(p, e))
    BY <1>1 DEF One
  <1>7. /\ One(MaySend(p, e)) \in Nat /\ One(MaySend(p, e)') \in Nat
        /\ One(HasSent(p, e)) \in Nat /\ One(HasSent(p, e)') \in Nat
        /\ One(IsOpen(e)) \in Nat /\ One(IsOpen(e)') \in Nat
    BY DEF One
  <1>8. Balanced(e)
    BY DEF ClaimInv
  <1>9. ASSUME late'[e] = 0
        PROVE  /\ process'[p].row = e => process'[p].late = FALSE
               /\ \A q \in Processes : Holds(q, e)' => log'[e].status \in {"RETRYING", "BLOCKED"}
    <2>1. process'[p].row = e => process'[p].late = FALSE
      BY <1>5, <1>8, <1>9 DEF KeepsOrDrops, Balanced, RowsAreTyped, Sound, Process
    <2>2. \A q \in Processes : Holds(q, e)' => log[e].status \in {"RETRYING", "BLOCKED"}
      BY <1>2, <1>5, <1>8, <1>9 DEF Balanced
    <2>3. QED
      BY <1>5, <1>9, <2>1, <2>2 DEF WrittenAway
  <1>10. accepted'[e] + One(MaySend(p, e)') + One(IsOpen(e)') + late[e]
           <= accepted[e] + One(MaySend(p, e)) + One(IsOpen(e)) + late'[e]
    BY <1>4, <1>5, <1>7
  <1>11. One(HasSent(p, e)') + accepted[e] <= One(HasSent(p, e)) + accepted'[e]
    BY <1>5, <1>6, <1>7
  <1>12. late[e] <= late'[e]
    BY <1>5
  <1>13. QED
    BY <1>8, <1>9, <1>10, <1>11, <1>12, RowStep

(* A row p does not touch                                                   *)
LEMMA RowLeftAlone ==
  ASSUME RowsAreTyped, RowsAreTyped', NEW p \in Processes, OthersStay(p), NEW e \in Logs, Balanced(e),
         log'[e].status = log[e].status, accepted'[e] = accepted[e], late'[e] = late[e],
         ~Holds(p, e)', ~(process'[p].row = e /\ process'[p].late = TRUE)
  PROVE  Balanced(e)'
  <1>1. ~MaySend(p, e)' /\ ~HasSent(p, e)' /\ (IsOpen(e)' <=> IsOpen(e))
    BY DEF MaySend, HasSent, IsOpen
  <1>2. /\ One(MaySend(p, e)') = 0 /\ One(HasSent(p, e)') = 0 /\ One(IsOpen(e)') = One(IsOpen(e))
        /\ One(MaySend(p, e)) \in Nat /\ One(HasSent(p, e)) \in Nat /\ One(IsOpen(e)) \in Nat
    BY <1>1 DEF One
  <1>3. accepted[e] \in Nat /\ late[e] \in Nat
    BY DEF RowsAreTyped
  <1>4. \A q \in Processes : Holds(q, e)' => Holds(q, e)
    BY DEF OthersStay, Holds, Local
  <1>5. late'[e] = 0 =>
          /\ process'[p].row = e => process'[p].late = FALSE
          /\ \A q \in Processes : Holds(q, e)' => log'[e].status \in {"RETRYING", "BLOCKED"}
    BY <1>4 DEF Balanced, RowsAreTyped, Sound, Process
  <1>6. /\ accepted'[e] + One(MaySend(p, e)') + One(IsOpen(e)') + late[e]
             <= accepted[e] + One(MaySend(p, e)) + One(IsOpen(e)) + late'[e]
        /\ One(HasSent(p, e)') + accepted[e] <= One(HasSent(p, e)) + accepted'[e]
        /\ late[e] <= late'[e]
    BY <1>2, <1>3
  <1>7. QED
    BY <1>5, <1>6, RowStep

(* A process that held nothing claims a row that is open.                   *)
LEMMA RowClaimed ==
  ASSUME RowsAreTyped, RowsAreTyped', ClaimInv, NEW p \in Processes, OthersStay(p),
         UNCHANGED <<accepted, late>>,
         NEW d \in Logs, log[d].status \in Claimable,
         process'[p].row = d, process'[p].ok = FALSE, process'[p].late = FALSE,
         log'[d].status = "RETRYING",
         \A e \in Logs \ {d} : log'[e].status = log[e].status
  PROVE  ClaimInv' /\ ClosedStay
  <1>1. accepted[d] \in Nat /\ late[d] \in Nat
    BY DEF RowsAreTyped
  <1>2. IsOpen(d) /\ ~IsOpen(d)' /\ ~HasSent(p, d)'
    BY DEF IsOpen, Claimable, HasSent
  <1>3. /\ One(IsOpen(d)) = 1 /\ One(IsOpen(d)') = 0 /\ One(HasSent(p, d)') = 0
        /\ One(MaySend(p, d)) \in Nat /\ One(HasSent(p, d)) \in Nat /\ One(MaySend(p, d)') \in 0 .. 1
    BY <1>2 DEF One
  <1>4. /\ accepted'[d] + One(MaySend(p, d)') + One(IsOpen(d)') + late[d]
             <= accepted[d] + One(MaySend(p, d)) + One(IsOpen(d)) + late'[d]
        /\ One(HasSent(p, d)') + accepted[d] <= One(HasSent(p, d)) + accepted'[d]
        /\ late[d] <= late'[d]
    BY <1>1, <1>3
  <1>5. Balanced(d)'
    BY <1>4, RowStep DEF ClaimInv
  <1>6. ASSUME NEW e \in Logs \ {d}
        PROVE  Balanced(e)'
    <2>1. ~Holds(p, e)'
      BY DEF Holds, Local
    <2>2. QED
      BY <2>1, RowLeftAlone DEF ClaimInv
  <1>7. ClosedStay
    BY DEF ClosedStay, Claimable
  <1>8. QED
    BY <1>5, <1>6, <1>7 DEF ClaimInv

(* A provider accepts the retry of a holder.                                *)
LEMMA RowSent ==
  ASSUME RowsAreTyped, RowsAreTyped', ClaimInv, NEW p \in Processes, OthersStay(p), UNCHANGED <<log, late>>,
         NEW d \in Logs, Holds(p, d), process[p].ok = FALSE, process'[p].row = d,
         process'[p].ok = TRUE, process'[p].late = FALSE,
         accepted' = [accepted EXCEPT ![d] = @ + 1]
  PROVE  ClaimInv' /\ ClosedStay
  <1>1. /\ accepted[d] \in Nat /\ late[d] \in Nat /\ accepted'[d] = accepted[d] + 1
        /\ \A e \in Logs \ {d} : accepted'[e] = accepted[e]
    BY DEF RowsAreTyped
  <1>2. MaySend(p, d) /\ ~MaySend(p, d)' /\ (IsOpen(d)' <=> IsOpen(d))
    BY DEF MaySend, IsOpen
  <1>3. /\ One(MaySend(p, d)) = 1 /\ One(MaySend(p, d)') = 0 /\ One(IsOpen(d)') = One(IsOpen(d))
        /\ One(IsOpen(d)) \in Nat /\ One(HasSent(p, d)) \in Nat /\ One(HasSent(p, d)') \in 0 .. 1
    BY <1>2 DEF One
  <1>4. /\ accepted'[d] + One(MaySend(p, d)') + One(IsOpen(d)') + late[d]
             <= accepted[d] + One(MaySend(p, d)) + One(IsOpen(d)) + late'[d]
        /\ One(HasSent(p, d)') + accepted[d] <= One(HasSent(p, d)) + accepted'[d]
        /\ late[d] <= late'[d]
    BY <1>1, <1>3
  <1>5. \A q \in Processes : Holds(q, d)' => Holds(q, d)
    BY DEF OthersStay, Holds, Local
  <1>6. late'[d] = 0 =>
          /\ process'[p].row = d => process'[p].late = FALSE
          /\ \A q \in Processes : Holds(q, d)' => log'[d].status \in {"RETRYING", "BLOCKED"}
    BY <1>5 DEF ClaimInv, Balanced
  <1>7. Balanced(d)'
    BY <1>4, <1>6, RowStep DEF ClaimInv
  <1>8. ASSUME NEW e \in Logs \ {d}
        PROVE  Balanced(e)'
    <2>1. ~Holds(p, e)'
      BY DEF Holds, Local
    <2>2. QED
      BY <1>1, <2>1, RowLeftAlone DEF ClaimInv
  <1>9. QED
    BY <1>7, <1>8 DEF ClaimInv, ClosedStay

----------------------------------------------------------------------------
(* Steps of a process *)

Becomes(p, x) ==
  /\ process' = [q \in Processes |-> process'[q]]
  /\ process'[p] = x /\ OthersStay(p)

LEMMA ProcessMoves ==
  ASSUME RowsAreTyped, NEW p \in Processes, NEW x \in Sound, Becomes(p, x)
  PROVE  process' \in [Processes -> Sound] /\ OthersStay(p)
  BY DEF RowsAreTyped, Becomes, OthersStay

LEMMA IdleIsSound ==
  /\ Idle \in Process /\ Idle \in Sound
  /\ Idle.at = "idle" /\ Idle.mode = "queue" /\ Idle.ok = FALSE /\ Idle.late = FALSE
  <1>1. Idle \in Process
    BY DEF Idle, Process, Awaits
  <1>2. QED
    BY <1>1 DEF Idle, Sound, Retrying

LEMMA FinishMoves ==
  ASSUME RowsAreTyped, NEW p \in Processes, process' = [process EXCEPT ![p] = Idle]
  PROVE  /\ process' \in [Processes -> Sound]
         /\ OthersStay(p) /\ KeepsOrDrops(p) /\ \A e \in Logs : ~Holds(p, e)' /\ ~MaySend(p, e)'
  <1>1. process' \in [Processes -> Sound] /\ OthersStay(p) /\ process'[p] = Idle
    BY IdleIsSound DEF RowsAreTyped, OthersStay
  <1>2. \A e \in Logs : ~Holds(p, e)'
    BY <1>1, IdleIsSound DEF Holds, Local
  <1>3. process'[p].late = FALSE
    BY <1>1, IdleIsSound
  <1>4. QED
    BY <1>1, <1>2, <1>3 DEF KeepsOrDrops, MaySend

Claiming == {"read", "abuse", "claim"}

Goal == RowsAreTyped' /\ ClaimInv' /\ ClosedStay

(* p goes on with what it has.                                              *)
LEMMA GoingOn ==
  ASSUME IInv, NEW p \in Processes, NEW x \in Sound, Becomes(p, x), UNCHANGED <<log, accepted, late>>,
         x.row = process[p].row, x.mode = process[p].mode, x.late = process[p].late,
         x.ok = process[p].ok \/ Delivering(p),
         x.at \in Claiming \/ process[p].at \notin Claiming \/ x.mode # "manual"
  PROVE  Goal
  <1>1. process' \in [Processes -> Sound] /\ OthersStay(p) /\ process'[p] = x
    BY ProcessMoves DEF IInv, Becomes
  <1>2. KeepsOrDrops(p)
    BY <1>1 DEF KeepsOrDrops, Holds, Local, Delivering, Claiming
  <1>3. RowsAreTyped' /\ \A e \in Logs : WrittenAway(p, e)
    BY <1>1 DEF IInv, RowsAreTyped, WrittenAway
  <1>4. ClaimInv'
    BY <1>1, <1>2, <1>3, RowsKept DEF IInv
  <1>5. QED
    BY <1>3, <1>4 DEF Goal, ClosedStay

(* p lets go and touches no row.                                            *)
LEMMA LettingGo ==
  ASSUME IInv, NEW p \in Processes, process' = [process EXCEPT ![p] = Idle],
         UNCHANGED <<log, accepted, late>>
  PROVE  Goal
  <1>1. process' \in [Processes -> Sound] /\ OthersStay(p) /\ KeepsOrDrops(p)
    BY FinishMoves DEF IInv
  <1>2. RowsAreTyped' /\ \A e \in Logs : WrittenAway(p, e)
    BY <1>1 DEF IInv, RowsAreTyped, WrittenAway
  <1>3. ClaimInv'
    BY <1>1, <1>2, RowsKept DEF IInv
  <1>4. QED
    BY <1>2, <1>3 DEF Goal, ClosedStay

LEMMA ProcessesAreProcesses ==
  ASSUME RowsAreTyped, NEW p \in Processes
  PROVE  process[p] \in Process /\ process[p] \in Sound
  BY DEF RowsAreTyped, Sound

LEMMA EndIsAnAwait ==
  ASSUME NEW p
  PROVE  /\ EndOfLoop(p) \in Awaits /\ EndOfLoop(p) \in {"finalize", "write"}
         /\ EndOfLoop(p) = "finalize" <=> process[p].mode \in {"queue", "direct"}
  BY DEF EndOfLoop, Awaits, Delivering, Local

(* Where p goes from the candidates                                         *)
LoopAwaits(p) ==
  {a \in {"attempt", "finalize", "write"} :
     /\ a = "finalize" => process[p].mode \in {"queue", "direct"}
     /\ a = "write" => process[p].mode \in {"scan", "manual"}}

LEMMA FindCandidatesKeeps ==
  ASSUME IInv, NEW p \in Processes, FindCandidates(p)
  PROVE  Goal
  <1>1. /\ process[p] \in Process /\ process[p] \in Sound /\ process[p].at = "candidates"
        /\ UNCHANGED <<log, accepted, late>>
    BY ProcessesAreProcesses DEF IInv, FindCandidates, At, history
  <1>2. process[p].ok = FALSE /\ process[p].late = FALSE /\ process[p].at \notin Claiming
    BY <1>1 DEF Sound, Claiming
  <1>3. ASSUME NEW n \in 0 .. MaxCandidates, TryCandidates(p, n)
        PROVE  Goal
    <2> DEFINE await == IF n = 0 THEN EndOfLoop(p) ELSE "attempt"
               x == [process[p] EXCEPT !.at = await, !.left = n, !.allLimited = n > 0]
    <2>1. n \in Nat /\ (n > 0) \in BOOLEAN /\ await \in Awaits /\ await \in LoopAwaits(p)
          /\ (await = "attempt" => n > 0)
      BY <1>1, EndIsAnAwait, ConstantsAssumption DEF Awaits, LoopAwaits, Process
    <2>2. Becomes(p, x)
      BY <1>1, <1>3 DEF TryCandidates, Becomes, OthersStay, IInv, RowsAreTyped, Process
    <2> HIDE DEF await
    <2>3. x \in Process /\ x.at = await /\ x.left = n /\ x.row = process[p].row /\ x.mode = process[p].mode
          /\ x.ok = process[p].ok /\ x.late = process[p].late
      BY <1>1, <2>1 DEF Process
    <2> HIDE DEF x
    <2>4. x \in Sound
      BY <1>1, <1>2, <2>1, <2>3 DEF Sound, LoopAwaits, Retrying
    <2>5. QED
      BY <1>1, <1>2, <2>2, <2>3, <2>4, GoingOn
  <1>4. CASE Delivering(p) /\ process' = [process EXCEPT ![p].at = "settle", ![p].allLimited = FALSE]
    <2> DEFINE x == [process[p] EXCEPT !.at = "settle", !.allLimited = FALSE]
    <2>1. Becomes(p, x)
      BY <1>1, <1>4 DEF Becomes, OthersStay, IInv, RowsAreTyped, Process
    <2>2. x \in Process /\ x.at = "settle" /\ x.row = process[p].row /\ x.mode = process[p].mode
          /\ x.ok = process[p].ok /\ x.late = process[p].late
      BY <1>1 DEF Process, Awaits
    <2> HIDE DEF x
    <2>3. x \in Sound
      BY <1>1, <1>2, <1>4, <2>2 DEF Sound, Retrying, Delivering, Local
    <2>4. QED
      BY <1>1, <1>2, <2>1, <2>2, <2>3, GoingOn
  <1>5. QED
    BY <1>3, <1>4 DEF FindCandidates

LEMMA SkipKeeps ==
  ASSUME IInv, NEW p \in Processes, SkipLimited(p)
  PROVE  Goal
  <1> DEFINE await == NextCandidate(p)
             x == [process[p] EXCEPT !.left = @ - 1, !.at = await]
  <1>1. /\ process[p] \in Process /\ process[p] \in Sound /\ process[p].at = "attempt"
        /\ UNCHANGED <<log, accepted, late>>
    BY ProcessesAreProcesses DEF IInv, SkipLimited, At, history
  <1>2. process[p].ok = FALSE /\ process[p].late = FALSE /\ process[p].at \notin Claiming /\ process[p].left \in Nat /\ process[p].left > 0
    BY <1>1 DEF Sound, Claiming, Process
  <1>3. await \in Awaits /\ await \in LoopAwaits(p) /\ (await = "attempt" => process[p].left # 1)
    BY <1>1, EndIsAnAwait DEF NextCandidate, Local, Awaits, LoopAwaits, Process
  <1>4. Becomes(p, x)
    BY <1>1 DEF SkipLimited, Becomes, OthersStay, IInv, RowsAreTyped, Process
  <1> HIDE DEF await
  <1>5. x \in Sound /\ x.row = process[p].row
        /\ x.mode = process[p].mode /\ x.ok = process[p].ok /\ x.late = process[p].late
    <2>1. PICK n \in Nat : n = process[p].left - 1
      BY <1>2
    <2>2. x = [process[p] EXCEPT !.left = n, !.at = await]
      BY <2>1
    <2> HIDE DEF x
    <2>3. x \in Process /\ x.at = await /\ x.left = n /\ x.row = process[p].row
          /\ x.mode = process[p].mode /\ x.ok = process[p].ok /\ x.late = process[p].late
      BY <1>1, <1>3, <2>1, <2>2 DEF Process
    <2>4. await = "attempt" => n > 0
      BY <1>2, <1>3, <2>1
    <2>5. x \in Sound
      BY <1>1, <1>2, <1>3, <2>3, <2>4 DEF Sound, LoopAwaits, Retrying
    <2>6. QED
      BY <2>3, <2>5
  <1> HIDE DEF x
  <1>6. QED
    BY <1>1, <1>2, <1>4, <1>5, GoingOn

LEMMA SendKeeps ==
  ASSUME IInv, NEW p \in Processes, NEW ok \in BOOLEAN, Send(p, ok)
  PROVE  Goal
  <1> DEFINE await == IF ok THEN EndOfLoop(p) ELSE NextCandidate(p)
             x == [process[p] EXCEPT !.at = await, !.ok = ok, !.left = @ - 1, !.allLimited = FALSE]
             d == process[p].row
  <1>1. /\ process[p] \in Process /\ process[p] \in Sound /\ process[p].at = "attempt"
        /\ UNCHANGED <<log, late>>
    BY ProcessesAreProcesses DEF IInv, Send, At
  <1>2. process[p].ok = FALSE /\ process[p].late = FALSE /\ process[p].at \notin Claiming /\ process[p].left \in Nat /\ process[p].left > 0
    BY <1>1 DEF Sound, Claiming, Process
  <1>3. await \in Awaits /\ await \in LoopAwaits(p)
        /\ (await = "attempt" => process[p].left # 1 /\ ok = FALSE)
    BY <1>1, EndIsAnAwait DEF NextCandidate, Local, Awaits, LoopAwaits, Process
  <1>4. Becomes(p, x)
    BY <1>1 DEF Send, Becomes, OthersStay, IInv, RowsAreTyped, Process
  <1> HIDE DEF await
  <1>5. x \in Sound /\ x.row = process[p].row
        /\ x.mode = process[p].mode /\ x.ok = ok /\ x.late = process[p].late
    <2>1. PICK n \in Nat : n = process[p].left - 1
      BY <1>2
    <2>2. x = [process[p] EXCEPT !.at = await, !.ok = ok, !.left = n, !.allLimited = FALSE]
      BY <2>1
    <2> HIDE DEF x
    <2>3. x \in Process /\ x.at = await /\ x.left = n /\ x.row = process[p].row
          /\ x.mode = process[p].mode /\ x.ok = ok /\ x.late = process[p].late
      BY <1>1, <1>3, <2>1, <2>2 DEF Process
    <2>4. await = "attempt" => n > 0
      BY <1>2, <1>3, <2>1
    <2>5. x \in Sound
      BY <1>1, <1>2, <1>3, <2>3, <2>4 DEF Sound, LoopAwaits, Retrying
    <2>6. QED
      BY <2>3, <2>5
  <1> HIDE DEF x
  <1>7. CASE ok = FALSE \/ Delivering(p)
    <2>1. UNCHANGED accepted
      BY <1>7 DEF Send
    <2>2. QED
      BY <1>1, <1>2, <1>4, <1>5, <1>7, <2>1, GoingOn
  <1>8. CASE ok = TRUE /\ ~Delivering(p)
    <2>1. accepted' = [accepted EXCEPT ![d] = @ + 1]
      BY <1>8 DEF Send, Local
    <2>2. process[p].mode \in {"scan", "manual"} /\ d \in Logs
      BY <1>1, <1>8 DEF Delivering, Local, Sound, Process
    <2>3. Holds(p, d)
      BY <1>1, <1>2, <2>2 DEF Holds, Local
    <2>4. process' \in [Processes -> Sound] /\ OthersStay(p) /\ process'[p] = x
      BY <1>4, <1>5, ProcessMoves DEF IInv, Becomes
    <2>5. accepted' \in [Logs -> Nat]
      BY <2>1, <2>2 DEF IInv, RowsAreTyped
    <2>6. RowsAreTyped'
      BY <1>1, <2>4, <2>5 DEF IInv, RowsAreTyped
    <2>7. ClaimInv' /\ ClosedStay
      BY <1>1, <1>2, <1>5, <1>8, <2>1, <2>2, <2>3, <2>4, <2>6, RowSent DEF IInv
    <2>8. QED
      BY <2>6, <2>7 DEF Goal
  <1>9. QED
    BY <1>7, <1>8
----------------------------------------------------------------------------
(* Steps that write a row *)

(* Where the log is written, its rows stay rows.                            *)
LEMMA Written ==
  ASSUME IInv, NEW p \in Processes, NEW x \in Sound, Becomes(p, x), KeepsOrDrops(p),
         UNCHANGED <<accepted, late>>,
         log' \in [Logs -> Row], ClosedStay, \A e \in Logs : WrittenAway(p, e)
  PROVE  Goal
  <1>1. process' \in [Processes -> Sound] /\ OthersStay(p)
    BY ProcessMoves DEF IInv
  <1>2. RowsAreTyped'
    BY <1>1 DEF IInv, RowsAreTyped
  <1>3. ClaimInv'
    BY <1>1, <1>2, RowsKept DEF IInv
  <1>4. QED
    BY <1>2, <1>3 DEF Goal

(* What p does to the row it retries: only that row changes, it is open     *)
(* afterwards only where no provider accepted, and is closed before only    *)
(* where a late error gave it away.                                         *)
Touches(p, d) ==
  /\ log' \in [Logs -> Row] /\ \A e \in Logs \ {d} : log'[e].status = log[e].status
  /\ IsOpen(d)' => IsOpen(d) \/ process[p].ok = FALSE \/ process[p].late = TRUE

(* p writes the row it held, or that it is to give back, and lets go of it. *)
LEMMA HolderWrites ==
  ASSUME IInv, NEW p \in Processes, process' = [process EXCEPT ![p] = Idle], UNCHANGED <<accepted, late>>,
         NEW d \in Logs, Holds(p, d) \/ (process[p].row = d /\ process[p].late = TRUE), Touches(p, d)
  PROVE  Goal
  <1>1. /\ OthersStay(p) /\ KeepsOrDrops(p) /\ \A e \in Logs : ~Holds(p, e)' /\ ~MaySend(p, e)'
    BY FinishMoves DEF IInv
  <1>2. Becomes(p, Idle)
    BY <1>1 DEF Becomes, IInv, RowsAreTyped
  <1>3. Balanced(d)
    BY DEF IInv, ClaimInv
  <1>4. late[d] = 0 => /\ log[d].status \in {"RETRYING", "BLOCKED"}
                       /\ \A q \in Processes : ~Holds(q, d)'
    <2>1. SUFFICES ASSUME late[d] = 0
                   PROVE  /\ log[d].status \in {"RETRYING", "BLOCKED"}
                          /\ \A q \in Processes : ~Holds(q, d)'
      OBVIOUS
    <2>2. Holds(p, d)
      BY <1>3, <2>1 DEF Balanced
    <2>3. \A q \in Processes : Holds(q, d) => q = p
      BY <1>3, <2>1, <2>2, OneHolder DEF IInv
    <2>4. \A q \in Processes : ~Holds(q, d)'
      BY <1>1, <2>3 DEF OthersStay, Holds, Local
    <2>5. QED
      BY <1>3, <2>1, <2>2, <2>4 DEF Balanced
  <1>5. ClosedStay
    BY <1>4 DEF ClosedStay, Touches
  <1>6. IsOpen(d)' => IsOpen(d) \/ (MaySend(p, d) /\ ~MaySend(p, d)')
    BY <1>1 DEF Touches, MaySend, Holds, Local
  <1>7. \A e \in Logs : WrittenAway(p, e)
    BY <1>4, <1>6 DEF WrittenAway, Touches
  <1>8. Idle \in Sound
    BY IdleIsSound
  <1>9. QED
    BY <1>1, <1>2, <1>5, <1>7, <1>8, Written DEF Touches

(* The scan writes its row, or learns that it was accepted, and then meets  *)
(* an error that it will answer by giving the row back.                     *)
LEMMA HolderFailsLate ==
  ASSUME IInv, NEW p \in Processes, NEW x \in Sound, Becomes(p, x), UNCHANGED accepted,
         NEW d \in Logs, Holds(p, d), Touches(p, d),
         x.row = d, x.mode = "scan", x.late = TRUE, late' = [late EXCEPT ![d] = @ + 1]
  PROVE  Goal
  <1>1. process' \in [Processes -> Sound] /\ OthersStay(p) /\ process'[p] = x
    BY ProcessMoves DEF IInv, Becomes
  <1>2. /\ late' \in [Logs -> Nat] /\ late'[d] = late[d] + 1 /\ \A e \in Logs \ {d} : late'[e] = late[e]
        /\ late[d] \in Nat /\ accepted[d] \in Nat
    BY DEF IInv, RowsAreTyped
  <1>3. RowsAreTyped'
    BY <1>1, <1>2 DEF IInv, RowsAreTyped, Touches
  <1>4. \A e \in Logs : ~Holds(p, e)'
    BY <1>1 DEF Holds, Local
  <1>5. Balanced(d)'
    <2>1. MaySend(p, d)' /\ ~HasSent(p, d)' /\ (IsOpen(d)' => IsOpen(d) \/ MaySend(p, d))
      BY <1>1, <1>4 DEF MaySend, HasSent, Touches, Holds, Local
    <2>2. /\ One(MaySend(p, d)') = 1 /\ One(HasSent(p, d)') = 0
          /\ One(IsOpen(d)') <= One(IsOpen(d)) + One(MaySend(p, d))
          /\ One(MaySend(p, d)) \in Nat /\ One(HasSent(p, d)) \in Nat
          /\ One(IsOpen(d)) \in Nat /\ One(IsOpen(d)') \in Nat
      BY <2>1 DEF One
    <2>3. /\ accepted'[d] + One(MaySend(p, d)') + One(IsOpen(d)') + late[d]
               <= accepted[d] + One(MaySend(p, d)) + One(IsOpen(d)) + late'[d]
          /\ One(HasSent(p, d)') + accepted[d] <= One(HasSent(p, d)) + accepted'[d]
          /\ late[d] <= late'[d] /\ late'[d] # 0
      BY <1>2, <2>2
    <2>4. QED
      BY <1>1, <1>3, <2>3, RowStep DEF IInv, ClaimInv
  <1>6. ASSUME NEW e \in Logs \ {d}
        PROVE  Balanced(e)'
    BY <1>1, <1>2, <1>3, <1>4, RowLeftAlone DEF IInv, ClaimInv, Touches
  <1>7. ClosedStay
    BY DEF ClosedStay, Touches, IInv, ClaimInv, Balanced
  <1>8. QED
    BY <1>3, <1>5, <1>6, <1>7 DEF Goal, ClaimInv

(* An open row is written, by p or by somebody else.                        *)
LEMMA OpenRowIsWritten ==
  ASSUME IInv, NEW p \in Processes, NEW x \in Sound, Becomes(p, x), KeepsOrDrops(p),
         UNCHANGED <<accepted, late>>,
         NEW d \in Logs, IsOpen(d),
         log' \in [Logs -> Row], \A e \in Logs \ {d} : log'[e].status = log[e].status
  PROVE  Goal
  <1>1. late[d] = 0 => \A q \in Processes : ~Holds(q, d)
    BY DEF IInv, ClaimInv, Balanced, IsOpen, Claimable
  <1>2. late[d] = 0 => \A q \in Processes : ~Holds(q, d)'
    BY <1>1 DEF Becomes, OthersStay, KeepsOrDrops, Holds, Local
  <1>3. ClosedStay
    BY DEF ClosedStay, IsOpen, Claimable
  <1>4. \A e \in Logs : WrittenAway(p, e)
    BY <1>2 DEF WrittenAway
  <1>5. QED
    BY <1>3, <1>4, Written

LEMMA FreeRow ==
  ASSUME RowsAreTyped, NEW row \in Row, NewLog(row)
  PROVE  \E d \in Logs : /\ log[d].status = "none" /\ log' \in [Logs -> Row]
                         /\ \A e \in Logs \ {d} : log'[e].status = log[e].status
  <1>1. PICK d : d = (CHOOSE x \in FreeLogs : TRUE) /\ d \in FreeLogs
    BY DEF NewLog
  <1>2. d \in Logs /\ log[d].status = "none" /\ log' = [log EXCEPT ![d] = row]
    BY <1>1 DEF FreeLogs, NewLog
  <1>3. log' \in [Logs -> Row] /\ \A e \in Logs \ {d} : log'[e] = log[e]
    BY <1>2 DEF RowsAreTyped
  <1>4. QED
    BY <1>2, <1>3

LEMMA PolicyIsBoolean ==
  ASSUME NEW kind \in Kinds
  PROVE  ResolveRetryPolicy(kind) \in BOOLEAN
  <1>1. \A t \in DOMAIN TemplatePolicy : TemplatePolicy[t] \in BOOLEAN
    <2>1. DOMAIN TemplatePolicy =
           {"email_verification", "password_reset", "magic_link",
            "two_factor_code", "otp_login", "admin_invitation",
            "password_changed", "welcome", "account_reactivated", "role_updated",
            "login_alert", "security_alert", "account_suspended"}
      BY DEF TemplatePolicy
    <2>2. /\ TemplatePolicy["email_verification"] \in BOOLEAN
          /\ TemplatePolicy["password_reset"] \in BOOLEAN
          /\ TemplatePolicy["magic_link"] \in BOOLEAN
          /\ TemplatePolicy["two_factor_code"] \in BOOLEAN
          /\ TemplatePolicy["otp_login"] \in BOOLEAN
          /\ TemplatePolicy["admin_invitation"] \in BOOLEAN
          /\ TemplatePolicy["password_changed"] \in BOOLEAN
          /\ TemplatePolicy["welcome"] \in BOOLEAN
          /\ TemplatePolicy["account_reactivated"] \in BOOLEAN
          /\ TemplatePolicy["role_updated"] \in BOOLEAN
          /\ TemplatePolicy["login_alert"] \in BOOLEAN
          /\ TemplatePolicy["security_alert"] \in BOOLEAN
          /\ TemplatePolicy["account_suspended"] \in BOOLEAN
      BY DEF TemplatePolicy
    <2>3. QED
      BY <2>1, <2>2
  <1>2. \A t \in DOMAIN PurposePolicy : PurposePolicy[t] \in BOOLEAN
    <2>1. DOMAIN PurposePolicy =
           {"LOGIN", "REGISTER", "PASSWORD_RESET", "PAYMENT_VERIFY",
            "ADMIN_INVITE", "GENERAL"}
      BY DEF PurposePolicy
    <2>2. /\ PurposePolicy["LOGIN"] \in BOOLEAN
          /\ PurposePolicy["REGISTER"] \in BOOLEAN
          /\ PurposePolicy["PASSWORD_RESET"] \in BOOLEAN
          /\ PurposePolicy["PAYMENT_VERIFY"] \in BOOLEAN
          /\ PurposePolicy["ADMIN_INVITE"] \in BOOLEAN
          /\ PurposePolicy["GENERAL"] \in BOOLEAN
      BY DEF PurposePolicy
    <2>3. QED
      BY <2>1, <2>2
  <1>3. kind.purpose \in DOMAIN PurposePolicy
    BY ConstantsAssumption
  <1>4. QED
    BY <1>1, <1>2, <1>3 DEF ResolveRetryPolicy

(* finalizeDeliveryLog writes a row that was free, of a known message.      *)
LEMMA CreateWrites ==
  ASSUME IInv, NEW p \in Processes, CreateLog(p), Handles(p)
  PROVE  \E d \in Logs : /\ IsOpen(d) /\ log' \in [Logs -> Row]
                         /\ \A e \in Logs \ {d} : log'[e].status = log[e].status
  <1> DEFINE retryable == ResolveRetryPolicy(message[Local(p).of].kind)
             again == retryable /\ ~Local(p).ok
             status == IF Local(p).ok THEN "SENT" ELSE IF again THEN "RETRY_SCHEDULED" ELSE "FAILED"
             max == IF retryable THEN MaxRetries ELSE 0
             row == [NoRow EXCEPT !.status = status, !.of = Local(p).of, !.isRetryable = retryable,
                                  !.payload = again, !.max = max]
  <1>1. NewLog(row)
    BY DEF CreateLog
  <1>2. row \in Row
    <2>1. process[p].of \in Messages /\ message[process[p].of].kind \in Kinds
      BY DEF IInv, MessagesAreKnown
    <2>2. retryable \in BOOLEAN
      BY <2>1, PolicyIsBoolean DEF Local
    <2>3. status \in RowStatus /\ again \in BOOLEAN /\ max \in {0, MaxRetries}
      BY <2>2 DEF RowStatus
    <2> HIDE DEF retryable, again, status, max
    <2>4. QED
      BY <2>1, <2>2, <2>3 DEF NoRow, Row, Local
  <1> HIDE DEF row
  <1>3. PICK d \in Logs : /\ log[d].status = "none" /\ log' \in [Logs -> Row]
                          /\ \A e \in Logs \ {d} : log'[e].status = log[e].status
    BY <1>1, <1>2, FreeRow DEF IInv
  <1>4. QED
    BY <1>3 DEF IsOpen

(* A first delivery holds no row, whatever it goes on with.                 *)
LEMMA DeliveryWrites ==
  ASSUME IInv, NEW p \in Processes, Handles(p), CreateLog(p), NEW x \in Sound, Becomes(p, x),
         x.mode = process[p].mode, x.at = "settle", UNCHANGED <<accepted, late>>
  PROVE  Goal
  <1>1. x.late = FALSE /\ process'[p] = x
    BY DEF Sound, Process, Becomes
  <1>2. KeepsOrDrops(p)
    BY <1>1 DEF KeepsOrDrops, Holds, Local, Handles, Delivering
  <1>3. PICK d \in Logs : /\ IsOpen(d) /\ log' \in [Logs -> Row]
                          /\ \A e \in Logs \ {d} : log'[e].status = log[e].status
    BY CreateWrites
  <1>4. QED
    BY <1>2, <1>3, OpenRowIsWritten

LEMMA FinalizeKeeps ==
  ASSUME IInv, NEW p \in Processes, FinalizeDeliveryLog(p)
  PROVE  Goal
  <1> DEFINE x == [process[p] EXCEPT !.at = "settle"]
  <1>1. /\ process[p] \in Process /\ process[p] \in Sound /\ process[p].at = "finalize"
        /\ UNCHANGED <<accepted, late>> /\ CreateLog(p)
    BY ProcessesAreProcesses DEF IInv, FinalizeDeliveryLog, At, history
  <1>2. Becomes(p, x)
    BY <1>1 DEF FinalizeDeliveryLog, Goto, Becomes, OthersStay, IInv, RowsAreTyped
  <1>3. Handles(p) /\ process[p].late = FALSE
    BY <1>1 DEF Sound, Process, Handles, Delivering, Local
  <1>4. x \in Process /\ x.at = "settle" /\ x.mode = process[p].mode /\ x.late = FALSE
        /\ x.mode \in {"queue", "direct"}
    BY <1>1, <1>3 DEF Process, Awaits, Handles, Delivering, Local
  <1> HIDE DEF x
  <1>5. x \in Sound
    BY <1>4 DEF Sound, Retrying
  <1>6. QED
    BY <1>1, <1>2, <1>3, <1>4, <1>5, DeliveryWrites
----------------------------------------------------------------------------
(* executeRetry *)

LEMMA ReadLogKeeps ==
  ASSUME IInv, NEW p \in Processes, ReadLog(p), ~Delivering(p)
  PROVE  Goal
  <1> DEFINE row == log[process[p].row]
             x == [process[p] EXCEPT !.at = "abuse", !.of = row.of,
                                     !.seen = [count |-> row.count, max |-> row.max]]
  <1>1. /\ process[p] \in Process /\ process[p] \in Sound /\ process[p].at = "read"
        /\ UNCHANGED <<log, accepted, late>>
    BY ProcessesAreProcesses DEF IInv, ReadLog, At, history
  <1>2. process[p].mode \in {"scan", "manual"} /\ process[p].row \in Logs /\ process[p].ok = FALSE
        /\ process[p].late = FALSE
    BY <1>1 DEF Delivering, Local, Sound, Process
  <1>3. row \in Row
    BY <1>2 DEF IInv, RowsAreTyped
  <1>4. row.of \in Messages \cup {None} /\ row.count \in Nat /\ row.max \in {0, MaxRetries}
    BY <1>3 DEF Row
  <1>5. Becomes(p, x)
    BY <1>1 DEF ReadLog, Becomes, OthersStay, IInv, RowsAreTyped, Local, Process
  <1> HIDE DEF row
  <1>6. x \in Process /\ x.at = "abuse" /\ x.row = process[p].row /\ x.mode = process[p].mode
        /\ x.ok = process[p].ok /\ x.late = process[p].late
    BY <1>1, <1>4 DEF Process, Awaits
  <1> HIDE DEF x
  <1>7. x \in Sound
    BY <1>1, <1>2, <1>6 DEF Sound, Retrying
  <1>8. QED
    BY <1>1, <1>5, <1>6, <1>7, GoingOn DEF Claiming

(* What blockExistingRetryLog does to the log                               *)
LEMMA BlockWrites ==
  ASSUME IInv, NEW p \in Processes, BlockRow(p), NEW d \in Logs, d = process[p].row
  PROVE  /\ log' \in [Logs -> Row] /\ \A e \in Logs \ {d} : log'[e].status = log[e].status
         /\ \/ log'[d].status = log[d].status
            \/ log'[d].status = "BLOCKED" /\ log[d].status \in Claimable \cup {"RETRYING"}
  <1> DEFINE blocked == [log EXCEPT ![d].status = "BLOCKED", ![d].isRetryable = FALSE, ![d].max = 0,
                                    ![d].due = FALSE]
  <1>1. log' = IF log[d].status \in Claimable \cup {"RETRYING"} THEN blocked ELSE log
    BY DEF BlockRow, Local
  <1>2. CASE log[d].status \in Claimable \cup {"RETRYING"}
    <2>1. log' = blocked
      BY <1>1, <1>2
    <2>2. log' \in [Logs -> Row]
      <3>1. log[d] \in Row
        BY DEF IInv, RowsAreTyped
      <3>2. [log[d] EXCEPT !.status = "BLOCKED", !.isRetryable = FALSE, !.max = 0, !.due = FALSE] \in Row
        BY <3>1 DEF Row, RowStatus
      <3>3. log' = [log EXCEPT ![d] =
               [log[d] EXCEPT !.status = "BLOCKED", !.isRetryable = FALSE, !.max = 0, !.due = FALSE]]
        BY <2>1, <3>1 DEF IInv, RowsAreTyped, Row
      <3>4. QED
        BY <3>2, <3>3 DEF IInv, RowsAreTyped
    <2>3. log'[d].status = "BLOCKED" /\ \A e \in Logs \ {d} : log'[e].status = log[e].status
      BY <2>1 DEF IInv, RowsAreTyped, Row
    <2>4. QED
      BY <1>2, <2>2, <2>3
  <1>3. CASE log[d].status \notin Claimable \cup {"RETRYING"}
    BY <1>1, <1>3 DEF IInv, RowsAreTyped
  <1>4. QED
    BY <1>2, <1>3

LEMMA BlockKeeps ==
  ASSUME IInv, NEW p \in Processes, BlockRow(p), process[p].row \in Logs,
         process' = [process EXCEPT ![p] = Idle], UNCHANGED <<accepted, late>>
  PROVE  Goal
  <1>1. PICK d \in Logs : d = process[p].row
    OBVIOUS
  <1>2. /\ log' \in [Logs -> Row] /\ \A e \in Logs \ {d} : log'[e].status = log[e].status
        /\ \/ log'[d].status = log[d].status
           \/ log'[d].status = "BLOCKED" /\ log[d].status \in Claimable \cup {"RETRYING"}
    BY <1>1, BlockWrites
  <1>3. /\ OthersStay(p) /\ KeepsOrDrops(p) /\ Becomes(p, Idle) /\ Idle \in Sound
    BY FinishMoves, IdleIsSound DEF IInv, Becomes, RowsAreTyped
  <1>4. ClosedStay
    BY <1>2 DEF ClosedStay, Claimable
  <1>5. \A e \in Logs : WrittenAway(p, e)
    BY <1>2 DEF WrittenAway
  <1>6. QED
    BY <1>2, <1>3, <1>4, <1>5, Written

LEMMA RetryHasRow ==
  ASSUME IInv, NEW p \in Processes, process[p].at \in Retrying
  PROVE  /\ process[p].row \in Logs /\ process[p].mode \in {"scan", "manual"} /\ process[p].late = FALSE
         /\ ~Delivering(p)
  BY ProcessesAreProcesses DEF IInv, Sound, Process, Retrying, Delivering, Local

LEMMA BlockRetryKeeps ==
  ASSUME IInv, NEW p \in Processes, BlockRetry(p)
  PROVE  Goal
  <1>1. process[p].row \in Logs
    BY RetryHasRow DEF BlockRetry, At, Retrying
  <1>2. QED
    BY <1>1, BlockKeeps DEF BlockRetry, Finish, history

LEMMA PassAbuseKeeps ==
  ASSUME IInv, NEW p \in Processes, PassAbuse(p)
  PROVE  Goal
  <1> DEFINE await == IF process[p].mode = "manual" THEN "claim" ELSE "candidates"
             x == [process[p] EXCEPT !.at = await]
  <1>1. /\ process[p] \in Process /\ process[p] \in Sound /\ process[p].at = "abuse"
        /\ UNCHANGED <<log, accepted, late>>
    BY ProcessesAreProcesses DEF IInv, PassAbuse, At, history
  <1>2. await \in Awaits /\ (process[p].mode = "manual" => await \in Claiming)
        /\ await \in {"claim", "candidates"} /\ process[p].ok = FALSE /\ process[p].late = FALSE
        /\ process[p].mode \in {"scan", "manual"}
    BY <1>1 DEF Awaits, Claiming, Sound, Process, Retrying
  <1>3. Becomes(p, x)
    BY <1>1 DEF PassAbuse, Goto, Becomes, OthersStay, IInv, RowsAreTyped, Local
  <1> HIDE DEF await
  <1>4. x \in Process /\ x.at = await /\ x.row = process[p].row /\ x.mode = process[p].mode
        /\ x.ok = process[p].ok /\ x.late = process[p].late
    BY <1>1, <1>2 DEF Process
  <1> HIDE DEF x
  <1>5. x \in Sound
    BY <1>1, <1>2, <1>4 DEF Sound, Retrying
  <1>6. QED
    BY <1>1, <1>2, <1>3, <1>4, <1>5, GoingOn

(* The two claims: by the scan, of a process that is idle, and by an        *)
(* administrator's retry.                                                   *)
LEMMA ClaimKeeps ==
  ASSUME IInv, NEW p \in Processes, NEW x \in Sound, Becomes(p, x), UNCHANGED <<accepted, late>>,
         NEW d \in Logs, log[d].status \in Claimable, x.row = d, x.ok = FALSE, x.late = FALSE,
         log' = [log EXCEPT ![d].status = "RETRYING"]
  PROVE  Goal
  <1>1. process' \in [Processes -> Sound] /\ OthersStay(p) /\ process'[p] = x
    BY ProcessMoves DEF IInv, Becomes
  <1>2. log' \in [Logs -> Row]
    BY DEF IInv, RowsAreTyped, Row, RowStatus
  <1>3. log'[d].status = "RETRYING" /\ \A e \in Logs \ {d} : log'[e].status = log[e].status
    BY DEF IInv, RowsAreTyped, Row
  <1>4. RowsAreTyped'
    BY <1>1, <1>2 DEF IInv, RowsAreTyped
  <1>5. ClaimInv' /\ ClosedStay
    BY <1>1, <1>3, <1>4, RowClaimed DEF IInv
  <1>6. QED
    BY <1>4, <1>5 DEF Goal

LEMMA ClaimManuallyKeeps ==
  ASSUME IInv, NEW p \in Processes, ClaimManually(p)
  PROVE  Goal
  <1> DEFINE d == process[p].row
             x == [process[p] EXCEPT !.at = "candidates"]
  <1>1. process[p] \in Process /\ process[p] \in Sound /\ process[p].at = "claim" /\ d \in Logs
    BY ProcessesAreProcesses, RetryHasRow DEF IInv, ClaimManually, At, Retrying
  <1>2. process[p].ok = FALSE /\ process[p].late = FALSE /\ UNCHANGED <<accepted, late>>
    BY <1>1, RetryHasRow DEF Sound, ClaimManually, history, Retrying
  <1>3. CASE log[d].status \in Claimable
    <2>1. log' = [log EXCEPT ![d].status = "RETRYING"] /\ Becomes(p, x)
      BY <1>1, <1>3 DEF ClaimManually, Local, Goto, Becomes, OthersStay, IInv, RowsAreTyped
    <2>2. x \in Process /\ x.at = "candidates" /\ x.row = d /\ x.mode = process[p].mode /\ x.ok = FALSE
          /\ x.late = FALSE
      BY <1>1, <1>2 DEF Process, Awaits
    <2> HIDE DEF x
    <2>3. x \in Sound
      BY <1>1, <2>2 DEF Sound, Retrying
    <2>4. QED
      BY <1>1, <1>2, <1>3, <2>1, <2>2, <2>3, ClaimKeeps
  <1>4. CASE log[d].status \notin Claimable
    BY <1>2, <1>4, LettingGo DEF ClaimManually, Local, Finish
  <1>5. QED
    BY <1>3, <1>4

(* What a retry writes: sent, or scheduled or dead when nobody accepted     *)
LEMMA RetryWrites ==
  ASSUME IInv, NEW p \in Processes, WriteRow(p), process[p].at = "write",
         NEW d \in Logs, d = process[p].row
  PROVE  Holds(p, d) /\ Touches(p, d)
  <1> DEFINE count == process[p].seen.count + 1
             exhausted == count >= process[p].seen.max
             status == IF exhausted THEN "DEAD_LETTER" ELSE "RETRY_SCHEDULED"
  <1>1. /\ process[p] \in Process /\ d \in Logs
        /\ process[p].mode \in {"scan", "manual"} /\ process[p].late = FALSE
    BY ProcessesAreProcesses, RetryHasRow DEF IInv, Retrying
  <1>2. Holds(p, d)
    BY <1>1 DEF Holds, Local
  <1>3. log[d] \in Row
    BY <1>1 DEF IInv, RowsAreTyped
  <1>4. CASE process[p].ok = TRUE
    <2>1. log' = [log EXCEPT ![d].status = "SENT", ![d].due = FALSE]
      BY <1>4 DEF WriteRow, WriteSuccess, Local
    <2>2. log' \in [Logs -> Row]
      <3>1. [log[d] EXCEPT !.status = "SENT", !.due = FALSE] \in Row
        BY <1>3 DEF Row, RowStatus
      <3>2. log' = [log EXCEPT ![d] = [log[d] EXCEPT !.status = "SENT", !.due = FALSE]]
        BY <1>1, <1>3, <2>1 DEF IInv, RowsAreTyped, Row
      <3>3. QED
        BY <1>1, <3>1, <3>2 DEF IInv, RowsAreTyped
    <2>3. log'[d].status = "SENT" /\ \A e \in Logs \ {d} : log'[e].status = log[e].status
      BY <1>1, <2>1 DEF IInv, RowsAreTyped, Row
    <2>4. QED
      BY <1>2, <2>2, <2>3 DEF Touches, IsOpen, Claimable
  <1>5. CASE process[p].ok = FALSE
    <2>1. count \in Nat
      BY <1>1 DEF Process
    <2>2. log' = [log EXCEPT ![d].status = status, ![d].count = count, ![d].due = FALSE]
      BY <1>5 DEF WriteRow, WriteFailure, Local
    <2>3. status \in RowStatus
      BY DEF RowStatus
    <2> HIDE DEF status, count, exhausted
    <2>4. log' \in [Logs -> Row]
      <3>1. [log[d] EXCEPT !.status = status, !.count = count, !.due = FALSE] \in Row
        BY <1>3, <2>1, <2>3 DEF Row, RowStatus
      <3>2. log' = [log EXCEPT ![d] = [log[d] EXCEPT !.status = status, !.count = count, !.due = FALSE]]
        BY <1>1, <1>3, <2>2 DEF IInv, RowsAreTyped, Row
      <3>3. QED
        BY <1>1, <3>1, <3>2 DEF IInv, RowsAreTyped
    <2>5. \A e \in Logs \ {d} : log'[e].status = log[e].status
      BY <1>1, <2>2 DEF IInv, RowsAreTyped, Row
    <2>6. QED
      BY <1>2, <1>5, <2>4, <2>5 DEF Touches
  <1>6. QED
    BY <1>1, <1>4, <1>5 DEF Process

LEMMA WriteKeeps ==
  ASSUME IInv, NEW p \in Processes, WriteRow(p), process[p].at = "write",
         process' = [process EXCEPT ![p] = Idle], UNCHANGED <<accepted, late>>
  PROVE  Goal
  <1>1. PICK d \in Logs : d = process[p].row
    BY RetryHasRow DEF Retrying
  <1>2. Holds(p, d) /\ Touches(p, d)
    BY <1>1, RetryWrites
  <1>3. QED
    BY <1>2, HolderWrites

LEMMA WriteRetryKeeps ==
  ASSUME IInv, NEW p \in Processes, WriteRetry(p)
  PROVE  Goal
  BY WriteKeeps DEF WriteRetry, At, Finish, history

LEMMA ReleaseKeeps ==
  ASSUME IInv, NEW p \in Processes, ReleaseAfterError(p)
  PROVE  Goal
  <1>1. PICK d \in Logs :
             /\ process[p] \in Sound /\ process[p].at = "release" /\ process[p].row = d
             /\ process[p].mode = "scan" /\ (process[p].late = TRUE \/ process[p].ok = FALSE)
             /\ process[p].late \in BOOLEAN
    BY ProcessesAreProcesses DEF IInv, ReleaseAfterError, At, Sound, Process
  <1>2. Holds(p, d) \/ process[p].late = TRUE
    BY <1>1 DEF Holds, Local
  <1>3. process' = [process EXCEPT ![p] = Idle] /\ UNCHANGED <<accepted, late>>
    BY DEF ReleaseAfterError, Finish, history
  <1>4. CASE log[d].status = "RETRYING"
    <2>1. log' = [log EXCEPT ![d].status = "RETRY_SCHEDULED", ![d].due = FALSE]
      BY <1>1, <1>4 DEF ReleaseAfterError, Local
    <2>2. log' \in [Logs -> Row]
      <3>1. log[d] \in Row
        BY <1>1 DEF IInv, RowsAreTyped
      <3>2. [log[d] EXCEPT !.status = "RETRY_SCHEDULED", !.due = FALSE] \in Row
        BY <3>1 DEF Row, RowStatus
      <3>3. log' = [log EXCEPT ![d] = [log[d] EXCEPT !.status = "RETRY_SCHEDULED", !.due = FALSE]]
        BY <1>1, <2>1, <3>1 DEF IInv, RowsAreTyped, Row
      <3>4. QED
        BY <1>1, <3>2, <3>3 DEF IInv, RowsAreTyped
    <2>3. \A e \in Logs \ {d} : log'[e].status = log[e].status
      BY <1>1, <2>1 DEF IInv, RowsAreTyped, Row
    <2>4. Touches(p, d)
      BY <1>1, <2>2, <2>3 DEF Touches
    <2>5. QED
      BY <1>1, <1>2, <1>3, <2>4, HolderWrites
  <1>5. CASE log[d].status # "RETRYING"
    BY <1>1, <1>3, <1>5, LettingGo DEF ReleaseAfterError, Local
  <1>6. QED
    BY <1>4, <1>5
----------------------------------------------------------------------------
(* Steps that begin or end something *)

(* An open row is written by no process in particular.                      *)
LEMMA WrittenOutside ==
  ASSUME IInv, UNCHANGED <<process, accepted, late>>,
         NEW d \in Logs, IsOpen(d),
         log' \in [Logs -> Row], \A e \in Logs \ {d} : log'[e].status = log[e].status
  PROVE  Goal
  <1>1. \A e : /\ Senders(e)' = Senders(e) /\ Done(e)' = Done(e)
               /\ \A q \in Processes : Holds(q, e)' <=> Holds(q, e)
    BY DEF Senders, Done, MaySend, HasSent, Holds, Local
  <1>2. RowsAreTyped'
    BY DEF IInv, RowsAreTyped
  <1>3. ASSUME NEW e \in Logs PROVE Balanced(e)'
    <2>1. Balanced(e)
      BY DEF IInv, ClaimInv
    <2>2. IsOpen(e)' => IsOpen(e)
      BY DEF IsOpen
    <2>3. One(IsOpen(e)') <= One(IsOpen(e)) /\ One(IsOpen(e)') \in Nat /\ One(IsOpen(e)) \in Nat
      BY <2>2 DEF One
    <2>4. /\ accepted'[e] = accepted[e] /\ late'[e] = late[e] /\ accepted[e] \in Nat /\ late[e] \in Nat
          /\ Cardinality(Senders(e)) \in Nat
      BY CountsAreFinite DEF IInv, RowsAreTyped
    <2>5. /\ Cardinality(Senders(e)') = Cardinality(Senders(e))
          /\ Cardinality(Done(e)') = Cardinality(Done(e))
      BY <1>1
    <2>6. accepted'[e] + Cardinality(Senders(e)') + One(IsOpen(e)') <= 1 + late'[e]
      BY <2>1, <2>3, <2>4, <2>5 DEF Balanced
    <2>7. Cardinality(Done(e)') <= accepted'[e]
      BY <2>1, <2>4, <2>5 DEF Balanced
    <2>8. late[e] = 0 => \A q \in Processes : Holds(q, e) => e # d
      BY <2>1 DEF Balanced, IsOpen, Claimable
    <2>9. QED
      BY <1>1, <2>1, <2>6, <2>7, <2>8 DEF Balanced
  <1>4. ClosedStay
    BY DEF ClosedStay, IsOpen, Claimable
  <1>5. QED
    BY <1>2, <1>3, <1>4 DEF Goal, ClaimInv

LEMMA NothingWritten ==
  ASSUME IInv, UNCHANGED <<process, log, accepted, late>>
  PROVE  Goal
  <1>1. \A e : /\ Senders(e)' = Senders(e) /\ Done(e)' = Done(e) /\ (IsOpen(e)' <=> IsOpen(e))
               /\ \A q \in Processes : Holds(q, e)' <=> Holds(q, e)
    BY DEF Senders, Done, MaySend, HasSent, Holds, Local, IsOpen
  <1>2. \A e \in Logs : One(IsOpen(e)') = One(IsOpen(e))
    BY <1>1 DEF One
  <1>3. ClaimInv'
    BY <1>1, <1>2 DEF IInv, ClaimInv, Balanced
  <1>4. QED
    BY <1>3 DEF Goal, IInv, RowsAreTyped, ClosedStay

(* A process that was idle begins something and holds nothing yet.          *)
LEMMA Beginning ==
  ASSUME IInv, NEW p \in Processes, NEW x \in Sound, Becomes(p, x), UNCHANGED <<log, accepted, late>>,
         x.late = FALSE, x.mode \in {"queue", "direct"} \/ (x.mode = "manual" /\ x.at \in Claiming)
  PROVE  Goal
  <1>1. process' \in [Processes -> Sound] /\ OthersStay(p) /\ process'[p] = x
    BY ProcessMoves DEF IInv, Becomes
  <1>2. KeepsOrDrops(p)
    BY <1>1 DEF KeepsOrDrops, Holds, Local, Claiming
  <1>3. RowsAreTyped' /\ \A e \in Logs : WrittenAway(p, e)
    BY <1>1 DEF IInv, RowsAreTyped, WrittenAway
  <1>4. ClaimInv'
    BY <1>1, <1>2, <1>3, RowsKept DEF IInv
  <1>5. QED
    BY <1>3, <1>4 DEF Goal, ClosedStay

Started(p, x) == process' = [process EXCEPT ![p] = x]

LEMMA StartedBecomes ==
  ASSUME IInv, NEW p \in Processes, NEW x, Started(p, x)
  PROVE  Becomes(p, x)
  BY DEF Started, Becomes, OthersStay, IInv, RowsAreTyped

LEMMA FreshDelivery ==
  ASSUME NEW m \in Messages, NEW x \in Process, x.at = "candidates", x.ok = FALSE, x.late = FALSE,
         x.mode \in {"queue", "direct"}
  PROVE  x \in Sound
  BY DEF Sound, Retrying

LEMMA FreshRetry ==
  ASSUME NEW d \in Logs, NEW mode \in {"scan", "manual"}
  PROVE  LET x == [Idle EXCEPT !.at = "read", !.mode = mode, !.row = d]
         IN x \in Sound /\ x.mode = mode /\ x.at = "read" /\ x.row = d /\ x.ok = FALSE /\ x.late = FALSE
  <1> DEFINE x == [Idle EXCEPT !.at = "read", !.mode = mode, !.row = d]
  <1>1. Idle \in Process /\ Idle.ok = FALSE /\ Idle.late = FALSE
    BY IdleIsSound
  <1>2. x \in Process /\ x.mode = mode /\ x.at = "read" /\ x.ok = FALSE /\ x.row = d /\ x.late = FALSE
    BY <1>1 DEF Process, Awaits
  <1> HIDE DEF x
  <1>3. x \in Sound
    BY <1>2 DEF Sound
  <1>4. QED
    BY <1>2, <1>3 DEF x

LEMMA DispatchKeeps ==
  ASSUME IInv, NEW p \in Requests, NEW m \in Messages, NEW channel, NEW kind, Dispatch(p, m, channel, kind)
  PROVE  Goal
  <1> DEFINE row == [NoRow EXCEPT !.status = "BLOCKED", !.of = m]
  <1>1. UNCHANGED <<accepted, late>> /\ p \in Processes
    BY DEF Dispatch, Processes, history
  <1>2. CASE NewLog(row) /\ UNCHANGED process
    <2>1. row \in Row
      BY DEF NoRow, Row, RowStatus
    <2> HIDE DEF row
    <2>2. PICK d \in Logs : /\ log[d].status = "none" /\ log' \in [Logs -> Row]
                            /\ \A e \in Logs \ {d} : log'[e].status = log[e].status
      BY <1>2, <2>1, FreeRow DEF IInv
    <2>3. QED
      BY <1>1, <1>2, <2>2, WrittenOutside DEF IsOpen
  <1>3. CASE UNCHANGED <<log, process>>
    BY <1>1, <1>3, NothingWritten
  <1> DEFINE x == [Idle EXCEPT !.at = "candidates", !.mode = "direct", !.of = m]
  <1>4. CASE Started(p, x) /\ UNCHANGED log
    <2>1. Idle \in Process /\ Idle.ok = FALSE /\ Idle.late = FALSE
      BY IdleIsSound
    <2>2. x \in Process /\ x.at = "candidates" /\ x.mode = "direct" /\ x.ok = FALSE /\ x.late = FALSE
      BY <2>1 DEF Process, Awaits
    <2> HIDE DEF x
    <2>3. QED
      BY <1>1, <1>4, <2>2, StartedBecomes, FreshDelivery, Beginning
  <1>5. QED
    BY <1>2, <1>3, <1>4 DEF Dispatch, Started

LEMMA ReserveKeeps ==
  ASSUME IInv, NEW w \in Workers, NEW m \in Messages, Reserve(w, m)
  PROVE  Goal
  <1>1. UNCHANGED <<log, accepted, late>> /\ w \in Processes
    BY DEF Reserve, Processes, history
  <1> DEFINE x == [Idle EXCEPT !.at = "candidates", !.of = m]
  <1>2. Started(w, x)
    BY DEF Reserve, Started
  <1>3. Idle \in Process /\ Idle.ok = FALSE /\ Idle.late = FALSE /\ Idle.mode = "queue"
    BY IdleIsSound
  <1>4. x \in Process /\ x.at = "candidates" /\ x.mode = "queue" /\ x.ok = FALSE /\ x.late = FALSE
    BY <1>3 DEF Process, Awaits
  <1> HIDE DEF x
  <1>5. QED
    BY <1>1, <1>2, <1>4, StartedBecomes, FreshDelivery, Beginning

LEMMA ClaimDueKeeps ==
  ASSUME IInv, NEW w \in Workers, NEW d \in Logs, ClaimDue(w, d)
  PROVE  Goal
  <1> DEFINE x == [Idle EXCEPT !.at = "read", !.mode = "scan", !.row = d]
  <1>1. UNCHANGED <<accepted, late>> /\ w \in Processes
    BY DEF ClaimDue, Processes, history
  <1>2. CASE Scheduled(d) /\ log' = [log EXCEPT ![d].status = "RETRYING"] /\ Started(w, x)
    <2>1. x \in Sound /\ x.row = d /\ x.ok = FALSE /\ x.late = FALSE
      BY FreshRetry
    <2> HIDE DEF x
    <2>2. Becomes(w, x)
      BY <1>1, <1>2, StartedBecomes
    <2>3. log[d].status \in Claimable
      BY <1>2 DEF Scheduled, Claimable
    <2>4. QED
      BY <1>1, <1>2, <2>1, <2>2, <2>3, ClaimKeeps
  <1>3. CASE UNCHANGED <<log, process>>
    BY <1>1, <1>3, NothingWritten
  <1>4. QED
    BY <1>2, <1>3 DEF ClaimDue, Retry, Started

LEMMA RetryNowKeeps ==
  ASSUME IInv, NEW a \in Requests, NEW d \in Logs, RetryDeliveryLogNow(a, d)
  PROVE  Goal
  <1> DEFINE x == [Idle EXCEPT !.at = "read", !.mode = "manual", !.row = d]
  <1>1. UNCHANGED <<log, accepted, late>> /\ a \in Processes /\ Started(a, x)
    BY DEF RetryDeliveryLogNow, Retry, Processes, Started, history
  <1>2. x \in Sound /\ x.mode = "manual" /\ x.at \in Claiming /\ x.late = FALSE
    BY FreshRetry DEF Claiming
  <1> HIDE DEF x
  <1>3. QED
    BY <1>1, <1>2, StartedBecomes, Beginning

LEMMA CancelKeeps ==
  ASSUME IInv, NEW d \in Logs, CancelRetry(d) \/ RetryComesDue(d)
  PROVE  Goal
  <1>1. UNCHANGED <<process, accepted, late>> /\ IsOpen(d)
    BY DEF CancelRetry, RetryComesDue, Scheduled, IsOpen, Claimable, history
  <1>2. CASE CancelRetry(d)
    <2>1. log' = [log EXCEPT ![d].status = "CANCELLED", ![d].due = FALSE]
      BY <1>2 DEF CancelRetry
    <2>2. log' \in [Logs -> Row]
      <3>1. log[d] \in Row
        BY DEF IInv, RowsAreTyped
      <3>2. [log[d] EXCEPT !.status = "CANCELLED", !.due = FALSE] \in Row
        BY <3>1 DEF Row, RowStatus
      <3>3. log' = [log EXCEPT ![d] = [log[d] EXCEPT !.status = "CANCELLED", !.due = FALSE]]
        BY <2>1, <3>1 DEF IInv, RowsAreTyped, Row
      <3>4. QED
        BY <3>2, <3>3 DEF IInv, RowsAreTyped
    <2>3. \A e \in Logs \ {d} : log'[e].status = log[e].status
      BY <2>1 DEF IInv, RowsAreTyped, Row
    <2>4. QED
      BY <1>1, <2>2, <2>3, WrittenOutside
  <1>3. CASE RetryComesDue(d)
    <2>1. log' = [log EXCEPT ![d].due = TRUE]
      BY <1>3 DEF RetryComesDue
    <2>2. log' \in [Logs -> Row] /\ \A e \in Logs \ {d} : log'[e].status = log[e].status
      BY <2>1 DEF IInv, RowsAreTyped, Row
    <2>3. QED
      BY <1>1, <2>2, WrittenOutside
  <1>4. QED
    BY <1>2, <1>3

(* An error that comes before anything is written or accepted: a delivery   *)
(* settles, the scan keeps its row to give it back, an administrator's      *)
(* retry is gone.                                                           *)
Failing(p) == [process[p] EXCEPT !.at = "settle", !.allLimited = FALSE, !.ok = FALSE]

LEMMA FailingIsSound ==
  ASSUME IInv, NEW p \in Processes, Handles(p), process[p].at # "release"
  PROVE  /\ Failing(p) \in Sound /\ Failing(p).mode = process[p].mode /\ Failing(p).row = process[p].row
         /\ Failing(p).late = process[p].late /\ Failing(p).at = "settle"
  <1> DEFINE x == Failing(p)
  <1>1. /\ process[p] \in Process /\ process[p] \in Sound /\ process[p].late = FALSE
        /\ process[p].mode \in {"queue", "direct"}
    BY ProcessesAreProcesses DEF IInv, Sound, Process, Handles, Delivering, Local
  <1>2. /\ x \in Process /\ x.at = "settle" /\ x.row = process[p].row /\ x.mode = process[p].mode
        /\ x.late = process[p].late
    BY <1>1 DEF Failing, Process, Awaits
  <1> HIDE DEF x
  <1>3. x \in Sound
    BY <1>1, <1>2 DEF Sound, Retrying
  <1>4. QED
    BY <1>2, <1>3 DEF x

Releasing(p, isLate) == [process[p] EXCEPT !.at = "release", !.late = isLate]

LEMMA ReleasingIsSound ==
  ASSUME IInv, NEW p \in Processes, NEW isLate \in BOOLEAN, process[p].mode = "scan",
         isLate = TRUE \/ process[p].ok = FALSE
  PROVE  /\ Releasing(p, isLate) \in Sound /\ Releasing(p, isLate).mode = "scan"
         /\ Releasing(p, isLate).row = process[p].row /\ Releasing(p, isLate).ok = process[p].ok
         /\ Releasing(p, isLate).late = isLate
  <1> DEFINE x == Releasing(p, isLate)
  <1>1. process[p] \in Process /\ process[p].row \in Logs
    BY ProcessesAreProcesses DEF IInv, Sound
  <1>2. /\ x \in Process /\ x.at = "release" /\ x.row = process[p].row /\ x.mode = "scan"
        /\ x.ok = process[p].ok /\ x.late = isLate
    BY <1>1 DEF Releasing, Process, Awaits
  <1> HIDE DEF x
  <1>3. x \in Sound
    BY <1>1, <1>2 DEF Sound, Retrying
  <1>4. QED
    BY <1>2, <1>3 DEF x

(* What Thrown does, by what p runs                                         *)
LEMMA ThrownBecomes ==
  ASSUME IInv, NEW p \in Processes, NEW isLate \in BOOLEAN, Thrown(p, isLate)
  PROVE  /\ UNCHANGED <<message, accepted>>
         /\ \/ Delivering(p) /\ Started(p, Failing(p)) /\ UNCHANGED late
            \/ /\ process[p].mode = "scan" /\ Started(p, Releasing(p, isLate))
               /\ late' = IF isLate THEN [late EXCEPT ![process[p].row] = @ + 1] ELSE late
            \/ process[p].mode = "manual" /\ process' = [process EXCEPT ![p] = Idle] /\ UNCHANGED late
  <1>1. process[p].mode \in {"queue", "direct", "scan", "manual"}
    BY ProcessesAreProcesses DEF IInv, Process
  <1>2. CASE process[p].mode \in {"queue", "direct"}
    BY <1>2 DEF Thrown, Started, Failing, Delivering, Local
  <1>3. CASE process[p].mode = "scan"
    BY <1>3 DEF Thrown, Started, Releasing, Delivering, Local
  <1>4. CASE process[p].mode = "manual"
    BY <1>4 DEF Thrown, Delivering, Local
  <1>5. UNCHANGED <<message, accepted>>
    BY DEF Thrown
  <1>6. QED
    BY <1>1, <1>2, <1>3, <1>4, <1>5

LEMMA ThrowKeeps ==
  ASSUME IInv, NEW p \in Processes, Throw(p)
  PROVE  Goal
  <1> DEFINE isLate == process[p].at = "write" /\ process[p].ok
  <1>1. /\ process[p] \in Process /\ process[p] \in Sound /\ isLate \in BOOLEAN
        /\ process[p].at \in {"candidates", "attempt", "finalize", "read", "abuse", "claim", "write"}
        /\ UNCHANGED log /\ Thrown(p, isLate)
    BY ProcessesAreProcesses DEF IInv, Throw, At, Local
  <1>2. process[p].at \notin {"write", "finalize"} => process[p].ok = FALSE
    BY <1>1 DEF Sound
  <1>3. /\ process[p].late = FALSE /\ process[p].at # "release"
        /\ process[p].mode \in {"scan", "manual"} => process[p].row \in Logs /\ process[p].at # "finalize"
    BY <1>1 DEF Sound, Process
  <1>4. UNCHANGED accepted
    BY <1>1 DEF Thrown
  <1>5. CASE Delivering(p) /\ Started(p, Failing(p)) /\ UNCHANGED late
    <2>1. Handles(p)
      BY <1>1, <1>5 DEF Handles
    <2>2. PICK x \in Sound : /\ x = Failing(p) /\ x.mode = process[p].mode /\ x.row = process[p].row
                             /\ x.late = process[p].late /\ x.at = "settle"
      BY <1>3, <2>1, FailingIsSound
    <2>3. Becomes(p, x)
      BY <1>5, <2>2, StartedBecomes
    <2>4. x.mode # "manual"
      BY <1>5, <2>2 DEF Delivering, Local
    <2>5. QED
      BY <1>1, <1>4, <1>5, <2>2, <2>3, <2>4, GoingOn
  <1>6. CASE /\ process[p].mode = "scan" /\ Started(p, Releasing(p, isLate))
             /\ late' = IF isLate THEN [late EXCEPT ![process[p].row] = @ + 1] ELSE late
    <2>1. isLate = TRUE \/ process[p].ok = FALSE
      BY <1>1, <1>2, <1>3, <1>6 DEF Process
    <2>2. PICK x \in Sound : /\ x = Releasing(p, isLate) /\ x.mode = "scan" /\ x.row = process[p].row
                             /\ x.ok = process[p].ok /\ x.late = isLate
      BY <1>1, <1>6, <2>1, ReleasingIsSound
    <2>3. Becomes(p, x)
      BY <1>6, <2>2, StartedBecomes
    <2>4. PICK d \in Logs : d = process[p].row
      BY <1>3, <1>6
    <2>5. CASE isLate = FALSE
      BY <1>1, <1>3, <1>4, <1>6, <2>2, <2>3, <2>5, GoingOn
    <2>6. CASE isLate = TRUE
      <3>1. Holds(p, d)
        BY <1>3, <1>6, <2>4 DEF Holds, Local
      <3>2. Touches(p, d)
        BY <1>1 DEF Touches, IsOpen, IInv, RowsAreTyped
      <3>3. late' = [late EXCEPT ![d] = @ + 1]
        BY <1>6, <2>4, <2>6
      <3>4. QED
        BY <1>4, <2>2, <2>3, <2>4, <2>6, <3>1, <3>2, <3>3, HolderFailsLate
    <2>7. QED
      BY <1>1, <2>5, <2>6
  <1>7. CASE process[p].mode = "manual" /\ process' = [process EXCEPT ![p] = Idle] /\ UNCHANGED late
    BY <1>1, <1>4, <1>7, LettingGo
  <1>8. QED
    BY <1>1, <1>5, <1>6, <1>7, ThrownBecomes

(* The row is written and the error comes after.                            *)
LEMMA AuditThrowsKeeps ==
  ASSUME IInv, NEW p \in Processes, AuditThrows(p)
  PROVE  Goal
  <1>1. Thrown(p, TRUE) /\ TRUE \in BOOLEAN /\ UNCHANGED accepted
    BY DEF AuditThrows, Thrown
  <1>2. process[p] \in Process /\ process[p] \in Sound
    BY ProcessesAreProcesses DEF IInv
  <1>3. CASE process[p].at = "finalize" /\ CreateLog(p)
    <2>1. Handles(p) /\ Delivering(p)
      BY <1>2, <1>3 DEF Sound, Handles, Delivering, Local
    <2>2. Started(p, Failing(p)) /\ UNCHANGED late
      BY <1>1, <2>1, ThrownBecomes DEF Delivering, Local
    <2>3. PICK x \in Sound : x = Failing(p) /\ x.mode = process[p].mode /\ x.at = "settle"
      BY <1>3, <2>1, FailingIsSound
    <2>4. Becomes(p, x)
      BY <2>2, <2>3, StartedBecomes
    <2>5. QED
      BY <1>1, <1>3, <2>1, <2>2, <2>3, <2>4, DeliveryWrites
  <1>4. ASSUME process[p].at \in {"abuse", "write"},
               NEW d \in Logs, d = process[p].row,
               process[p].mode = "scan" => Holds(p, d) /\ Touches(p, d),
               process' = [process EXCEPT ![p] = Idle] /\ UNCHANGED late => Goal
        PROVE  Goal
    <2>1. process[p].mode \in {"scan", "manual"} /\ ~Delivering(p)
      BY <1>4, RetryHasRow DEF Retrying
    <2>2. CASE process[p].mode = "scan"
      <3>1. Started(p, Releasing(p, TRUE)) /\ late' = [late EXCEPT ![d] = @ + 1]
        BY <1>1, <1>4, <2>1, <2>2, ThrownBecomes
      <3>2. PICK x \in Sound : /\ x = Releasing(p, TRUE) /\ x.mode = "scan" /\ x.row = d /\ x.late = TRUE
        BY <1>4, <2>2, ReleasingIsSound
      <3>3. Becomes(p, x)
        BY <3>1, <3>2, StartedBecomes
      <3>4. QED
        BY <1>1, <1>4, <2>2, <3>1, <3>2, <3>3, HolderFailsLate
    <2>3. CASE process[p].mode = "manual"
      BY <1>1, <1>4, <2>1, <2>3, ThrownBecomes
    <2>4. QED
      BY <2>1, <2>2, <2>3
  <1>5. CASE process[p].at = "abuse" /\ BlockRow(p)
    <2>1. PICK d \in Logs : d = process[p].row
      BY <1>5, RetryHasRow DEF Retrying
    <2>2. process[p].mode = "scan" => Holds(p, d)
      BY <1>5, <2>1, RetryHasRow DEF Holds, Local, Retrying
    <2>3. Touches(p, d)
      BY <1>5, <2>1, BlockWrites DEF Touches, IsOpen, Claimable
    <2>4. process' = [process EXCEPT ![p] = Idle] /\ UNCHANGED late => Goal
      BY <1>1, <1>5, <2>1, BlockKeeps
    <2>5. QED
      BY <1>4, <1>5, <2>1, <2>2, <2>3, <2>4
  <1>6. CASE process[p].at = "write" /\ WriteRow(p)
    <2>1. PICK d \in Logs : d = process[p].row
      BY <1>6, RetryHasRow DEF Retrying
    <2>2. Holds(p, d) /\ Touches(p, d)
      BY <1>6, <2>1, RetryWrites
    <2>3. process' = [process EXCEPT ![p] = Idle] /\ UNCHANGED late => Goal
      BY <1>1, <1>6, WriteKeeps
    <2>4. QED
      BY <1>4, <1>6, <2>1, <2>2, <2>3
  <1>7. QED
    BY <1>3, <1>5, <1>6 DEF AuditThrows, At

LEMMA ScanThrowsKeeps ==
  ASSUME IInv, NEW w \in Workers, ScanThrows(w)
  PROVE  Goal
  BY LettingGo DEF ScanThrows, Finish, Processes, history
----------------------------------------------------------------------------
(* Messages *)

(* A step makes no message new, and a delivery goes on with its own.        *)
LEMMA MessagesStay ==
  ASSUME MessagesAreKnown, UNCHANGED message,
         \A q \in Processes : Handles(q)' => Handles(q) /\ process'[q].of = process[q].of
  PROVE  MessagesAreKnown'
  BY DEF MessagesAreKnown

LEMMA MessageMoves ==
  ASSUME MessagesAreKnown, NEW m \in Messages, NEW x \in Dispatched,
         message' = [message EXCEPT ![m] = x], x.state # "new", x.kind \in Kinds,
         \A q \in Processes : Handles(q)' => \/ Handles(q) /\ process'[q].of = process[q].of
                                             \/ process'[q].of = m
  PROVE  MessagesAreKnown'
  <1>1. message' \in [Messages -> Dispatched] /\ message'[m] = x
        /\ \A n \in Messages \ {m} : message'[n] = message[n]
    BY DEF MessagesAreKnown
  <1>2. QED
    BY <1>1 DEF MessagesAreKnown

LEMMA HandledIsKnown ==
  ASSUME MessagesAreKnown, NEW p \in Processes, Handles(p)
  PROVE  /\ process[p].of \in Messages /\ message[process[p].of] \in Dispatched
         /\ message[process[p].of].kind \in Kinds
  BY DEF MessagesAreKnown

(* The steps of a delivery or a retry that leave the message alone          *)
LEMMA ContinueKeepsMessages ==
  ASSUME IInv, NEW p \in Processes, UNCHANGED message,
         \/ FindCandidates(p) \/ SkipLimited(p) \/ (\E ok \in BOOLEAN : Send(p, ok))
         \/ FinalizeDeliveryLog(p) \/ ReleaseAfterError(p)
         \/ (~Delivering(p) /\ (ReadLog(p) \/ BlockRetry(p) \/ PassAbuse(p) \/ ClaimManually(p) \/ WriteRetry(p)))
  PROVE  MessagesAreKnown'
  <1>1. process[p] \in Process /\ Idle.at = "idle"
    BY ProcessesAreProcesses, IdleIsSound DEF IInv
  <1>2. \A q \in Processes \ {p} : process'[q] = process[q]
    BY DEF IInv, RowsAreTyped, FindCandidates, TryCandidates, SkipLimited, Send, FinalizeDeliveryLog,
           ReleaseAfterError, ReadLog, BlockRetry, PassAbuse, ClaimManually, WriteRetry, Goto, Finish
  <1>3. Handles(p)' => Handles(p) /\ process'[p].of = process[p].of
    <2>1. CASE process'[p] = Idle
      BY <1>1, <2>1 DEF Handles
    <2>2. CASE FindCandidates(p) \/ SkipLimited(p) \/ (\E ok \in BOOLEAN : Send(p, ok)) \/ FinalizeDeliveryLog(p)
      <3>1. process'[p].mode = process[p].mode /\ process'[p].of = process[p].of
        <4>1. CASE FindCandidates(p)
          <5>1. ASSUME NEW n \in 0 .. MaxCandidates, TryCandidates(p, n)
                PROVE  process'[p].mode = process[p].mode /\ process'[p].of = process[p].of
            <6> DEFINE await == IF n = 0 THEN EndOfLoop(p) ELSE "attempt"
                       limited == n > 0
            <6>1. process' = [process EXCEPT ![p].at = await, ![p].left = n, ![p].allLimited = limited]
              BY <5>1 DEF TryCandidates
            <6> HIDE DEF await, limited
            <6>2. QED
              BY <1>1, <6>1 DEF IInv, RowsAreTyped, Process
          <5>2. ASSUME process' = [process EXCEPT ![p].at = "settle", ![p].allLimited = FALSE]
                PROVE  process'[p].mode = process[p].mode /\ process'[p].of = process[p].of
            BY <1>1, <5>2 DEF IInv, RowsAreTyped, Process
          <5>3. QED
            BY <4>1, <5>1, <5>2 DEF FindCandidates
        <4>2. CASE SkipLimited(p)
          BY <1>1, <4>2 DEF IInv, RowsAreTyped, SkipLimited, Process
        <4>3. ASSUME NEW ok \in BOOLEAN, Send(p, ok)
              PROVE  process'[p].mode = process[p].mode /\ process'[p].of = process[p].of
          BY <1>1, <4>3 DEF IInv, RowsAreTyped, Send, Process
        <4>4. CASE FinalizeDeliveryLog(p)
          BY <1>1, <4>4 DEF IInv, RowsAreTyped, FinalizeDeliveryLog, Goto, Process
        <4>5. QED
          BY <2>2, <4>1, <4>2, <4>3, <4>4
      <3>2. process[p].at # "idle"
        BY <2>2 DEF FindCandidates, SkipLimited, Send, FinalizeDeliveryLog, At
      <3>3. QED
        BY <3>1, <3>2 DEF Handles, Delivering, Local
    <2>3. CASE ~Delivering(p) /\ (ReadLog(p) \/ PassAbuse(p) \/ (ClaimManually(p) /\ Goto(p, "candidates")))
      <3>1. process'[p].mode = process[p].mode
        BY <1>1, <2>3 DEF IInv, RowsAreTyped, ReadLog, PassAbuse, Goto, Process
      <3>2. QED
        BY <2>3, <3>1 DEF Handles, Delivering, Local
    <2>4. CASE ReleaseAfterError(p) \/ BlockRetry(p) \/ WriteRetry(p) \/ (ClaimManually(p) /\ Finish(p))
      <3>1. process'[p] = Idle
        BY <2>4 DEF ReleaseAfterError, BlockRetry, WriteRetry, Finish, IInv, RowsAreTyped
      <3>2. QED
        BY <2>1, <3>1
    <2>5. ClaimManually(p) => Goto(p, "candidates") \/ Finish(p)
      BY DEF ClaimManually
    <2>6. QED
      BY <2>2, <2>3, <2>4, <2>5
  <1>4. \A q \in Processes : Handles(q)' => Handles(q) /\ process'[q].of = process[q].of
    BY <1>2, <1>3 DEF Handles, Delivering, Local
  <1>5. QED
    BY <1>4, MessagesStay DEF IInv

(* A process that ends, or fails, takes no other message up.                *)
LEMMA EndKeepsMessages ==
  ASSUME IInv, NEW p \in Processes, UNCHANGED message, process' = [process EXCEPT ![p] = Idle]
  PROVE  MessagesAreKnown'
  <1>1. process'[p].at = "idle" /\ \A q \in Processes \ {p} : process'[q] = process[q]
    BY IdleIsSound DEF IInv, RowsAreTyped
  <1>2. QED
    BY <1>1, MessagesStay DEF Handles, Delivering, Local, IInv

LEMMA ThrownKeepsMessages ==
  ASSUME IInv, NEW p \in Processes, NEW isLate \in BOOLEAN, Thrown(p, isLate), process[p].at # "idle"
  PROVE  MessagesAreKnown'
  <1>1. process[p] \in Process /\ UNCHANGED message
    BY ProcessesAreProcesses DEF IInv, Thrown
  <1>2. CASE Delivering(p) /\ Started(p, Failing(p))
    <2>1. process'[p] = Failing(p) /\ \A q \in Processes \ {p} : process'[q] = process[q]
      BY <1>2, StartedBecomes DEF Becomes, OthersStay
    <2>2. Failing(p).of = process[p].of
      BY <1>1 DEF Failing, Process
    <2>3. QED
      BY <1>1, <1>2, <2>1, <2>2, MessagesStay DEF Handles, Delivering, Local, IInv
  <1>3. CASE process[p].mode = "scan" /\ Started(p, Releasing(p, isLate))
    <2>1. process'[p] = Releasing(p, isLate) /\ \A q \in Processes \ {p} : process'[q] = process[q]
      BY <1>3, StartedBecomes DEF Becomes, OthersStay
    <2>2. Releasing(p, isLate).mode = "scan"
      BY <1>1, <1>3 DEF Releasing, Process
    <2>3. QED
      BY <1>1, <2>1, <2>2, MessagesStay DEF Handles, Delivering, Local, IInv
  <1>4. CASE process' = [process EXCEPT ![p] = Idle]
    BY <1>1, <1>4, EndKeepsMessages
  <1>5. QED
    BY <1>2, <1>3, <1>4, ThrownBecomes

LEMMA SettleKeepsMessages ==
  ASSUME IInv, NEW p \in Processes, Settle(p)
  PROVE  MessagesAreKnown'
  <1> DEFINE m == process[p].of
             tried == message[m].attempts + 1
             done == [message[m] EXCEPT !.state = "done",
                        !.answer = IF process[p].ok THEN "accepted"
                                   ELSE IF process[p].allLimited THEN "blocked" ELSE "failed"]
             given == [message[m] EXCEPT !.attempts = IF process[p].ok THEN message[m].attempts ELSE tried,
                         !.state = IF process[p].ok THEN "done"
                                   ELSE IF tried < MaxAttempts THEN "queued" ELSE "dead"]
  <1>1. process[p] \in Process /\ process[p] \in Sound /\ process[p].at = "settle"
    BY ProcessesAreProcesses DEF IInv, Settle, At
  <1>2. Handles(p)
    BY <1>1 DEF Handles, Delivering, Local, Sound
  <1>3. m \in Messages /\ message[m] \in Dispatched /\ message[m].kind \in Kinds
    BY <1>2, HandledIsKnown DEF IInv
  <1>4. tried \in Nat
    BY <1>3 DEF Dispatched
  <1>5. done \in Dispatched /\ done.state # "new" /\ done.kind = message[m].kind
    <2> DEFINE answer == IF process[p].ok THEN "accepted" ELSE IF process[p].allLimited THEN "blocked" ELSE "failed"
    <2>1. answer \in {"none", "accepted", "blocked", "failed"}
      OBVIOUS
    <2> HIDE DEF answer, m, tried
    <2>2. QED
      BY <1>3, <2>1 DEF Dispatched
  <1>6. given \in Dispatched /\ given.state # "new" /\ given.kind = message[m].kind
    <2> DEFINE attempts == IF process[p].ok THEN message[m].attempts ELSE tried
               state == IF process[p].ok THEN "done" ELSE IF tried < MaxAttempts THEN "queued" ELSE "dead"
    <2>1. attempts \in Nat /\ state \in {"new", "queued", "working", "done", "dead"} /\ state # "new"
      BY <1>3, <1>4 DEF Dispatched
    <2>2. given = [message[m] EXCEPT !.attempts = attempts, !.state = state]
      BY <1>3 DEF Dispatched
    <2> HIDE DEF attempts, state, m, tried, given
    <2>3. QED
      BY <1>3, <2>1, <2>2 DEF Dispatched
  <1> DEFINE x == IF process[p].mode = "direct" THEN done ELSE given
  <1>7. message' = [message EXCEPT ![m] = x]
    <2>1. CASE process[p].mode = "direct"
      BY <2>1 DEF Settle, Local
    <2>2. CASE process[p].mode # "direct"
      BY <2>2 DEF Settle, Local
    <2>3. QED
      BY <2>1, <2>2
  <1> HIDE DEF done, given, tried, m
  <1>8. x \in Dispatched /\ x.state # "new" /\ x.kind \in Kinds
    BY <1>3, <1>5, <1>6
  <1>9. \A q \in Processes : Handles(q)' => Handles(q) /\ process'[q].of = process[q].of
    <2>1. process' = [process EXCEPT ![p] = Idle]
      BY DEF Settle, Finish
    <2>2. process'[p].at = "idle" /\ \A q \in Processes \ {p} : process'[q] = process[q]
      BY <2>1, IdleIsSound DEF IInv, RowsAreTyped
    <2>3. QED
      BY <2>2 DEF Handles, Delivering, Local
  <1> HIDE DEF x
  <1>10. QED
    BY <1>3, <1>7, <1>8, <1>9, MessageMoves DEF IInv

LEMMA CrashKeepsMessages ==
  ASSUME IInv, NEW p \in Processes, Crash(p)
  PROVE  MessagesAreKnown'
  <1> DEFINE m == process[p].of
  <1>1. process' = [process EXCEPT ![p] = Idle] /\ process[p].at # "idle" /\ process[p] \in Process
    BY ProcessesAreProcesses DEF Crash, At, IInv
  <1>2. \A q \in Processes : Handles(q)' => Handles(q) /\ process'[q].of = process[q].of
    <2>1. process'[p].at = "idle" /\ \A q \in Processes \ {p} : process'[q] = process[q]
      BY <1>1, IdleIsSound DEF IInv, RowsAreTyped
    <2>2. QED
      BY <2>1 DEF Handles, Delivering, Local
  <1>3. ASSUME NEW state \in {"queued", "done"}, Handles(p), message' = [message EXCEPT ![m].state = state]
        PROVE  MessagesAreKnown'
    <2> DEFINE x == [message[m] EXCEPT !.state = state]
    <2>1. m \in Messages /\ message[m] \in Dispatched /\ message[m].kind \in Kinds
      BY <1>3, HandledIsKnown DEF IInv
    <2>2. message' = [message EXCEPT ![m] = x]
      BY <1>3, <2>1 DEF IInv, MessagesAreKnown
    <2> HIDE DEF m
    <2>3. x \in Dispatched /\ x.state # "new" /\ x.kind \in Kinds
      BY <2>1 DEF Dispatched
    <2> HIDE DEF x
    <2>4. QED
      BY <1>2, <2>1, <2>2, <2>3, MessageMoves DEF IInv
  <1>4. CASE process[p].mode = "queue"
    <2>1. message' = [message EXCEPT ![m].state = "queued"] /\ Handles(p)
      BY <1>1, <1>4 DEF Crash, Local, Handles, Delivering
    <2>2. QED
      BY <1>3, <2>1
  <1>5. CASE process[p].mode = "direct"
    <2>1. message' = [message EXCEPT ![m].state = "done"] /\ Handles(p)
      BY <1>1, <1>5 DEF Crash, Local, Handles, Delivering
    <2>2. QED
      BY <1>3, <2>1
  <1>6. CASE process[p].mode \notin {"queue", "direct"}
    <2>1. UNCHANGED message
      BY <1>6 DEF Crash, Local
    <2>2. QED
      BY <1>2, <2>1, MessagesStay DEF IInv
  <1>7. QED
    BY <1>4, <1>5, <1>6

LEMMA DispatchKeepsMessages ==
  ASSUME IInv, NEW p \in Requests, NEW m \in Messages, NEW channel \in {"EMAIL", "SMS"}, NEW kind \in Kinds,
         Dispatch(p, m, channel, kind)
  PROVE  MessagesAreKnown'
  <1>1. message[m] \in Dispatched /\ p \in Processes
    BY DEF IInv, MessagesAreKnown, Processes
  <1>2. PICK state \in {"done", "queued", "working"}, answer \in {"none", "accepted", "blocked", "failed"} :
          message' = [message EXCEPT ![m] =
            [@ EXCEPT !.channel = channel, !.kind = kind, !.state = state, !.answer = answer]]
    BY DEF Dispatch
  <1> DEFINE x == [message[m] EXCEPT !.channel = channel, !.kind = kind, !.state = state, !.answer = answer]
  <1>3. message' = [message EXCEPT ![m] = x]
    BY <1>2
  <1>4. x \in Dispatched /\ x.state # "new" /\ x.kind \in Kinds
    BY <1>1 DEF Dispatched
  <1> HIDE DEF x
  <1>5. \A q \in Processes : Handles(q)' => \/ Handles(q) /\ process'[q].of = process[q].of
                                            \/ process'[q].of = m
    <2>1. CASE UNCHANGED process
      BY <2>1 DEF Handles, Delivering, Local
    <2>2. CASE process' = [process EXCEPT ![p] = [Idle EXCEPT !.at = "candidates", !.mode = "direct", !.of = m]]
      <3>1. process'[p].of = m /\ \A q \in Processes \ {p} : process'[q] = process[q]
        BY <1>1, <2>2, IdleIsSound DEF IInv, RowsAreTyped, Process
      <3>2. QED
        BY <3>1 DEF Handles, Delivering, Local
    <2>3. QED
      BY <2>1, <2>2 DEF Dispatch
  <1>6. QED
    BY <1>3, <1>4, <1>5, MessageMoves DEF IInv

LEMMA ReserveKeepsMessages ==
  ASSUME IInv, NEW w \in Workers, NEW m \in Messages, Reserve(w, m)
  PROVE  MessagesAreKnown'
  <1> DEFINE x == [message[m] EXCEPT !.state = "working"]
  <1>1. message[m] \in Dispatched /\ message[m].kind \in Kinds /\ w \in Processes
    BY DEF IInv, MessagesAreKnown, Processes, Reserve
  <1>2. message' = [message EXCEPT ![m] = x]
    BY <1>1 DEF Reserve, IInv, MessagesAreKnown
  <1>3. x \in Dispatched /\ x.state # "new" /\ x.kind \in Kinds
    BY <1>1 DEF Dispatched
  <1> HIDE DEF x
  <1>4. process'[w].of = m /\ \A q \in Processes \ {w} : process'[q] = process[q]
    BY <1>1, IdleIsSound DEF Reserve, IInv, RowsAreTyped, Process
  <1>5. \A q \in Processes : Handles(q)' => \/ Handles(q) /\ process'[q].of = process[q].of
                                            \/ process'[q].of = m
    BY <1>4 DEF Handles, Delivering, Local
  <1>6. QED
    BY <1>2, <1>3, <1>5, MessageMoves DEF IInv

(* The scan and the administrator begin retries, which handle no message.   *)
LEMMA RetryKeepsMessages ==
  ASSUME IInv, UNCHANGED message,
         \/ UNCHANGED process
         \/ \E p \in Processes, d \in Logs, mode \in {"scan", "manual"} : Retry(p, mode, d)
  PROVE  MessagesAreKnown'
  <1>1. CASE UNCHANGED process
    BY <1>1, MessagesStay DEF IInv, Handles, Delivering, Local
  <1>2. ASSUME NEW p \in Processes, NEW d \in Logs, NEW mode \in {"scan", "manual"}, Retry(p, mode, d)
        PROVE  MessagesAreKnown'
    <2> DEFINE x == [Idle EXCEPT !.at = "read", !.mode = mode, !.row = d]
    <2>5. process' = [process EXCEPT ![p] = x]
      BY <1>2 DEF Retry
    <2>4. x.mode = mode
      BY IdleIsSound DEF Process
    <2> HIDE DEF x
    <2>1. process'[p].mode = mode /\ \A q \in Processes \ {p} : process'[q] = process[q]
      BY <2>4, <2>5 DEF IInv, RowsAreTyped
    <2>2. \A q \in Processes : Handles(q)' => Handles(q) /\ process'[q].of = process[q].of
      BY <2>1 DEF Handles, Delivering, Local
    <2>3. QED
      BY <2>2, MessagesStay DEF IInv
  <1>3. QED
    BY <1>1, <1>2
----------------------------------------------------------------------------
(* The invariant *)

LEMMA InvInitially == Init => IInv
  <1> SUFFICES ASSUME Init PROVE IInv
    OBVIOUS
  <1> USE DEF Init
  <1>1. RowsAreTyped
    BY IdleIsSound DEF RowsAreTyped, NoRow, Row, RowStatus
  <1>2. MessagesAreKnown
    <2>1. NewMessage \in Dispatched /\ NewMessage.state = "new"
      BY DEF NewMessage, Dispatched
    <2>2. QED
      BY <2>1, IdleIsSound DEF MessagesAreKnown, Handles
  <1>3. \A p \in Processes, d \in Logs : ~Holds(p, d)
    BY IdleIsSound DEF Holds, Local
  <1>4. ClaimInv
    <2>1. ASSUME NEW d \in Logs PROVE Balanced(d)
      <3>1. Senders(d) = {} /\ Done(d) = {}
        BY <1>3, IdleIsSound DEF Senders, Done, MaySend, HasSent
      <3>2. Cardinality({}) = 0
        BY FS_EmptySet
      <3>3. One(IsOpen(d)) \in 0 .. 1
        BY DEF One
      <3>4. QED
        BY <1>3, <3>1, <3>2, <3>3, IdleIsSound DEF Balanced
    <2>2. QED
      BY <2>1 DEF ClaimInv
  <1>5. QED
    BY <1>1, <1>2, <1>4 DEF IInv

LEMMA SettleKeeps ==
  ASSUME IInv, NEW p \in Processes, Settle(p) \/ Crash(p)
  PROVE  Goal
  BY LettingGo DEF Settle, Crash, Finish, history

LEMMA LoopKeeps ==
  ASSUME IInv, NEW p \in Processes, DeliveryLoop(p)
  PROVE  Goal /\ MessagesAreKnown'
  <1>1. UNCHANGED message
    BY DEF DeliveryLoop, FindCandidates, SkipLimited, Send
  <1>2. MessagesAreKnown'
    BY <1>1, ContinueKeepsMessages DEF DeliveryLoop
  <1>3. Goal
    BY FindCandidatesKeeps, SkipKeeps, SendKeeps DEF DeliveryLoop
  <1>4. QED
    BY <1>2, <1>3

LEMMA ContinueKeeps ==
  ASSUME IInv, NEW p \in Processes, Continue(p)
  PROVE  Goal /\ MessagesAreKnown'
  <1>1. CASE DeliveryLoop(p)
    BY <1>1, LoopKeeps
  <1>2. CASE Delivering(p) /\ FinalizeDeliveryLog(p)
    <2>1. UNCHANGED message
      BY <1>2 DEF FinalizeDeliveryLog
    <2>2. QED
      BY <1>2, <2>1, FinalizeKeeps, ContinueKeepsMessages
  <1>3. CASE Settle(p)
    BY <1>3, SettleKeeps, SettleKeepsMessages
  <1>4. CASE ~Delivering(p) /\ (ReadLog(p) \/ BlockRetry(p) \/ PassAbuse(p) \/ ClaimManually(p) \/ WriteRetry(p))
    <2>1. UNCHANGED message
      BY <1>4 DEF ReadLog, BlockRetry, PassAbuse, ClaimManually, WriteRetry
    <2>2. MessagesAreKnown'
      BY <1>4, <2>1, ContinueKeepsMessages
    <2>3. QED
      BY <1>4, <2>2, ReadLogKeeps, BlockRetryKeeps, PassAbuseKeeps, ClaimManuallyKeeps, WriteRetryKeeps
  <1>5. CASE ReleaseAfterError(p)
    <2>1. UNCHANGED message
      BY <1>5 DEF ReleaseAfterError
    <2>2. QED
      BY <1>5, <2>1, ReleaseKeeps, ContinueKeepsMessages
  <1>6. QED
    BY <1>1, <1>2, <1>3, <1>4, <1>5 DEF Continue, DeliverQueuedEmail, DeliverQueuedSms, ExecuteRetry

LEMMA NextKeeps ==
  ASSUME IInv, [Next]_vars
  PROVE  Goal /\ MessagesAreKnown'
  <1>1. ASSUME NEW p \in Requests, NEW m \in Messages, DispatchEmail(p, m) \/ DispatchSms(p, m)
        PROVE  Goal /\ MessagesAreKnown'
    <2>1. PICK channel \in {"EMAIL", "SMS"}, kind \in Kinds : Dispatch(p, m, channel, kind)
      BY <1>1 DEF DispatchEmail, DispatchSms
    <2>2. QED
      BY <2>1, DispatchKeeps, DispatchKeepsMessages
  <1>2. ASSUME NEW d \in Logs, CancelRetry(d) \/ RetryComesDue(d)
        PROVE  Goal /\ MessagesAreKnown'
    <2>1. UNCHANGED <<message, process>>
      BY <1>2 DEF CancelRetry, RetryComesDue
    <2>2. QED
      BY <1>2, <2>1, CancelKeeps, RetryKeepsMessages
  <1>3. ASSUME NEW d \in Logs, NEW a \in Requests, RetryDeliveryLogNow(a, d)
        PROVE  Goal /\ MessagesAreKnown'
    <2>1. UNCHANGED message /\ Retry(a, "manual", d) /\ a \in Processes
      BY <1>3 DEF RetryDeliveryLogNow, Processes
    <2>2. QED
      BY <1>3, <2>1, RetryNowKeeps, RetryKeepsMessages
  <1>4. ASSUME NEW p \in Processes, Continue(p) \/ Throw(p) \/ AuditThrows(p) \/ Crash(p)
        PROVE  Goal /\ MessagesAreKnown'
    <2>1. CASE Throw(p)
      <3>1. process[p].at # "idle" /\ \E isLate \in BOOLEAN : Thrown(p, isLate)
        BY <2>1, ProcessesAreProcesses DEF Throw, At, Local, IInv, Process
      <3>2. QED
        BY <2>1, <3>1, ThrowKeeps, ThrownKeepsMessages
    <2>2. CASE AuditThrows(p)
      <3>1. process[p].at # "idle" /\ \E isLate \in BOOLEAN : Thrown(p, isLate)
        BY <2>2 DEF AuditThrows, At
      <3>2. QED
        BY <2>2, <3>1, AuditThrowsKeeps, ThrownKeepsMessages
    <2>3. QED
      BY <1>4, <2>1, <2>2, ContinueKeeps, SettleKeeps, CrashKeepsMessages
  <1>5. ASSUME NEW w \in Workers, ProcessDueRetries(w)
        PROVE  Goal /\ MessagesAreKnown'
    <2>1. CASE ListDue(w)
      <3>1. UNCHANGED <<message, process, log, accepted, late>>
        BY <2>1 DEF ListDue, history
      <3>2. QED
        BY <3>1, NothingWritten, RetryKeepsMessages
    <2>2. ASSUME NEW d \in Logs, ClaimDue(w, d)
          PROVE  Goal /\ MessagesAreKnown'
      <3>1. UNCHANGED message /\ (UNCHANGED process \/ Retry(w, "scan", d)) /\ w \in Processes
        BY <2>2 DEF ClaimDue, Processes
      <3>2. QED
        BY <2>2, <3>1, ClaimDueKeeps, RetryKeepsMessages
    <2>3. QED
      BY <1>5, <2>1, <2>2 DEF ProcessDueRetries
  <1>6. ASSUME NEW w \in Workers, NEW m \in Messages, Reserve(w, m)
        PROVE  Goal /\ MessagesAreKnown'
    BY <1>6, ReserveKeeps, ReserveKeepsMessages
  <1>7. CASE UNCHANGED vars
    <2>1. UNCHANGED <<message, process, log, accepted, late>>
      BY <1>7 DEF vars, history
    <2>2. QED
      BY <2>1, NothingWritten, RetryKeepsMessages
  <1>8. ASSUME NEW w \in Workers, ScanThrows(w)
        PROVE  Goal /\ MessagesAreKnown'
    BY <1>8, ScanThrowsKeeps, EndKeepsMessages DEF ScanThrows, Finish, Processes
  <1>9. QED
    BY <1>1, <1>2, <1>3, <1>4, <1>5, <1>6, <1>7, <1>8 DEF Next, Administrate, Background

LEMMA InvPreserved == IInv /\ [Next]_vars => IInv'
  BY NextKeeps DEF Goal, IInv

LEMMA InvAlways == Spec => []IInv
  BY InvInitially, InvPreserved, PTL DEF Spec

----------------------------------------------------------------------------
(* Theorems *)

(* Two workers, or a worker and an administrator, never hold the same row,  *)
(* but for one more for each late error of a scan.                          *)
THEOREM ClaimsAlwaysExclude == Spec => []ClaimsExclude
  <1>1. IInv => ClaimsExclude
    BY HoldersAreCounted DEF IInv, ClaimInv, ClaimsExclude, Holders
  <1>2. QED
    BY <1>1, InvAlways, PTL

(* A provider accepts a retry of a row once, and once more for each late    *)
(* error of a scan.                                                         *)
THEOREM RowsAreAlwaysResentOnce == Spec => []RowsAreResentOnce
  <1>1. ASSUME IInv, NEW d \in Logs PROVE accepted[d] <= 1 + late[d]
    <2>1. accepted[d] + Cardinality(Senders(d)) + One(IsOpen(d)) <= 1 + late[d]
      BY <1>1 DEF IInv, ClaimInv, Balanced
    <2>2. Cardinality(Senders(d)) \in Nat /\ One(IsOpen(d)) \in Nat
      BY CountsAreFinite DEF One
    <2>3. accepted[d] \in Nat /\ late[d] \in Nat
      BY <1>1 DEF IInv, RowsAreTyped
    <2>4. QED
      BY <2>1, <2>2, <2>3
  <1>2. IInv => RowsAreResentOnce
    BY <1>1 DEF RowsAreResentOnce
  <1>3. QED
    BY <1>2, InvAlways, PTL

(* No step changes the status of a row that was sent or cancelled, where no *)
(* late error gave it away.                                                 *)
THEOREM ClosedRowsAlwaysStayClosed == Spec => ClosedRowsStayClosed
  <1>1. IInv /\ [Next]_vars =>
          [\A d \in Logs : log[d].status \in {"SENT", "CANCELLED"} /\ late[d] = 0
                           => log'[d].status = log[d].status]_vars
    BY NextKeeps DEF Goal, ClosedStay
  <1>2. QED
    BY <1>1, InvAlways, PTL DEF Spec, ClosedRowsStayClosed
=============================================================================
