--------------------------- MODULE GovernanceProofs ---------------------------
(***************************************************************************)
(* TLAPS proofs about Governance, for any records, holds and requests and  *)
(* any bounds.                                                             *)
(*                                                                         *)
(* A request is checked when it begins and applied when it commits.  What  *)
(* it has checked under its own locks is still true then (ChecksHold),     *)
(* because nobody else has these rows (LocksExclude).  What a deletion has *)
(* checked without a lock is true unless a request about the same record   *)
(* overlapped it (DeletionCleared, PlacedExists), which is on record       *)
(* (CrossingsNoted).                                                       *)
(***************************************************************************)
EXTENDS MCGovernance, PolicyApprovalProofs, AdministratorsProofs, NotificationProofs, TLAPS

OnAssignment == {"assign", "except", "approve", "reject", "extend", "refuse"}
Deciding == {"approve", "reject"}

LocksExclude ==
  \A c, d \in Clerk : InTransaction(c) /\ InTransaction(d) /\ c # d =>
    RowsOf(task[c].req) \cap RowsOf(task[d].req) = {}

ChecksHold ==
  \A c \in Clerk : InTransaction(c) =>
    LET q == task[c].req IN
    /\ q.op \in {"extend", "refuse"} => pending[q.rec] # {}
    /\ q.op \in Deciding => task[c].saw.version = assigned[q.rec].version
    /\ q.op = "assign" => assigned[q.rec].state = "absent"
    /\ q.op = "place" => hold[q.hold] = "active"

\* Versions tell assignments apart: whoever has read the current one has read this.
Current(a, saw) == /\ saw.version > 0 /\ saw.version <= a.version
                   /\ saw.version = a.version => saw = a

SeenIsOld ==
  \A c \in Clerk :
    /\ task[c].stage = "read" => Current(assigned[task[c].rec], task[c].saw)
    /\ InTransaction(c) /\ task[c].req.op \in Deciding
         => Current(assigned[task[c].req.rec], task[c].saw)

AbsentIsNew == \A r \in Record : assigned[r].state = "absent" <=> assigned[r].version = 0

OneAppends ==
  /\ \A c \in Clerk : task[c].stage = "appended" => task[c].number = head + 1
  /\ \A c, d \in Clerk : task[c].stage = "appended" /\ task[d].stage = "appended" => c = d

CrossingsNoted ==
  \A c, d \in Clerk :
    InTransaction(c) /\ InTransaction(d) /\ c # d /\ Crosses(task[c].req, task[d].req)
      => task[c].req.rec \in crossed

DeletionCleared ==
  \A c \in Clerk : InTransaction(c) /\ task[c].req.op = "delete" =>
    LET r == task[c].req.rec IN
    /\ r \notin crossed => Cleared(r)
    /\ r \notin crossed \/ r \in Evidence => \A h \in Hold : <<h, r>> \notin held

PlacedExists ==
  \A c \in Clerk : InTransaction(c) /\ task[c].req.op = "place" =>
    LET r == task[c].req.rec IN r \notin crossed \/ r \in Evidence => r \notin deleted

GovInv ==
  /\ GovTypeOK /\ LocksExclude /\ ChecksHold /\ SeenIsOld /\ AbsentIsNew /\ OneAppends
  /\ CrossingsNoted /\ DeletionCleared /\ PlacedExists
  /\ ChainIsGapless /\ ApprovedAsRead /\ ClosedHoldHoldsNothing /\ HeldIsPreserved

-----------------------------------------------------------------------------
(* Shapes. *)

LEMMA RequestShape ==
  ASSUME NEW q \in Request
  PROVE  /\ q.op \in OnAssignment \cup {"delete", "place", "free", "create", "close"}
         /\ q.op \notin {"create", "close"} => q.rec \in Record
         /\ q.op \in {"assign", "except"} => q.date \in Time
         /\ q.op \in {"create", "close", "place", "free"} => q.hold \in Hold
BY DEF Request, OnAssignment

LEMMA TaskShape ==
  ASSUME GovTypeOK, NEW c \in Clerk
  PROVE  /\ task[c].stage \in {"idle", "read", "open", "appended"}
         /\ task[c].stage = "idle" <=> task[c] = Idler
         /\ task[c].stage = "read" => task[c].rec \in Record /\ task[c].saw \in Assignment
         /\ InTransaction(c) => /\ task[c].req \in Request /\ task[c].saw \in Assignment
                               /\ task[c].number \in Nat
BY DEF GovTypeOK, Task, Idler, InTransaction

LEMMA AssignmentShape ==
  ASSUME NEW a \in Assignment
  PROVE  /\ a.state \in {"absent", "active", "exception", "disposition_pending"}
         /\ a.review \in {"not_required", "pending", "approved", "rejected"}
         /\ a.due \in Time /\ a.version \in Nat /\ a.approvedDue \in Time
BY DEF Assignment

\* What a request makes of the assignment of its record.
LEMMA AssignedShape ==
  ASSUME GovTypeOK, NEW q \in Request, NEW saw \in Assignment, OnRecord(q),
         q.op \in {"extend", "refuse"} => pending[q.rec] # {}
  PROVE  LET a == assigned[q.rec]
             b == Assigned(q, saw) IN
         /\ b \in Assignment
         /\ q.op \notin OnAssignment => b = a
         /\ q.op \in OnAssignment => /\ b.state # "absent"
                                     /\ b.version = IF q.op = "assign" THEN 1 ELSE a.version + 1
         /\ b.review = "approved" =>
              /\ b.due = a.due
              /\ \/ q.op = "approve" /\ b.approvedDue = saw.due
                 \/ q.op # "approve" /\ a.review = "approved" /\ b.approvedDue = a.approvedDue
<1>1. PICK a : a = assigned[q.rec]
  OBVIOUS
<1>2. PICK b : b = Assigned(q, saw)
  OBVIOUS
<1>3. /\ q.rec \in Record /\ a \in Assignment /\ q.op # "create" /\ q.op # "close"
      /\ q.op \in OnAssignment \cup {"delete", "place", "free"}
      /\ q.op \in {"assign", "except"} => q.date \in Time
  BY <1>1, RequestShape DEF OnRecord, GovTypeOK
<1>4. /\ 0 \in Time /\ saw.due \in Time /\ a.version + 1 \in Nat /\ 1 \in Nat
      /\ a = [state |-> a.state, review |-> a.review, due |-> a.due, version |-> a.version,
              approvedDue |-> a.approvedDue]
      /\ a.review \in {"not_required", "pending", "approved", "rejected"}
      /\ a.due \in Time /\ a.approvedDue \in Time
  BY <1>3, AssignmentShape, GovernanceAssumption DEF Time, GovernanceAssumption, Assignment
<1> DEFINE Shaped ==
     /\ b \in Assignment
     /\ q.op \notin OnAssignment => b = a
     /\ q.op \in OnAssignment => /\ b.state # "absent"
                                 /\ b.version = IF q.op = "assign" THEN 1 ELSE a.version + 1
     /\ b.review = "approved" =>
          /\ b.due = a.due
          /\ \/ q.op = "approve" /\ b.approvedDue = saw.due
             \/ q.op # "approve" /\ a.review = "approved" /\ b.approvedDue = a.approvedDue
<1> SUFFICES Shaped
  BY <1>1, <1>2
<1> HIDE DEF Shaped
<1>5. CASE q.op = "assign"
  <2>1. b = [state |-> "active", due |-> q.date, version |-> 1, approvedDue |-> 0,
             review |-> IF q.rec \in Reviewed THEN "pending" ELSE "not_required"]
    BY <1>2, <1>5 DEF Assigned
  <2> QED
    BY <1>3, <1>4, <1>5, <2>1 DEF Assignment, OnAssignment, Shaped
<1>6. CASE q.op = "except"
  <2>1. b = [state |-> "exception", review |-> a.review, due |-> a.due,
             version |-> a.version + 1, approvedDue |-> a.approvedDue]
    BY <1>1, <1>2, <1>4, <1>6 DEF Assigned
  <2> QED
    BY <1>3, <1>4, <1>6, <2>1 DEF Assignment, OnAssignment, Shaped
<1>7. CASE q.op = "approve"
  <2>1. b = [state |-> "disposition_pending", review |-> "approved", due |-> a.due,
             version |-> a.version + 1, approvedDue |-> saw.due]
    BY <1>1, <1>2, <1>4, <1>7 DEF Assigned
  <2> QED
    BY <1>3, <1>4, <1>7, <2>1 DEF Assignment, OnAssignment, Shaped
<1>8. CASE q.op = "reject"
  <2>1. b = [state |-> "active", review |-> "rejected", due |-> a.due,
             version |-> a.version + 1, approvedDue |-> a.approvedDue]
    BY <1>1, <1>2, <1>4, <1>8 DEF Assigned
  <2> QED
    BY <1>3, <1>4, <1>8, <2>1 DEF Assignment, OnAssignment, Shaped
<1>9. CASE q.op = "extend"
  <2>1. PICK d \in Time : d = CHOOSE e \in pending[q.rec] : TRUE
    BY <1>3, <1>9 DEF GovTypeOK
  <2>2. b = [state |-> "active", due |-> d, version |-> a.version + 1,
             review |-> IF q.rec \in Reviewed THEN "pending" ELSE "not_required",
             approvedDue |-> a.approvedDue]
    BY <1>1, <1>2, <1>4, <1>9, <2>1 DEF Assigned, Extended
  <2> QED
    BY <1>3, <1>4, <1>9, <2>1, <2>2 DEF Assignment, OnAssignment, Shaped
<1>10. CASE q.op = "refuse"
  <2>1. b = [state |-> "active", review |-> a.review, due |-> a.due,
             version |-> a.version + 1, approvedDue |-> a.approvedDue]
    BY <1>1, <1>2, <1>4, <1>10 DEF Assigned
  <2> QED
    BY <1>3, <1>4, <1>10, <2>1 DEF Assignment, OnAssignment, Shaped
<1>11. CASE q.op \notin OnAssignment
  <2>1. b = a
    BY <1>1, <1>2, <1>11 DEF Assigned, OnAssignment
  <2> QED
    BY <1>3, <1>11, <2>1 DEF OnAssignment, Shaped
<1> QED
  BY <1>5, <1>6, <1>7, <1>8, <1>9, <1>10, <1>11 DEF OnAssignment

-----------------------------------------------------------------------------
(* Every step preserves GovInv. *)

LEMMA GovInvHolds ==
  ASSUME GovInit PROVE GovInv
<1>1. GovTypeOK
  BY GovernanceAssumption
  DEF GovInit, GovTypeOK, GovernanceAssumption, Assignment, Unassigned, Time, Task, Idler
<1>2. \A c \in Clerk : ~InTransaction(c) /\ task[c].stage = "idle"
  BY DEF GovInit, Idler, InTransaction
<1>3. \A r \in Record : assigned[r] = Unassigned
  BY DEF GovInit
<1>4. LocksExclude /\ ChecksHold /\ SeenIsOld /\ OneAppends
  BY <1>2 DEF LocksExclude, ChecksHold, SeenIsOld, OneAppends
<1>5. CrossingsNoted /\ DeletionCleared /\ PlacedExists
  BY <1>2 DEF CrossingsNoted, DeletionCleared, PlacedExists
<1>6. AbsentIsNew /\ ApprovedAsRead
  BY <1>3 DEF AbsentIsNew, ApprovedAsRead, Unassigned
<1>7. ChainIsGapless /\ ClosedHoldHoldsNothing /\ HeldIsPreserved
  BY DEF GovInit, ChainIsGapless, ClosedHoldHoldsNothing, HeldIsPreserved
<1> QED
  BY <1>1, <1>4, <1>5, <1>6, <1>7 DEF GovInv

LEMMA TickStep ==
  ASSUME GovInv, Tick PROVE GovInv'
<1> USE DEF Tick, GovInv, governed
<1>1. GovTypeOK'
  BY GovernanceAssumption DEF GovTypeOK, Time, GovernanceAssumption
<1>2. LocksExclude' /\ ChecksHold' /\ SeenIsOld' /\ OneAppends' /\ CrossingsNoted' /\ PlacedExists'
  BY DEF LocksExclude, ChecksHold, SeenIsOld, OneAppends, CrossingsNoted, PlacedExists,
         InTransaction
<1>3. AbsentIsNew' /\ ChainIsGapless' /\ ApprovedAsRead' /\ ClosedHoldHoldsNothing'
      /\ HeldIsPreserved'
  BY DEF AbsentIsNew, ChainIsGapless, ApprovedAsRead, ClosedHoldHoldsNothing, HeldIsPreserved
<1>4. DeletionCleared'
  <2> SUFFICES ASSUME NEW c \in Clerk, InTransaction(c), task[c].req.op = "delete",
                      NEW r, r = task[c].req.rec
               PROVE  /\ r \notin crossed => Cleared(r)'
                      /\ r \notin crossed \/ r \in Evidence => \A h \in Hold : <<h, r>> \notin held
    BY DEF DeletionCleared, InTransaction, Cleared
  <2>1. r \in Record
    BY TaskShape, RequestShape
  <2>2. assigned[r].due \in Int /\ now \in Int
    BY <2>1, GovernanceAssumption, AssignmentShape DEF GovTypeOK, Time, GovernanceAssumption
  <2>3. Cleared(r) => Cleared(r)'
    BY <2>2 DEF Cleared
  <2> QED
    BY <2>3 DEF DeletionCleared
<1> QED
  BY <1>1, <1>2, <1>3, <1>4

\* What a step leaves alone when only the transaction of one clerk moves.
LEMMA SameRecords ==
  ASSUME GovInv, UNCHANGED <<now, governed>>
  PROVE  /\ AbsentIsNew' /\ ApprovedAsRead' /\ ClosedHoldHoldsNothing'
         /\ \A r \in Record : Cleared(r)' <=> Cleared(r)
         /\ crossed \subseteq crossed' => HeldIsPreserved'
BY DEF GovInv, governed, AbsentIsNew, ApprovedAsRead, ClosedHoldHoldsNothing, Cleared,
       HeldIsPreserved

\* Transactions that keep their requests keep their locks.
LEMMA LocksCarry ==
  ASSUME GovInv, UNCHANGED crossed,
         \A d \in Clerk : InTransaction(d)' => InTransaction(d) /\ task'[d].req = task[d].req
  PROVE  LocksExclude' /\ CrossingsNoted'
<1>1. LocksExclude'
  <2>1. \A d \in Clerk : InTransaction(d)' => RowsOf(task[d].req)' = RowsOf(task[d].req)
    BY DEF RowsOf
  <2> QED
    BY <2>1 DEF GovInv, LocksExclude
<1>2. CrossingsNoted'
  <2>1. \A d, e \in Clerk : InTransaction(d)' /\ InTransaction(e)'
          => (Crosses(task[d].req, task[e].req)' <=> Crosses(task[d].req, task[e].req))
    BY DEF Crosses, OnRecord
  <2> QED
    BY <2>1 DEF GovInv, CrossingsNoted
<1> QED
  BY <1>1, <1>2

\* A clerk that gives up or commits leaves the transactions of the others.
LEMMA ClerkLeaves ==
  ASSUME GovInv, NEW c \in Clerk, UNCHANGED crossed, task' = [task EXCEPT ![c] = Idler]
  PROVE  /\ task' \in [Clerk -> Task]
         /\ task[c]'.stage = "idle"
         /\ \A d \in Clerk : InTransaction(d)' <=> d # c /\ InTransaction(d)
         /\ \A d \in Clerk \ {c} : task[d]' = task[d]
         /\ LocksExclude' /\ CrossingsNoted'
<1>1. task \in [Clerk -> Task] /\ Idler \in Task /\ Idler.stage = "idle"
  BY DEF GovInv, GovTypeOK, Task, Idler
<1>2. /\ task' \in [Clerk -> Task] /\ task'[c] = Idler
      /\ \A d \in Clerk \ {c} : task'[d] = task[d]
  BY <1>1
<1>3. \A d \in Clerk : InTransaction(d)' <=> d # c /\ InTransaction(d)
  BY <1>1, <1>2 DEF InTransaction
<1>4. LocksExclude' /\ CrossingsNoted'
  BY <1>2, <1>3, LocksCarry
<1> QED
  BY <1>1, <1>2, <1>3, <1>4

LEMMA AssignmentReadStep ==
  ASSUME GovInv, NEW c \in Clerk, NEW r \in Record, ReadAssignment(c, r)
  PROVE  GovInv'
<1> DEFINE t == [stage |-> "read", rec |-> r, saw |-> assigned[r]]
<1>1. assigned[r] \in Assignment /\ t \in Task /\ t.stage = "read"
  BY DEF GovInv, GovTypeOK, Task
<1>2. /\ task' \in [Clerk -> Task] /\ task'[c] = t
      /\ \A d \in Clerk \ {c} : task'[d] = task[d]
  BY <1>1 DEF GovInv, GovTypeOK, ReadAssignment
<1>3. \A d \in Clerk : InTransaction(d)' <=> d # c /\ InTransaction(d)
  BY <1>1, <1>2 DEF InTransaction, ReadAssignment, Idler
<1> USE DEF ReadAssignment
<1>4. GovTypeOK'
  BY <1>2 DEF GovInv, GovTypeOK, governed
<1>5. LocksExclude' /\ ChecksHold' /\ CrossingsNoted' /\ PlacedExists'
  BY <1>2, <1>3, LocksCarry DEF GovInv, governed, ChecksHold, PlacedExists
<1>6. SeenIsOld'
  <2>1. Current(assigned[r], assigned[r])
    BY <1>1, AssignmentShape DEF GovInv, AbsentIsNew, Current
  <2>2. r = t.rec /\ assigned[r] = t.saw
    OBVIOUS
  <2> QED
    BY <1>1, <1>2, <1>3, <2>1, <2>2 DEF GovInv, governed, SeenIsOld, InTransaction
<1>7. OneAppends' /\ ChainIsGapless'
  BY <1>1, <1>2 DEF GovInv, OneAppends, ChainIsGapless
<1>8. DeletionCleared'
  BY <1>2, <1>3, SameRecords, TaskShape, RequestShape DEF GovInv, governed, DeletionCleared
<1> QED
  BY <1>4, <1>5, <1>6, <1>7, <1>8, SameRecords DEF GovInv

LEMMA AppendStep ==
  ASSUME GovInv, NEW c \in Clerk, AppendEvent(c)
  PROVE  GovInv'
<1>1. PICK t : t = task'[c]
  OBVIOUS
<1>2. InTransaction(c) /\ task[c].stage = "open" /\ task[c].req \in Request
      /\ task[c].saw \in Assignment /\ head + 1 \in Nat
  BY TaskShape DEF AppendEvent, InTransaction, GovInv, GovTypeOK
<1>3. task[c] = [stage |-> task[c].stage, req |-> task[c].req, saw |-> task[c].saw,
                 number |-> task[c].number]
  BY <1>2 DEF GovInv, GovTypeOK, Task, InTransaction
<1>4. t = [stage |-> "appended", req |-> task[c].req, saw |-> task[c].saw, number |-> head + 1]
  BY <1>1, <1>3 DEF AppendEvent, GovInv, GovTypeOK
<1>5. /\ task' \in [Clerk -> Task] /\ \A d \in Clerk \ {c} : task'[d] = task[d]
      /\ t.stage = "appended" /\ t.number = head + 1 /\ t.req = task[c].req /\ t.saw = task[c].saw
  BY <1>1, <1>2, <1>4 DEF AppendEvent, GovInv, GovTypeOK, Task
<1>6. \A d \in Clerk : InTransaction(d)' <=> InTransaction(d)
  BY <1>1, <1>2, <1>5 DEF InTransaction
<1>7. \A d \in Clerk : InTransaction(d) => task'[d].req = task[d].req /\ task'[d].saw = task[d].saw
  BY <1>1, <1>5
<1>8. UNCHANGED <<now, governed, head, chain, crossed>> /\ HeadIsFree(c)
  BY DEF AppendEvent
<1>9. GovTypeOK'
  BY <1>5, <1>8 DEF GovInv, GovTypeOK, governed
<1>10. LocksExclude' /\ CrossingsNoted'
  BY <1>6, <1>7, <1>8, LocksCarry
<1>11. ChecksHold' /\ PlacedExists'
  BY <1>6, <1>7, <1>8 DEF GovInv, governed, ChecksHold, PlacedExists
<1>12. SeenIsOld'
  BY <1>1, <1>5, <1>6, <1>7, <1>8 DEF GovInv, governed, SeenIsOld
<1>13. OneAppends' /\ ChainIsGapless'
  BY <1>1, <1>5, <1>8 DEF GovInv, OneAppends, ChainIsGapless, HeadIsFree
<1>14. DeletionCleared'
  <2>1. \A r \in Record : Cleared(r)' <=> Cleared(r)
    BY <1>8, SameRecords
  <2>2. \A d \in Clerk : InTransaction(d) => task[d].req \in Request
    BY TaskShape DEF GovInv
  <2>3. \A d \in Clerk : InTransaction(d) /\ task[d].req.op = "delete" => task[d].req.rec \in Record
    BY <2>2, RequestShape
  <2> QED
    BY <1>6, <1>7, <1>8, <2>1, <2>3 DEF GovInv, governed, DeletionCleared
<1> QED
  BY <1>8, <1>9, <1>10, <1>11, <1>12, <1>13, <1>14, SameRecords DEF GovInv

LEMMA RollbackStep ==
  ASSUME GovInv, NEW c \in Clerk, Rollback(c)
  PROVE  GovInv'
<1> USE DEF Rollback
<1>1. head' = head
  OBVIOUS
<1>2. GovTypeOK'
  BY <1>1, ClerkLeaves DEF GovInv, GovTypeOK, governed
<1>3. ChecksHold' /\ PlacedExists' /\ SeenIsOld'
  BY ClerkLeaves DEF GovInv, governed, ChecksHold, PlacedExists, SeenIsOld
<1>4. OneAppends' /\ ChainIsGapless'
  BY <1>1, ClerkLeaves DEF GovInv, OneAppends, ChainIsGapless
<1>5. DeletionCleared'
  BY ClerkLeaves, SameRecords, TaskShape, RequestShape DEF GovInv, governed, DeletionCleared
<1> QED
  BY <1>2, <1>3, <1>4, <1>5, ClerkLeaves, SameRecords DEF GovInv

\* A request that has its locks and passed its checks.
LEMMA StartStep ==
  ASSUME GovInv, NEW c \in Clerk, ~InTransaction(c), NEW q \in Request, NEW saw \in Assignment,
         q.op \in Deciding => Current(assigned[q.rec], saw), Start(c, q, saw)
  PROVE  GovInv'
<1>1. PICK t : t = [stage |-> "open", req |-> q, saw |-> saw, number |-> 0]
  OBVIOUS
<1>2. t \in Task /\ t.stage = "open" /\ t.req = q /\ t.saw = saw
  BY <1>1 DEF Task
<1>3. /\ task' \in [Clerk -> Task] /\ task'[c] = t
      /\ \A d \in Clerk \ {c} : task'[d] = task[d]
  BY <1>1, <1>2 DEF Start, GovInv, GovTypeOK
<1>4. \A d \in Clerk : InTransaction(d)' <=> d = c \/ InTransaction(d)
  BY <1>2, <1>3 DEF InTransaction
<1>5. /\ UNCHANGED <<now, governed, head, chain>>
      /\ Allowed(q, saw)
      /\ \A d \in Clerk : InTransaction(d) => RowsOf(q) \cap RowsOf(task[d].req) = {}
      /\ crossed' = IF \E d \in Clerk : InTransaction(d) /\ Crosses(q, task[d].req)
                      THEN crossed \cup {q.rec} ELSE crossed
  BY DEF Start
<1>6. crossed \subseteq crossed' /\ crossed' \subseteq Record
  BY <1>5, RequestShape DEF Crosses, OnRecord, GovInv, GovTypeOK
<1>7. GovTypeOK'
  BY <1>3, <1>5, <1>6 DEF GovInv, GovTypeOK, governed
<1>8. \A d \in Clerk \ {c} : InTransaction(d) => task'[d].req = task[d].req
  BY <1>3
<1>9. LocksExclude'
  <2>1. \A d \in Clerk \ {c} : RowsOf(task[d].req)' = RowsOf(task[d].req)
    BY <1>3 DEF RowsOf
  <2>2. RowsOf(task[c].req)' = RowsOf(q)
    BY <1>2, <1>3 DEF RowsOf
  <2> QED
    BY <1>4, <1>5, <2>1, <2>2 DEF GovInv, LocksExclude
<1>10. CrossingsNoted'
  <2>1. \A d, e \in Clerk \ {c} : Crosses(task[d].req, task[e].req)' <=> Crosses(task[d].req, task[e].req)
    BY <1>3 DEF Crosses, OnRecord
  <2>2. \A d \in Clerk \ {c} : /\ Crosses(task[c].req, task[d].req)' <=> Crosses(q, task[d].req)
                               /\ Crosses(task[d].req, task[c].req)' <=> Crosses(q, task[d].req)
                               /\ Crosses(q, task[d].req) => task[d].req.rec = q.rec
    BY <1>2, <1>3 DEF Crosses, OnRecord
  <2> QED
    BY <1>2, <1>3, <1>4, <1>5, <2>1, <2>2 DEF GovInv, CrossingsNoted
<1>11. ChecksHold'
  <2>1. /\ q.op \in {"extend", "refuse"} => pending[q.rec] # {}
        /\ q.op \in Deciding => saw.version = assigned[q.rec].version
        /\ q.op = "assign" => assigned[q.rec].state = "absent"
        /\ q.op = "place" => hold[q.hold] = "active"
    BY <1>5 DEF Allowed, SameVersion, Deciding
  <2> QED
    BY <1>2, <1>3, <1>4, <1>5, <2>1 DEF GovInv, ChecksHold, governed
<1>12. SeenIsOld'
  BY <1>2, <1>3, <1>4, <1>5 DEF GovInv, SeenIsOld, governed
<1>13. OneAppends' /\ ChainIsGapless'
  BY <1>2, <1>3, <1>5 DEF GovInv, OneAppends, ChainIsGapless
<1>14. DeletionCleared'
  <2>1. \A r \in Record : Cleared(r)' <=> Cleared(r)
    BY <1>5, SameRecords
  <2>2. \A d \in Clerk : InTransaction(d) => task[d].req \in Request
    BY TaskShape DEF GovInv
  <2>3. \A d \in Clerk : InTransaction(d) /\ task[d].req.op = "delete" => task[d].req.rec \in Record
    BY <2>2, RequestShape
  <2>4. q.op = "delete" => q.rec \in Record /\ Cleared(q.rec) /\ ~OnHold(q.rec)
    BY <1>5, RequestShape DEF Allowed
  <2>5. ~OnHold(q.rec) => \A h \in Hold : <<h, q.rec>> \notin held
    <3> SUFFICES ASSUME ~OnHold(q.rec), NEW h \in Hold, <<h, q.rec>> \in held
                 PROVE  FALSE
      OBVIOUS
    <3>1. hold[<<h, q.rec>>[1]] = "active"
      BY DEF GovInv, ClosedHoldHoldsNothing
    <3> QED
      BY <3>1 DEF OnHold
  <2> QED
    BY <1>2, <1>3, <1>4, <1>5, <1>6, <2>1, <2>3, <2>4, <2>5 DEF GovInv, governed, DeletionCleared
<1>15. PlacedExists'
  <2>1. q.op = "place" => q.rec \notin deleted
    BY <1>5 DEF Allowed
  <2> QED
    BY <1>2, <1>3, <1>4, <1>5, <1>6, <2>1 DEF GovInv, governed, PlacedExists
<1> QED
  BY <1>5, <1>6, <1>7, <1>9, <1>10, <1>11, <1>12, <1>13, <1>14, <1>15, SameRecords DEF GovInv

\* What a commit changes: only what its locks cover.
LEMMA ApplyStep ==
  ASSUME GovInv, NEW c \in Clerk, InTransaction(c), Apply(task[c].req, task[c].saw),
         UNCHANGED <<now, crossed>>, task' = [task EXCEPT ![c] = Idler]
  PROVE  /\ assigned' \in [Record -> Assignment]
         /\ pending' \in [Record -> SUBSET Time]
         /\ \A r \in Record : \A d, e \in pending'[r] : d = e
         /\ hold' \in [Hold -> {"none", "active", "closed"}]
         /\ held' \subseteq Hold \X Record
         /\ deleted' \subseteq Record
         /\ ChecksHold' /\ SeenIsOld' /\ AbsentIsNew' /\ DeletionCleared' /\ PlacedExists'
         /\ ApprovedAsRead' /\ ClosedHoldHoldsNothing' /\ HeldIsPreserved'
<1>1. PICK q : q = task[c].req
  OBVIOUS
<1>2. PICK saw : saw = task[c].saw
  OBVIOUS
<1>3. /\ q \in Request /\ saw \in Assignment
      /\ q.op \in OnAssignment \cup {"delete", "place", "free", "create", "close"}
      /\ OnRecord(q) => q.rec \in Record
      /\ q.op \in {"assign", "except"} => q.date \in Time
      /\ q.op \in {"create", "close", "place", "free"} => q.hold \in Hold
  BY <1>1, <1>2, TaskShape, RequestShape DEF GovInv, OnRecord
<1>4. /\ q.op \in {"extend", "refuse"} => pending[q.rec] # {}
      /\ q.op \in Deciding => saw.version = assigned[q.rec].version
                              /\ Current(assigned[q.rec], saw)
      /\ q.op = "assign" => assigned[q.rec].state = "absent"
      /\ q.op = "place" => hold[q.hold] = "active"
  BY <1>1, <1>2 DEF GovInv, ChecksHold, SeenIsOld
<1>5. PICK b : b = Assigned(q, saw)
  OBVIOUS
<1>6. OnRecord(q) =>
        /\ b \in Assignment
        /\ q.op \notin OnAssignment => b = assigned[q.rec]
        /\ q.op \in OnAssignment =>
             /\ b.state # "absent"
             /\ b.version = IF q.op = "assign" THEN 1 ELSE assigned[q.rec].version + 1
        /\ b.review = "approved" =>
             /\ b.due = assigned[q.rec].due
             /\ \/ q.op = "approve" /\ b.approvedDue = saw.due
                \/ /\ q.op # "approve" /\ assigned[q.rec].review = "approved"
                   /\ b.approvedDue = assigned[q.rec].approvedDue
  BY <1>3, <1>4, <1>5, AssignedShape DEF GovInv
<1>7. /\ assigned' = IF OnRecord(q) THEN [assigned EXCEPT ![q.rec] = b] ELSE assigned
      /\ pending' = CASE q.op = "except" -> [pending EXCEPT ![q.rec] = {q.date}]
                      [] q.op \in {"extend", "refuse"} -> [pending EXCEPT ![q.rec] = {}]
                      [] OTHER -> pending
      /\ hold' = CASE q.op = "create" -> [hold EXCEPT ![q.hold] = "active"]
                   [] q.op = "close" -> [hold EXCEPT ![q.hold] = "closed"]
                   [] OTHER -> hold
      /\ held' = CASE q.op = "place" -> held \cup {<<q.hold, q.rec>>}
                   [] q.op = "free" -> held \ {<<q.hold, q.rec>>}
                   [] q.op = "close" -> held \ FreedBy(q.hold)
                   [] OTHER -> held
      /\ deleted' = IF q.op = "delete" THEN deleted \cup {q.rec} ELSE deleted
  BY <1>1, <1>2, <1>5 DEF Apply
<1>8. /\ \A d \in Clerk : InTransaction(d)' <=> d # c /\ InTransaction(d)
      /\ \A d \in Clerk \ {c} : task'[d] = task[d]
      /\ task'[c].stage = "idle"
  BY ClerkLeaves
<1>9. /\ assigned \in [Record -> Assignment] /\ pending \in [Record -> SUBSET Time]
      /\ hold \in [Hold -> {"none", "active", "closed"}] /\ held \subseteq Hold \X Record
      /\ deleted \subseteq Record /\ \A r \in Record : \A d, e \in pending[r] : d = e
  BY DEF GovInv, GovTypeOK
<1>10. /\ assigned' \in [Record -> Assignment]
       /\ OnRecord(q) => assigned'[q.rec] = b
       /\ \A r \in Record : r # q.rec \/ ~OnRecord(q) => assigned'[r] = assigned[r]
  BY <1>3, <1>6, <1>7, <1>9
<1>11. /\ pending' \in [Record -> SUBSET Time]
       /\ \A r \in Record : \A d, e \in pending'[r] : d = e
       /\ \A r \in Record : r # q.rec \/ q.op \notin OnAssignment => pending'[r] = pending[r]
  BY <1>3, <1>7, <1>9 DEF OnAssignment, OnRecord
<1>12. /\ hold' \in [Hold -> {"none", "active", "closed"}]
       /\ \A h \in Hold : h # q.hold \/ q.op # "close" => (hold[h] = "active" => hold'[h] = "active")
  BY <1>3, <1>7, <1>9
<1>13. /\ held' \subseteq Hold \X Record
       /\ \A p \in held' : p \in held \/ (q.op = "place" /\ p = <<q.hold, q.rec>>)
       /\ q.op = "close" => \A p \in held' : p \in held /\ p[1] # q.hold
  <2>1. CASE q.op = "place"
    <3>1. held' = held \cup {<<q.hold, q.rec>>} /\ <<q.hold, q.rec>> \in Hold \X Record
      BY <1>3, <1>7, <2>1 DEF OnRecord
    <3> QED
      BY <1>9, <2>1, <3>1
  <2>2. CASE q.op = "close"
    <3>1. held' = held \ {<<q.hold, r>> : r \in Record}
      BY <1>7, <2>2 DEF FreedBy
    <3>2. ASSUME NEW p \in held' PROVE p \in held /\ p[1] # q.hold
      <4>1. PICK h \in Hold, r \in Record : p = <<h, r>>
        BY <1>9, <3>1
      <4> QED
        BY <3>1, <4>1
    <3> QED
      BY <1>9, <2>2, <3>2
  <2>3. CASE q.op \notin {"place", "close"}
    <3>1. held' \subseteq held
      BY <1>7, <2>3
    <3> QED
      BY <1>9, <2>3, <3>1
  <2> QED
    BY <2>1, <2>2, <2>3
<1>14. deleted' \subseteq Record
  BY <1>3, <1>7, <1>9 DEF OnRecord
\* Another transaction on the same assignment or hold would wait for the lock.
<1>15. ASSUME NEW d \in Clerk \ {c}, InTransaction(d)
       PROVE  /\ task[d].req \in Request
              /\ task[d].req.op \in OnAssignment /\ q.op \in OnAssignment => task[d].req.rec # q.rec
              /\ task[d].req.op = "place" /\ q.op = "close" => task[d].req.hold # q.hold
              /\ /\ {task[d].req.op, q.op} = {"delete", "place"} /\ task[d].req.rec = q.rec
                 /\ q.rec \in Evidence
                 => FALSE
              /\ /\ "delete" \in {task[d].req.op, q.op} /\ OnRecord(q) /\ OnRecord(task[d].req)
                 /\ task[d].req.rec = q.rec
                 => q.rec \in crossed
  <2>1. PICK p : p = task[d].req
    OBVIOUS
  <2>2. p \in Request /\ RowsOf(q) \cap RowsOf(p) = {}
    BY <1>1, <1>15, <2>1, TaskShape DEF GovInv, LocksExclude
  <2>3. q.op \in OnAssignment => <<"assignment", q.rec>> \in RowsOf(q)
    BY DEF RowsOf, OnAssignment
  <2>4. p.op \in OnAssignment => <<"assignment", p.rec>> \in RowsOf(p)
    BY DEF RowsOf, OnAssignment
  <2>5. q.op = "close" => <<"hold", q.hold>> \in RowsOf(q)
    BY DEF RowsOf
  <2>6. p.op = "place" => <<"hold", p.hold>> \in RowsOf(p)
    BY DEF RowsOf
  <2>7. /\ q.op \in {"delete", "place"} /\ q.rec \in Evidence => <<"record", q.rec>> \in RowsOf(q)
        /\ p.op \in {"delete", "place"} /\ p.rec \in Evidence => <<"record", p.rec>> \in RowsOf(p)
    BY DEF RowsOf
  <2>8. "delete" \in {p.op, q.op} /\ OnRecord(q) /\ OnRecord(p) /\ p.rec = q.rec => q.rec \in crossed
    BY <1>1, <1>15, <2>1 DEF GovInv, CrossingsNoted, Crosses
  <2> QED
    BY <2>1, <2>2, <2>3, <2>4, <2>5, <2>6, <2>7, <2>8
<1>16. ChecksHold'
  <2> SUFFICES ASSUME NEW d \in Clerk \ {c}, InTransaction(d), NEW p, p = task[d].req
               PROVE  /\ p.op \in {"extend", "refuse"} => pending'[p.rec] # {}
                      /\ p.op \in Deciding => task[d].saw.version = assigned'[p.rec].version
                      /\ p.op = "assign" => assigned'[p.rec].state = "absent"
                      /\ p.op = "place" => hold'[p.hold] = "active"
    BY <1>8 DEF ChecksHold
  <2>1. /\ p \in Request
        /\ p.op \in OnAssignment \cup {"delete", "place", "free", "create", "close"}
        /\ p.op \in OnAssignment => p.rec \in Record
        /\ p.op = "place" => p.hold \in Hold
    BY <1>15, RequestShape DEF OnAssignment
  <2>2. p.op \in OnAssignment => assigned'[p.rec] = assigned[p.rec] /\ pending'[p.rec] = pending[p.rec]
    BY <1>3, <1>6, <1>10, <1>11, <1>15, <2>1
  <2>3. p.op = "place" => p.hold # q.hold \/ q.op # "close"
    BY <1>15
  <2> QED
    BY <1>12, <2>1, <2>2, <2>3 DEF GovInv, ChecksHold, OnAssignment, Deciding
<1>17. ASSUME NEW r \in Record, NEW s, Current(assigned[r], s), s \in Assignment
       PROVE  Current(assigned'[r], s)
  <2>1. CASE r = q.rec /\ OnRecord(q) /\ q.op \in OnAssignment
    <3>1. q.op # "assign"
      BY <1>4, <1>9, <1>17, <2>1, AssignmentShape DEF GovInv, AbsentIsNew, Current
    <3>2. assigned'[r].version = assigned[r].version + 1 /\ assigned[r].version \in Nat
      BY <1>6, <1>9, <1>10, <2>1, <3>1, AssignmentShape
    <3> QED
      BY <1>17, <3>2, AssignmentShape DEF Current
  <2> QED
    BY <1>6, <1>10, <1>17, <2>1
<1>18. SeenIsOld'
  <2> SUFFICES ASSUME NEW d \in Clerk \ {c}
               PROVE  /\ task[d].stage = "read" => Current(assigned'[task[d].rec], task[d].saw)
                      /\ InTransaction(d) /\ task[d].req.op \in Deciding
                           => Current(assigned'[task[d].req.rec], task[d].saw)
    BY <1>8 DEF SeenIsOld, Current
  <2>1. /\ task[d].stage = "read" => task[d].rec \in Record /\ task[d].saw \in Assignment
        /\ InTransaction(d) /\ task[d].req.op \in Deciding
             => task[d].req.rec \in Record /\ task[d].saw \in Assignment
    BY TaskShape, RequestShape DEF GovInv, Deciding
  <2> QED
    BY <1>17, <2>1 DEF GovInv, SeenIsOld
<1>19. AbsentIsNew'
  <2> SUFFICES ASSUME NEW r \in Record
               PROVE  assigned'[r].state = "absent" <=> assigned'[r].version = 0
    BY DEF AbsentIsNew
  <2>1. assigned[r].version \in Nat /\ (assigned[r].state = "absent" <=> assigned[r].version = 0)
    BY <1>9, AssignmentShape DEF GovInv, AbsentIsNew
  <2> QED
    BY <1>6, <1>10, <2>1
<1>20. DeletionCleared'
  <2> SUFFICES ASSUME NEW d \in Clerk \ {c}, InTransaction(d), task[d].req.op = "delete",
                      NEW r, r = task[d].req.rec
               PROVE  /\ r \notin crossed => Cleared(r)'
                      /\ r \notin crossed \/ r \in Evidence => \A h \in Hold : <<h, r>> \notin held'
    BY <1>8 DEF DeletionCleared, Cleared
  <2>1. r \in Record /\ OnRecord(task[d].req)
    BY <1>15, RequestShape DEF OnRecord
  <2>2. OnRecord(q) /\ q.rec = r => r \in crossed
    BY <1>15, <2>1
  <2>3. q.op = "place" /\ q.rec = r => r \notin Evidence
    BY <1>15
  <2>4. r \notin crossed => Cleared(r)'
    BY <1>10, <2>1, <2>2 DEF GovInv, DeletionCleared, Cleared
  <2>5. ASSUME r \notin crossed \/ r \in Evidence, NEW h \in Hold
        PROVE  <<h, r>> \notin held'
    BY <1>13, <2>2, <2>3, <2>5 DEF GovInv, DeletionCleared, OnRecord
  <2> QED
    BY <2>4, <2>5
<1>21. PlacedExists'
  <2> SUFFICES ASSUME NEW d \in Clerk \ {c}, InTransaction(d), task[d].req.op = "place",
                      NEW r, r = task[d].req.rec, r \notin crossed \/ r \in Evidence
               PROVE  r \notin deleted'
    BY <1>8 DEF PlacedExists
  <2>1. q.op = "delete" => r # q.rec
    BY <1>15 DEF OnRecord
  <2> QED
    BY <1>7, <2>1 DEF GovInv, PlacedExists
<1>22. ApprovedAsRead'
  <2> SUFFICES ASSUME NEW r \in Record, assigned'[r].review = "approved"
               PROVE  assigned'[r].approvedDue = assigned'[r].due
    BY DEF ApprovedAsRead
  <2>1. assigned[r].review = "approved" => assigned[r].approvedDue = assigned[r].due
    BY DEF GovInv, ApprovedAsRead
  <2>2. q.op = "approve" => saw = assigned[q.rec]
    BY <1>4 DEF Current, Deciding
  <2> QED
    BY <1>6, <1>10, <2>1, <2>2
<1>23. ClosedHoldHoldsNothing'
  <2> SUFFICES ASSUME NEW p \in held'
               PROVE  hold'[p[1]] = "active"
    BY DEF ClosedHoldHoldsNothing
  <2>1. p[1] \in Hold /\ hold[p[1]] = "active"
    BY <1>3, <1>4, <1>9, <1>13 DEF GovInv, ClosedHoldHoldsNothing
  <2> QED
    BY <1>12, <1>13, <2>1
<1>24. HeldIsPreserved'
  <2> SUFFICES ASSUME NEW h \in Hold, NEW r \in Record, <<h, r>> \in held', r \in deleted'
               PROVE  r \in crossed /\ r \notin Evidence
    BY <1>13 DEF HeldIsPreserved
  <2>1. CASE <<h, r>> \in held /\ r \in deleted
    BY <2>1 DEF GovInv, HeldIsPreserved
  <2>2. CASE <<h, r>> \in held /\ q.op = "delete" /\ r = q.rec
    BY <1>1, <2>2 DEF GovInv, DeletionCleared
  <2>3. CASE q.op = "place" /\ r = q.rec /\ r \in deleted
    BY <1>1, <2>3 DEF GovInv, PlacedExists
  <2> QED
    BY <1>7, <1>13, <2>1, <2>2, <2>3
<1> QED
  BY <1>10, <1>11, <1>12, <1>13, <1>14, <1>16, <1>18, <1>19, <1>20, <1>21, <1>22, <1>23, <1>24

LEMMA CommitStep ==
  ASSUME GovInv, NEW c \in Clerk, Commit(c)
  PROVE  GovInv'
<1>1. /\ InTransaction(c) /\ task[c].stage = "appended" /\ task[c].number = head + 1
      /\ task[c].number \in Nat /\ head \in Nat
  BY TaskShape DEF Commit, InTransaction, GovInv, GovTypeOK, OneAppends
<1>2. /\ Apply(task[c].req, task[c].saw) /\ UNCHANGED <<now, crossed>>
      /\ task' = [task EXCEPT ![c] = Idler]
      /\ head' = head + 1 /\ chain' = Append(chain, head + 1)
  BY <1>1 DEF Commit
<1>3. chain \in Seq(Nat) /\ chain' \in Seq(Nat) /\ head + 1 \in Nat
  BY <1>1, <1>2 DEF GovInv, GovTypeOK
<1>4. GovTypeOK'
  BY <1>1, <1>2, <1>3, ApplyStep, ClerkLeaves DEF GovInv, GovTypeOK
<1>5. OneAppends'
  BY <1>1, <1>2, ClerkLeaves DEF GovInv, OneAppends
<1>6. ChainIsGapless'
  <2>1. Len(chain) = head
    BY <1>1 DEF GovInv, ChainIsGapless
  <2> QED
    BY <1>1, <1>2, <1>3, <2>1 DEF GovInv, ChainIsGapless
<1> QED
  BY <1>1, <1>2, <1>4, <1>5, <1>6, ApplyStep, ClerkLeaves DEF GovInv

LEMMA CommitDeleteStep ==
  ASSUME GovInv, NEW c \in Clerk, CommitDelete(c)
  PROVE  GovInv'
<1>1. InTransaction(c) /\ task[c].stage = "open"
  BY DEF CommitDelete, InTransaction
<1>2. /\ Apply(task[c].req, task[c].saw) /\ UNCHANGED <<now, crossed, head, chain>>
      /\ task' = [task EXCEPT ![c] = Idler]
  BY DEF CommitDelete
<1>3. GovTypeOK'
  BY <1>1, <1>2, ApplyStep, ClerkLeaves DEF GovInv, GovTypeOK
<1>4. OneAppends' /\ ChainIsGapless'
  BY <1>2, ClerkLeaves DEF GovInv, OneAppends, ChainIsGapless
<1> QED
  BY <1>1, <1>2, <1>3, <1>4, ApplyStep, ClerkLeaves DEF GovInv

LEMMA BeginStep ==
  ASSUME GovInv, NEW c \in Clerk, NEW q \in Request, Begin(c, q)
  PROVE  GovInv'
<1>1. ~InTransaction(c) /\ q.op \notin Deciding /\ Unassigned \in Assignment
  BY GovernanceAssumption
  DEF Begin, InTransaction, Idler, Deciding, Unassigned, Assignment, Time, GovernanceAssumption
<1> QED
  BY <1>1, StartStep DEF Begin

LEMMA ReviewStep ==
  ASSUME GovInv, NEW c \in Clerk, NEW decision \in Deciding, ReviewDisposition(c, decision)
  PROVE  GovInv'
<1>1. PICK q : q = [op |-> decision, rec |-> task[c].rec]
  OBVIOUS
<1>2. /\ task[c].stage = "read" /\ ~InTransaction(c)
      /\ task[c].rec \in Record /\ task[c].saw \in Assignment
  BY TaskShape DEF ReviewDisposition, InTransaction, GovInv
<1>3. q \in Request /\ q.op = decision /\ q.rec = task[c].rec
  BY <1>1, <1>2 DEF Request, Deciding
<1>4. Current(assigned[q.rec], task[c].saw)
  BY <1>2, <1>3 DEF GovInv, SeenIsOld
<1>5. Start(c, q, task[c].saw)
  BY <1>1 DEF ReviewDisposition
<1> QED
  BY <1>2, <1>3, <1>4, <1>5, StartStep

LEMMA GovInvPreserved ==
  ASSUME GovInv, [GovNext]_govVars PROVE GovInv'
<1>1. CASE UNCHANGED govVars
  <2>1. ASSUME NEW d \in Clerk
        PROVE  (InTransaction(d)' <=> InTransaction(d)) /\ task'[d] = task[d]
    BY <1>1 DEF govVars, InTransaction
  <2>2. GovTypeOK' /\ OneAppends' /\ ChainIsGapless'
    BY <1>1 DEF GovInv, govVars, governed, GovTypeOK, OneAppends, ChainIsGapless
  <2>3. ChecksHold' /\ SeenIsOld' /\ PlacedExists'
    BY <1>1, <2>1 DEF GovInv, govVars, governed, ChecksHold, SeenIsOld, PlacedExists
  <2>4. LocksExclude' /\ CrossingsNoted'
    BY <1>1, <2>1, LocksCarry DEF govVars
  <2>5. DeletionCleared'
    BY <1>1, <2>1 DEF GovInv, govVars, governed, DeletionCleared, Cleared
  <2> QED
    BY <1>1, <2>2, <2>3, <2>4, <2>5, SameRecords DEF GovInv, govVars
<1>2. CASE Tick
  BY <1>2, TickStep
<1>3. CASE \E c \in Clerk : \E r \in Record : ReadAssignment(c, r)
  BY <1>3, AssignmentReadStep
<1>4. CASE \E c \in Clerk : \E q \in Request : Begin(c, q)
  BY <1>4, BeginStep
<1>5. CASE \E c \in Clerk : \E decision \in Deciding : ReviewDisposition(c, decision)
  BY <1>5, ReviewStep
<1>6. CASE \E c \in Clerk : AppendEvent(c)
  BY <1>6, AppendStep
<1>7. CASE \E c \in Clerk : Commit(c)
  BY <1>7, CommitStep
<1>8. CASE \E c \in Clerk : CommitDelete(c)
  BY <1>8, CommitDeleteStep
<1>9. CASE \E c \in Clerk : Rollback(c)
  BY <1>9, RollbackStep
<1> QED
  BY <1>1, <1>2, <1>3, <1>4, <1>5, <1>6, <1>7, <1>8, <1>9 DEF GovNext, Deciding

\* Everything the transactions rely on holds in every state.
THEOREM GovernanceInvariant == GovSpec => []GovInv
<1>1. GovInit => GovInv
  BY GovInvHolds
<1>2. GovInv /\ [GovNext]_govVars => GovInv'
  BY GovInvPreserved
<1> QED
  BY <1>1, <1>2, PTL DEF GovSpec

\* Assignments, exceptions, holds and transactions keep their types, and a
\* record has at most one pending exception.
THEOREM GovernanceTypeCorrect == GovSpec => []GovTypeOK
<1>1. GovInv => GovTypeOK
  BY DEF GovInv
<1> QED
  BY <1>1, GovernanceInvariant, PTL

\* Whatever overlaps or rolls back, committed events are numbered 1, 2, 3, ...
THEOREM ChainNeverForks == GovSpec => []ChainIsGapless
<1>1. GovInv => ChainIsGapless
  BY DEF GovInv
<1> QED
  BY <1>1, GovernanceInvariant, PTL

\* An approval in force was given by somebody who read the due date in force.
THEOREM ApprovalsAreInformed == GovSpec => []ApprovedAsRead
<1>1. GovInv => ApprovedAsRead
  BY DEF GovInv
<1> QED
  BY <1>1, GovernanceInvariant, PTL

\* No record is left in a hold that is closed, and a held record exists, unless
\* its deletion overlapped another request; held evidence always exists.
THEOREM HoldsPreserve == GovSpec => []HoldsProtect
<1>1. GovInv => HoldsProtect
  BY DEF GovInv, HoldsProtect
<1> QED
  BY <1>1, GovernanceInvariant, PTL

\* A record disappears only when what protects it had let it go, or its
\* deletion overlapped another request about it.
THEOREM DeletionsAreCleared == GovSpec => DeletedWhenCleared
<1> DEFINE Step ==
      \A r \in deleted' \ deleted :
        \/ r \in crossed
        \/ /\ assigned[r].state # "absent" /\ assigned[r].due <= now
           /\ r \in Reviewed => /\ assigned[r].review = "approved"
                                /\ assigned[r].approvedDue = assigned[r].due
<1>1. ASSUME GovInv, NEW c \in Clerk, CommitDelete(c) \/ Commit(c)
      PROVE  Step
  <2> SUFFICES ASSUME NEW r \in deleted' \ deleted, r \notin crossed
               PROVE  /\ assigned[r].state # "absent" /\ assigned[r].due <= now
                      /\ r \in Reviewed => /\ assigned[r].review = "approved"
                                           /\ assigned[r].approvedDue = assigned[r].due
    OBVIOUS
  <2>1. InTransaction(c) /\ task[c].req.op = "delete" /\ r = task[c].req.rec
    BY <1>1 DEF Commit, CommitDelete, Apply, InTransaction
  <2>2. r \in Record
    BY <1>1, <2>1, TaskShape, RequestShape DEF GovInv
  <2>3. Cleared(r)
    BY <1>1, <2>1 DEF GovInv, DeletionCleared
  <2> QED
    BY <1>1, <2>2, <2>3 DEF Cleared, GovInv, ApprovedAsRead
<1>2. ASSUME UNCHANGED deleted PROVE Step
  BY <1>2
<1>3. GovInv /\ [GovNext]_govVars => [Step]_govVars
  <2> SUFFICES ASSUME GovInv, GovNext PROVE Step
    OBVIOUS
  <2>1. (\E c \in Clerk : CommitDelete(c) \/ Commit(c)) \/ UNCHANGED deleted
    BY DEF GovNext, governed, Tick, ReadAssignment, Begin, ReviewDisposition, Start, AppendEvent,
           Rollback
  <2> QED
    BY <1>1, <1>2, <2>1
<1> QED
  BY <1>3, GovernanceInvariant, PTL DEF GovSpec, DeletedWhenCleared

-----------------------------------------------------------------------------
(* Transactions that overlap take effect as if each had run at once.  What  *)
(* an open request has checked is still allowed: a commit changes only what *)
(* its locks cover (Footprint), and open requests lock different rows       *)
(* (Apart), unless a deletion of the same record is involved.               *)

OnHolds == {"create", "close", "place", "free"}

Crossed(q) == q.op \in Overtakable /\ q.rec \in crossed

StillAllowed ==
  \A c \in Clerk : InTransaction(c) =>
    LET q == task[c].req IN
    /\ Allowed(q, task[c].saw) \/ Crossed(q)
    /\ q.op = "delete" => assigned[q.rec].state # "absent"

LEMMA AllowedLasts ==
  ASSUME GovInv, NEW q \in Request, NEW saw, Allowed(q, saw), UNCHANGED governed,
         now' \in Time, now <= now'
  PROVE  Allowed(q, saw)'
<1>1. q.op = "delete" => assigned[q.rec].due \in Int /\ now \in Int /\ now' \in Int
  BY GovernanceAssumption, RequestShape, AssignmentShape
  DEF GovInv, GovTypeOK, Time, GovernanceAssumption
<1>2. q.op = "delete" /\ Cleared(q.rec) => Cleared(q.rec)'
  BY <1>1 DEF Cleared, governed
<1>3. ~OnHold(q.rec) => ~OnHold(q.rec)'
  BY DEF OnHold, governed
<1>4. SameVersion(q.rec, saw) => SameVersion(q.rec, saw)'
  BY DEF SameVersion, governed
<1>5. /\ UNCHANGED <<assigned, pending, hold, held, deleted>>
      /\ q.op \in OnAssignment \cup {"delete", "place", "free", "create", "close"}
  BY RequestShape DEF governed
<1> QED
  BY <1>2, <1>3, <1>4, <1>5 DEF Allowed, OnAssignment

\* What a commit can change.
LEMMA Footprint ==
  ASSUME GovInv, NEW q \in Request, NEW saw \in Assignment, Apply(q, saw),
         q.op \in {"extend", "refuse"} => pending[q.rec] # {}
  PROVE  /\ \A r \in Record : ~(q.op \in OnAssignment /\ r = q.rec)
              => assigned'[r] = assigned[r] /\ pending'[r] = pending[r]
         /\ q.op \in OnAssignment => assigned'[q.rec].state # "absent"
         /\ \A h \in Hold : ~(q.op \in OnHolds /\ h = q.hold)
              => /\ hold'[h] = hold[h]
                 /\ \A r \in Record : <<h, r>> \in held' <=> <<h, r>> \in held
         /\ \A h \in Hold, r \in Record : <<h, r>> \in held' =>
              <<h, r>> \in held \/ (q.op = "place" /\ r = q.rec)
         /\ \A r \in Record : ~(q.op = "delete" /\ r = q.rec)
              => (r \in deleted' <=> r \in deleted)
<1>1. /\ q.op \in OnAssignment \cup {"delete"} \cup OnHolds
      /\ OnRecord(q) => q.rec \in Record
      /\ q.op \in OnHolds => q.hold \in Hold
  BY RequestShape DEF OnHolds, OnRecord
<1>2. /\ assigned \in [Record -> Assignment] /\ pending \in [Record -> SUBSET Time]
      /\ hold \in [Hold -> {"none", "active", "closed"}] /\ held \subseteq Hold \X Record
  BY DEF GovInv, GovTypeOK
<1>3. PICK b : b = Assigned(q, saw)
  OBVIOUS
<1>4. /\ OnRecord(q) /\ q.op \notin OnAssignment => b = assigned[q.rec]
      /\ OnRecord(q) /\ q.op \in OnAssignment => b.state # "absent"
  BY <1>3, AssignedShape DEF GovInv
<1>5. assigned' = IF OnRecord(q) THEN [assigned EXCEPT ![q.rec] = b] ELSE assigned
  BY <1>3 DEF Apply
<1>6. q.op \in OnAssignment => OnRecord(q)
  BY DEF OnAssignment, OnRecord
<1>7. /\ \A r \in Record : ~(q.op \in OnAssignment /\ r = q.rec) => assigned'[r] = assigned[r]
      /\ q.op \in OnAssignment => assigned'[q.rec].state # "absent"
  BY <1>1, <1>2, <1>4, <1>5, <1>6
<1>8. \A r \in Record : ~(q.op \in OnAssignment /\ r = q.rec) => pending'[r] = pending[r]
  BY <1>1, <1>2 DEF Apply, OnAssignment, OnRecord
<1>9. \A h \in Hold : ~(q.op \in OnHolds /\ h = q.hold) => hold'[h] = hold[h]
  BY <1>1, <1>2 DEF Apply, OnHolds
<1>10. ASSUME NEW h \in Hold, NEW r \in Record
       PROVE  /\ ~(q.op \in OnHolds /\ h = q.hold) => (<<h, r>> \in held' <=> <<h, r>> \in held)
              /\ <<h, r>> \in held' => <<h, r>> \in held \/ (q.op = "place" /\ r = q.rec)
  <2>1. CASE q.op = "close"
    <3>1. held' = held \ {<<q.hold, s>> : s \in Record}
      BY <2>1 DEF Apply, FreedBy
    <3> QED
      BY <2>1, <3>1 DEF OnHolds
  <2>2. CASE q.op = "place"
    BY <2>2 DEF Apply, OnHolds
  <2>3. CASE q.op = "free"
    BY <2>3 DEF Apply, OnHolds
  <2>4. CASE q.op \notin {"close", "place", "free"}
    BY <2>4 DEF Apply
  <2> QED
    BY <2>1, <2>2, <2>3, <2>4
<1>11. \A r \in Record : ~(q.op = "delete" /\ r = q.rec) => (r \in deleted' <=> r \in deleted)
  BY DEF Apply
<1> QED
  BY <1>7, <1>8, <1>9, <1>10, <1>11

\* Open requests lock different rows.
LEMMA Apart ==
  ASSUME GovInv, NEW c \in Clerk, NEW d \in Clerk \ {c}, InTransaction(c), InTransaction(d),
         NEW q, q = task[c].req, NEW p, p = task[d].req
  PROVE  /\ q.op \in OnAssignment /\ p.op \in OnAssignment => p.rec # q.rec
         /\ q.op \in OnHolds /\ p.op \in OnHolds => p.hold # q.hold
         /\ q.op = "delete" /\ p.op = "delete" => p.rec # q.rec
         /\ "delete" \in {p.op, q.op} /\ OnRecord(p) /\ OnRecord(q) /\ p.rec = q.rec
              => p.rec \in crossed
<1>1. RowsOf(q) \cap RowsOf(p) = {}
  BY DEF GovInv, LocksExclude
<1>2. /\ q.op \in OnAssignment => <<"assignment", q.rec>> \in RowsOf(q)
      /\ q.op = "delete" => <<"record", q.rec>> \in RowsOf(q)
      /\ q.op \in OnHolds => <<"hold", q.hold>> \in RowsOf(q)
  BY DEF RowsOf, OnAssignment, OnHolds
<1>3. /\ p.op \in OnAssignment => <<"assignment", p.rec>> \in RowsOf(p)
      /\ p.op = "delete" => <<"record", p.rec>> \in RowsOf(p)
      /\ p.op \in OnHolds => <<"hold", p.hold>> \in RowsOf(p)
  BY DEF RowsOf, OnAssignment, OnHolds
<1>4. "delete" \in {p.op, q.op} /\ OnRecord(p) /\ OnRecord(q) /\ p.rec = q.rec => p.rec \in crossed
  BY DEF GovInv, CrossingsNoted, Crosses
<1> QED
  BY <1>1, <1>2, <1>3, <1>4

\* A commit leaves what the others have checked.
LEMMA AllowedSurvives ==
  ASSUME GovInv, StillAllowed, NEW c \in Clerk, NEW d \in Clerk \ {c}, InTransaction(c),
         InTransaction(d), Apply(task[c].req, task[c].saw), UNCHANGED <<now, crossed>>,
         NEW p, p = task[d].req, NEW s, s = task[d].saw
  PROVE  /\ Allowed(p, s)' \/ Crossed(p)'
         /\ p.op = "delete" => assigned'[p.rec].state # "absent"
<1>1. PICK q : q = task[c].req
  OBVIOUS
<1>2. /\ q \in Request /\ p \in Request
      /\ q.op \in {"extend", "refuse"} => pending[q.rec] # {}
      /\ task[c].saw \in Assignment
  BY <1>1, TaskShape DEF GovInv, ChecksHold
<1>3. /\ q.op \in OnAssignment \cup {"delete"} \cup OnHolds
      /\ p.op \in OnAssignment \cup {"delete"} \cup OnHolds
      /\ p.op \in OnAssignment \cup {"delete", "place", "free"} => p.rec \in Record /\ OnRecord(p)
      /\ q.op \in OnAssignment \cup {"delete", "place", "free"} => q.rec \in Record /\ OnRecord(q)
      /\ p.op \in OnHolds => p.hold \in Hold
  BY <1>2, RequestShape DEF OnHolds, OnAssignment, OnRecord
<1>4. /\ \A r \in Record : ~(q.op \in OnAssignment /\ r = q.rec)
           => assigned'[r] = assigned[r] /\ pending'[r] = pending[r]
      /\ q.op \in OnAssignment => assigned'[q.rec].state # "absent"
  BY <1>1, <1>2, Footprint
<1>5. /\ \A h \in Hold : ~(q.op \in OnHolds /\ h = q.hold)
           => /\ hold'[h] = hold[h]
              /\ \A r \in Record : <<h, r>> \in held' <=> <<h, r>> \in held
      /\ \A h \in Hold, r \in Record : <<h, r>> \in held' =>
           <<h, r>> \in held \/ (q.op = "place" /\ r = q.rec)
      /\ \A r \in Record : ~(q.op = "delete" /\ r = q.rec) => (r \in deleted' <=> r \in deleted)
  BY <1>1, <1>2, Footprint
<1>6. /\ q.op \in OnAssignment /\ p.op \in OnAssignment => p.rec # q.rec
      /\ q.op \in OnHolds /\ p.op \in OnHolds => p.hold # q.hold
      /\ q.op = "delete" /\ p.op = "delete" => p.rec # q.rec
      /\ "delete" \in {p.op, q.op} /\ OnRecord(p) /\ OnRecord(q) /\ p.rec = q.rec
           => p.rec \in crossed
  BY <1>1, Apart
<1>7. /\ Allowed(p, s) \/ Crossed(p)
      /\ p.op = "delete" => assigned[p.rec].state # "absent"
      /\ q.op = "delete" => assigned[q.rec].state # "absent"
  BY <1>1 DEF StillAllowed
<1>8. p.op = "delete" => assigned'[p.rec].state # "absent"
  BY <1>3, <1>4, <1>7
<1>9. Crossed(p) => Crossed(p)'
  BY DEF Crossed
<1> SUFFICES ASSUME Allowed(p, s), ~Crossed(p)
             PROVE  Allowed(p, s)'
  BY <1>7, <1>8, <1>9
<1>10. CASE p.op = "assign"
  <2>1. ~(q.op = "delete" /\ q.rec = p.rec)
    BY <1>7, <1>10 DEF Allowed
  <2> QED
    BY <1>3, <1>4, <1>5, <1>6, <1>10, <2>1 DEF Allowed, OnAssignment
<1>11. CASE p.op \in OnAssignment /\ p.op # "assign"
  <2>1. assigned'[p.rec] = assigned[p.rec] /\ pending'[p.rec] = pending[p.rec]
    BY <1>3, <1>4, <1>6, <1>11
  <2> QED
    BY <1>11, <2>1 DEF Allowed, SameVersion, OnAssignment
<1>12. CASE p.op \in OnHolds
  <2>1. /\ hold'[p.hold] = hold[p.hold]
        /\ \A r \in Record : <<p.hold, r>> \in held' <=> <<p.hold, r>> \in held
    BY <1>3, <1>5, <1>6, <1>12
  <2>2. CASE p.op = "place"
    <3>1. ~(q.op = "delete" /\ q.rec = p.rec)
      BY <1>3, <1>6, <2>2 DEF Crossed, Overtakable
    <3>2. p.rec \in deleted' <=> p.rec \in deleted
      BY <1>3, <1>5, <2>2, <3>1
    <3> QED
      BY <1>3, <2>1, <2>2, <3>2 DEF Allowed
  <2> QED
    BY <1>3, <1>12, <2>1, <2>2 DEF Allowed, OnHolds
<1>13. CASE p.op = "delete"
  <2>1. p.rec \in Record /\ ~(OnRecord(q) /\ q.rec = p.rec)
    BY <1>3, <1>6, <1>13 DEF Crossed, Overtakable
  <2>2. assigned'[p.rec] = assigned[p.rec] /\ (p.rec \in deleted' <=> p.rec \in deleted)
    BY <1>3, <1>4, <1>5, <2>1
  <2>3. ASSUME NEW h \in Hold PROVE <<h, p.rec>> \notin held'
    <3>1. <<h, p.rec>> \in held => hold[h] = "active"
      BY DEF GovInv, ClosedHoldHoldsNothing
    <3>2. <<h, p.rec>> \notin held
      BY <1>13, <3>1 DEF Allowed, OnHold
    <3> QED
      BY <1>3, <1>5, <2>1, <3>2
  <2> QED
    BY <1>13, <2>2, <2>3 DEF Allowed, Cleared, OnHold
<1> QED
  BY <1>3, <1>10, <1>11, <1>12, <1>13

\* A request that begins is allowed, and the others are as they were.
LEMMA StartAllowed ==
  ASSUME GovInv, StillAllowed, NEW c \in Clerk, NEW q \in Request, NEW saw, Start(c, q, saw)
  PROVE  StillAllowed'
<1>1. PICK t : t = [stage |-> "open", req |-> q, saw |-> saw, number |-> 0]
  OBVIOUS
<1>2. task' = [task EXCEPT ![c] = t] /\ t.req = q /\ t.saw = saw
  BY <1>1 DEF Start
<1>3. /\ task'[c] = t /\ \A d \in Clerk \ {c} : task'[d] = task[d]
      /\ \A d \in Clerk \ {c} : InTransaction(d)' <=> InTransaction(d)
  BY <1>2 DEF GovInv, GovTypeOK, InTransaction
<1>4. UNCHANGED governed /\ now' \in Time /\ now <= now' /\ crossed \subseteq crossed'
  BY GovernanceAssumption DEF Start, GovInv, GovTypeOK, Time, GovernanceAssumption
<1>5. \A d \in Clerk : InTransaction(d) => task[d].req \in Request
  BY TaskShape DEF GovInv
<1> SUFFICES ASSUME NEW d \in Clerk, InTransaction(d)'
             PROVE  /\ (Allowed(task[d].req, task[d].saw) \/ Crossed(task[d].req))'
                    /\ task'[d].req.op = "delete" => assigned'[task'[d].req.rec].state # "absent"
  BY DEF StillAllowed
<1>6. CASE d = c
  <2>1. Allowed(q, saw)
    BY DEF Start
  <2>2. Allowed(q, saw)'
    BY <1>4, <2>1, AllowedLasts
  <2>3. Allowed(task[d].req, task[d].saw)' <=> Allowed(q, saw)'
    BY <1>2, <1>3, <1>6
  <2> QED
    BY <1>2, <1>3, <1>4, <1>6, <2>1, <2>2, <2>3 DEF Allowed, Cleared, governed
<1>7. CASE d # c
  <2>1. PICK p, s : p = task[d].req /\ s = task[d].saw
    OBVIOUS
  <2>2. /\ p \in Request /\ task'[d] = task[d]
        /\ Allowed(p, s) \/ Crossed(p)
        /\ p.op = "delete" => assigned[p.rec].state # "absent"
    BY <1>3, <1>5, <1>7, <2>1 DEF StillAllowed
  <2>3. Allowed(p, s)' \/ Crossed(p)'
    BY <1>4, <2>2, AllowedLasts DEF Crossed
  <2>4. (Allowed(task[d].req, task[d].saw) \/ Crossed(task[d].req))'
    BY <2>1, <2>2, <2>3
  <2> QED
    BY <1>4, <2>1, <2>2, <2>4 DEF governed
<1> QED
  BY <1>6, <1>7

\* Transactions that keep their requests stay allowed while nothing is committed.
LEMMA AllowedCarries ==
  ASSUME GovInv, StillAllowed, UNCHANGED <<governed, crossed>>, now' \in Time, now <= now',
         \A d \in Clerk : InTransaction(d)' =>
           InTransaction(d) /\ task'[d].req = task[d].req /\ task'[d].saw = task[d].saw
  PROVE  StillAllowed'
<1> SUFFICES ASSUME NEW d \in Clerk, InTransaction(d)'
             PROVE  /\ (Allowed(task[d].req, task[d].saw) \/ Crossed(task[d].req))'
                    /\ task'[d].req.op = "delete" => assigned'[task'[d].req.rec].state # "absent"
  BY DEF StillAllowed
<1>1. PICK p, s : p = task[d].req /\ s = task[d].saw
  OBVIOUS
<1>2. /\ p \in Request /\ task'[d].req = p /\ task'[d].saw = s
      /\ Allowed(p, s) \/ Crossed(p)
      /\ p.op = "delete" => assigned[p.rec].state # "absent"
  BY <1>1, TaskShape DEF StillAllowed, GovInv
<1>3. Allowed(p, s)' \/ Crossed(p)'
  BY <1>2, AllowedLasts DEF Crossed
<1>4. (Allowed(task[d].req, task[d].saw) \/ Crossed(task[d].req))'
  BY <1>2, <1>3
<1> QED
  BY <1>2, <1>4 DEF governed

LEMMA StillAllowedPreserved ==
  ASSUME GovInv, StillAllowed, [GovNext]_govVars PROVE StillAllowed'
<1>1. now \in Nat /\ (now + 1) \in Nat /\ now <= now /\ now <= now + 1
      /\ GovTypeOK /\ GovTypeOK'
  BY GovernanceAssumption, GovInvPreserved
  DEF GovInv, GovTypeOK, Time, GovernanceAssumption
<1>2. CASE UNCHANGED govVars
  BY <1>1, <1>2, AllowedCarries DEF govVars, InTransaction, GovTypeOK
<1>3. CASE Tick
  BY <1>1, <1>3, AllowedCarries DEF Tick, InTransaction, GovTypeOK
<1>4. ASSUME NEW c \in Clerk, NEW r \in Record, ReadAssignment(c, r) PROVE StillAllowed'
  <2>1. \A d \in Clerk : InTransaction(d)' => InTransaction(d) /\ task'[d] = task[d]
    BY <1>1, <1>4 DEF ReadAssignment, InTransaction, GovTypeOK
  <2> QED
    BY <1>1, <1>4, <2>1, AllowedCarries DEF ReadAssignment, GovTypeOK
<1>5. ASSUME NEW c \in Clerk, NEW q \in Request, Begin(c, q) PROVE StillAllowed'
  BY <1>5, StartAllowed DEF Begin
<1>6. ASSUME NEW c \in Clerk, NEW decision \in Deciding, ReviewDisposition(c, decision)
      PROVE  StillAllowed'
  <2>1. [op |-> decision, rec |-> task[c].rec] \in Request
    BY <1>1, <1>6, TaskShape DEF ReviewDisposition, Request, Deciding
  <2> QED
    BY <1>6, <2>1, StartAllowed DEF ReviewDisposition
<1>7. ASSUME NEW c \in Clerk, AppendEvent(c) PROVE StillAllowed'
  <2>1. task[c] = [stage |-> "open", req |-> task[c].req, saw |-> task[c].saw,
                   number |-> task[c].number]
    BY <1>1, <1>7 DEF AppendEvent, GovTypeOK, Task
  <2>2. task'[c].req = task[c].req /\ task'[c].saw = task[c].saw
    BY <1>1, <1>7, <2>1 DEF AppendEvent, GovTypeOK
  <2>3. InTransaction(c) /\ \A d \in Clerk \ {c} : task'[d] = task[d]
    BY <1>1, <1>7 DEF AppendEvent, InTransaction, GovTypeOK
  <2>4. \A d \in Clerk : InTransaction(d)' =>
          InTransaction(d) /\ task'[d].req = task[d].req /\ task'[d].saw = task[d].saw
    BY <2>2, <2>3 DEF InTransaction
  <2> QED
    BY <1>1, <1>7, <2>4, AllowedCarries DEF AppendEvent, GovTypeOK
<1>8. ASSUME NEW c \in Clerk, Commit(c) \/ CommitDelete(c) PROVE StillAllowed'
  <2>1. /\ InTransaction(c) /\ Apply(task[c].req, task[c].saw) /\ UNCHANGED <<now, crossed>>
        /\ task' = [task EXCEPT ![c] = Idler]
    BY <1>8 DEF Commit, CommitDelete, InTransaction
  <2>2. /\ \A d \in Clerk : InTransaction(d)' <=> d # c /\ InTransaction(d)
        /\ \A d \in Clerk \ {c} : task'[d] = task[d]
    BY <2>1, ClerkLeaves
  <2> SUFFICES ASSUME NEW d \in Clerk \ {c}, InTransaction(d)
               PROVE  /\ (Allowed(task[d].req, task[d].saw) \/ Crossed(task[d].req))'
                      /\ task'[d].req.op = "delete" => assigned'[task'[d].req.rec].state # "absent"
    BY <2>2 DEF StillAllowed
  <2>3. PICK p, s : p = task[d].req /\ s = task[d].saw
    OBVIOUS
  <2>4. /\ Allowed(p, s)' \/ Crossed(p)'
        /\ p.op = "delete" => assigned'[p.rec].state # "absent"
    BY <2>1, <2>3, AllowedSurvives
  <2> QED
    BY <2>2, <2>3, <2>4
<1>9. ASSUME NEW c \in Clerk, Rollback(c) PROVE StillAllowed'
  BY <1>1, <1>9, ClerkLeaves, AllowedCarries DEF Rollback, GovTypeOK
<1> QED
  BY <1>2, <1>3, <1>4, <1>5, <1>6, <1>7, <1>8, <1>9 DEF GovNext, Deciding

\* Transactions that overlap change the records as if one at a time had been
\* checked and applied, but for a deletion, or a placement, that a request
\* about the same record has overtaken.
THEOREM RequestsAreSerial == GovSpec => AsIfAtOnce
<1> DEFINE Step ==
      governed' # governed =>
        \E c \in Clerk :
          LET q == task[c].req IN
          /\ InTransaction(c) /\ Apply(q, task[c].saw)
          /\ Allowed(q, task[c].saw) \/ (q.op \in Overtakable /\ q.rec \in crossed)
<1>1. GovInit => GovInv /\ StillAllowed
  BY GovInvHolds DEF StillAllowed, GovInit, InTransaction, Idler
<1>2. GovInv /\ StillAllowed /\ [GovNext]_govVars => GovInv' /\ StillAllowed'
  BY GovInvPreserved, StillAllowedPreserved
<1>3. StillAllowed /\ [GovNext]_govVars => [Step]_govVars
  <2> SUFFICES ASSUME StillAllowed, GovNext PROVE Step
    OBVIOUS
  <2>1. ASSUME NEW c \in Clerk, Commit(c) \/ CommitDelete(c) PROVE Step
    BY <2>1 DEF Commit, CommitDelete, InTransaction, StillAllowed, Crossed
  <2>2. (\E c \in Clerk : Commit(c) \/ CommitDelete(c)) \/ UNCHANGED governed
    BY DEF GovNext, Tick, ReadAssignment, Begin, ReviewDisposition, Start, AppendEvent, Rollback
  <2> QED
    BY <2>1, <2>2
<1> QED
  BY <1>1, <1>2, <1>3, PTL DEF GovSpec, AsIfAtOnce

-----------------------------------------------------------------------------
(* Governance beside the other modules of its run: each of them steps as it  *)
(* does alone, or stands still.                                              *)

\* A behaviour of the run is one of every module, so each theorem about a module
\* alone holds of the run.
THEOREM RunIsOfEachModule == GovernanceSpec => GovSpec /\ PolicySpec /\ AdminSpec /\ Spec
<1>1. GovernanceInit => GovInit /\ PolicyInit /\ AdminInit /\ Init
  BY DEF GovernanceInit
<1>2. [GovernanceNext]_governanceVars =>
        [GovNext]_govVars /\ [PolicyNext]_policyVars /\ [AdminNext]_adminVars /\ [Next]_vars
  BY DEF GovernanceNext, governanceVars, Governs, Approves, Administers, Notifies
<1> QED
  BY <1>1, <1>2, PTL DEF GovernanceSpec, GovSpec, PolicySpec, AdminSpec, Spec

\* Records, policies, administrators and notifications keep their types.
THEOREM EverythingTypeCorrect == GovernanceSpec => []TypesOK
<1>1. GovTypeOK /\ PolicyTypeOK /\ AdminTypeOK /\ TypeOK => TypesOK
  BY DEF TypesOK
<1> QED
  BY <1>1, RunIsOfEachModule, GovernanceTypeCorrect, PolicyTypeCorrect, AdministratorsTypeCorrect,
     TypeCorrect, PTL
=============================================================================
