------------------------- MODULE NotificationProofs -------------------------
(***************************************************************************)
(* TLAPS proofs about NotificationDelivery, for any number of              *)
(* notifications, channels and workers and any limits.                     *)
(*                                                                         *)
(* A notification without mishap is followed from its claim to its end     *)
(* (Clean): while a worker has it, the worker's lease is alive; a success  *)
(* that is still to be recorded is the only send so far; and after a send  *)
(* nothing can claim it any more.  A claim's outcome is in one place only  *)
(* (OnePerClaim), so no late statement ends the lease under a worker.      *)
(***************************************************************************)
EXTENDS NotificationDelivery, FiniteSetTheorems, TLAPS

AbsentIsEmpty == \A n \in Notification : row[n].status = "absent" => row[n] = Absent

LeasedIsOpen ==
  \A n \in Notification :
    row[n].owner # None =>
      row[n].status \in Open /\ ~ row[n].dead /\ row[n].claim = row[n].tries

ClaimsCharged ==
  /\ \A w \in Worker : /\ \A i \in hands[w] : i.claim <= row[i.msg].tries
                       /\ \A q \in job[w] : q.claim <= row[q.msg].tries /\ q.by = w
  /\ \A q \in late : q.claim <= row[q.msg].tries

OnePerClaim ==
  /\ \A w \in Worker :
       /\ \A i, j \in hands[w] : i.msg = j.msg => i = j
       /\ \A q, p \in job[w] : q.msg = p.msg => q = p
       /\ \A i \in hands[w], q \in job[w] : i.msg # q.msg
  /\ \A q \in late :
       /\ \A i \in hands[q.by] : ~ (i.msg = q.msg /\ i.claim = q.claim)
       /\ \A p \in job[q.by] : ~ (p.msg = q.msg /\ p.claim = q.claim)

Vouched ==
  /\ \A w \in Worker : \A q \in job[w] : q.op = "complete" => sends[q.msg] > 0
  /\ \A q \in late : q.op = "complete" => sends[q.msg] > 0

HasRow(n, w, k) == row[n].owner = w /\ row[n].claim = k /\ ~ row[n].lapsed

InHands(n) == \A w \in Worker : \A i \in hands[w] :
                i.msg = n => HasRow(n, w, i.claim) /\ sends[n] = 0

InJob(n) == \A w \in Worker : \A q \in job[w] : q.msg = n =>
              IF q.op = "complete"
              THEN sends[n] = 1 /\ (HasRow(n, w, q.claim) \/ row[n].status = "bounced")
              ELSE sends[n] = 0 /\ HasRow(n, w, q.claim)

SentOnce(n) ==
  /\ sends[n] <= 1
  /\ sends[n] = 1 => \/ row[n].status \in Delivered \cup {"bounced"}
                     \/ \E w \in Worker : \E q \in job[w] : q.msg = n /\ q.op = "complete"

NoLateSuccess(n) == \A q \in late : q.msg = n => q.op # "complete"

Clean(n) == InHands(n) /\ InJob(n) /\ SentOnce(n) /\ NoLateSuccess(n)

IInv == /\ TypeOK /\ AbsentIsEmpty /\ LeasedIsOpen /\ ClaimsCharged /\ OnePerClaim
        /\ Vouched /\ SentWasTaken
        /\ \A n \in Notification \ mishap : Clean(n)

-----------------------------------------------------------------------------
\* The domains, as far as the steps below need them.
LEMMA Domains ==
  ASSUME TypeOK, NEW n \in Notification
  PROVE  /\ row[n] \in Row /\ row[n].tries \in Nat /\ row[n].claim \in Nat
         /\ row[n].owner \in Worker \cup {None} /\ row[n].lapsed \in BOOLEAN
         /\ row[n].tries <= MaxRetries
         /\ sends[n] \in Nat
  BY NotificationAssumption DEF NotificationAssumption, TypeOK, Row, Claims

LEMMA Carriers ==
  ASSUME TypeOK
  PROVE  /\ \A w \in Worker : \A i \in hands[w] :
              i \in Item /\ i.msg \in Notification /\ i.claim \in Claims
         /\ \A w \in Worker : \A q \in job[w] :
              q \in Statement /\ q.msg \in Notification /\ q.claim \in Claims
         /\ \A q \in late : /\ q \in Statement /\ q.msg \in Notification
                           /\ q.claim \in Claims /\ q.by \in Worker
  <1>1. /\ \A i \in Item : i.msg \in Notification /\ i.claim \in Claims
        /\ \A q \in Statement : q.msg \in Notification /\ q.claim \in Claims /\ q.by \in Worker
    BY DEF Item, Statement
  <1>2. /\ \A w \in Worker : hands[w] \subseteq Item /\ job[w] \subseteq Statement
        /\ late \subseteq Statement
    BY DEF TypeOK
  <1>. QED  BY <1>1, <1>2

-----------------------------------------------------------------------------
(* Steps that leave every lease, and whoever relies on it, alone. *)

RowRests(n) ==
  /\ row'[n].owner = row[n].owner /\ row'[n].claim = row[n].claim
  /\ row'[n].tries = row[n].tries /\ row'[n].lapsed = row[n].lapsed
  /\ row'[n].dead = row[n].dead
  /\ \/ row'[n].status = row[n].status
     \/ row[n].status = "absent" /\ row'[n].status = "pending"
  /\ row'[n].status = "absent" => row'[n] = row[n]

RowsRest == \A n \in Notification : RowRests(n)

Quiet ==
  /\ row' \in [Notification -> Row] /\ RowsRest
  /\ inactive' \in SUBSET Channel
  /\ UNCHANGED <<hands, job, late, sends, mishap>>

LEMMA QuietActions ==
  ASSUME TypeOK, AbsentIsEmpty,
         \/ \E n \in Root : createNotificationRecord(n)
         \/ \E n \in Notification : FallDue(n) \/ AckOverdue(n) \/ Acknowledge(n)
         \/ \E c \in Channel : SwitchChannel(c)
         \/ createDueEscalations
  PROVE  Quiet
  <1>. USE DEF RowsRest, RowRests, Quiet, TypeOK
  <1>1. Absent \in Row /\ Created \in Row
    BY NotificationAssumption
    DEF NotificationAssumption, Absent, Created, Row, Open, Delivered, Claims
  <1>2. ASSUME NEW n \in Root, createNotificationRecord(n)  PROVE Quiet
    <2>1. n \in Notification /\ row[n] = Absent
      BY <1>2 DEF Notification, AbsentIsEmpty, createNotificationRecord
    <2>. QED  BY <1>1, <1>2, <2>1 DEF createNotificationRecord, Absent, Created
  <1>3. ASSUME NEW n \in Notification, FallDue(n)  PROVE Quiet
    <2>1. [row[n] EXCEPT !.due = TRUE] \in Row
      BY DEF Row
    <2>. QED  BY <1>3, <2>1 DEF FallDue, Row, Open
  <1>4. ASSUME NEW n \in Notification, AckOverdue(n)  PROVE Quiet
    <2>1. [row[n] EXCEPT !.ack = "overdue"] \in Row
      BY DEF Row
    <2>2. row[n].status # "absent"
      BY <1>4 DEF AckOverdue, AbsentIsEmpty, Absent
    <2>. QED  BY <1>4, <2>1, <2>2 DEF AckOverdue, Row
  <1>5. ASSUME NEW n \in Notification, Acknowledge(n)  PROVE Quiet
    <2>1. [row[n] EXCEPT !.acked = TRUE] \in Row
      BY DEF Row
    <2>. QED  BY <1>5, <2>1 DEF Acknowledge, Row, Delivered
  <1>6. ASSUME NEW c \in Channel, SwitchChannel(c)  PROVE Quiet
    BY <1>6 DEF SwitchChannel
  <1>7. ASSUME createDueEscalations  PROVE Quiet
    <2>1. PICK ns \in SUBSET Root : Escalate(ns)
      BY <1>7 DEF createDueEscalations
    <2>2. \A n \in Notification : [row[n] EXCEPT !.escalated = TRUE] \in Row
      BY DEF Row
    <2>3. ASSUME NEW n \in Notification
          PROVE  /\ row'[n] \in Row
                 /\ \/ row'[n] = row[n] \/ row'[n] = [row[n] EXCEPT !.escalated = TRUE]
                    \/ row[n] = Absent /\ row'[n] = Created
      BY <1>1, <2>1, <2>2 DEF Escalate, AbsentIsEmpty
    <2>4. \A n \in Notification : row[n] \in Row
      OBVIOUS
    <2>5. \A n \in Root : n \in Overdue => row[n].status \in Delivered
      BY DEF Overdue
    <2>6. ASSUME NEW n \in Notification
          PROVE  \/ row'[n] = row[n]
                 \/ row'[n] = [row[n] EXCEPT !.escalated = TRUE] /\ row[n].status # "absent"
                 \/ row[n] = Absent /\ row'[n] = Created
      BY <2>1, <2>5 DEF Escalate, AbsentIsEmpty, Delivered
    <2>7. RowsRest
      <3> SUFFICES ASSUME NEW n \in Notification
                   PROVE  RowRests(n)
        BY DEF RowsRest
      <3>1. CASE row'[n] = [row[n] EXCEPT !.escalated = TRUE] /\ row[n].status # "absent"
        BY <3>1, <2>4 DEF Row
      <3>2. CASE row[n] = Absent /\ row'[n] = Created
        BY <3>2 DEF Absent, Created
      <3>. QED  BY <2>6, <3>1, <3>2
    <2>. QED  BY <2>1, <2>3, <2>7 DEF Escalate
  <1>. QED  BY <1>2, <1>3, <1>4, <1>5, <1>6, <1>7

LEMMA QuietStep ==
  ASSUME IInv, Quiet
  PROVE  IInv'
  <1>. USE DEF IInv, Quiet, RowRests
  <1>1. TypeOK'
    BY DEF TypeOK
  <1>2. LeasedIsOpen' /\ AbsentIsEmpty'
    BY DEF LeasedIsOpen, AbsentIsEmpty, RowsRest, Open
  <1>3. ClaimsCharged'
    BY Carriers DEF ClaimsCharged, RowsRest
  <1>4. OnePerClaim' /\ Vouched'
    BY DEF OnePerClaim, Vouched
  <1>5. SentWasTaken'
    BY DEF SentWasTaken, RowsRest, Delivered
  <1>6. ASSUME NEW n \in Notification \ mishap  PROVE Clean(n)'
    <2>1. Clean(n) /\ row[n].owner \in Worker \cup {None}
      BY Domains
    <2>2. \A w \in Worker : \A k : HasRow(n, w, k) <=> HasRow(n, w, k)'
      BY DEF HasRow, RowsRest
    <2>3. InHands(n)' /\ NoLateSuccess(n)'
      BY <2>1, <2>2 DEF Clean, InHands, NoLateSuccess
    <2>4. InJob(n)'
      <3>1. row[n].status = "bounced" => row'[n].status = "bounced"
        BY DEF RowsRest
      <3>. QED  BY <2>1, <2>2, <3>1 DEF Clean, InJob
    <2>5. SentOnce(n)'
      BY <2>1 DEF Clean, SentOnce, RowsRest, Delivered
    <2>. QED  BY <2>3, <2>4, <2>5 DEF Clean
  <1>. QED  BY <1>1, <1>2, <1>3, <1>4, <1>5, <1>6

-----------------------------------------------------------------------------
(* The end of leases, by time and by bounces. *)

LEMMA LapseStep ==
  ASSUME IInv, NEW n \in Notification, Lapse(n)
  PROVE  IInv'
  <1>. USE DEF IInv
  <1>1. [row[n] EXCEPT !.lapsed = TRUE] \in Row
    BY DEF TypeOK, Row
  <1>2. /\ row'[n].owner = row[n].owner /\ row'[n].claim = row[n].claim
        /\ row'[n].tries = row[n].tries /\ row'[n].dead = row[n].dead
        /\ row'[n].status = row[n].status /\ row[n].status \in Open
        /\ \A m \in Notification : m # n => row'[m] = row[m]
    BY DEF Lapse, TypeOK, Row, LeasedIsOpen
  <1>3. TypeOK'
    BY <1>1 DEF TypeOK, Lapse
  <1>4. AbsentIsEmpty' /\ LeasedIsOpen' /\ SentWasTaken'
    BY <1>2 DEF AbsentIsEmpty, LeasedIsOpen, SentWasTaken, Open, Lapse
  <1>5. ClaimsCharged'
    <2>1. \A m \in Notification : row'[m].tries = row[m].tries
      BY <1>2
    <2>. QED  BY <2>1, Carriers DEF ClaimsCharged, Lapse
  <1>6. OnePerClaim' /\ Vouched'
    BY DEF OnePerClaim, Vouched, Lapse
  <1>7. ASSUME NEW m \in Notification \ mishap'  PROVE Clean(m)'
    <2>1. Clean(m)
      BY <1>7 DEF Lapse
    <2>2. CASE m # n
      BY <1>2, <2>1, <2>2
      DEF Clean, InHands, InJob, SentOnce, NoLateSuccess, HasRow, Lapse
    <2>3. CASE m = n
      <3>1. ~ InHand(n)
        BY <1>7, <2>3 DEF Lapse
      <3>. QED  BY <1>2, <2>1, <2>3, <3>1
                DEF Clean, InHands, InJob, SentOnce, NoLateSuccess, Lapse, InHand
    <2>. QED  BY <2>2, <2>3
  <1>. QED  BY <1>3, <1>4, <1>5, <1>6, <1>7

LEMMA BounceStep ==
  ASSUME IInv, NEW n \in Notification, RecordBounce(n)
  PROVE  IInv'
  <1>. USE DEF IInv
  <1>1. /\ Bounced(row[n]) \in Row
        /\ Bounced(row[n]).owner = None /\ Bounced(row[n]).status = "bounced"
        /\ Bounced(row[n]).tries = row[n].tries
    BY DEF TypeOK, Row, Bounced
  <1>2. /\ row'[n] = Bounced(row[n]) /\ sends[n] > 0
        /\ \A m \in Notification : m # n => row'[m] = row[m]
    BY DEF RecordBounce, TypeOK
  <1>3. TypeOK'
    BY <1>1 DEF TypeOK, RecordBounce
  <1>4. AbsentIsEmpty' /\ LeasedIsOpen' /\ SentWasTaken'
    BY <1>1, <1>2 DEF AbsentIsEmpty, LeasedIsOpen, SentWasTaken, Delivered, RecordBounce
  <1>5. ClaimsCharged'
    <2>1. \A m \in Notification : row'[m].tries = row[m].tries
      BY <1>1, <1>2
    <2>. QED  BY <2>1, Carriers DEF ClaimsCharged, RecordBounce
  <1>6. OnePerClaim' /\ Vouched'
    BY DEF OnePerClaim, Vouched, RecordBounce
  <1>7. ASSUME NEW m \in Notification \ mishap'  PROVE Clean(m)'
    <2>1. Clean(m)
      BY <1>7 DEF RecordBounce
    <2>2. CASE m # n
      BY <1>2, <2>1, <2>2
      DEF Clean, InHands, InJob, SentOnce, NoLateSuccess, HasRow, RecordBounce
    <2>3. CASE m = n
      BY <1>1, <1>2, <2>1, <2>3, Domains
      DEF Clean, InHands, InJob, SentOnce, NoLateSuccess, RecordBounce
    <2>. QED  BY <2>2, <2>3
  <1>. QED  BY <1>3, <1>4, <1>5, <1>6, <1>7

-----------------------------------------------------------------------------
(* Claiming. *)

LEMMA ClaimStep ==
  ASSUME IInv, NEW w \in Worker, NEW taken \in SUBSET Notification,
         claimDueNotifications(w, taken)
  PROVE  IInv'
  <1>. USE DEF IInv
  <1>1. \A n \in taken :
          /\ row[n].status \in Open /\ ~ row[n].dead
          /\ row[n].tries \in Nat /\ row[n].tries < MaxRetries
          /\ row[n].owner = None \/ row[n].lapsed
    BY Domains DEF claimDueNotifications, Claimable
  <1>2. \A n \in taken : row[n].tries + 1 \in Claims
    BY <1>1, NotificationAssumption DEF Claims, NotificationAssumption
  <1>3. ASSUME NEW n \in taken
        PROVE  /\ row'[n] \in Row
               /\ row'[n].owner = w /\ row'[n].claim = row[n].tries + 1
               /\ row'[n].tries = row[n].tries + 1 /\ row'[n].lapsed = FALSE
               /\ row'[n].dead = row[n].dead /\ row'[n].status = row[n].status
    <2>1. row'[n] = [row[n] EXCEPT !.owner = w, !.claim = row[n].tries + 1,
                                   !.tries = row[n].tries + 1, !.lapsed = FALSE]
      BY DEF claimDueNotifications
    <2>2. row[n] \in Row
      BY DEF TypeOK
    <2>. QED  BY <1>2, <2>1, <2>2 DEF Row
  <1>4. /\ \A n \in Notification \ taken : row'[n] = row[n]
        /\ DOMAIN row' = Notification /\ row' = [n \in Notification |-> row'[n]]
    BY DEF claimDueNotifications
  <1>5. /\ hands[w] = {} /\ job[w] = {}
        /\ hands'[w] = {[msg |-> n, claim |-> row[n].tries + 1] : n \in taken}
        /\ \A v \in Worker \ {w} : hands'[v] = hands[v]
        /\ DOMAIN hands' = Worker /\ hands' = [v \in Worker |-> hands'[v]]
        /\ job' = job /\ late' = late /\ inactive' = inactive /\ sends' = sends
        /\ mishap' = mishap
    BY DEF claimDueNotifications, TypeOK
  <1>6. \A i \in hands'[w] : i.msg \in taken /\ i.claim = row[i.msg].tries + 1
    BY <1>5
  <1>7. \A i, j \in hands'[w] : i.msg = j.msg => i = j
    BY <1>5
  <1>8. TypeOK'
    <2>1. \A n \in Notification : row'[n] \in Row
      BY <1>3, <1>4 DEF TypeOK
    <2>2. hands'[w] \subseteq Item
      BY <1>2, <1>5 DEF Item
    <2>3. \A v \in Worker : hands'[v] \in SUBSET Item
      BY <1>5, <2>2 DEF TypeOK
    <2>. QED  BY <1>4, <1>5, <2>1, <2>3 DEF TypeOK
  <1>9. ASSUME NEW n \in Notification
        PROVE  /\ row[n].tries <= row'[n].tries
               /\ row[n].tries \in Nat /\ row'[n].tries \in Nat
               /\ row'[n].status = row[n].status
    <2>1. row[n].tries \in Nat
      BY Domains
    <2>2. CASE n \in taken
      <3>1. row'[n].tries = row[n].tries + 1 /\ row'[n].status = row[n].status
        BY <1>3, <2>2
      <3>. QED  BY <2>1, <3>1
    <2>3. CASE n \notin taken
      BY <1>4, <2>1, <2>3
    <2>. QED  BY <2>2, <2>3
  <1>10. AbsentIsEmpty'
    BY <1>1, <1>4, <1>9 DEF AbsentIsEmpty, Open
  <1>11. LeasedIsOpen'
    <2> SUFFICES ASSUME NEW n \in Notification, row'[n].owner # None
                 PROVE  /\ row'[n].status \in Open /\ ~ row'[n].dead
                        /\ row'[n].claim = row'[n].tries
      BY DEF LeasedIsOpen
    <2>1. CASE n \in taken
      BY <1>1, <1>3, <2>1
    <2>2. CASE n \notin taken
      BY <1>4, <2>2 DEF LeasedIsOpen
    <2>. QED  BY <2>1, <2>2
  <1>12. SentWasTaken'
    BY <1>5, <1>9 DEF SentWasTaken
  <1>13. ClaimsCharged'
    <2>1. ASSUME NEW n \in Notification, NEW k \in Claims, k <= row[n].tries
          PROVE  k <= row'[n].tries
      BY <1>9, <2>1 DEF Claims
    <2>2. ASSUME NEW v \in Worker, NEW i \in hands'[v]
          PROVE  i.claim <= row'[i.msg].tries
      <3>1. CASE v = w
        <4>1. i.msg \in taken /\ i.claim = row[i.msg].tries + 1
          BY <1>6, <2>2, <3>1
        <4>2. row'[i.msg].tries = row[i.msg].tries + 1 /\ row'[i.msg].tries \in Nat
          BY <1>3, <1>9, <4>1
        <4>. QED  BY <4>1, <4>2
      <3>2. CASE v # w
        BY <1>5, <2>1, <2>2, <3>2, Carriers DEF ClaimsCharged
      <3>. QED  BY <3>1, <3>2
    <2>3. ASSUME NEW v \in Worker, NEW q \in job'[v]
          PROVE  q.claim <= row'[q.msg].tries /\ q.by = v
      BY <1>5, <2>1, <2>3, Carriers DEF ClaimsCharged
    <2>4. \A q \in late' : q.claim <= row'[q.msg].tries
      BY <1>5, <2>1, Carriers DEF ClaimsCharged
    <2>. QED  BY <2>2, <2>3, <2>4 DEF ClaimsCharged
  <1>14. OnePerClaim'
    <2>1. ASSUME NEW q \in late, NEW i \in hands'[w]
          PROVE  ~ (i.msg = q.msg /\ i.claim = q.claim)
      <3>1. q.claim <= row[q.msg].tries /\ row[q.msg].tries \in Nat
        BY Carriers, Domains DEF ClaimsCharged
      <3>. QED  BY <1>6, <3>1
    <2>2. ASSUME NEW q \in late
          PROVE  /\ \A i \in hands'[q.by] : ~ (i.msg = q.msg /\ i.claim = q.claim)
                 /\ \A p \in job[q.by] : ~ (p.msg = q.msg /\ p.claim = q.claim)
      <3>1. CASE q.by = w
        BY <1>5, <2>1, <3>1
      <3>2. CASE q.by # w
        BY <1>5, <3>2, Carriers DEF OnePerClaim
      <3>. QED  BY <3>1, <3>2 DEF OnePerClaim
    <2>3. ASSUME NEW v \in Worker
          PROVE  /\ \A i, j \in hands'[v] : i.msg = j.msg => i = j
                 /\ \A q, p \in job[v] : q.msg = p.msg => q = p
                 /\ \A i \in hands'[v], q \in job[v] : i.msg # q.msg
      <3>1. CASE v = w
        BY <1>5, <1>7, <3>1
      <3>2. CASE v # w
        BY <1>5, <3>2 DEF OnePerClaim
      <3>. QED  BY <3>1, <3>2
    <2>. QED  BY <1>5, <2>2, <2>3 DEF OnePerClaim
  <1>15. Vouched'
    BY <1>5 DEF Vouched
  <1>16. ASSUME NEW n \in Notification \ mishap  PROVE Clean(n)'
    <2>1. Clean(n)
      OBVIOUS
    <2>2. CASE n \notin taken
      <3>1. row'[n] = row[n] /\ \A i \in hands'[w] : i.msg # n
        BY <1>4, <1>6, <2>2
      <3>2. InHands(n)'
        BY <1>5, <2>1, <3>1 DEF Clean, InHands, HasRow
      <3>. QED  BY <1>5, <2>1, <3>1, <3>2 DEF Clean, InJob, SentOnce, NoLateSuccess, HasRow
    <2>3. CASE n \in taken
      <3>1. \A v \in Worker : \A k : ~ HasRow(n, v, k)
        BY <1>1, <2>3, NotificationAssumption DEF HasRow, NotificationAssumption
      <3>2. \A v \in Worker : /\ \A i \in hands[v] : i.msg # n
                             /\ \A q \in job[v] : q.msg # n
        BY <1>1, <2>1, <2>3, <3>1 DEF Clean, InHands, InJob, Open
      <3>3. sends[n] = 0
        BY <1>1, <2>1, <2>3, <3>2, Domains DEF Clean, SentOnce, Open, Delivered
      <3>4. InHands(n)'
        <4>1. ASSUME NEW v \in Worker, NEW i \in hands'[v], i.msg = n
              PROVE  HasRow(n, v, i.claim)'
          <5>1. v = w
            BY <1>5, <3>2, <4>1
          <5>. QED  BY <1>3, <1>6, <2>3, <4>1, <5>1 DEF HasRow
        <4>. QED  BY <1>5, <3>3, <4>1 DEF InHands
      <3>. QED  BY <1>5, <2>1, <3>2, <3>3, <3>4
                DEF Clean, InJob, SentOnce, NoLateSuccess
    <2>. QED  BY <2>2, <2>3
  <1>. QED  BY <1>5, <1>8, <1>10, <1>11, <1>12, <1>13, <1>14, <1>15, <1>16

-----------------------------------------------------------------------------
(* Executing, moving and dropping statements. *)

LEMMA AppliedRow ==
  ASSUME TypeOK, NEW q \in Statement, Matches(q)
  PROVE  /\ Applied(q) \in [Notification -> Row]
         /\ \A n \in Notification : n # q.msg => Applied(q)[n] = row[n]
         /\ Applied(q)[q.msg].owner = None
         /\ Applied(q)[q.msg].tries = row[q.msg].tries
         /\ Applied(q)[q.msg].status \in Delivered \cup {"failed"}
         /\ Applied(q)[q.msg].status \in Delivered => q.op = "complete"
         /\ q.op = "complete" => Applied(q)[q.msg].status \in Delivered
  <1>1. /\ q.msg \in Notification /\ row[q.msg] \in Row
        /\ q.op \in {"complete", "retry", "die"}
    BY DEF Statement, TypeOK
  <1>. DEFINE r == Unleased(row[q.msg])
  <1>2. r \in Row /\ r.owner = None /\ r.tries = row[q.msg].tries
    BY <1>1, NotificationAssumption DEF Unleased, Row
  <1>3. Applied(q) = [row EXCEPT ![q.msg] = Recorded(q)]
    BY DEF Applied
  <1>. HIDE DEF r
  <1>4. CASE q.op = "complete"
    <2>. DEFINE st == IF q.msg \in InApp THEN "delivered" ELSE "sent"
                ac == IF q.msg \in Escalating THEN "awaited" ELSE r.ack
    <2>1. Recorded(q) = [r EXCEPT !.status = st, !.dead = FALSE, !.ack = ac]
      BY <1>4 DEF Recorded, r
    <2>2. st \in Delivered /\ st \in {"absent", "bounced"} \cup Open \cup Delivered
      BY DEF Delivered
    <2>3. ac \in {"none", "awaited", "overdue"}
      BY <1>2 DEF Row
    <2>. HIDE DEF st, ac
    <2>4. /\ Recorded(q) \in Row /\ Recorded(q).owner = None
          /\ Recorded(q).tries = row[q.msg].tries /\ Recorded(q).status = st
      BY <1>2, <2>1, <2>2, <2>3 DEF Row
    <2>. QED  BY <1>1, <1>3, <1>4, <2>2, <2>4 DEF TypeOK
  <1>5. CASE q.op = "retry"
    <2>1. Recorded(q) = [r EXCEPT !.status = "failed", !.dead = FALSE, !.due = FALSE]
      BY <1>5 DEF Recorded, r
    <2>2. /\ Recorded(q) \in Row /\ Recorded(q).owner = None
          /\ Recorded(q).tries = row[q.msg].tries /\ Recorded(q).status = "failed"
      BY <1>2, <2>1 DEF Row, Open
    <2>. QED  BY <1>1, <1>3, <1>5, <2>2 DEF TypeOK, Delivered
  <1>6. CASE q.op = "die"
    <2>1. Recorded(q) = [r EXCEPT !.status = "failed", !.dead = TRUE]
      BY <1>6 DEF Recorded, r
    <2>2. /\ Recorded(q) \in Row /\ Recorded(q).owner = None
          /\ Recorded(q).tries = row[q.msg].tries /\ Recorded(q).status = "failed"
      BY <1>2, <2>1 DEF Row, Open
    <2>. QED  BY <1>1, <1>3, <1>6, <2>2 DEF TypeOK, Delivered
  <1>. QED  BY <1>1, <1>4, <1>5, <1>6

\* A statement of which a success is vouched for, executed or not.
LEMMA RowsAfter ==
  ASSUME IInv, NEW q \in Statement, q.op = "complete" => sends[q.msg] > 0,
         row' = row \/ row' = Applied(q), sends' = sends
  PROVE  /\ row' \in [Notification -> Row] /\ AbsentIsEmpty' /\ LeasedIsOpen' /\ SentWasTaken'
         /\ \A n \in Notification : row'[n].tries = row[n].tries
         /\ \A n \in Notification : n # q.msg => row'[n] = row[n]
  <1>. USE DEF IInv
  <1>1. CASE row' = row
    BY <1>1 DEF TypeOK, AbsentIsEmpty, LeasedIsOpen, SentWasTaken
  <1>2. CASE row' = Applied(q) /\ Matches(q)
    <2>1. AbsentIsEmpty'
      BY <1>2, AppliedRow DEF AbsentIsEmpty, Delivered
    <2>2. LeasedIsOpen'
      BY <1>2, AppliedRow DEF LeasedIsOpen
    <2>3. SentWasTaken'
      BY <1>2, AppliedRow DEF SentWasTaken
    <2>. QED  BY <1>2, <2>1, <2>2, <2>3, AppliedRow
  <1>. QED  BY <1>1, <1>2 DEF Applied

LEMMA Narrowed ==
  ASSUME IInv, sends' = sends, late' \subseteq late,
         \A v \in Worker : hands'[v] \subseteq hands[v] /\ job'[v] \subseteq job[v],
         \A n \in Notification : row'[n].tries = row[n].tries
  PROVE  ClaimsCharged' /\ OnePerClaim' /\ Vouched'
  <1>. USE DEF IInv
  <1>1. ClaimsCharged'
    BY Carriers DEF ClaimsCharged
  <1>2. OnePerClaim'
    <2>1. \A q \in late : q.by \in Worker
      BY Carriers
    <2>. QED  BY <2>1 DEF OnePerClaim
  <1>3. Vouched'
    BY DEF Vouched
  <1>. QED  BY <1>1, <1>2, <1>3

\* A clean notification whose row rests stays clean when claims and outcomes are
\* dropped, other than its success.
LEMMA CleanNarrowed ==
  ASSUME NEW n \in Notification, Clean(n), row'[n] = row[n], sends' = sends,
         \A q \in late' : q.msg = n => q \in late \/ q.op # "complete",
         \A v \in Worker : hands'[v] \subseteq hands[v] /\ job'[v] \subseteq job[v],
         \A v \in Worker : \A q \in job[v] \ job'[v] : ~ (q.msg = n /\ q.op = "complete")
  PROVE  Clean(n)'
  BY DEF Clean, InHands, InJob, SentOnce, NoLateSuccess, HasRow

-----------------------------------------------------------------------------
(* Recording an outcome, in time or not. *)

LEMMA RecordedStep ==
  ASSUME IInv, NEW w \in Worker, NEW q \in job[w],
         job' = [job EXCEPT ![w] = @ \ {q}], row' = Applied(q),
         UNCHANGED <<hands, late, inactive, sends, mishap>>
  PROVE  IInv'
  <1>. USE DEF IInv
  <1>1. /\ q \in Statement /\ q.msg \in Notification /\ q.by = w
        /\ q.op = "complete" => sends[q.msg] > 0
    BY Carriers DEF ClaimsCharged, Vouched
  <1>2. /\ job'[w] = job[w] \ {q} /\ \A v \in Worker \ {w} : job'[v] = job[v]
        /\ hands' = hands /\ late' = late /\ sends' = sends /\ mishap' = mishap
    BY DEF TypeOK
  <1>3. \A v \in Worker : hands'[v] \subseteq hands[v] /\ job'[v] \subseteq job[v]
    BY <1>2
  <1>4. TypeOK'
    <2>1. row' \in [Notification -> Row]
      BY <1>1, RowsAfter
    <2>2. job' \in [Worker -> SUBSET Statement]
      BY DEF TypeOK
    <2>. QED  BY <2>1, <2>2 DEF TypeOK
  <1>5. AbsentIsEmpty' /\ LeasedIsOpen' /\ SentWasTaken'
    BY <1>1, <1>2, RowsAfter
  <1>6. ClaimsCharged' /\ OnePerClaim' /\ Vouched'
    BY <1>1, <1>2, <1>3, RowsAfter, Narrowed
  <1>7. ASSUME NEW n \in Notification \ mishap  PROVE Clean(n)'
    <2>1. Clean(n)
      OBVIOUS
    <2>2. CASE q.msg # n
      <3>1. row'[n] = row[n]
        BY <1>1, <1>2, <2>2, RowsAfter
      <3>. QED  BY <1>2, <1>3, <2>1, <2>2, <3>1, CleanNarrowed
    <2>3. CASE q.msg = n /\ Matches(q)
      <3>1. row[n].owner = w /\ row[n].owner # None /\ row[n].status \in Open
        BY <1>1, <2>3, NotificationAssumption
        DEF Matches, LeasedIsOpen, NotificationAssumption
      <3>2. \A v \in Worker : \A i \in hands[v] : i.msg # n
        BY <2>1, <2>3, <3>1 DEF Clean, InHands, HasRow, OnePerClaim
      <3>3. \A v \in Worker : \A p \in job'[v] : p.msg # n
        BY <1>2, <2>1, <2>3, <3>1 DEF Clean, InJob, HasRow, OnePerClaim, Open
      <3>4. SentOnce(n)'
        <4>1. sends[n] <= 1
          BY <2>1 DEF Clean, SentOnce
        <4>2. CASE q.op = "complete"
          BY <1>1, <1>2, <2>3, <4>1, <4>2, AppliedRow DEF SentOnce
        <4>3. CASE q.op # "complete"
          <5>1. sends[n] = 0
            BY <2>1, <2>3, <4>3 DEF Clean, InJob
          <5>. QED  BY <1>2, <5>1 DEF SentOnce
        <4>. QED  BY <4>2, <4>3
      <3>. QED  BY <1>2, <2>1, <3>2, <3>3, <3>4 DEF Clean, InHands, InJob, NoLateSuccess
    <2>4. CASE q.msg = n /\ ~ Matches(q)
      <3>1. row' = row
        BY <2>4 DEF Applied
      <3>2. q.op = "complete" /\ sends[n] = 1 /\ row[n].status = "bounced"
        BY <1>1, <2>1, <2>4 DEF Clean, InJob, HasRow, Matches
      <3>3. InHands(n)' /\ InJob(n)' /\ NoLateSuccess(n)'
        BY <1>2, <1>3, <2>1, <3>1 DEF Clean, InHands, InJob, NoLateSuccess, HasRow
      <3>4. SentOnce(n)'
        BY <1>2, <3>1, <3>2 DEF SentOnce
      <3>. QED  BY <3>3, <3>4 DEF Clean
    <2>. QED  BY <2>2, <2>3, <2>4
  <1>. QED  BY <1>2, <1>4, <1>5, <1>6, <1>7

LEMMA DelayedStep ==
  ASSUME IInv, NEW w \in Worker, NEW q \in job[w],
         job' = [job EXCEPT ![w] = @ \ {q}], late' = late \cup {q},
         mishap' = IF q.op = "complete" THEN mishap \cup {q.msg} ELSE mishap,
         UNCHANGED <<row, hands, inactive, sends>>
  PROVE  IInv'
  <1>. USE DEF IInv
  <1>1. /\ q \in Statement /\ q.msg \in Notification /\ q.by = w
        /\ q.op = "complete" => sends[q.msg] > 0
        /\ q.claim <= row[q.msg].tries
    BY Carriers DEF ClaimsCharged, Vouched
  <1>2. /\ job'[w] = job[w] \ {q} /\ \A v \in Worker \ {w} : job'[v] = job[v]
        /\ row' = row /\ hands' = hands /\ sends' = sends
    BY DEF TypeOK
  <1>3. \A v \in Worker : hands'[v] \subseteq hands[v] /\ job'[v] \subseteq job[v]
    BY <1>2
  <1>4. TypeOK'
    BY <1>1 DEF TypeOK
  <1>5. AbsentIsEmpty' /\ LeasedIsOpen' /\ SentWasTaken'
    BY <1>2 DEF AbsentIsEmpty, LeasedIsOpen, SentWasTaken
  <1>6. ClaimsCharged' /\ Vouched'
    BY <1>1, <1>2, <1>3 DEF ClaimsCharged, Vouched
  <1>7. OnePerClaim'
    <2>1. /\ \A i \in hands[w] : i.msg # q.msg
          /\ \A p \in job'[w] : p.msg # q.msg
      BY <1>2 DEF OnePerClaim
    <2>2. \A p \in late : p.by \in Worker
      BY Carriers
    <2>. QED  BY <1>1, <1>2, <1>3, <2>1, <2>2 DEF OnePerClaim
  <1>8. ASSUME NEW n \in Notification \ mishap'  PROVE Clean(n)'
    <2>1. Clean(n) /\ ~ (q.msg = n /\ q.op = "complete")
      BY <1>8
    <2>2. /\ \A p \in late' : p.msg = n => p \in late \/ p.op # "complete"
          /\ \A v \in Worker : \A p \in job[v] \ job'[v] : ~ (p.msg = n /\ p.op = "complete")
      BY <1>2, <2>1
    <2>. QED  BY <1>2, <1>3, <2>1, <2>2, CleanNarrowed
  <1>. QED  BY <1>4, <1>5, <1>6, <1>7, <1>8

LEMMA ExecuteLateStep ==
  ASSUME IInv, ExecuteLate
  PROVE  IInv'
  <1>. USE DEF IInv
  <1>1. PICK q \in late : /\ late' = late \ {q}
                          /\ row' = Applied(q) \/ row' = row
                          /\ UNCHANGED <<hands, job, inactive, sends, mishap>>
    BY DEF ExecuteLate
  <1>2. /\ q \in Statement /\ q.msg \in Notification /\ q.by \in Worker
        /\ q.op = "complete" => sends[q.msg] > 0
    BY Carriers DEF Vouched
  <1>3. row' \in [Notification -> Row] /\ AbsentIsEmpty' /\ LeasedIsOpen' /\ SentWasTaken'
    BY <1>1, <1>2, RowsAfter
  <1>4. TypeOK'
    BY <1>1, <1>3 DEF TypeOK
  <1>5. ClaimsCharged' /\ OnePerClaim' /\ Vouched'
    BY <1>1, <1>2, RowsAfter, Narrowed
  <1>6. ASSUME NEW n \in Notification \ mishap  PROVE Clean(n)'
    <2>1. Clean(n)
      OBVIOUS
    <2>2. CASE row'[n] = row[n]
      BY <1>1, <2>1, <2>2, CleanNarrowed
    <2>3. CASE row'[n] # row[n]
      <3>1. q.msg = n /\ Matches(q) /\ row' = Applied(q)
        BY <1>1, <1>2, <2>3, RowsAfter DEF Applied
      <3>2. row[n].owner = q.by /\ row[n].claim = q.claim /\ row[n].status \in Open
        BY <1>2, <3>1, NotificationAssumption
        DEF Matches, LeasedIsOpen, NotificationAssumption
      <3>3. \A v \in Worker : /\ \A i \in hands[v] : i.msg # n
                             /\ \A p \in job[v] : p.msg # n
        BY <2>1, <3>1, <3>2 DEF Clean, InHands, InJob, HasRow, OnePerClaim, Open
      <3>4. sends[n] = 0
        BY <2>1, <3>2, <3>3, Domains DEF Clean, SentOnce, Open, Delivered
      <3>. QED  BY <1>1, <2>1, <3>3, <3>4
                DEF Clean, InHands, InJob, SentOnce, NoLateSuccess
    <2>. QED  BY <2>2, <2>3
  <1>. QED  BY <1>1, <1>3, <1>4, <1>5, <1>6

LEMMA CrashStep ==
  ASSUME IInv, NEW w \in Worker, Crash(w)
  PROVE  IInv'
  <1>. USE DEF IInv
  <1>1. /\ hands'[w] = {} /\ job'[w] = {}
        /\ \A v \in Worker \ {w} : hands'[v] = hands[v] /\ job'[v] = job[v]
        /\ row' = row /\ late' = late /\ sends' = sends
        /\ mishap' = mishap \cup {q.msg : q \in {p \in job[w] : p.op = "complete"}}
    BY DEF Crash, TypeOK
  <1>2. \A v \in Worker : hands'[v] \subseteq hands[v] /\ job'[v] \subseteq job[v]
    BY <1>1
  <1>3. TypeOK'
    <2>1. mishap' \subseteq Notification
      BY <1>1, Carriers DEF TypeOK
    <2>. QED  BY <1>1, <2>1 DEF TypeOK, Crash
  <1>4. AbsentIsEmpty' /\ LeasedIsOpen' /\ SentWasTaken'
    BY <1>1 DEF AbsentIsEmpty, LeasedIsOpen, SentWasTaken
  <1>5. ClaimsCharged' /\ OnePerClaim' /\ Vouched'
    BY <1>1, <1>2, Narrowed
  <1>6. ASSUME NEW n \in Notification \ mishap'  PROVE Clean(n)'
    <2>1. \A v \in Worker : \A q \in job[v] \ job'[v] : ~ (q.msg = n /\ q.op = "complete")
      BY <1>1, <1>6
    <2>. QED  BY <1>1, <1>2, <1>6, <2>1, CleanNarrowed
  <1>. QED  BY <1>3, <1>4, <1>5, <1>6

-----------------------------------------------------------------------------
(* Sending a group. *)

LEMMA DeliverStep ==
  ASSUME IInv, NEW w \in Worker, NEW items \in SUBSET hands[w],
         NEW answer \in {"ok", "transient", "permanent"}, NEW taken \in BOOLEAN,
         deliverClaimedGroup(w, items, answer, taken)
  PROVE  IInv'
  <1>. USE DEF IInv
  <1>. DEFINE Sent(i) == [op |-> Outcome(answer, i.claim), by |-> w,
                          msg |-> i.msg, claim |-> i.claim]
              ns == {i.msg : i \in items}
  <1>1. /\ job[w] = {} /\ job'[w] = {Sent(i) : i \in items}
        /\ hands'[w] = hands[w] \ items
        /\ \A v \in Worker \ {w} : job'[v] = job[v] /\ hands'[v] = hands[v]
        /\ DOMAIN job' = Worker /\ job' = [v \in Worker |-> job'[v]]
        /\ DOMAIN hands' = Worker /\ hands' = [v \in Worker |-> hands'[v]]
    BY DEF deliverClaimedGroup, TypeOK
  <1>2. /\ row' = row /\ late' = late /\ inactive' = inactive
        /\ answer = "ok" => taken
        /\ sends' = [n \in Notification |->
                       IF taken /\ n \in ns THEN sends[n] + 1 ELSE sends[n]]
        /\ mishap' = IF taken /\ answer # "ok" THEN mishap \cup ns ELSE mishap
    BY DEF deliverClaimedGroup
  <1>3. \A i \in items : i \in Item /\ i.msg \in Notification /\ i.claim \in Claims
    BY Carriers
  <1>4. \A i \in items : /\ Outcome(answer, i.claim) \in {"complete", "retry", "die"}
                         /\ Outcome(answer, i.claim) = "complete" <=> answer = "ok"
    BY DEF Outcome
  <1>5. \A q \in job'[w] : \E i \in items :
          /\ q.msg = i.msg /\ q.claim = i.claim /\ q.by = w
          /\ q.op = "complete" <=> answer = "ok"
          /\ q = Sent(i) /\ q \in Statement
    BY <1>1, <1>3, <1>4 DEF Statement
  <1>6. ASSUME NEW n \in Notification
        PROVE  /\ sends'[n] \in Nat /\ sends[n] \in Nat /\ sends'[n] >= sends[n]
               /\ taken /\ n \in ns => sends'[n] = sends[n] + 1
               /\ ~ (taken /\ n \in ns) => sends'[n] = sends[n]
    <2>. HIDE DEF ns
    <2>. QED  BY <1>2, Domains
  <1>7. TypeOK'
    <2>1. \A v \in Worker : job'[v] \in SUBSET Statement /\ hands'[v] \in SUBSET Item
      BY <1>1, <1>5 DEF TypeOK
    <2>2. mishap' \in SUBSET Notification
      BY <1>2, <1>3 DEF TypeOK
    <2>3. sends' \in [Notification -> Nat]
      BY <1>2, <1>6
    <2>. QED  BY <1>1, <1>2, <2>1, <2>2, <2>3 DEF TypeOK
  <1>8. AbsentIsEmpty' /\ LeasedIsOpen'
    BY <1>2 DEF AbsentIsEmpty, LeasedIsOpen
  <1>9. SentWasTaken'
    BY <1>2, <1>6 DEF SentWasTaken
  <1>10. ClaimsCharged'
    <2>1. \A q \in job'[w] : q.claim <= row[q.msg].tries /\ q.by = w
      BY <1>5 DEF ClaimsCharged
    <2>. QED  BY <1>1, <1>2, <2>1 DEF ClaimsCharged
  <1>11. OnePerClaim'
    <2>1. \A q, p \in job'[w] : q.msg = p.msg => q = p
      BY <1>5 DEF OnePerClaim
    <2>2. \A i \in hands'[w], q \in job'[w] : i.msg # q.msg
      BY <1>1, <1>5 DEF OnePerClaim
    <2>3. \A q \in late : q.by = w => \A p \in job'[w] : ~ (p.msg = q.msg /\ p.claim = q.claim)
      BY <1>5 DEF OnePerClaim
    <2>4. \A q \in late : q.by \in Worker
      BY Carriers
    <2>. HIDE DEF Sent
    <2>. QED  BY <1>1, <1>2, <2>1, <2>2, <2>3, <2>4 DEF OnePerClaim
  <1>12. Vouched'
    <2>1. ASSUME NEW q \in job'[w], q.op = "complete"  PROVE sends'[q.msg] > 0
      <3>1. q.msg \in ns /\ q.msg \in Notification /\ taken
        BY <1>2, <1>3, <1>5, <2>1
      <3>. QED  BY <1>6, <3>1
    <2>2. ASSUME NEW n \in Notification, sends[n] > 0  PROVE sends'[n] > 0
      BY <1>6, <2>2
    <2>. QED  BY <1>1, <1>2, <2>1, <2>2, Carriers DEF Vouched
  <1>13. ASSUME NEW n \in Notification \ mishap'  PROVE Clean(n)'
    <2>1. Clean(n)
      BY <1>2, <1>13
    <2>2. CASE n \notin ns
      <3>1. /\ sends'[n] = sends[n] /\ row'[n] = row[n]
            /\ \A q \in job'[w] : q.msg # n
        BY <1>2, <1>5, <1>6, <2>2
      <3>2. InHands(n)'
        BY <1>1, <2>1, <3>1 DEF Clean, InHands, HasRow
      <3>3. InJob(n)'
        BY <1>1, <2>1, <3>1 DEF Clean, InJob, HasRow
      <3>4. SentOnce(n)' /\ NoLateSuccess(n)'
        BY <1>1, <1>2, <2>1, <3>1 DEF Clean, SentOnce, NoLateSuccess
      <3>. QED  BY <3>2, <3>3, <3>4 DEF Clean
    <2>3. CASE n \in ns
      <3>1. PICK i \in items : i.msg = n
        BY <2>3
      <3>2. HasRow(n, w, i.claim) /\ sends[n] = 0
        BY <2>1, <3>1 DEF Clean, InHands
      <3>3. \A v \in Worker \ {w} : /\ \A j \in hands[v] : j.msg # n
                                   /\ \A q \in job[v] : q.msg # n
        BY <2>1, <3>2 DEF Clean, InHands, InJob, HasRow
      <3>4. \A j \in hands'[w] : j.msg # n
        BY <1>1, <3>1 DEF OnePerClaim
      <3>5. \A q \in job'[w] : q.msg = n =>
              q.claim = i.claim /\ (q.op = "complete" <=> answer = "ok")
        BY <1>5, <3>1 DEF OnePerClaim
      <3>6. taken <=> answer = "ok"
        BY <1>2, <1>13, <2>3
      <3>7. sends'[n] = IF answer = "ok" THEN 1 ELSE 0
        BY <1>6, <2>3, <3>2, <3>6
      <3>8. InHands(n)'
        BY <1>1, <3>3, <3>4 DEF InHands
      <3>9. InJob(n)'
        BY <1>1, <1>2, <3>2, <3>3, <3>5, <3>7 DEF InJob, HasRow
      <3>10. SentOnce(n)'
        <4>1. CASE answer = "ok"
          <5>1. Sent(i) \in job'[w] /\ Sent(i).msg = n /\ Sent(i).op = "complete"
            <6>1. Sent(i) \in job'[w]
              BY <1>1
            <6>2. Sent(i).msg = n /\ Sent(i).op = Outcome(answer, i.claim)
              BY <3>1
            <6>3. Outcome(answer, i.claim) = "complete"
              BY <4>1 DEF Outcome
            <6>. QED  BY <6>1, <6>2, <6>3
          <5>. QED  BY <3>7, <4>1, <5>1 DEF SentOnce
        <4>2. CASE answer # "ok"
          BY <3>7, <4>2 DEF SentOnce
        <4>. QED  BY <4>1, <4>2
      <3>. QED  BY <1>2, <2>1, <3>8, <3>9, <3>10 DEF Clean, NoLateSuccess
    <2>. QED  BY <2>2, <2>3
  <1>. QED  BY <1>7, <1>8, <1>9, <1>10, <1>11, <1>12, <1>13

-----------------------------------------------------------------------------
(* The inductive invariant and its consequences. *)

LEMMA InitIInv == Init => IInv
  <1> SUFFICES ASSUME Init  PROVE IInv
    OBVIOUS
  <1>1. Absent \in Row
    BY NotificationAssumption DEF NotificationAssumption, Absent, Row, Open, Delivered, Claims
  <1>2. TypeOK
    BY <1>1 DEF Init, TypeOK
  <1>3. AbsentIsEmpty /\ LeasedIsOpen /\ SentWasTaken
    BY DEF Init, AbsentIsEmpty, LeasedIsOpen, SentWasTaken, Absent, Delivered
  <1>4. ClaimsCharged /\ Vouched
    BY DEF Init, ClaimsCharged, Vouched
  <1>5. OnePerClaim
    BY DEF Init, OnePerClaim
  <1>6. \A n \in Notification : Clean(n)
    BY DEF Init, Clean, InHands, InJob, SentOnce, NoLateSuccess
  <1>. QED  BY <1>2, <1>3, <1>4, <1>5, <1>6 DEF IInv

LEMMA NextIInv == IInv /\ [Next]_vars => IInv'
  <1> SUFFICES ASSUME IInv, [Next]_vars  PROVE IInv'
    OBVIOUS
  <1>1. ASSUME Quiet  PROVE IInv'
    BY <1>1, QuietStep
  <1>2. ASSUME \/ \E n \in Root : createNotificationRecord(n)
               \/ \E n \in Notification : FallDue(n) \/ AckOverdue(n) \/ Acknowledge(n)
               \/ \E c \in Channel : SwitchChannel(c)
               \/ createDueEscalations
        PROVE  IInv'
    BY <1>1, <1>2, QuietActions DEF IInv
  <1>3. ASSUME NEW n \in Notification, Lapse(n)  PROVE IInv'
    BY <1>3, LapseStep
  <1>4. ASSUME NEW n \in Notification, RecordBounce(n)  PROVE IInv'
    BY <1>4, BounceStep
  <1>5. ASSUME NEW w \in Worker, NEW taken \in SUBSET Notification,
               claimDueNotifications(w, taken)
        PROVE  IInv'
    BY <1>5, ClaimStep
  <1>6. ASSUME NEW w \in Worker, Deliver(w)  PROVE IInv'
    BY <1>6, DeliverStep DEF Deliver
  <1>7. ASSUME NEW w \in Worker, RecordOutcome(w)  PROVE IInv'
    <2>1. PICK q \in job[w] :
            /\ job' = [job EXCEPT ![w] = @ \ {q}]
            /\ \/ row' = Applied(q) /\ UNCHANGED <<late, mishap>>
               \/ /\ late' = late \cup {q}
                  /\ mishap' = IF q.op = "complete" THEN mishap \cup {q.msg} ELSE mishap
                  /\ UNCHANGED row
            /\ UNCHANGED <<hands, inactive, sends>>
      BY <1>7 DEF RecordOutcome
    <2>2. CASE row' = Applied(q) /\ UNCHANGED <<late, mishap>>
      BY <2>1, <2>2, RecordedStep
    <2>3. CASE /\ late' = late \cup {q}
               /\ mishap' = IF q.op = "complete" THEN mishap \cup {q.msg} ELSE mishap
               /\ UNCHANGED row
      BY <2>1, <2>3, DelayedStep
    <2>. QED  BY <2>1, <2>2, <2>3
  <1>8. ASSUME NEW w \in Worker, Crash(w)  PROVE IInv'
    BY <1>8, CrashStep
  <1>9. CASE ExecuteLate
    BY <1>9, ExecuteLateStep
  <1>10. CASE UNCHANGED vars
    <2>1. Quiet
      BY <1>10 DEF vars, Quiet, IInv, TypeOK, RowsRest, RowRests
    <2>. QED  BY <1>1, <2>1
  <1>11. CASE Next
    <2>1. CASE \E n \in Notification : \/ FallDue(n) \/ Lapse(n) \/ AckOverdue(n)
                                     \/ Acknowledge(n) \/ RecordBounce(n)
      <3>1. PICK n \in Notification : \/ FallDue(n) \/ Lapse(n) \/ AckOverdue(n)
                                      \/ Acknowledge(n) \/ RecordBounce(n)
        BY <2>1
      <3>2. CASE FallDue(n) \/ AckOverdue(n) \/ Acknowledge(n)
        BY <1>2, <3>2
      <3>. QED  BY <1>3, <1>4, <3>1, <3>2
    <2>2. CASE \E w \in Worker :
                 \/ \E taken \in SUBSET Notification : claimDueNotifications(w, taken)
                 \/ Deliver(w) \/ RecordOutcome(w) \/ Crash(w)
      BY <1>5, <1>6, <1>7, <1>8, <2>2
    <2>3. CASE \E n \in Root : createNotificationRecord(n)
      BY <1>2, <2>3
    <2>4. CASE \E c \in Channel : SwitchChannel(c)
      BY <1>2, <2>4
    <2>5. CASE createDueEscalations
      BY <1>2, <2>5
    <2>. QED  BY <1>9, <1>11, <2>1, <2>2, <2>3, <2>4, <2>5 DEF Next
  <1>. QED  BY <1>10, <1>11

THEOREM InductiveInvariant == Spec => []IInv
  BY InitIInv, NextIInv, PTL DEF Spec

\* Every variable keeps its domain; in particular no notification is claimed more
\* often than max_retries allows.
THEOREM TypeCorrect == Spec => []TypeOK
  BY InductiveInvariant, PTL DEF IInv

\* A notification counts as sent or delivered (completeNotificationDelivery) only
\* if a provider has taken it, whichever late statement says so.
THEOREM SentOnlyIfTaken == Spec => []SentWasTaken
  BY InductiveInvariant, PTL DEF IInv

-----------------------------------------------------------------------------
(* Sends are paid for by claims.  A claim that is charged is in one pair of  *)
(* hands until it is sent, and nothing takes a charge back.                  *)

Holders(n) == {w \in Worker : \E i \in hands[w] : i.msg = n}

Paid ==
  \A n \in Notification :
    IsFiniteSet(Holders(n)) /\ sends[n] + Cardinality(Holders(n)) <= row[n].tries

\* What a step may do to the account of a notification.
Keeps(n) ==
  Holders(n)' \subseteq Holders(n) /\ sends'[n] = sends[n] /\ row'[n].tries = row[n].tries

Spends(n) ==
  \E w \in Holders(n) :
    /\ Holders(n)' \subseteq Holders(n) \ {w}
    /\ sends'[n] \in {sends[n], sends[n] + 1} /\ row'[n].tries = row[n].tries

Charges(n) ==
  \E w \in Worker :
    /\ Holders(n)' \subseteq Holders(n) \cup {w}
    /\ sends'[n] = sends[n] /\ row'[n].tries = row[n].tries + 1

AccountStep == \A n \in Notification : Keeps(n) \/ Spends(n) \/ Charges(n)

\* Nothing but a claim and a send moves an account.
LEMMA HandsOnlyShrink ==
  ASSUME sends' = sends, \A n \in Notification : row'[n].tries = row[n].tries,
         \A w \in Worker : hands'[w] \subseteq hands[w]
  PROVE  AccountStep
  BY DEF AccountStep, Keeps, Holders

LEMMA DeliverAccounts ==
  ASSUME IInv, NEW w \in Worker, NEW items \in SUBSET hands[w],
         NEW answer, NEW taken \in BOOLEAN, deliverClaimedGroup(w, items, answer, taken)
  PROVE  AccountStep
  <1>1. /\ hands'[w] = hands[w] \ items /\ row' = row
        /\ \A v \in Worker \ {w} : hands'[v] = hands[v]
    BY DEF IInv, deliverClaimedGroup, TypeOK
  <1>. SUFFICES ASSUME NEW n \in Notification  PROVE Keeps(n) \/ Spends(n)
    BY DEF AccountStep
  <1>2. CASE n \in {i.msg : i \in items}
    <2>1. PICK i \in items : i.msg = n
      BY <1>2
    <2>2. \A j \in hands[w] : j.msg = n => j = i
      BY <2>1 DEF IInv, OnePerClaim
    <2>3. w \in Holders(n) /\ Holders(n)' \subseteq Holders(n) \ {w}
      BY <1>1, <2>1, <2>2 DEF Holders
    <2>4. sends'[n] \in {sends[n], sends[n] + 1}
      BY DEF deliverClaimedGroup
    <2>. QED  BY <1>1, <2>3, <2>4 DEF Spends
  <1>3. CASE n \notin {i.msg : i \in items}
    <2>1. sends'[n] = sends[n]
      BY <1>3 DEF deliverClaimedGroup
    <2>. QED  BY <1>1, <2>1 DEF Keeps, Holders
  <1>. QED  BY <1>2, <1>3

LEMMA ClaimAccounts ==
  ASSUME IInv, NEW w \in Worker, NEW taken \in SUBSET Notification,
         claimDueNotifications(w, taken)
  PROVE  AccountStep
  <1>1. /\ hands[w] = {} /\ sends' = sends
        /\ hands'[w] = {[msg |-> n, claim |-> row[n].tries + 1] : n \in taken}
        /\ \A v \in Worker \ {w} : hands'[v] = hands[v]
    BY DEF IInv, claimDueNotifications, TypeOK
  <1>. SUFFICES ASSUME NEW n \in Notification  PROVE Keeps(n) \/ Charges(n)
    BY DEF AccountStep
  <1>2. \A i \in hands'[w] : i.msg \in taken
    BY <1>1
  <1>3. CASE n \in taken
    <2>1. row'[n].tries = row[n].tries + 1
      BY <1>3 DEF claimDueNotifications, IInv, TypeOK, Row
    <2>. QED  BY <1>1, <2>1 DEF Charges, Holders
  <1>4. CASE n \notin taken
    <2>1. row'[n] = row[n]
      BY <1>4 DEF claimDueNotifications
    <2>. QED  BY <1>1, <1>2, <1>4, <2>1 DEF Keeps, Holders
  <1>. QED  BY <1>3, <1>4

LEMMA EveryAccount ==
  ASSUME IInv, [Next]_vars
  PROVE  AccountStep
  <1>. USE DEF IInv
  <1>1. CASE UNCHANGED vars
    BY <1>1, HandsOnlyShrink DEF vars
  <1>2. CASE Quiet
    BY <1>2, HandsOnlyShrink DEF Quiet, RowsRest, RowRests
  <1>3. ASSUME NEW n \in Notification, Lapse(n) \/ RecordBounce(n)  PROVE AccountStep
    <2>1. /\ [row[n] EXCEPT !.lapsed = TRUE].tries = row[n].tries
          /\ Bounced(row[n]).tries = row[n].tries
      BY DEF Bounced, TypeOK, Row
    <2>2. \E r : row' = [row EXCEPT ![n] = r] /\ r.tries = row[n].tries
      BY <1>3, <2>1 DEF Lapse, RecordBounce, TypeOK
    <2>3. \A m \in Notification : row'[m].tries = row[m].tries
      BY <2>2 DEF TypeOK
    <2>. QED  BY <1>3, <2>3, HandsOnlyShrink DEF Lapse, RecordBounce
  <1>4. ASSUME NEW w \in Worker, NEW taken \in SUBSET Notification,
               claimDueNotifications(w, taken)
        PROVE  AccountStep
    BY <1>4, ClaimAccounts
  <1>5. ASSUME NEW w \in Worker, Deliver(w)  PROVE AccountStep
    BY <1>5, DeliverAccounts DEF Deliver
  <1>6. ASSUME NEW w \in Worker, RecordOutcome(w)  PROVE AccountStep
    <2>1. PICK q \in job[w] : (row' = Applied(q) \/ row' = row) /\ UNCHANGED <<hands, sends>>
      BY <1>6 DEF RecordOutcome
    <2>2. q \in Statement /\ (q.op = "complete" => sends[q.msg] > 0)
      BY <2>1, Carriers DEF Vouched
    <2>3. \A n \in Notification : row'[n].tries = row[n].tries
      BY <2>1, <2>2, RowsAfter
    <2>. QED  BY <2>1, <2>3, HandsOnlyShrink
  <1>7. CASE ExecuteLate
    <2>1. PICK q \in late : (row' = Applied(q) \/ row' = row) /\ UNCHANGED <<hands, sends>>
      BY <1>7 DEF ExecuteLate
    <2>2. q \in Statement /\ (q.op = "complete" => sends[q.msg] > 0)
      BY <2>1, Carriers DEF Vouched
    <2>3. \A n \in Notification : row'[n].tries = row[n].tries
      BY <2>1, <2>2, RowsAfter
    <2>. QED  BY <2>1, <2>3, HandsOnlyShrink
  <1>8. ASSUME NEW w \in Worker, Crash(w)  PROVE AccountStep
    BY <1>8, HandsOnlyShrink DEF Crash, TypeOK
  <1>9. ASSUME \/ \E n \in Root : createNotificationRecord(n)
               \/ \E n \in Notification : FallDue(n) \/ AckOverdue(n) \/ Acknowledge(n)
               \/ \E c \in Channel : SwitchChannel(c)
               \/ createDueEscalations
        PROVE  AccountStep
    BY <1>2, <1>9, QuietActions
  <1>10. CASE \E n \in Notification : FallDue(n) \/ Lapse(n) \/ AckOverdue(n)
                                      \/ Acknowledge(n) \/ RecordBounce(n)
    BY <1>3, <1>9, <1>10
  <1>11. CASE Next
    BY <1>4, <1>5, <1>6, <1>7, <1>8, <1>9, <1>10, <1>11 DEF Next
  <1>. QED  BY <1>1, <1>11

LEMMA Balanced ==
  ASSUME TypeOK, TypeOK', Paid, AccountStep
  PROVE  Paid'
  <1>. SUFFICES ASSUME NEW n \in Notification
                PROVE  /\ IsFiniteSet(Holders(n)')
                       /\ sends'[n] + Cardinality(Holders(n)') <= row'[n].tries
    BY DEF Paid
  <1>. DEFINE H == Holders(n)   G == Holders(n)'   C == Cardinality(H)   D == Cardinality(G)
  <1>1. IsFiniteSet(H) /\ C \in Nat /\ sends[n] + C <= row[n].tries
    BY FS_CardinalityType DEF Paid
  <1>2. /\ sends[n] \in Nat /\ row[n].tries \in Nat
        /\ sends'[n] \in Nat /\ row'[n].tries \in Nat
    BY NotificationAssumption DEF NotificationAssumption, TypeOK, Row, Claims
  <1>3. CASE Keeps(n)
    <2>1. IsFiniteSet(G) /\ D \in Nat /\ D <= C
      BY <1>1, <1>3, FS_Subset, FS_CardinalityType DEF Keeps
    <2>5. sends'[n] + D <= row'[n].tries
      <3>. HIDE DEF C, D
      <3>. QED  BY <1>1, <1>2, <1>3, <2>1 DEF Keeps
    <2>. QED  BY <2>1, <2>5
  <1>4. CASE Spends(n)
    <2>1. PICK w \in H : G \subseteq H \ {w}
      BY <1>4 DEF Spends
    <2>2. IsFiniteSet(H \ {w}) /\ Cardinality(H \ {w}) = C - 1
      BY <1>1, <2>1, FS_RemoveElement
    <2>3. IsFiniteSet(G) /\ D \in Nat /\ D <= C - 1
      BY <2>1, <2>2, FS_Subset, FS_CardinalityType
    <2>4. sends'[n] \in {sends[n], sends[n] + 1} /\ row'[n].tries = row[n].tries
      BY <1>4 DEF Spends
    <2>5. sends'[n] + D <= row'[n].tries
      <3>. HIDE DEF C, D
      <3>. QED  BY <1>1, <1>2, <2>3, <2>4
    <2>. QED  BY <2>3, <2>5
  <1>5. CASE Charges(n)
    <2>1. PICK w \in Worker : G \subseteq H \cup {w}
      BY <1>5 DEF Charges
    <2>2. IsFiniteSet(H \cup {w}) /\ Cardinality(H \cup {w}) \in {C, C + 1}
      BY <1>1, FS_AddElement
    <2>3. IsFiniteSet(G) /\ D \in Nat /\ D <= C + 1
      BY <1>1, <2>1, <2>2, FS_Subset, FS_CardinalityType
    <2>4. sends'[n] = sends[n] /\ row'[n].tries = row[n].tries + 1
      BY <1>5 DEF Charges
    <2>5. sends'[n] + D <= row'[n].tries
      <3>. HIDE DEF C, D
      <3>. QED  BY <1>1, <1>2, <2>3, <2>4
    <2>. QED  BY <2>3, <2>5
  <1>. QED  BY <1>3, <1>4, <1>5 DEF AccountStep

\* A provider takes a notification twice only if an attempt overran its lease or
\* its success was lost, and then no more often than it was claimed: the lease,
\* its token and the charge of every claim allow nothing else.
THEOREM TakenTwiceOnlyByMishap == Spec => []SendsAreFew
  <1>1. IInv => TwiceOnlyByMishap
    <2> SUFFICES ASSUME IInv, NEW n \in Notification, sends[n] > 1, n \notin mishap
                 PROVE  FALSE
      BY DEF TwiceOnlyByMishap
    <2>1. sends[n] <= 1 /\ sends[n] \in Nat
      BY Domains DEF IInv, Clean, SentOnce
    <2>. QED  BY <2>1
  <1>2. Init => Paid
    <2>. SUFFICES ASSUME Init, NEW n \in Notification
                  PROVE  IsFiniteSet(Holders(n)) /\ sends[n] + Cardinality(Holders(n)) <= row[n].tries
      BY DEF Paid
    <2>1. Holders(n) = {} /\ sends[n] = 0 /\ row[n].tries = 0
      BY DEF Init, Holders, Absent
    <2>. QED  BY <2>1, FS_EmptySet
  <1>3. IInv /\ IInv' /\ Paid /\ [Next]_vars => Paid'
    BY EveryAccount, Balanced DEF IInv
  <1>4. IInv /\ Paid => SendsAreCharged
    <2>. SUFFICES ASSUME IInv, Paid, NEW n \in Notification  PROVE sends[n] <= row[n].tries
      BY DEF SendsAreCharged
    <2>. DEFINE C == Cardinality(Holders(n))
    <2>1. C \in Nat /\ sends[n] + C <= row[n].tries /\ sends[n] \in Nat /\ row[n].tries \in Nat
      BY FS_CardinalityType, Domains DEF Paid, IInv
    <2>. HIDE DEF C
    <2>. QED  BY <2>1
  <1>. QED
    BY <1>1, <1>2, <1>3, <1>4, InductiveInvariant, PTL DEF Spec, SendsAreFew

\* No late or foreign statement and no new claim revives what is delivered, dead
\* or bounced: such a row has no lease that a statement could name.
THEOREM TerminalStaysFinal == Spec => TerminalIsFinal
  <1>1. IInv /\ [Next]_vars => [FinalStep]_vars
    <2> SUFFICES ASSUME IInv, [Next]_vars, ~ UNCHANGED vars, NEW n \in Notification
                 PROVE  /\ row[n].status \in Delivered =>
                             row'[n].status \in {row[n].status, "bounced"}
                        /\ row[n].dead =>
                             row'[n].dead /\ row'[n].status \in {row[n].status, "bounced"}
      BY DEF FinalStep
    <2>. DEFINE Final == row[n].status \in Delivered \/ row[n].dead
    <2>. USE DEF IInv
    <2>1. ASSUME Final, NEW q \in Statement, q.by \in Worker, Matches(q), q.msg = n
          PROVE  FALSE
      BY <2>1, NotificationAssumption
      DEF NotificationAssumption, Matches, LeasedIsOpen, Open, Delivered
    <2>2. ASSUME Final, NEW q \in Statement, q.by \in Worker, row' = Applied(q)
          PROVE  row'[n] = row[n]
      BY <2>1, <2>2, AppliedRow DEF Applied
    <2>3. ASSUME Quiet, Final  PROVE row'[n].status = row[n].status /\ row'[n].dead = row[n].dead
      <3>1. row[n].status # "absent"
        BY <2>3 DEF AbsentIsEmpty, Absent, Delivered
      <3>. QED  BY <2>3, <3>1 DEF Quiet, RowsRest, RowRests
    <2>4. ASSUME NEW m \in Notification, Lapse(m)
          PROVE  row'[n].status = row[n].status /\ row'[n].dead = row[n].dead
      BY <2>4 DEF Lapse, TypeOK, Row
    <2>5. ASSUME NEW m \in Notification, RecordBounce(m)
          PROVE  row'[n] = row[n] \/ (row'[n].status = "bounced" /\ row'[n].dead = TRUE)
      BY <2>5 DEF RecordBounce, Bounced, TypeOK, Row
    <2>6. ASSUME NEW w \in Worker, NEW taken \in SUBSET Notification,
                 claimDueNotifications(w, taken), Final
          PROVE  row'[n] = row[n]
      BY <2>6 DEF claimDueNotifications, Claimable, Open, Delivered
    <2>7. ASSUME NEW w \in Worker, RecordOutcome(w), Final  PROVE row'[n] = row[n]
      BY <2>2, <2>7, Carriers DEF RecordOutcome, Statement
    <2>8. ASSUME ExecuteLate, Final  PROVE row'[n] = row[n]
      BY <2>2, <2>8, Carriers DEF ExecuteLate
    <2>9. ASSUME NEW w \in Worker, Deliver(w) \/ Crash(w)  PROVE row'[n] = row[n]
      BY <2>9 DEF Deliver, deliverClaimedGroup, Crash
    <2>. QED  BY <2>3, <2>4, <2>5, <2>6, <2>7, <2>8, <2>9, QuietActions DEF Next
  <1>. QED  BY InductiveInvariant, <1>1, PTL DEF Spec, TerminalIsFinal
=============================================================================
