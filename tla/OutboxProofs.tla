---------------------------- MODULE OutboxProofs ----------------------------
(***************************************************************************)
(* TLAPS proofs about Outbox, for any number of messages, dispatchers and  *)
(* tokens and any limits.                                                  *)
(*                                                                         *)
(* A row is marked published by a statement that may be executed long      *)
(* after its dispatcher gave up, even when the message's row was purged    *)
(* and inserted again.  So the invariant follows the confirm from the      *)
(* broker's answer through the job and the late statement to the row       *)
(* (Vouched), and excludes the second row while any of them is under way   *)
(* (AbsentIsFree).                                                         *)
(*                                                                         *)
(* Refunds are accounted for apart: what was handed over and what still    *)
(* may be, or may still be refunded, is never more than was charged        *)
(* (Paid).                                                                 *)
(***************************************************************************)
EXTENDS DurableDelivery, FiniteSetTheorems, TLAPS

Vouched ==
  /\ \A d \in Dispatcher :
       job[d] # None /\ job[d].verdict = "published" => confirmed[job[d].item.msg]
  /\ \A q \in late : q.op = "published" => confirmed[q.item.msg]

AbsentIsFree == \A m \in Message : row[m].status = "absent" => ~ Carried(m)

IInv == TypeOK /\ Vouched /\ AbsentIsFree /\ PublishedWasConfirmed

-----------------------------------------------------------------------------
LEMMA UnleasedTyped ==
  ASSUME NEW s \in Statuses, NEW n \in 0..MaxAttempts, NEW b \in BOOLEAN
  PROVE  Unleased(s, n, b) \in Row /\ Unleased(s, n, b).status = s
  BY DEF Unleased, Row

\* What a statement does to its row, when it still has the lease.
LEMMA MarkedRow ==
  ASSUME NEW r \in Row, NEW op \in Verdicts \cup {"release"}
  PROVE  /\ Marked(r, op) \in Row
         /\ Marked(r, op).status # "absent"
         /\ (Marked(r, op).status = "published" => op = "published")
<1>1. r.attempts \in 0..MaxAttempts
  BY DEF Row
<1>2. \E s \in Statuses, n \in 0..MaxAttempts, b \in BOOLEAN :
         /\ Marked(r, op) = Unleased(s, n, b) /\ s # "absent"
         /\ (s = "published" => op = "published")
  <2>1. CASE op = "published"
    <3>1. Marked(r, op) = Unleased("published", r.attempts, FALSE)
      BY <2>1 DEF Marked
    <3> QED
      BY <1>1, <2>1, <3>1 DEF Statuses
  <2>2. CASE op = "dead"
    BY <1>1, <2>2 DEF Marked, Statuses
  <2>3. CASE op = "failed"
    <3>1. \/ Marked(r, op) = Unleased("dead", r.attempts, FALSE)
          \/ Marked(r, op) = Unleased("pending", r.attempts, FALSE)
      <4>1. r.attempts >= MaxAttempts <=> ~ (r.attempts < MaxAttempts)
        BY <1>1, OutboxAssumption DEF OutboxAssumption
      <4>2. CASE r.attempts < MaxAttempts
        BY <2>3, <4>1, <4>2 DEF Marked
      <4>3. CASE ~ (r.attempts < MaxAttempts)
        BY <2>3, <4>1, <4>3 DEF Marked
      <4> QED
        BY <4>2, <4>3
    <3> QED
      BY <1>1, <2>3, <3>1 DEF Statuses
  <2>4. CASE op = "release"
    <3>1. (IF r.attempts = 0 THEN 0 ELSE r.attempts - 1) \in 0..MaxAttempts
      BY <1>1, OutboxAssumption DEF OutboxAssumption
    <3> QED
      BY <2>4, <3>1 DEF Marked, Statuses
  <2> QED
    BY <2>1, <2>2, <2>3, <2>4 DEF Verdicts
<1> QED
  BY <1>2, UnleasedTyped

\* What a statement does to the table: nothing, or one leased row is marked.
LEMMA AppliedRows ==
  ASSUME TypeOK, NEW q \in Statement
  PROVE  /\ Applied(q) \in [Message -> Row]
         /\ \A m \in Message :
              \/ Applied(q)[m] = row[m]
              \/ /\ m = q.item.msg /\ row[m].status = "leased"
                 /\ Applied(q)[m].status # "absent"
                 /\ (Applied(q)[m].status = "published" => q.op = "published")
<1>1. q.item.msg \in Message /\ q.op \in Verdicts \cup {"release"}
  BY DEF Statement, Item
<1>2. CASE Matches(q)
  <2> DEFINE r == Marked(row[q.item.msg], q.op)
  <2>1. /\ r \in Row /\ r.status # "absent"
        /\ (r.status = "published" => q.op = "published")
        /\ row[q.item.msg].status = "leased"
    BY <1>1, <1>2, MarkedRow DEF TypeOK, Matches
  <2>2. Applied(q) = [row EXCEPT ![q.item.msg] = r]
    BY <1>2 DEF Applied
  <2> HIDE DEF r
  <2> QED
    BY <1>1, <2>1, <2>2 DEF TypeOK
<1>3. CASE ~ Matches(q)
  BY <1>3 DEF Applied, TypeOK
<1> QED
  BY <1>2, <1>3

LEMMA StatementsTyped ==
  ASSUME TypeOK, NEW d \in Dispatcher
  PROVE  /\ (job[d] # None => /\ MarkOf(d) \in Statement
                             /\ MarkOf(d).op = job[d].verdict /\ MarkOf(d).item = job[d].item)
         /\ \A i \in batch[d] : /\ ReleaseOf(d, i) \in Statement
                               /\ ReleaseOf(d, i).op = "release" /\ ReleaseOf(d, i).item = i
  BY DEF TypeOK, Job, MarkOf, ReleaseOf, Statement

-----------------------------------------------------------------------------
(* What a step may do to a row, to the messages under way, to the confirms   *)
(* and to what relies on them.                                               *)

RowStep ==
  \A m \in Message :
    \/ row'[m] = row[m]
    \/ row[m].status = "absent" /\ row'[m].status = "pending"
    \/ row[m].status = "published" /\ row'[m] = Absent /\ ~ Carried(m)
    \/ /\ row[m].status \in {"pending", "leased"}
       /\ row'[m].status \in {"pending", "leased", "dead"}
    \/ /\ row[m].status = "leased" /\ row'[m].status = "published"
       /\ \/ \E d \in Dispatcher :
               job[d] # None /\ job[d].item.msg = m /\ job[d].verdict = "published"
          \/ \E q \in late : q.item.msg = m /\ q.op = "published"

CarryStep == \A m \in Message : Carried(m)' => Carried(m) \/ row'[m].status = "leased"

ConfirmStep ==
  \A m \in Message : confirmed[m] => confirmed'[m] \/ row[m].status = "absent"

JobStep ==
  \A d \in Dispatcher :
    job'[d] # None /\ job'[d].verdict = "published"
      => job'[d] = job[d] \/ confirmed'[job'[d].item.msg]

LateStep ==
  \A q \in late' : q.op = "published"
    => \/ q \in late
       \/ \E d \in Dispatcher :
            job[d] # None /\ job[d].verdict = "published" /\ q.item = job[d].item

Steps == RowStep /\ CarryStep /\ ConfirmStep /\ JobStep /\ LateStep

LEMMA RetentionSteps ==
  ASSUME TypeOK, NEW m \in Message, Enqueue(m) \/ PurgePublishedBefore(m) \/ Ripen(m)
  PROVE  TypeOK' /\ Steps
<1>1. CASE Enqueue(m)
  BY <1>1, OutboxAssumption
  DEF Enqueue, OutboxAssumption, TypeOK, Unleased, Row, Statuses, Steps, RowStep, CarryStep,
      Carried, ConfirmStep, JobStep, LateStep
<1>2. CASE PurgePublishedBefore(m)
  BY <1>2, OutboxAssumption
  DEF PurgePublishedBefore, OutboxAssumption, TypeOK, Absent, Unleased, Row, Statuses, Steps,
      RowStep, CarryStep, Carried, ConfirmStep, JobStep, LateStep
<1>3. CASE Ripen(m)
  <2> DEFINE r == [row[m] EXCEPT !.ripe = TRUE]
  <2>1. /\ row[m].status \in {"pending", "leased"} /\ row' = [row EXCEPT ![m] = r]
        /\ UNCHANGED <<mode, batch, job, late, confirmed, offers, inserts, crashes>>
    BY <1>3 DEF Ripen
  <2>2. r \in Row /\ r.status = row[m].status
    BY DEF TypeOK, Row
  <2> HIDE DEF r
  <2> QED
    BY <2>1, <2>2
    DEF TypeOK, Steps, RowStep, CarryStep, Carried, ConfirmStep, JobStep, LateStep
<1> QED
  BY <1>1, <1>2, <1>3

LEMMA ClaimSteps ==
  ASSUME TypeOK, NEW d \in Dispatcher, Claim(d)
  PROVE  TypeOK' /\ Steps
<1>1. PICK dying \in SUBSET Message, taken \in SUBSET Message : ClaimBatch(d, dying, taken)
  BY DEF Claim
<1>2. PICK lease \in [taken -> Token] :
        /\ row' = [m \in Message |->
             IF m \in dying THEN Unleased("dead", row[m].attempts, FALSE)
             ELSE IF m \in taken
             THEN [status |-> "leased", owner |-> d, token |-> lease[m],
                   attempts |-> row[m].attempts + 1, ripe |-> FALSE]
             ELSE row[m]]
        /\ batch' = [batch EXCEPT ![d] = {[msg |-> m, token |-> lease[m]] : m \in taken}]
  BY <1>1 DEF ClaimBatch
<1>3. /\ \A m \in dying : row[m].status = "leased" /\ row[m].attempts >= MaxAttempts
      /\ \A m \in taken : row[m].status \in {"pending", "leased"} /\ row[m].attempts < MaxAttempts
      /\ \A m \in Message : row[m].attempts \in 0..MaxAttempts
  BY <1>1 DEF ClaimBatch, Exhausted, Claimable, TypeOK, Row
<1>4. dying \cap taken = {}
  BY <1>3, OutboxAssumption DEF OutboxAssumption
<1>5. /\ \A m \in dying : row'[m] = Unleased("dead", row[m].attempts, FALSE)
      /\ \A m \in taken : row'[m] = [status |-> "leased", owner |-> d, token |-> lease[m],
                                     attempts |-> row[m].attempts + 1, ripe |-> FALSE]
      /\ \A m \in Message : m \notin dying \cup taken => row'[m] = row[m]
  BY <1>2, <1>4
<1>6. row' \in [Message -> Row]
  <2>1. \A m \in dying : row'[m] \in Row
    BY <1>3, <1>5, UnleasedTyped DEF Statuses
  <2>2. ASSUME NEW m \in taken PROVE row'[m] \in Row
    <3>1. lease[m] \in Token /\ row[m].attempts + 1 \in 0..MaxAttempts
      BY <1>3, OutboxAssumption DEF OutboxAssumption
    <3>2. [status |-> "leased", owner |-> d, token |-> lease[m],
           attempts |-> row[m].attempts + 1, ripe |-> FALSE] \in Row
      BY <3>1 DEF Row, Statuses
    <3> QED
      BY <1>5, <3>2
  <2> QED
    BY <1>2, <1>5, <2>1, <2>2 DEF TypeOK
<1>7. /\ batch' \in [Dispatcher -> SUBSET Item]
      /\ \A e \in Dispatcher : \A i \in batch'[e] : i \in batch[e] \/ i.msg \in taken
  BY <1>2 DEF TypeOK, Item
<1>8. TypeOK'
  BY <1>1, <1>6, <1>7 DEF TypeOK, ClaimBatch
<1>9. /\ \A m \in dying : row'[m].status = "dead"
      /\ \A m \in taken : row'[m].status = "leased"
  <2>1. ASSUME NEW m \in dying PROVE row'[m].status = "dead"
    <3>1. row'[m] = Unleased("dead", row[m].attempts, FALSE)
      BY <1>5
    <3> QED
      BY <3>1 DEF Unleased
  <2>2. ASSUME NEW m \in taken PROVE row'[m].status = "leased"
    <3>1. row'[m] = [status |-> "leased", owner |-> d, token |-> lease[m],
                     attempts |-> row[m].attempts + 1, ripe |-> FALSE]
      BY <1>5
    <3> QED
      BY <3>1
  <2> QED
    BY <2>1, <2>2
<1>10. RowStep
  <2>1. \A m \in dying \cup taken : /\ row[m].status \in {"pending", "leased"}
                                    /\ row'[m].status \in {"pending", "leased", "dead"}
    BY <1>3, <1>9
  <2> QED
    BY <1>5, <2>1 DEF RowStep
<1>11. UNCHANGED <<job, late, confirmed, offers, inserts, crashes>>
  BY <1>1 DEF ClaimBatch
<1>12. CarryStep
  <2> SUFFICES ASSUME NEW m \in Message, Carried(m)', m \notin taken PROVE Carried(m)
    BY <1>9 DEF CarryStep
  <2> QED
    BY <1>7, <1>11 DEF Carried
<1> QED
  BY <1>8, <1>10, <1>11, <1>12 DEF Steps, ConfirmStep, JobStep, LateStep

LEMMA PublishSteps ==
  ASSUME TypeOK, NEW d \in Dispatcher, Publish(d)
  PROVE  TypeOK' /\ Steps
<1>1. PICK i \in batch[d], answer \in {"confirmed", "permanent", "unconfirmed"} :
        /\ batch' = [batch EXCEPT ![d] = @ \ {i}]
        /\ job' = [job EXCEPT ![d] = [item |-> i, verdict |-> Verdict(answer)]]
        /\ confirmed' = [confirmed EXCEPT ![i.msg] = @ \/ answer = "confirmed"]
        /\ offers' = [offers EXCEPT ![i.msg] = @ + 1]
  BY DEF Publish
<1>2. UNCHANGED <<row, mode, late, inserts, crashes>>
  BY DEF Publish
<1>3. i \in Item /\ i.msg \in Message
  BY DEF TypeOK, Item
<1>4. Verdict(answer) \in Verdicts /\ (Verdict(answer) = "published" => answer = "confirmed")
  BY DEF Verdict, Verdicts
<1> DEFINE j == [item |-> i, verdict |-> Verdict(answer)]
<1>5. /\ job' \in [Dispatcher -> Job \cup {None}]
      /\ \A e \in Dispatcher :
           job'[e] = job[e] \/ (job'[e].item = i /\ job'[e].verdict = Verdict(answer))
  <2>1. j \in Job /\ j.item = i /\ j.verdict = Verdict(answer)
    BY <1>3, <1>4 DEF Job
  <2>2. job' = [job EXCEPT ![d] = j]
    BY <1>1
  <2> HIDE DEF j
  <2> QED
    BY <2>1, <2>2 DEF TypeOK
<1>6. /\ confirmed' \in [Message -> BOOLEAN]
      /\ \A m \in Message : confirmed[m] => confirmed'[m]
      /\ answer = "confirmed" => confirmed'[i.msg]
  BY <1>1, <1>3 DEF TypeOK
<1>7. batch' \in [Dispatcher -> SUBSET Item] /\ \A e \in Dispatcher : batch'[e] \subseteq batch[e]
  BY <1>1 DEF TypeOK
<1>8. TypeOK'
  BY <1>1, <1>2, <1>3, <1>5, <1>6, <1>7 DEF TypeOK
<1>9. CarryStep
  BY <1>2, <1>5, <1>7 DEF CarryStep, Carried
<1>10. JobStep
  BY <1>4, <1>5, <1>6 DEF JobStep
<1> QED
  BY <1>2, <1>6, <1>8, <1>9, <1>10 DEF Steps, RowStep, ConfirmStep, LateStep

\* A dispatcher that forgets its batch carries nothing new.
LEMMA ForgottenTyped ==
  ASSUME TypeOK, NEW d \in Dispatcher, GiveUp(d)
  PROVE  /\ mode' \in [Dispatcher -> {"idle", "publishing", "releasing"}]
         /\ batch' \in [Dispatcher -> SUBSET Item] /\ job' \in [Dispatcher -> Job \cup {None}]
         /\ \A e \in Dispatcher : batch'[e] \subseteq batch[e] /\ job'[e] \in {job[e], None}
  BY DEF TypeOK, GiveUp

LEMMA MarkSteps ==
  ASSUME TypeOK, NEW d \in Dispatcher, MarkSucceeds(d) \/ MarkLosesLease(d) \/ MarkErrors(d)
  PROVE  TypeOK' /\ Steps
<1> DEFINE q == MarkOf(d)
<1>1. /\ job[d] # None /\ q \in Statement /\ q.op = job[d].verdict /\ q.item = job[d].item
  BY StatementsTyped DEF MarkSucceeds, MarkLosesLease, MarkErrors
<1>2. CASE MarkSucceeds(d)
  <2>1. /\ row' = Applied(q) /\ UNCHANGED <<batch, late, confirmed, offers, inserts, crashes>>
        /\ job' = [job EXCEPT ![d] = None]
        /\ mode' \in [Dispatcher -> {"idle", "publishing", "releasing"}]
    BY <1>2 DEF MarkSucceeds, Continue, TypeOK
  <2>2. /\ job' \in [Dispatcher -> Job \cup {None}]
        /\ \A e \in Dispatcher : job'[e] \in {job[e], None}
    BY <2>1 DEF TypeOK
  <2> HIDE DEF q
  <2>3. TypeOK'
    BY <1>1, <2>1, <2>2, AppliedRows DEF TypeOK
  <2>4. RowStep
    BY <1>1, <2>1, AppliedRows DEF RowStep, Row, Statuses
  <2>5. CarryStep
    BY <2>1, <2>2 DEF CarryStep, Carried
  <2> QED
    BY <2>1, <2>2, <2>3, <2>4, <2>5 DEF Steps, ConfirmStep, JobStep, LateStep
<1>3. CASE MarkLosesLease(d)
  <2>1. GiveUp(d) /\ UNCHANGED <<row, late, confirmed, offers, inserts, crashes>>
    BY <1>3 DEF MarkLosesLease
  <2> QED
    BY <2>1, ForgottenTyped
    DEF TypeOK, Steps, RowStep, CarryStep, Carried, ConfirmStep, JobStep, LateStep
<1>4. CASE MarkErrors(d)
  <2>1. GiveUp(d) /\ late' = late \cup {q} /\ UNCHANGED <<row, confirmed, offers, inserts, crashes>>
    BY <1>4 DEF MarkErrors
  <2> HIDE DEF q
  <2> QED
    BY <1>1, <2>1, ForgottenTyped
    DEF TypeOK, Steps, RowStep, CarryStep, Carried, ConfirmStep, JobStep, LateStep
<1> QED
  BY <1>2, <1>3, <1>4

LEMMA ReleaseSteps ==
  ASSUME TypeOK, NEW d \in Dispatcher, ReleaseNext(d)
  PROVE  TypeOK' /\ Steps
<1>1. PICK i \in batch[d] :
        /\ batch' = [batch EXCEPT ![d] = @ \ {i}]
        /\ mode' = [mode EXCEPT ![d] = IF batch[d] = {i} THEN "idle" ELSE @]
        /\ \/ row' = Applied(ReleaseOf(d, i)) /\ UNCHANGED late
           \/ late' = late \cup {ReleaseOf(d, i)} /\ UNCHANGED row
  BY DEF ReleaseNext
<1>2. UNCHANGED <<job, confirmed, offers, inserts, crashes>>
  BY DEF ReleaseNext
<1> DEFINE q == ReleaseOf(d, i)
<1>3. q \in Statement /\ q.op = "release" /\ q.item = i
  BY StatementsTyped
<1>4. /\ mode' \in [Dispatcher -> {"idle", "publishing", "releasing"}]
      /\ batch' \in [Dispatcher -> SUBSET Item]
      /\ \A e \in Dispatcher : batch'[e] \subseteq batch[e]
  BY <1>1 DEF TypeOK
<1>5. CASE row' = Applied(q) /\ UNCHANGED late
  <2> HIDE DEF q
  <2>1. RowStep
    BY <1>3, <1>5, AppliedRows DEF RowStep, Row, Statuses
  <2>2. TypeOK'
    BY <1>2, <1>3, <1>4, <1>5, AppliedRows DEF TypeOK
  <2> QED
    BY <1>2, <1>4, <1>5, <2>1, <2>2
    DEF Steps, CarryStep, Carried, ConfirmStep, JobStep, LateStep
<1>6. CASE late' = late \cup {q} /\ UNCHANGED row
  <2> HIDE DEF q
  <2> QED
    BY <1>2, <1>3, <1>4, <1>6
    DEF TypeOK, Steps, RowStep, CarryStep, Carried, ConfirmStep, JobStep, LateStep
<1> QED
  BY <1>1, <1>5, <1>6

LEMMA LateSteps ==
  ASSUME TypeOK, ExecuteLate
  PROVE  TypeOK' /\ Steps
<1>1. PICK q \in late : late' = late \ {q} /\ (row' = Applied(q) \/ row' = row)
  BY DEF ExecuteLate
<1>2. UNCHANGED <<mode, batch, job, confirmed, offers, inserts, crashes>>
  BY DEF ExecuteLate
<1>3. q \in Statement
  BY DEF TypeOK
<1>4. row' \in [Message -> Row] /\ RowStep
  <2>1. CASE row' = Applied(q)
    BY <1>3, <2>1, AppliedRows DEF RowStep, Row, Statuses
  <2>2. CASE row' = row
    BY <2>2 DEF TypeOK, RowStep
  <2> QED
    BY <1>1, <2>1, <2>2
<1> QED
  BY <1>1, <1>2, <1>4 DEF TypeOK, Steps, CarryStep, Carried, ConfirmStep, JobStep, LateStep

LEMMA CrashSteps ==
  ASSUME TypeOK, NEW d \in Dispatcher, Crash(d)
  PROVE  TypeOK' /\ Steps
<1>1. GiveUp(d) /\ crashes' \in 0..MaxCrashes /\ UNCHANGED <<row, late, confirmed, offers, inserts>>
  BY OutboxAssumption DEF Crash, TypeOK, OutboxAssumption
<1> QED
  BY <1>1, ForgottenTyped
  DEF TypeOK, Steps, RowStep, CarryStep, Carried, ConfirmStep, JobStep, LateStep

LEMMA EveryStep ==
  ASSUME TypeOK, [Next]_vars
  PROVE  TypeOK' /\ Steps
<1>1. CASE Next
  BY <1>1, RetentionSteps, ClaimSteps, PublishSteps, MarkSteps, ReleaseSteps, LateSteps, CrashSteps
  DEF Next
<1>2. CASE UNCHANGED vars
  BY <1>2 DEF vars, TypeOK, Steps, RowStep, CarryStep, Carried, ConfirmStep, JobStep, LateStep
<1> QED
  BY <1>1, <1>2

-----------------------------------------------------------------------------
(* The account of attempts.  An attempt is charged when a token is given out *)
(* and spent when its item is published.  What is not spent is in a batch,   *)
(* or in a release that may still refund it, and in one place only.          *)

Unspent(m) ==
  {i \in Item : /\ i.msg = m
                /\ \/ \E d \in Dispatcher : i \in batch[d]
                   \/ \E q \in late : q.op = "release" /\ q.item = i}

OnePlace ==
  /\ \A d, e \in Dispatcher : d # e => batch[d] \cap batch[e] = {}
  /\ \A q \in late : q.op = "release" =>
       /\ \A d \in Dispatcher : q.item \notin batch[d]
       /\ \A p \in late : p.op = "release" /\ p.item = q.item => p = q

Paid ==
  \A m \in Message :
    /\ IsFiniteSet(Unspent(m))
    /\ row[m].status # "absent" => offers[m] + Cardinality(Unspent(m)) <= row[m].attempts

Accounts == OnePlace /\ Paid

\* What a step may do to the account of a message.
Keeps(m) ==
  /\ Unspent(m)' \subseteq Unspent(m)
  /\ row'[m].status # "absent" =>
       \/ row[m].status # "absent" /\ offers'[m] = offers[m] /\ row'[m].attempts >= row[m].attempts
       \/ ~ Carried(m) /\ offers'[m] = 0 /\ row'[m].attempts = 0

Spends(m) ==
  \E i \in Unspent(m) :
    /\ Unspent(m)' \subseteq Unspent(m) \ {i}
    /\ row'[m].status # "absent" =>
         /\ row[m].status # "absent"
         /\ offers'[m] + row[m].attempts <= offers[m] + row'[m].attempts + 1

Charges(m) ==
  \E i \in Item :
    /\ Unspent(m)' \subseteq Unspent(m) \cup {i}
    /\ row[m].status # "absent" /\ offers'[m] = offers[m]
    /\ row'[m].attempts = row[m].attempts + 1

AccountStep == \A m \in Message : Keeps(m) \/ Spends(m) \/ Charges(m)

\* A release refunds one attempt, any other statement none.
LEMMA Refund ==
  ASSUME NEW r \in Row, NEW op \in Verdicts \cup {"release"}
  PROVE  /\ Marked(r, op).attempts \in Nat
         /\ op # "release" => Marked(r, op).attempts = r.attempts
         /\ r.attempts <= Marked(r, op).attempts + 1
<1>1. r.attempts \in 0..MaxAttempts
  BY DEF Row
<1>2. r.attempts >= MaxAttempts <=> ~ (r.attempts < MaxAttempts)
  BY <1>1, OutboxAssumption DEF OutboxAssumption
<1>3. r.attempts \in Nat
  BY <1>1, OutboxAssumption DEF OutboxAssumption
<1>4. CASE op \in {"published", "dead"}
  <2>1. Marked(r, op) = Unleased(op, r.attempts, FALSE)
    BY <1>4 DEF Marked
  <2>2. Marked(r, op).attempts = r.attempts
    BY <2>1 DEF Unleased
  <2> QED
    BY <1>3, <1>4, <2>2
<1>5. CASE op = "failed"
  <2>1. \/ Marked(r, op) = Unleased("dead", r.attempts, FALSE)
        \/ Marked(r, op) = Unleased("pending", r.attempts, FALSE)
    <3>1. CASE r.attempts < MaxAttempts
      BY <1>2, <1>5, <3>1 DEF Marked
    <3>2. CASE ~ (r.attempts < MaxAttempts)
      BY <1>2, <1>5, <3>2 DEF Marked
    <3> QED
      BY <3>1, <3>2
  <2>2. Marked(r, op).attempts = r.attempts
    BY <2>1 DEF Unleased
  <2> QED
    BY <1>3, <1>5, <2>2
<1>6. CASE op = "release"
  <2>1. Marked(r, op) =
          Unleased("pending", IF r.attempts = 0 THEN 0 ELSE r.attempts - 1, FALSE)
    BY <1>6 DEF Marked
  <2>2. Marked(r, op).attempts = IF r.attempts = 0 THEN 0 ELSE r.attempts - 1
    BY <2>1 DEF Unleased
  <2> QED
    BY <1>3, <1>6, <2>2
<1> QED
  BY <1>4, <1>5, <1>6 DEF Verdicts

\* What a statement does to the attempts of a row, and to no other.
LEMMA RefundedRows ==
  ASSUME TypeOK, NEW q \in Statement
  PROVE  \A m \in Message :
           /\ Applied(q)[m].status # "absent" => row[m].status # "absent"
           /\ Applied(q)[m].attempts \in Nat
           /\ row[m].attempts <= Applied(q)[m].attempts + 1
           /\ q.op # "release" \/ q.item.msg # m => Applied(q)[m].attempts = row[m].attempts
<1>1. q.item.msg \in Message /\ q.op \in Verdicts \cup {"release"}
  BY DEF Statement, Item
<1>2. \A m \in Message : row[m].attempts \in Nat
  BY OutboxAssumption DEF TypeOK, Row, OutboxAssumption
<1>3. CASE Matches(q)
  <2> DEFINE r == Marked(row[q.item.msg], q.op)
  <2>1. /\ r.attempts \in Nat /\ row[q.item.msg].attempts <= r.attempts + 1
        /\ q.op # "release" => r.attempts = row[q.item.msg].attempts
        /\ row[q.item.msg].status = "leased"
    BY <1>1, <1>3, Refund DEF TypeOK, Matches
  <2>2. Applied(q) = [row EXCEPT ![q.item.msg] = r]
    BY <1>3 DEF Applied
  <2> HIDE DEF r
  <2> QED
    BY <1>1, <1>2, <2>1, <2>2 DEF TypeOK
<1>4. CASE ~ Matches(q)
  BY <1>2, <1>4 DEF Applied
<1> QED
  BY <1>3, <1>4

\* A step that changes neither attempts nor offers and gives out no token.
LEMMA QuietAccount ==
  ASSUME TypeOK, OnePlace, UNCHANGED offers,
         \A m \in Message : row'[m].status # "absent" =>
           row[m].status # "absent" /\ row'[m].attempts = row[m].attempts,
         \A d \in Dispatcher : batch'[d] \subseteq batch[d],
         \A q \in late' : q.op = "release" => q \in late
  PROVE  OnePlace' /\ AccountStep
<1>1. \A m \in Message : Unspent(m)' \subseteq Unspent(m)
  BY DEF Unspent
<1>2. \A m \in Message : row[m].attempts \in Nat
  BY OutboxAssumption DEF TypeOK, Row, OutboxAssumption
<1>3. OnePlace'
  BY DEF OnePlace
<1> QED
  BY <1>1, <1>2, <1>3 DEF AccountStep, Keeps

LEMMA RetentionAccounts ==
  ASSUME TypeOK, OnePlace, NEW m \in Message, AbsentIsFree,
         Enqueue(m) \/ PurgePublishedBefore(m) \/ Ripen(m)
  PROVE  OnePlace' /\ AccountStep
<1>1. CASE Enqueue(m)
  <2>1. OnePlace' /\ \A n \in Message : Unspent(n)' = Unspent(n)
    BY <1>1 DEF Enqueue, OnePlace, Unspent
  <2>2. /\ offers'[m] = 0 /\ row'[m].attempts = 0 /\ ~ Carried(m)
        /\ \A n \in Message \ {m} : row'[n] = row[n] /\ offers'[n] = offers[n]
    BY <1>1 DEF Enqueue, TypeOK, Unleased, AbsentIsFree
  <2>3. \A n \in Message : row[n].attempts \in Nat
    BY OutboxAssumption DEF TypeOK, Row, OutboxAssumption
  <2> QED
    BY <2>1, <2>2, <2>3 DEF AccountStep, Keeps
<1>2. CASE PurgePublishedBefore(m)
  <2>1. \A n \in Message : row'[n].status # "absent" => row'[n] = row[n]
    BY <1>2 DEF PurgePublishedBefore, TypeOK, Absent, Unleased
  <2> QED
    BY <1>2, <2>1, QuietAccount DEF PurgePublishedBefore
<1>3. CASE Ripen(m)
  <2>1. \A n \in Message : row'[n].status = row[n].status /\ row'[n].attempts = row[n].attempts
    BY <1>3 DEF Ripen, TypeOK, Row
  <2> QED
    BY <1>3, <2>1, QuietAccount DEF Ripen
<1> QED
  BY <1>1, <1>2, <1>3

LEMMA ClaimAccounts ==
  ASSUME TypeOK, OnePlace, NEW d \in Dispatcher, Claim(d)
  PROVE  OnePlace' /\ AccountStep
<1>1. PICK dying \in SUBSET Message, taken \in SUBSET Message : ClaimBatch(d, dying, taken)
  BY DEF Claim
<1>2. PICK lease \in [taken -> Token] :
        /\ \A m \in taken : Fresh(m, lease[m])
        /\ row' = [m \in Message |->
             IF m \in dying THEN Unleased("dead", row[m].attempts, FALSE)
             ELSE IF m \in taken
             THEN [status |-> "leased", owner |-> d, token |-> lease[m],
                   attempts |-> row[m].attempts + 1, ripe |-> FALSE]
             ELSE row[m]]
        /\ batch' = [batch EXCEPT ![d] = {[msg |-> m, token |-> lease[m]] : m \in taken}]
  BY <1>1 DEF ClaimBatch
<1>3. UNCHANGED <<job, late, offers>>
  BY <1>1 DEF ClaimBatch
<1>4. /\ \A m \in dying : row[m].status = "leased" /\ row[m].attempts >= MaxAttempts
      /\ \A m \in taken : row[m].status \in {"pending", "leased"} /\ row[m].attempts < MaxAttempts
      /\ \A m \in Message : row[m].attempts \in Nat
  BY <1>1, OutboxAssumption DEF ClaimBatch, Exhausted, Claimable, TypeOK, Row, OutboxAssumption
<1>5. dying \cap taken = {}
  BY <1>4, OutboxAssumption DEF OutboxAssumption
<1> DEFINE new(m) == [msg |-> m, token |-> lease[m]]
<1>6. \A e \in Dispatcher : batch'[e] = IF e = d THEN {new(m) : m \in taken} ELSE batch[e]
  BY <1>2 DEF TypeOK
<1>7. \A m \in taken : /\ new(m) \in Item /\ new(m).msg = m
                       /\ \A e \in Dispatcher : new(m) \notin batch[e]
                       /\ \A q \in late : q.item # new(m)
  BY <1>2 DEF Fresh, Item
<1>8. \A e \in Dispatcher : \A i \in batch'[e] :
        i \in batch[e] \/ (e = d /\ \E m \in taken : i = new(m))
  <2> SUFFICES ASSUME NEW e \in Dispatcher, NEW i \in batch'[e], i \notin batch[e]
               PROVE  e = d /\ \E m \in taken : i = new(m)
    OBVIOUS
  <2>1. e = d
    BY <1>6
  <2>2. i \in {new(m) : m \in taken}
    BY <1>6, <2>1
  <2> QED
    BY <2>1, <2>2
<1> HIDE DEF new
<1>9. \A e, f \in Dispatcher : e # f => batch'[e] \cap batch'[f] = {}
  BY <1>6, <1>7, <1>8 DEF OnePlace
<1>10. OnePlace'
  BY <1>3, <1>7, <1>8, <1>9 DEF OnePlace
<1>11. /\ \A m \in taken : Unspent(m)' \subseteq Unspent(m) \cup {new(m)}
       /\ \A m \in Message \ taken : Unspent(m)' \subseteq Unspent(m)
  BY <1>3, <1>7, <1>8 DEF Unspent
<1>12. ASSUME NEW m \in taken PROVE Charges(m)
  <2>1. m \notin dying
    BY <1>5
  <2>2. row'[m] = [status |-> "leased", owner |-> d, token |-> lease[m],
                   attempts |-> row[m].attempts + 1, ripe |-> FALSE]
    BY <1>2, <2>1
  <2>3. row'[m].attempts = row[m].attempts + 1
    BY <2>2
  <2> QED
    BY <1>3, <1>4, <1>7, <1>11, <2>3 DEF Charges
<1>13. ASSUME NEW m \in dying PROVE Keeps(m)
  <2>1. row'[m].attempts = row[m].attempts
    BY <1>2 DEF Unleased
  <2>2. m \notin taken
    BY <1>5
  <2> QED
    BY <1>3, <1>4, <1>11, <2>1, <2>2 DEF Keeps
<1>14. ASSUME NEW m \in Message, m \notin dying, m \notin taken PROVE Keeps(m)
  <2>1. row'[m] = row[m]
    BY <1>2, <1>14
  <2> QED
    BY <1>3, <1>4, <1>11, <1>14, <2>1 DEF Keeps
<1> QED
  BY <1>10, <1>12, <1>13, <1>14 DEF AccountStep

LEMMA PublishAccounts ==
  ASSUME TypeOK, OnePlace, AbsentIsFree, NEW d \in Dispatcher, Publish(d)
  PROVE  OnePlace' /\ AccountStep
<1>1. PICK i \in batch[d] :
        /\ batch' = [batch EXCEPT ![d] = @ \ {i}]
        /\ offers' = [offers EXCEPT ![i.msg] = @ + 1]
  BY DEF Publish
<1>2. UNCHANGED <<row, late>>
  BY DEF Publish
<1>3. i \in Item /\ i.msg \in Message /\ Carried(i.msg)
  BY DEF TypeOK, Item, Carried
<1>4. \A e \in Dispatcher : batch'[e] = IF e = d THEN batch[d] \ {i} ELSE batch[e]
  BY <1>1 DEF TypeOK
<1>5. OnePlace'
  BY <1>2, <1>4 DEF OnePlace
<1>6. /\ \A m \in Message : Unspent(m)' \subseteq Unspent(m)
      /\ i \in Unspent(i.msg) /\ i \notin Unspent(i.msg)'
  BY <1>2, <1>3, <1>4 DEF Unspent, OnePlace
<1>7. \A m \in Message : row[m].attempts \in Nat /\ offers[m] \in Nat
  BY OutboxAssumption DEF TypeOK, Row, OutboxAssumption
<1>8. /\ offers'[i.msg] = offers[i.msg] + 1 /\ row[i.msg].status # "absent"
      /\ \A m \in Message \ {i.msg} : offers'[m] = offers[m]
  BY <1>1, <1>3 DEF TypeOK, AbsentIsFree
<1>9. Spends(i.msg)
  BY <1>2, <1>3, <1>6, <1>7, <1>8 DEF Spends
<1>10. \A m \in Message \ {i.msg} : Keeps(m)
  BY <1>2, <1>6, <1>7, <1>8 DEF Keeps
<1> QED
  BY <1>5, <1>9, <1>10 DEF AccountStep

LEMMA ForgottenAccounts ==
  ASSUME TypeOK, OnePlace, NEW d \in Dispatcher, GiveUp(d), UNCHANGED <<row, offers>>,
         \A q \in late' : q.op = "release" => q \in late
  PROVE  OnePlace' /\ AccountStep
  BY ForgottenTyped, QuietAccount

LEMMA MarkAccounts ==
  ASSUME TypeOK, OnePlace, NEW d \in Dispatcher,
         MarkSucceeds(d) \/ MarkLosesLease(d) \/ MarkErrors(d)
  PROVE  OnePlace' /\ AccountStep
<1>1. /\ MarkOf(d) \in Statement /\ MarkOf(d).op # "release"
  BY StatementsTyped DEF MarkSucceeds, MarkLosesLease, MarkErrors, TypeOK, Job, Verdicts
<1>2. CASE MarkSucceeds(d)
  <2>1. \A m \in Message : /\ row'[m].status # "absent" => row[m].status # "absent"
                           /\ row'[m].attempts = row[m].attempts
    BY <1>1, <1>2, RefundedRows DEF MarkSucceeds
  <2> QED
    BY <1>2, <2>1, QuietAccount DEF MarkSucceeds
<1>3. CASE MarkLosesLease(d)
  BY <1>3, ForgottenAccounts DEF MarkLosesLease
<1>4. CASE MarkErrors(d)
  <2>1. \A q \in late' : q.op = "release" => q \in late
    BY <1>1, <1>4 DEF MarkErrors
  <2> QED
    BY <1>4, <2>1, ForgottenAccounts DEF MarkErrors
<1> QED
  BY <1>2, <1>3, <1>4

LEMMA ReleaseAccounts ==
  ASSUME TypeOK, OnePlace, NEW d \in Dispatcher, ReleaseNext(d)
  PROVE  OnePlace' /\ AccountStep
<1>1. PICK i \in batch[d] :
        /\ batch' = [batch EXCEPT ![d] = @ \ {i}]
        /\ \/ row' = Applied(ReleaseOf(d, i)) /\ UNCHANGED late
           \/ late' = late \cup {ReleaseOf(d, i)} /\ UNCHANGED row
  BY DEF ReleaseNext
<1> DEFINE q == ReleaseOf(d, i)
<1>2. q \in Statement /\ q.op = "release" /\ q.item = i
  BY StatementsTyped
<1>3. UNCHANGED offers /\ i \in Item /\ i.msg \in Message
  BY DEF ReleaseNext, TypeOK, Item
<1>4. \A e \in Dispatcher : batch'[e] = IF e = d THEN batch[d] \ {i} ELSE batch[e]
  BY <1>1 DEF TypeOK
<1>5. \A m \in Message : row[m].attempts \in Nat /\ offers[m] \in Nat
  BY OutboxAssumption DEF TypeOK, Row, OutboxAssumption
<1> HIDE DEF q
<1>6. CASE row' = Applied(q) /\ UNCHANGED late
  <2>1. OnePlace'
    BY <1>4, <1>6 DEF OnePlace
  <2>2. /\ \A m \in Message : Unspent(m)' \subseteq Unspent(m)
        /\ i \in Unspent(i.msg) /\ i \notin Unspent(i.msg)'
    BY <1>3, <1>4, <1>6 DEF Unspent, OnePlace
  <2>3. \A m \in Message :
          /\ row'[m].status # "absent" => row[m].status # "absent"
          /\ row'[m].attempts \in Nat /\ row[m].attempts <= row'[m].attempts + 1
          /\ m # i.msg => row'[m].attempts = row[m].attempts
    BY <1>2, <1>6, RefundedRows
  <2>4. Spends(i.msg)
    BY <1>3, <1>5, <2>2, <2>3 DEF Spends
  <2>5. \A m \in Message \ {i.msg} : Keeps(m)
    BY <1>3, <1>5, <2>2, <2>3 DEF Keeps
  <2> QED
    BY <2>1, <2>4, <2>5 DEF AccountStep
<1>7. CASE late' = late \cup {q} /\ UNCHANGED row
  <2>1. OnePlace'
    BY <1>2, <1>4, <1>7 DEF OnePlace
  <2>2. \A m \in Message : Unspent(m)' \subseteq Unspent(m)
    BY <1>2, <1>4, <1>7 DEF Unspent
  <2> QED
    BY <1>3, <1>5, <1>7, <2>1, <2>2 DEF AccountStep, Keeps
<1> QED
  BY <1>1, <1>6, <1>7 DEF q

LEMMA LateAccounts ==
  ASSUME TypeOK, OnePlace, ExecuteLate
  PROVE  OnePlace' /\ AccountStep
<1>1. PICK q \in late : late' = late \ {q} /\ (row' = Applied(q) \/ row' = row)
  BY DEF ExecuteLate
<1>2. UNCHANGED <<batch, offers>>
  BY DEF ExecuteLate
<1>3. q \in Statement /\ q.item \in Item /\ q.item.msg \in Message
  BY DEF TypeOK, Statement, Item
<1>4. \A m \in Message : row[m].attempts \in Nat /\ offers[m] \in Nat
  BY OutboxAssumption DEF TypeOK, Row, OutboxAssumption
<1>5. CASE q.op # "release" \/ row' = row
  <2>1. \A m \in Message : /\ row'[m].status # "absent" => row[m].status # "absent"
                           /\ row'[m].attempts = row[m].attempts
    BY <1>1, <1>3, <1>5, RefundedRows
  <2> QED
    BY <1>1, <1>2, <2>1, QuietAccount
<1>6. CASE q.op = "release" /\ row' = Applied(q)
  <2>1. OnePlace'
    BY <1>1, <1>2 DEF OnePlace
  <2>2. /\ \A m \in Message : Unspent(m)' \subseteq Unspent(m)
        /\ q.item \in Unspent(q.item.msg) /\ q.item \notin Unspent(q.item.msg)'
    BY <1>1, <1>2, <1>3, <1>6 DEF Unspent, OnePlace
  <2>3. \A m \in Message :
          /\ row'[m].status # "absent" => row[m].status # "absent"
          /\ row'[m].attempts \in Nat /\ row[m].attempts <= row'[m].attempts + 1
          /\ m # q.item.msg => row'[m].attempts = row[m].attempts
    BY <1>3, <1>6, RefundedRows
  <2>4. Spends(q.item.msg)
    BY <1>2, <1>3, <1>4, <2>2, <2>3 DEF Spends
  <2>5. \A m \in Message \ {q.item.msg} : Keeps(m)
    BY <1>2, <1>4, <2>2, <2>3 DEF Keeps
  <2> QED
    BY <2>1, <2>4, <2>5 DEF AccountStep
<1> QED
  BY <1>1, <1>5, <1>6

LEMMA EveryAccount ==
  ASSUME TypeOK, AbsentIsFree, OnePlace, [Next]_vars
  PROVE  OnePlace' /\ AccountStep
<1>1. CASE Next
  <2>1. ASSUME NEW d \in Dispatcher, Crash(d) PROVE OnePlace' /\ AccountStep
    BY <2>1, ForgottenAccounts DEF Crash
  <2> QED
    BY <1>1, <2>1, RetentionAccounts, ClaimAccounts, PublishAccounts, MarkAccounts,
       ReleaseAccounts, LateAccounts DEF Next
<1>2. CASE UNCHANGED vars
  BY <1>2, QuietAccount DEF vars
<1> QED
  BY <1>1, <1>2

\* The balance follows from what a step may do to it.
LEMMA Balanced ==
  ASSUME TypeOK, TypeOK', Paid, AccountStep
  PROVE  Paid'
<1> SUFFICES ASSUME NEW m \in Message
             PROVE  /\ IsFiniteSet(Unspent(m)')
                    /\ row'[m].status # "absent" =>
                         offers'[m] + Cardinality(Unspent(m)') <= row'[m].attempts
  BY DEF Paid
<1> DEFINE U == Unspent(m)   V == Unspent(m)'   C == Cardinality(U)   D == Cardinality(V)
<1>1. /\ IsFiniteSet(U) /\ C \in Nat
      /\ row[m].status # "absent" => offers[m] + C <= row[m].attempts
  BY FS_CardinalityType DEF Paid
<1>2. /\ row[m].attempts \in Nat /\ offers[m] \in Nat
      /\ row'[m].attempts \in Nat /\ offers'[m] \in Nat
  BY OutboxAssumption DEF TypeOK, Row, OutboxAssumption
<1>3. CASE Keeps(m)
  <2>1. IsFiniteSet(V) /\ D \in Nat /\ D <= C
    BY <1>1, <1>3, FS_Subset, FS_CardinalityType DEF Keeps
  <2>2. ~ Carried(m) => U = {}
    BY DEF Unspent, Carried
  <2>3. ~ Carried(m) => C = 0
    BY <2>2, FS_EmptySet
  <2>4. ASSUME row'[m].status # "absent" PROVE offers'[m] + D <= row'[m].attempts
    <3> HIDE DEF C, D
    <3> QED
      BY <1>1, <1>2, <1>3, <2>1, <2>3, <2>4 DEF Keeps
  <2> QED
    BY <2>1, <2>4
<1>4. CASE Spends(m)
  <2>1. PICK i \in U : V \subseteq U \ {i}
    BY <1>4 DEF Spends
  <2>2. IsFiniteSet(U \ {i}) /\ Cardinality(U \ {i}) = C - 1
    BY <1>1, <2>1, FS_RemoveElement
  <2>3. IsFiniteSet(V) /\ D \in Nat /\ D <= C - 1
    BY <2>1, <2>2, FS_Subset, FS_CardinalityType
  <2>4. row'[m].status # "absent" =>
          /\ row[m].status # "absent"
          /\ offers'[m] + row[m].attempts <= offers[m] + row'[m].attempts + 1
    BY <1>4 DEF Spends
  <2>5. ASSUME row'[m].status # "absent" PROVE offers'[m] + D <= row'[m].attempts
    <3> HIDE DEF C, D
    <3> QED
      BY <1>1, <1>2, <2>3, <2>4, <2>5
  <2> QED
    BY <2>3, <2>5
<1>5. CASE Charges(m)
  <2>1. PICK i \in Item : V \subseteq U \cup {i}
    BY <1>5 DEF Charges
  <2>2. IsFiniteSet(U \cup {i}) /\ Cardinality(U \cup {i}) \in {C, C + 1}
    BY <1>1, FS_AddElement
  <2>3. IsFiniteSet(V) /\ D \in Nat /\ D <= C + 1
    BY <1>1, <2>1, <2>2, FS_Subset, FS_CardinalityType
  <2>4. /\ row[m].status # "absent" /\ offers'[m] = offers[m]
        /\ row'[m].attempts = row[m].attempts + 1
    BY <1>5 DEF Charges
  <2>5. ASSUME row'[m].status # "absent" PROVE offers'[m] + D <= row'[m].attempts
    <3> HIDE DEF C, D
    <3> QED
      BY <1>1, <1>2, <2>3, <2>4, <2>5
  <2> QED
    BY <2>3, <2>5
<1> QED
  BY <1>3, <1>4, <1>5 DEF AccountStep

-----------------------------------------------------------------------------
(* The invariant follows from these facts alone. *)

LEMMA Initially == Init => IInv
<1> SUFFICES ASSUME Init PROVE IInv
  OBVIOUS
<1>1. TypeOK
  BY OutboxAssumption
  DEF Init, TypeOK, OutboxAssumption, Absent, Unleased, Row, Statuses
<1> QED
  BY <1>1 DEF Init, IInv, Vouched, AbsentIsFree, Carried, PublishedWasConfirmed, Absent, Unleased

LEMMA Preserved == IInv /\ [Next]_vars => IInv'
<1> SUFFICES ASSUME IInv, [Next]_vars PROVE IInv'
  OBVIOUS
<1>1. TypeOK /\ TypeOK' /\ Steps
  BY EveryStep DEF IInv
\* What is under way keeps its confirm: its message has a row.
<1>2. /\ \A d \in Dispatcher : job[d] # None => job[d].item.msg \in Message
      /\ \A q \in late \cup late' : q.item.msg \in Message
      /\ \A d \in Dispatcher : job'[d] # None => job'[d].item.msg \in Message
  BY <1>1 DEF TypeOK, Job, Statement, Item
<1>3. /\ \A d \in Dispatcher :
           job[d] # None /\ job[d].verdict = "published" => confirmed'[job[d].item.msg]
      /\ \A q \in late : q.op = "published" => confirmed'[q.item.msg]
  BY <1>1, <1>2 DEF IInv, Vouched, AbsentIsFree, Carried, Steps, ConfirmStep
<1>4. Vouched'
  BY <1>1, <1>2, <1>3 DEF Vouched, Steps, JobStep, LateStep
<1>5. AbsentIsFree'
  <2>1. ASSUME NEW m \in Message, row'[m].status = "absent", Carried(m)' PROVE FALSE
    <3>1. Carried(m)
      BY <1>1, <2>1 DEF Steps, CarryStep
    <3>2. row[m].status # "absent"
      BY <3>1 DEF IInv, AbsentIsFree
    <3> QED
      BY <1>1, <2>1, <3>1, <3>2 DEF Steps, RowStep
  <2> QED
    BY <2>1 DEF AbsentIsFree
<1>6. PublishedWasConfirmed'
  <2>1. ASSUME NEW m \in Message, row'[m].status = "published" PROVE confirmed'[m]
    <3>1. CASE row'[m] = row[m]
      BY <1>1, <2>1, <3>1 DEF IInv, PublishedWasConfirmed, Steps, ConfirmStep
    <3> QED
      BY <1>1, <1>3, <2>1, <3>1 DEF Steps, RowStep, Absent, Unleased
  <2> QED
    BY <2>1 DEF PublishedWasConfirmed
<1> QED
  BY <1>1, <1>4, <1>5, <1>6 DEF IInv

\* The invariant the theorems below rest on holds in every reachable state.
THEOREM InductiveInvariant == Spec => []IInv
  BY Initially, Preserved, PTL DEF Spec

\* Every variable keeps its type, in particular a row's attempts stay within
\* MaxAttempts, whatever is claimed, refunded and executed late.
THEOREM TypeCorrect == Spec => []TypeOK
<1>1. IInv => TypeOK
  BY DEF IInv
<1> QED
  BY <1>1, InductiveInvariant, PTL

\* A row is published only when the broker confirmed its message.
THEOREM NoSilentLoss == Spec => []PublishedWasConfirmed
<1>1. IInv => PublishedWasConfirmed
  BY DEF IInv
<1> QED
  BY <1>1, InductiveInvariant, PTL

\* No step puts a published or dead row back into the queue.
THEOREM Finality == Spec => TerminalIsFinal
<1>1. TypeOK /\ [Next]_vars => [FinalStep]_vars
  BY EveryStep DEF Steps, RowStep, FinalStep
<1> QED
  BY <1>1, TypeCorrect, PTL DEF Spec, TerminalIsFinal

\* A message is handed to the publisher at most as often as attempts were charged
\* to its row and not refunded, so at most MaxAttempts times.
THEOREM OffersNeverUnpaid == Spec => []OffersArePaid
<1>1. Init => Accounts
  <2> SUFFICES ASSUME Init PROVE Accounts
    OBVIOUS
  <2>1. OnePlace
    BY DEF Init, OnePlace
  <2>2. \A m \in Message : Unspent(m) = {} /\ row[m].status = "absent"
    BY DEF Init, Unspent, Absent, Unleased
  <2> QED
    BY <2>1, <2>2, FS_EmptySet DEF Accounts, Paid
<1>2. IInv /\ IInv' /\ Accounts /\ [Next]_vars => Accounts'
  BY EveryAccount, Balanced DEF Accounts, IInv
<1>3. IInv /\ Accounts => OffersArePaid
  <2> SUFFICES ASSUME TypeOK, Accounts, NEW m \in Message, row[m].status # "absent"
               PROVE  offers[m] <= row[m].attempts
    BY DEF OffersArePaid, IInv
  <2> DEFINE C == Cardinality(Unspent(m))
  <2>1. C \in Nat /\ offers[m] + C <= row[m].attempts
    BY FS_CardinalityType DEF Accounts, Paid
  <2>2. offers[m] \in Nat /\ row[m].attempts \in Nat
    BY OutboxAssumption DEF TypeOK, Row, OutboxAssumption
  <2> HIDE DEF C
  <2> QED
    BY <2>1, <2>2
<1> QED
  BY <1>1, <1>2, <1>3, InductiveInvariant, PTL DEF Spec

-----------------------------------------------------------------------------
(* The outbox in front of the queue.  What a dispatcher believes confirmed   *)
(* has been accepted, and a committed message is without a row only after it *)
(* was published, so accepted.                                               *)

Believed == \A m \in Message : confirmed[m] => status[m] # "unsent"

DInv == IInv /\ DurableTypeOK /\ Believed /\ NothingCommittedVanishes

LEMMA ConfirmNeedsPublish ==
  ASSUME TypeOK, DurableNext, NEW m \in Message, confirmed'[m]
  PROVE  confirmed[m] \/ \E d \in Dispatcher : Publishes(d)
<1>1. ASSUME NEW n \in Message, Commits(n) PROVE confirmed[m]
  BY <1>1 DEF Commits, Enqueue, TypeOK
<1>2. CASE WorksOn
  BY <1>2
  DEF WorksOn, PurgePublishedBefore, Ripen, Claim, ClaimBatch, MarkSucceeds, MarkLosesLease,
      MarkErrors, ReleaseNext, Crash, ExecuteLate
<1>3. CASE Consumes
  BY <1>3 DEF Consumes, vars
<1> QED
  BY <1>1, <1>2, <1>3 DEF DurableNext

\* The dispatchers do what Outbox says.
LEMMA DurableIsOutbox ==
  ASSUME [DurableNext]_durableVars PROVE [Next]_vars
BY DEF DurableNext, durableVars, Commits, Publishes, WorksOn, Consumes, Next

\* The queue only ever does what it promises.
LEMMA DurableIsQueue ==
  ASSUME [DurableNext]_durableVars, DurableTypeOK PROVE [Queue!Next]_status
<1>1. CASE UNCHANGED status
  BY <1>1
<1>2. CASE \E m \in Message : Queue!Accept(m) \/ Queue!Succeed(m)
  BY <1>2 DEF Queue!Next
<1>3. CASE \E ms \in SUBSET Message : Queue!Park(ms)
  BY <1>3 DEF Queue!Next
<1>4. ASSUME NEW d \in Dispatcher, Publishes(d)
      PROVE  UNCHANGED status \/ \E m \in Message : Queue!Accept(m)
  BY <1>4 DEF Publishes, Accepts, DurableTypeOK, TypeOK, Item
<1> QED
  BY <1>1, <1>2, <1>3, <1>4 DEF DurableNext, durableVars, Commits, WorksOn, Consumes

\* What was accepted stays accepted.
LEMMA AcceptedStays ==
  ASSUME DurableTypeOK, [Queue!Next]_status
  PROVE  /\ status' \in [Message -> Queue!Statuses]
         /\ \A m \in Message : status[m] # "unsent" => status'[m] # "unsent"
<1>1. ASSUME NEW m \in Message, Queue!Accept(m) PROVE status' = [status EXCEPT ![m] = "owed"]
  BY <1>1 DEF Queue!Accept
<1>2. ASSUME NEW m \in Message, Queue!Succeed(m)
      PROVE  status' = [status EXCEPT ![m] = "succeeded"]
  BY <1>2 DEF Queue!Succeed
<1>3. ASSUME NEW ms \in SUBSET Message, Queue!Park(ms)
      PROVE  status' = [m \in Message |-> IF m \in ms THEN "parked" ELSE status[m]]
  BY <1>3 DEF Queue!Park
<1> QED
  BY <1>1, <1>2, <1>3 DEF DurableTypeOK, Queue!Statuses, Queue!Next

LEMMA DurableStep == DInv /\ [DurableNext]_durableVars => DInv'
<1> SUFFICES ASSUME DInv, [DurableNext]_durableVars PROVE DInv'
  OBVIOUS
<1>1. /\ [Next]_vars /\ IInv /\ IInv' /\ TypeOK /\ TypeOK' /\ Steps
  BY DurableIsOutbox, Preserved, EveryStep DEF DInv, IInv
<1>2. /\ status' \in [Message -> Queue!Statuses]
      /\ \A m \in Message : status[m] # "unsent" => status'[m] # "unsent"
  BY DurableIsQueue, AcceptedStays DEF DInv
<1>3. /\ committed' \subseteq Message
      /\ \A m \in committed' : m \in committed \/ row'[m].status = "pending"
  <2>1. ASSUME NEW n \in Message, Commits(n)
        PROVE  committed' = committed \cup {n} /\ row'[n].status = "pending"
    BY <1>1, <2>1 DEF Commits, Enqueue, TypeOK, Unleased
  <2>2. (\E n \in Message : Commits(n)) \/ UNCHANGED committed
    BY DEF DurableNext, durableVars, Publishes, WorksOn, Consumes
  <2> QED
    BY <2>1, <2>2 DEF DInv, DurableTypeOK
<1>4. Believed'
  <2> SUFFICES ASSUME NEW m \in Message, confirmed'[m] PROVE status'[m] # "unsent"
    BY DEF Believed
  <2>1. CASE confirmed[m]
    BY <1>2, <2>1 DEF DInv, Believed
  <2>2. CASE ~ confirmed[m]
    <3>1. DurableNext
      BY <2>2 DEF durableVars, vars
    <3>2. PICK d \in Dispatcher : Publishes(d)
      BY <1>1, <2>2, <3>1, ConfirmNeedsPublish
    <3>3. PICK i \in batch[d], answer \in {"confirmed", "permanent", "unconfirmed"} :
            /\ batch' = [batch EXCEPT ![d] = @ \ {i}]
            /\ confirmed' = [confirmed EXCEPT ![i.msg] = @ \/ answer = "confirmed"]
      BY <3>2 DEF Publishes, Publish
    <3>4. PICK j \in batch[d] :
            /\ batch'[d] = batch[d] \ {j}
            /\ Accepts(j.msg) \/ (~ confirmed'[j.msg] /\ UNCHANGED status)
      BY <3>2 DEF Publishes
    <3>5. i = j /\ i.msg = m
      BY <1>1, <2>2, <3>3, <3>4 DEF TypeOK, Item
    <3>6. Accepts(m)
      BY <3>4, <3>5
    <3> QED
      BY <3>6 DEF Accepts, Queue!Accept, DInv, DurableTypeOK
  <2> QED
    BY <2>1, <2>2
<1>5. NothingCommittedVanishes'
  <2> SUFFICES ASSUME NEW m \in committed', m \in Message,
                      row'[m].status \notin {"pending", "leased", "dead"}
               PROVE  status'[m] # "unsent"
    BY <1>3 DEF NothingCommittedVanishes
  <2>1. m \in committed
    BY <1>3
  <2>2. row'[m].status \in {"absent", "published"}
    BY <1>1 DEF TypeOK, Row, Statuses
  <2>3. CASE row'[m].status = "published"
    BY <1>1, <1>4, <2>3 DEF IInv, PublishedWasConfirmed, Believed
  <2>4. CASE row'[m].status = "absent"
    <3>1. row[m].status \in {"absent", "published"}
      BY <1>1, <2>4 DEF Steps, RowStep
    <3> QED
      BY <1>2, <2>1, <3>1 DEF DInv, NothingCommittedVanishes
  <2> QED
    BY <2>2, <2>3, <2>4
<1> QED
  BY <1>1, <1>2, <1>3, <1>4, <1>5 DEF DInv, DurableTypeOK

THEOREM DurableInvariant == DurableSpec => []DInv
<1>1. DurableInit => DInv
  <2> SUFFICES ASSUME DurableInit PROVE DInv
    OBVIOUS
  <2>1. IInv /\ TypeOK
    BY Initially DEF DurableInit, IInv
  <2> QED
    BY <2>1
    DEF DurableInit, Queue!Init, Queue!Statuses, DInv, DurableTypeOK, Believed,
        NothingCommittedVanishes, Init
<1> QED
  BY <1>1, DurableStep, PTL DEF DurableSpec

\* Whatever is published, lost, retried, purged and sent again, the outbox, the
\* queue and the record of what was committed keep their types.
THEOREM DurableTypeCorrect == DurableSpec => []DurableTypeOK
<1>1. DInv => DurableTypeOK
  BY DEF DInv
<1> QED
  BY <1>1, DurableInvariant, PTL

\* A committed message is in the outbox, or the queue owes it or is done with it.
THEOREM CommittedIsOwed == DurableSpec => []NothingCommittedVanishes
<1>1. DInv => NothingCommittedVanishes
  BY DEF DInv
<1> QED
  BY <1>1, DurableInvariant, PTL

\* The outbox and the queue keep their own promises when they work together, so
\* every theorem about the outbox alone holds of the two.
THEOREM DurableParts == DurableSpec => Spec /\ Queue!Spec
<1>1. DurableInit => Init /\ Queue!Init
  BY DEF DurableInit
<1>2. [DurableNext]_durableVars => [Next]_vars
  BY DurableIsOutbox
<1>3. DurableTypeOK /\ [DurableNext]_durableVars => [Queue!Next]_status
  BY DurableIsQueue
<1> QED
  BY <1>1, <1>2, <1>3, DurableTypeCorrect, PTL DEF DurableSpec, Spec, Queue!Spec
=============================================================================
