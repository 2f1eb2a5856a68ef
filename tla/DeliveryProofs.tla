--------------------------- MODULE DeliveryProofs ---------------------------
(***************************************************************************)
(* TLAPS proofs about Delivery, for any number of messages, workers and    *)
(* copies, any limits and any number of late statements.                   *)
(*                                                                         *)
(* That nothing is lost is not inductive by itself: a copy is given up by  *)
(* an acknowledgement, and what justifies it, a completed inbox row or a   *)
(* published retry, was there long before.  The invariant says of every    *)
(* such justification that it is still good: the message has succeeded, is *)
(* parked, or has a copy beyond the attempt that is given up (Kept).       *)
(*                                                                         *)
(* That an attempt runs once at a time is about its inbox row: whoever     *)
(* relies on the row's lease owns it, and is alone (SoleClaims).           *)
(***************************************************************************)
EXTENDS Delivery, TLAPS

\* Only a delivery from the primary queue is held by a worker.
Held == \A c \in Copy : copy[c].holder # None => copy[c].place = "primary"

\* The copy a job still holds is the one it was started for.
Attached ==
  \A w \in Worker :
    job[w] # None /\ copy[job[w].copy].holder = w
      => /\ copy[job[w].copy].msg = job[w].msg
         /\ copy[job[w].copy].attempt = job[w].attempt

RetriesLeft ==
  \A w \in Worker :
    InStage(w, "publishing") /\ job[w].target = "retry" => job[w].attempt < MaxAttempts

\* What justifies the end of an attempt: a job that has come so far, a completed
\* row, a late statement that will complete one.
JobsKept ==
  \A w \in Worker : job[w] # None =>
    /\ Kept(job[w].msg, 0)
    /\ job[w].stage = "completing" => job[w].msg \in done
    /\ job[w].stage \in {"recording", "acking"} => Kept(job[w].msg, job[w].attempt)

RowsKept ==
  \A m \in Message, a \in Attempt : inbox[m][a].status = "completed" => Kept(m, a)

LateKept == \A q \in late : q.op = "complete" => Kept(q.msg, q.attempt)

Shape == TypeOK /\ Held /\ Attached /\ RetriesLeft
IInv == Shape /\ JobsKept /\ RowsKept /\ LateKept /\ NothingIsLost

-----------------------------------------------------------------------------
\* A copy is nowhere, or a message of the queue.
LEMMA CopyCases ==
  ASSUME TypeOK, NEW c \in Copy
  PROVE  \/ copy[c] = Gone
         \/ /\ copy[c].place \in Live \cup Parked /\ copy[c].msg \in Message
            /\ copy[c].attempt \in Attempt /\ copy[c].hash \in Hash
            /\ copy[c].returns \in 0..DeliveryLimit /\ copy[c].holder \in Worker \cup {None}
  BY DEF TypeOK, CopyType

\* What the end of a session does to a copy.
LEMMA SessionEndedCopies ==
  ASSUME TypeOK, Held, NEW w \in Worker, NEW c \in Copy
  PROVE  /\ SessionEnded(w)[c] \in CopyType
         /\ SessionEnded(w)[c].holder # w
         /\ SessionEnded(w)[c].holder # None => SessionEnded(w)[c] = copy[c]
         /\ \/ SessionEnded(w)[c] = copy[c]
            \/ /\ copy[c].place = "primary" /\ copy[c].holder = w
               /\ SessionEnded(w)[c].place \in {"primary", "dead"}
               /\ SessionEnded(w)[c].msg = copy[c].msg
               /\ SessionEnded(w)[c].attempt = copy[c].attempt
<1>1. CASE copy[c].holder = w
  <2> DEFINE k == copy[c]
  <2>1. /\ k \in [place : Live \cup Parked, msg : Message, attempt : Attempt, hash : Hash,
                   returns : 0..DeliveryLimit, holder : Worker \cup {None}]
        /\ k.place = "primary"
    BY <1>1, DeliveryAssumption DEF TypeOK, CopyType, Gone, Held, DeliveryAssumption
  <2>2. SessionEnded(w)[c] = Returned(k)
    BY <1>1 DEF SessionEnded
  <2>3. /\ Returned(k).holder = None
        /\ Returned(k).place \in {"primary", "dead"}
        /\ Returned(k).msg = k.msg
        /\ Returned(k).attempt = k.attempt
        /\ Returned(k).hash = k.hash
        /\ Returned(k).returns \in 0..DeliveryLimit
    BY <2>1, DeliveryAssumption DEF Returned, DeliveryAssumption
  <2>4. Returned(k) = [place |-> Returned(k).place, msg |-> k.msg, attempt |-> k.attempt,
                       hash |-> k.hash, returns |-> Returned(k).returns, holder |-> None]
    BY <2>1 DEF Returned
  <2>5. Returned(k) \in CopyType
    BY <2>1, <2>3, <2>4 DEF CopyType, Live, Parked
  <2>6. None # w
    BY DeliveryAssumption DEF DeliveryAssumption
  <2> QED
    BY <1>1, <2>1, <2>2, <2>3, <2>5, <2>6
<1>2. CASE copy[c].holder # w
  BY <1>2 DEF SessionEnded, TypeOK
<1> QED
  BY <1>1, <1>2
-----------------------------------------------------------------------------
(* The ways in which a step changes the broker's copies. *)

Placed ==
  \E c \in Copy, where \in Live \cup Parked, m \in Message, a \in Attempt, h \in Hash :
    copy[c] = Gone /\ copy' = [copy EXCEPT ![c] = At(where, m, a, h)]

Acked(w) ==
  /\ Ack(w) /\ job[w] # None /\ copy[job[w].copy].holder = w
  /\ copy' = [copy EXCEPT ![job[w].copy] = Gone]

CopyStep ==
  \/ copy' = copy
  \/ Placed
  \/ \E w \in Worker : copy' = SessionEnded(w)
  \/ \E c \in Copy : RetryExpires(c)
  \/ \E w \in Worker, c \in Copy : Deliver(w, c)
  \/ \E w \in Worker : Acked(w)

\* What a job publishes is a message of the queue, at an attempt it may have.
LEMMA AcceptedIsPlaced ==
  ASSUME Shape, NEW w \in Worker, InStage(w, "publishing"),
         NEW c \in Copy, NEW h \in Hash, Accepts(w, c, h)
  PROVE  Placed
<1> DEFINE j == job[w]
           a == IF j.target = "retry" THEN j.attempt + 1 ELSE j.attempt
<1>1. j \in JobType /\ j.stage = "publishing"
  BY DEF Shape, TypeOK, InStage
<1>2. j.target \in Live \cup Parked /\ j.msg \in Message
  BY <1>1 DEF JobType, Live
<1>3. a \in Attempt
  BY <1>1, DeliveryAssumption DEF JobType, Attempt, Shape, RetriesLeft, InStage, DeliveryAssumption
<1>4. copy[c] = Gone /\ copy' = [copy EXCEPT ![c] = At(j.target, j.msg, a, h)]
  BY DEF Accepts
<1> QED
  BY <1>2, <1>3, <1>4 DEF Placed

LEMMA CopySteps == Shape /\ [Next]_vars => CopyStep
<1> SUFFICES ASSUME Shape, [Next]_vars PROVE CopyStep
  OBVIOUS
<1>1. ASSUME NEW m \in Message, Send(m) PROVE CopyStep
  <2> PICK c \in Copy, h \in Hash :
        copy[c] = Gone /\ copy' = [copy EXCEPT ![c] = At("primary", m, 1, h)]
    BY <1>1 DEF Send
  <2>1. "primary" \in Live \cup Parked /\ 1 \in Attempt
    BY DeliveryAssumption DEF Live, Attempt, DeliveryAssumption
  <2> QED
    BY <2>1 DEF CopyStep, Placed
<1>2. ASSUME NEW m \in Message, NEW a \in Attempt, Lapse(m, a) \/ PurgeExpired(m, a) PROVE CopyStep
  BY <1>2 DEF Lapse, PurgeExpired, CopyStep
<1>3. ASSUME NEW c \in Copy, RetryExpires(c) PROVE CopyStep
  BY <1>3 DEF CopyStep
<1>4. ASSUME NEW w \in Worker, Disconnect(w) \/ Crash(w) PROVE CopyStep
  BY <1>4 DEF Disconnect, Crash, CopyStep
<1>5. ASSUME NEW w \in Worker, NEW c \in Copy, Deliver(w, c) PROVE CopyStep
  BY <1>5 DEF CopyStep
<1>6. ASSUME NEW w \in Worker, NEW c \in Copy, Receives(w, c) PROVE CopyStep
  BY <1>6 DEF Receives, RejectMalformed, Begin, BeginComplete, BeginRefused, BeginErrors, CopyStep
<1>7. ASSUME NEW w \in Worker, HandlerSucceeds(w) \/ HandlerFails(w) \/ CompleteSucceeds(w) \/ Record(w) PROVE CopyStep
  BY <1>7 DEF HandlerSucceeds, HandlerFails, CompleteSucceeds, Record, CopyStep
<1>8. ASSUME NEW w \in Worker, CompleteLosesLease(w) \/ CompleteErrors(w) \/ Forget(w) \/ Nack(w) PROVE CopyStep
  BY <1>8 DEF CompleteLosesLease, CompleteErrors, Forget, Nack, Nacked, CopyStep
<1>9. ASSUME NEW w \in Worker, PublishConfirmed(w) \/ PublishRetries(w) \/ PublishFails(w)
      PROVE  CopyStep
  BY <1>9, AcceptedIsPlaced DEF PublishConfirmed, PublishRetries, PublishFails, CopyStep
<1>10. ASSUME NEW w \in Worker, Ack(w) PROVE CopyStep
  BY <1>10 DEF Ack, InStage, Connected, Acked, CopyStep
<1>11. ASSUME ExecuteLate PROVE CopyStep
  BY <1>11 DEF ExecuteLate, CopyStep
<1>12. ASSUME UNCHANGED vars PROVE CopyStep
  BY <1>12 DEF vars, CopyStep
<1> QED
  BY <1>1, <1>2, <1>3, <1>4, <1>5, <1>6, <1>7, <1>8, <1>9, <1>10, <1>11, <1>12 DEF Next, Works

\* Copies stay well typed, and none is held outside the primary queue.
LEMMA CopyTyping ==
  ASSUME Shape, CopyStep
  PROVE  copy' \in [Copy -> CopyType] /\ Held'
<1>1. CASE copy' = copy
  BY <1>1 DEF Shape, TypeOK, Held
<1>2. CASE Placed
  <2> PICK c \in Copy, where \in Live \cup Parked, m \in Message, a \in Attempt, h \in Hash :
        copy[c] = Gone /\ copy' = [copy EXCEPT ![c] = At(where, m, a, h)]
    BY <1>2 DEF Placed
  <2>1. At(where, m, a, h) \in CopyType /\ At(where, m, a, h).holder = None
    BY DeliveryAssumption DEF At, CopyType, DeliveryAssumption
  <2> HIDE DEF At
  <2> QED
    BY <2>1 DEF Shape, TypeOK, Held
<1>3. ASSUME NEW w \in Worker, copy' = SessionEnded(w)
      PROVE  copy' \in [Copy -> CopyType] /\ Held'
  <2>1. \A c \in Copy : /\ copy'[c] \in CopyType
                        /\ copy'[c].holder # None => copy'[c] = copy[c]
    BY <1>3, SessionEndedCopies DEF Shape
  <2>2. copy' = [c \in Copy |-> copy'[c]]
    BY <1>3 DEF SessionEnded
  <2> QED
    BY <2>1, <2>2 DEF Shape, Held
<1>4. ASSUME NEW c \in Copy, RetryExpires(c)
      PROVE  copy' \in [Copy -> CopyType] /\ Held'
  <2> DEFINE k == [copy[c] EXCEPT !.place = "primary"]
  <2>1. k \in CopyType /\ k.place = "primary"
    BY <1>4, CopyCases DEF RetryExpires, Shape, TypeOK, CopyType, Gone, Live
  <2>2. copy' = [copy EXCEPT ![c] = k]
    BY <1>4 DEF RetryExpires
  <2> HIDE DEF k
  <2> QED
    BY <2>1, <2>2 DEF Shape, TypeOK, Held
<1>5. ASSUME NEW w \in Worker, NEW c \in Copy, Deliver(w, c)
      PROVE  copy' \in [Copy -> CopyType] /\ Held'
  <2> DEFINE k == [copy[c] EXCEPT !.holder = w]
  <2>1. k \in CopyType /\ k.place = "primary"
    BY <1>5, CopyCases DEF Deliver, Shape, TypeOK, CopyType, Gone, Live
  <2>2. copy' = [copy EXCEPT ![c] = k]
    BY <1>5 DEF Deliver
  <2> HIDE DEF k
  <2> QED
    BY <2>1, <2>2 DEF Shape, TypeOK, Held
<1>6. ASSUME NEW w \in Worker, Acked(w)
      PROVE  copy' \in [Copy -> CopyType] /\ Held'
  <2>1. Gone \in CopyType /\ Gone.holder = None
    BY DEF CopyType, Gone
  <2> QED
    BY <1>6, <2>1 DEF Acked, Shape, TypeOK, Held
<1> QED
  BY <1>1, <1>2, <1>3, <1>4, <1>5, <1>6 DEF CopyStep

\* No step but an acknowledgement takes a copy away.
LEMMA CopiesPersist ==
  ASSUME Shape, CopyStep, NEW c \in Copy, copy[c] # Gone,
         ~ \E w \in Worker : Acked(w) /\ c = job[w].copy
  PROVE  /\ copy'[c].msg = copy[c].msg /\ copy'[c].attempt = copy[c].attempt
         /\ copy[c].place \in Parked => copy'[c].place \in Parked
         /\ copy[c].place \in Live => copy'[c].place \in Live \cup Parked
<1> USE DEF Shape, TypeOK
<1>1. CASE copy' = copy
  BY <1>1
<1>2. CASE Placed
  BY <1>2 DEF Placed
<1>3. CASE \E w \in Worker : copy' = SessionEnded(w)
  BY <1>3, SessionEndedCopies DEF Live, Parked
<1>4. CASE \E k \in Copy : RetryExpires(k)
  BY <1>4, CopyCases DEF RetryExpires, Live, Parked, Gone
<1>5. CASE \E w \in Worker, k \in Copy : Deliver(w, k)
  BY <1>5, CopyCases DEF Deliver, Gone
<1>6. CASE \E w \in Worker : Acked(w)
  BY <1>6 DEF Acked
<1> QED
  BY <1>1, <1>2, <1>3, <1>4, <1>5, <1>6 DEF CopyStep

\* What is kept stays kept: the copy an acknowledgement takes away is of the
\* attempt that its job has already made sure to be kept beyond.
LEMMA KeptStable ==
  ASSUME Shape, JobsKept, CopyStep, done \subseteq done',
         NEW m \in Message, NEW a \in Attempt \cup {0}, Kept(m, a)
  PROVE  Kept(m, a)'
<1> DEFINE Good(c, n) == /\ copy[c].msg = m
                         /\ \/ copy[c].place \in Parked
                            \/ copy[c].place \in Live /\ copy[c].attempt > n
           Taken(c) == \E w \in Worker : Acked(w) /\ c = job[w].copy
<1>1. ASSUME m \in done PROVE Kept(m, a)'
  BY <1>1 DEF Kept
<1>2. ASSUME NEW c \in Copy, Good(c, a), ~ Taken(c) PROVE Kept(m, a)'
  <2>1. copy[c] # Gone
    BY <1>2 DEF Gone, Live, Parked
  <2> QED
    BY <1>2, <2>1, CopiesPersist DEF Kept
<1>3. ASSUME NEW c \in Copy, Good(c, a), NEW w \in Worker, Acked(w), c = job[w].copy
      PROVE  Kept(m, a)'
  <2>1. /\ job[w] # None /\ job[w].stage = "acking" /\ copy[c].holder = w
        /\ job[w].msg = m /\ job[w].attempt = copy[c].attempt
    BY <1>3 DEF Acked, Ack, InStage, Shape, Attached
  <2>2. copy[c].place = "primary" /\ copy[c].attempt > a
    BY <1>3, <2>1, DeliveryAssumption DEF Shape, Held, Parked, DeliveryAssumption
  <2>3. Kept(m, copy[c].attempt)
    BY <2>1 DEF JobsKept
  <2>4. CASE m \in done
    BY <1>1, <2>4
  <2>5. ASSUME NEW k \in Copy, Good(k, copy[c].attempt) PROVE Kept(m, a)'
    <3>1. k # c
      BY <2>2, <2>5, CopyCases DEF Parked, Gone, Attempt, Shape
    <3>2. ~ Taken(k)
      <4> SUFFICES ASSUME NEW v \in Worker, Acked(v), k = job[v].copy PROVE FALSE
        OBVIOUS
      <4>1. copy'[k] = Gone /\ copy' = [copy EXCEPT ![job[w].copy] = Gone]
        BY <1>3, <2>5 DEF Acked, Shape, TypeOK
      <4>2. copy[k] = Gone
        BY <1>3, <3>1, <4>1 DEF Shape, TypeOK
      <4> QED
        BY <4>2, <2>5 DEF Gone, Live, Parked
    <3>3. Good(k, a)
      <4>1. copy[k].place \in Live => copy[k].attempt > a
        BY <2>2, <2>5, CopyCases, DeliveryAssumption
           DEF Gone, Live, Parked, Attempt, Shape, DeliveryAssumption
      <4> QED
        BY <2>5, <4>1
    <3> QED
      BY <1>2, <3>2, <3>3
  <2> QED
    BY <2>3, <2>4, <2>5 DEF Kept
<1> QED
  BY <1>1, <1>2, <1>3 DEF Kept
-----------------------------------------------------------------------------
(* The ways in which a step changes the inbox and the jobs. *)

\* A job starts with the copy it is for, and remains with it to its end.
JobStep(w) ==
  \/ job'[w] = None
  \/ /\ job[w] # None /\ job'[w].copy = job[w].copy
     /\ job'[w].msg = job[w].msg /\ job'[w].attempt = job[w].attempt
  \/ \E c \in Copy : /\ copy' = copy /\ copy[c].holder = w
                     /\ job'[w].copy = c /\ job'[w].msg = copy[c].msg
                     /\ job'[w].attempt = copy[c].attempt

LEMMA RowTyped ==
  ASSUME TypeOK, NEW m \in Message, NEW a \in Attempt, NEW r \in RowType
  PROVE  [inbox EXCEPT ![m][a] = r] \in [Message -> [Attempt -> RowType]]
  BY DEF TypeOK

\* A statement keeps the inbox well typed, and completes no row but its own.
LEMMA ExecutedRows ==
  ASSUME TypeOK, NEW q \in Statement
  PROVE  /\ Executed(q) \in [Message -> [Attempt -> RowType]]
         /\ \A m \in Message, a \in Attempt :
              Executed(q)[m][a].status = "completed"
                => \/ inbox[m][a].status = "completed"
                   \/ q.op = "complete" /\ m = q.msg /\ a = q.attempt
<1> DEFINE r == [status |-> "completed", owner |-> None, hash |-> q.hash, lapsed |-> FALSE]
<1>1. /\ q.op \in {"complete", "forget"} /\ q.msg \in Message /\ q.attempt \in Attempt
      /\ r \in RowType /\ NoRow \in RowType /\ NoRow.status # "completed"
  BY DEF Statement, RowType, NoRow
<1>2. CASE Executed(q) = inbox
  BY <1>2 DEF TypeOK
<1>3. CASE q.op = "complete" /\ Executed(q) = [inbox EXCEPT ![q.msg][q.attempt] = r]
  <2> HIDE DEF r
  <2> QED
    BY <1>1, <1>3, RowTyped DEF TypeOK
<1>4. CASE q.op = "forget" /\ Executed(q) = [inbox EXCEPT ![q.msg][q.attempt] = NoRow]
  BY <1>1, <1>4, RowTyped DEF TypeOK
<1>5. \/ Executed(q) = inbox
      \/ q.op = "complete" /\ Executed(q) = [inbox EXCEPT ![q.msg][q.attempt] = r]
      \/ q.op = "forget" /\ Executed(q) = [inbox EXCEPT ![q.msg][q.attempt] = NoRow]
  BY <1>1 DEF Executed
<1> QED
  BY <1>2, <1>3, <1>4, <1>5

LEMMA StatementTyped ==
  ASSUME TypeOK, NEW w \in Worker, job[w] # None, NEW op \in {"complete", "forget"}
  PROVE  /\ StatementOf(w, op) \in Statement
         /\ StatementOf(w, op).op = op
         /\ StatementOf(w, op).msg = job[w].msg
         /\ StatementOf(w, op).attempt = job[w].attempt
  BY DEF TypeOK, JobType, StatementOf, Statement

\* A job in a stage it has moved on to.
LEMMA Moved ==
  ASSUME Shape, NEW w \in Worker, job[w] # None,
         NEW stage \in ClaimStages \cup {"acking", "nacking"}, stage # "publishing",
         job' = [job EXCEPT ![w].stage = stage]
  PROVE  /\ job' \in [Worker -> JobType \cup {None}] /\ RetriesLeft'
         /\ \A v \in Worker : JobStep(v)
<1> DEFINE j == [job[w] EXCEPT !.stage = stage]
<1>1. /\ j \in JobType /\ j.stage = stage /\ j.copy = job[w].copy
      /\ j.msg = job[w].msg /\ j.attempt = job[w].attempt
  BY DEF Shape, TypeOK, JobType
<1>2. job' = [job EXCEPT ![w] = j]
  OBVIOUS
<1> HIDE DEF j
<1> QED
  BY <1>1, <1>2 DEF Shape, TypeOK, RetriesLeft, InStage, JobStep

LEMMA Ended ==
  ASSUME Shape, NEW w \in Worker, job' = [job EXCEPT ![w] = None]
  PROVE  /\ job' \in [Worker -> JobType \cup {None}] /\ RetriesLeft'
         /\ \A v \in Worker : JobStep(v)
  BY DEF Shape, TypeOK, RetriesLeft, InStage, JobStep

LEMMA Untouched ==
  ASSUME Shape, job' = job
  PROVE  /\ job' \in [Worker -> JobType \cup {None}] /\ RetriesLeft'
         /\ \A v \in Worker : JobStep(v)
  BY DEF Shape, TypeOK, RetriesLeft, InStage, JobStep

\* A job that starts has what its copy says.
LEMMA Started ==
  ASSUME Shape, NEW w \in Worker, NEW c \in Copy, Takes(w, c), copy' = copy,
         NEW stage \in ClaimStages \cup {"acking", "nacking"},
         NEW target \in {"retry"} \cup Parked, stage = "publishing" => target # "retry",
         job' = [job EXCEPT ![w] = JobOn(c, stage, target)]
  PROVE  /\ job' \in [Worker -> JobType \cup {None}] /\ RetriesLeft'
         /\ \A v \in Worker : JobStep(v)
<1> DEFINE j == JobOn(c, stage, target)
<1>1. copy[c] # Gone
  BY DeliveryAssumption DEF Takes, Gone, DeliveryAssumption
<1>2. /\ j \in JobType /\ j.stage = stage /\ j.target = target
      /\ j.copy = c /\ j.msg = copy[c].msg /\ j.attempt = copy[c].attempt
  BY <1>1, CopyCases DEF Shape, JobOn, JobType
<1>3. job' = [job EXCEPT ![w] = j]
  OBVIOUS
<1> HIDE DEF j
<1>4. job' \in [Worker -> JobType \cup {None}] /\ job'[w] = j
  BY <1>2, <1>3 DEF Shape, TypeOK
<1>5. \A v \in Worker : v # w => job'[v] = job[v]
  BY <1>3 DEF Shape, TypeOK
<1>6. RetriesLeft'
  BY <1>2, <1>4, <1>5 DEF Shape, RetriesLeft, InStage
<1>7. JobStep(w)
  BY <1>2, <1>4 DEF JobStep, Takes
<1>8. ASSUME NEW v \in Worker, v # w PROVE JobStep(v)
  BY <1>5, <1>8 DEF JobStep
<1> QED
  BY <1>4, <1>6, <1>7, <1>8

\* What a step leaves of the jobs.
JobsTyped ==
  /\ job' \in [Worker -> JobType \cup {None}] /\ RetriesLeft'
  /\ \A v \in Worker : JobStep(v)

LEMMA JobSteps ==
  ASSUME Shape, [Next]_vars
  PROVE  JobsTyped
<1>1. ASSUME NEW m \in Message, Send(m) PROVE JobsTyped
  BY <1>1, Untouched DEF Send, JobsTyped
<1>2. ASSUME NEW m \in Message, NEW a \in Attempt, Lapse(m, a) \/ PurgeExpired(m, a) PROVE JobsTyped
  BY <1>2, Untouched DEF Lapse, PurgeExpired, JobsTyped
<1>3. ASSUME NEW c \in Copy, RetryExpires(c) PROVE JobsTyped
  BY <1>3, Untouched DEF RetryExpires, JobsTyped
<1>4. ASSUME NEW w \in Worker, Disconnect(w) PROVE JobsTyped
  BY <1>4, Untouched DEF Disconnect, JobsTyped
<1>5. ASSUME NEW w \in Worker, Crash(w) PROVE JobsTyped
  BY <1>5, Ended DEF Crash, JobsTyped
<1>6. ASSUME NEW w \in Worker, NEW c \in Copy, Deliver(w, c) PROVE JobsTyped
  BY <1>6, Untouched DEF Deliver, JobsTyped
<1>7. ASSUME NEW w \in Worker, NEW c \in Copy, RejectMalformed(w, c) PROVE JobsTyped
  BY <1>7, Started DEF RejectMalformed, JobsTyped, ClaimStages, Parked
<1>8. ASSUME NEW w \in Worker, NEW c \in Copy, Begin(w, c) PROVE JobsTyped
  BY <1>8, Started DEF Begin, JobsTyped, ClaimStages
<1>9. ASSUME NEW w \in Worker, NEW c \in Copy, BeginComplete(w, c) PROVE JobsTyped
  BY <1>9, Started DEF BeginComplete, JobsTyped
<1>10. ASSUME NEW w \in Worker, NEW c \in Copy, BeginRefused(w, c) \/ BeginErrors(w, c) PROVE JobsTyped
  BY <1>10, Untouched DEF BeginRefused, BeginErrors, JobsTyped
<1>11. ASSUME NEW w \in Worker, HandlerSucceeds(w) PROVE JobsTyped
  BY <1>11, Moved DEF HandlerSucceeds, InStage, Proceeds, JobsTyped, ClaimStages
<1>12. ASSUME NEW w \in Worker, HandlerFails(w) PROVE JobsTyped
  <2> PICK permanent \in BOOLEAN :
        job' = [job EXCEPT ![w].stage = "publishing",
                           ![w].target = failureRoute(job[w].attempt, permanent)]
    BY <1>12 DEF HandlerFails
  <2> DEFINE route == failureRoute(job[w].attempt, permanent)
             j == [job[w] EXCEPT !.stage = "publishing", !.target = route]
  <2>1. route \in {"retry", "dead"} /\ (route = "retry" => job[w].attempt < MaxAttempts)
    <3>1. job[w].attempt \in Attempt
      BY <1>12 DEF HandlerFails, InStage, Shape, TypeOK, JobType
    <3> QED
      BY <3>1, DeliveryAssumption DEF failureRoute, Attempt, DeliveryAssumption
  <2>2. /\ j \in JobType /\ j.stage = "publishing" /\ j.target = route
        /\ j.copy = job[w].copy /\ j.msg = job[w].msg /\ j.attempt = job[w].attempt
    <3> HIDE DEF route
    <3> QED
      BY <1>12, <2>1 DEF HandlerFails, InStage, Shape, TypeOK, JobType, ClaimStages, Parked
  <2>3. job' = [job EXCEPT ![w] = j]
    OBVIOUS
  <2> HIDE DEF j, route
  <2> QED
    BY <1>12, <2>1, <2>2, <2>3 DEF HandlerFails, InStage, Shape, TypeOK, RetriesLeft, JobStep, JobsTyped
<1>13. ASSUME NEW w \in Worker, CompleteSucceeds(w) PROVE JobsTyped
  BY <1>13, Moved DEF CompleteSucceeds, InStage, Proceeds, JobsTyped
<1>14. ASSUME NEW w \in Worker, CompleteLosesLease(w) \/ CompleteErrors(w) \/ Forget(w) \/ Nack(w) PROVE JobsTyped
  BY <1>14, Ended DEF CompleteLosesLease, CompleteErrors, Forget, Nack, Nacked, JobsTyped
<1>15. ASSUME NEW w \in Worker, PublishConfirmed(w) PROVE JobsTyped
  <2>1. \E stage \in {"acking", "recording"} : job' = [job EXCEPT ![w].stage = stage]
    BY <1>15 DEF PublishConfirmed, Proceeds
  <2> QED
    BY <1>15, <2>1, Moved DEF PublishConfirmed, InStage, JobsTyped, ClaimStages
<1>16. ASSUME NEW w \in Worker, PublishFails(w) PROVE JobsTyped
  <2>1. \E stage \in {"nacking", "forgetting"} : job' = [job EXCEPT ![w].stage = stage]
    BY <1>16 DEF PublishFails, Proceeds
  <2> QED
    BY <1>16, <2>1, Moved DEF PublishFails, InStage, JobsTyped, ClaimStages
<1>17. ASSUME NEW w \in Worker, Record(w) PROVE JobsTyped
  BY <1>17, Moved DEF Record, InStage, Proceeds, JobsTyped
<1>18. ASSUME NEW w \in Worker, Ack(w) PROVE JobsTyped
  BY <1>18, Ended DEF Ack, JobsTyped
<1>19. ASSUME ExecuteLate PROVE JobsTyped
  BY <1>19, Untouched DEF ExecuteLate, JobsTyped
<1>20. ASSUME NEW w \in Worker, PublishRetries(w) PROVE JobsTyped
  BY <1>20, Untouched DEF PublishRetries, JobsTyped
<1>21. ASSUME UNCHANGED vars PROVE JobsTyped
  BY <1>21, Untouched DEF vars, JobsTyped
<1> QED
  BY <1>1, <1>2, <1>3, <1>4, <1>5, <1>6, <1>7, <1>8, <1>9, <1>10, <1>11, <1>12, <1>13, <1>14, <1>15, <1>16, <1>17, <1>18, <1>19, <1>20, <1>21
  DEF Next, Works, Receives

\* What a step leaves of everything else.
Recorded ==
  /\ inbox' \in [Message -> [Attempt -> RowType]]
  /\ late' \in SUBSET Statement
  /\ sent' \in [Message -> 0..MaxSends]
  /\ done \subseteq done' /\ done' \in SUBSET Message /\ failed' \in SUBSET Message
  /\ overrun' \in SUBSET (Message \X Attempt)

LEMMA OtherSteps ==
  ASSUME Shape, [Next]_vars
  PROVE  Recorded
<1>1. ASSUME NEW m \in Message, Send(m) PROVE Recorded
  BY <1>1, DeliveryAssumption DEF Recorded, Shape, TypeOK, Send, DeliveryAssumption
<1>2. ASSUME NEW m \in Message, NEW a \in Attempt, Lapse(m, a) PROVE Recorded
  <2> DEFINE r == [inbox[m][a] EXCEPT !.lapsed = TRUE]
  <2>1. r \in RowType
    <3>1. inbox[m][a] \in RowType \ {NoRow}
      BY <1>2 DEF Lapse, Shape, TypeOK, NoRow
    <3>2. CASE inbox[m][a].status = "processing"
      BY <3>1, <3>2 DEF RowType
    <3>3. CASE inbox[m][a].status = "completed"
      BY <3>1, <3>3 DEF RowType
    <3> QED
      BY <3>1, <3>2, <3>3 DEF RowType
  <2>2. inbox' = [inbox EXCEPT ![m][a] = r]
    BY <1>2 DEF Lapse
  <2> HIDE DEF r
  <2>3. inbox' \in [Message -> [Attempt -> RowType]]
    BY <2>1, <2>2, RowTyped DEF Shape
  <2>4. overrun' \in SUBSET (Message \X Attempt)
    BY <1>2 DEF Lapse, Shape, TypeOK
  <2> QED
    BY <1>2, <2>3, <2>4 DEF Lapse, Recorded, Shape, TypeOK
<1>3. ASSUME NEW m \in Message, NEW a \in Attempt, PurgeExpired(m, a) PROVE Recorded
  <2>1. NoRow \in RowType
    BY DEF RowType
  <2> QED
    BY <1>3, <2>1, RowTyped DEF PurgeExpired, Recorded, Shape, TypeOK
<1>4. ASSUME NEW c \in Copy, RetryExpires(c) PROVE Recorded
  BY <1>4 DEF Recorded, Shape, TypeOK, RetryExpires
<1>5. ASSUME NEW w \in Worker, Disconnect(w) \/ Crash(w) PROVE Recorded
  BY <1>5 DEF Recorded, Shape, TypeOK, Disconnect, Crash
<1>6. ASSUME NEW w \in Worker, NEW c \in Copy, Deliver(w, c) PROVE Recorded
  BY <1>6 DEF Recorded, Shape, TypeOK, Deliver
<1>7. ASSUME NEW w \in Worker, NEW c \in Copy, RejectMalformed(w, c) \/ BeginComplete(w, c) \/ BeginRefused(w, c) PROVE Recorded
  BY <1>7 DEF Recorded, Shape, TypeOK, RejectMalformed, BeginComplete, BeginRefused
<1>8. ASSUME NEW w \in Worker, NEW c \in Copy, Begin(w, c) \/ BeginErrors(w, c) PROVE Recorded
  <2>1. copy[c] # Gone
    BY <1>8, DeliveryAssumption DEF Begin, BeginErrors, Takes, Gone, DeliveryAssumption
  <2>2. copy[c].msg \in Message /\ copy[c].attempt \in Attempt /\ copy[c].hash \in Hash
    BY <2>1, CopyCases DEF Shape
  <2>3. Leased(w, copy[c].hash) \in RowType
    BY <2>2 DEF Leased, RowType
  <2>4. inbox' \in [Message -> [Attempt -> RowType]]
    <3>1. \/ inbox' = inbox
          \/ inbox' = [inbox EXCEPT ![copy[c].msg][copy[c].attempt] = Leased(w, copy[c].hash)]
      BY <1>8 DEF Begin, BeginErrors, BeginLeased
    <3>2. ASSUME NEW m \in Message, NEW a \in Attempt, NEW r \in RowType,
                 inbox' = [inbox EXCEPT ![m][a] = r]
          PROVE  inbox' \in [Message -> [Attempt -> RowType]]
      BY <3>2, RowTyped DEF Shape
    <3>3. inbox \in [Message -> [Attempt -> RowType]]
      BY DEF Shape, TypeOK
    <3> QED
      BY <2>2, <2>3, <3>1, <3>2, <3>3
  <2> QED
    BY <1>8, <2>4 DEF Recorded, Shape, TypeOK, Begin, BeginErrors
<1>9. ASSUME NEW w \in Worker, HandlerSucceeds(w) \/ HandlerFails(w) PROVE Recorded
  BY <1>9 DEF Recorded, Shape, TypeOK, HandlerSucceeds, HandlerFails, InStage, JobType
<1>10. ASSUME NEW w \in Worker, CompleteLosesLease(w) \/ PublishConfirmed(w) \/ PublishRetries(w)
                                   \/ PublishFails(w) \/ Nack(w) \/ Ack(w)
       PROVE  Recorded
  BY <1>10 DEF Recorded, Shape, TypeOK, CompleteLosesLease, PublishConfirmed, PublishRetries,
             PublishFails, Nack, Ack
<1>11. ASSUME NEW w \in Worker, CompleteSucceeds(w) \/ CompleteErrors(w) \/ Forget(w) \/ Record(w) PROVE Recorded
  <2>1. job[w] # None
    BY <1>11 DEF CompleteSucceeds, CompleteErrors, Forget, Record, InStage
  <2>2. /\ StatementOf(w, "complete") \in Statement
        /\ StatementOf(w, "forget") \in Statement
    BY <2>1, StatementTyped DEF Shape
  <2>3. /\ Executed(StatementOf(w, "complete")) \in [Message -> [Attempt -> RowType]]
        /\ Executed(StatementOf(w, "forget")) \in [Message -> [Attempt -> RowType]]
    BY <2>2, ExecutedRows DEF Shape
  <2> QED
    BY <1>11, <2>2, <2>3 DEF Recorded, Shape, TypeOK, CompleteSucceeds, CompleteErrors, Forget, Record
<1>12. ASSUME ExecuteLate PROVE Recorded
  BY <1>12, ExecutedRows DEF Recorded, Shape, TypeOK, ExecuteLate
<1>13. ASSUME UNCHANGED vars PROVE Recorded
  BY <1>13 DEF Recorded, Shape, TypeOK, vars
<1> QED
  BY <1>1, <1>2, <1>3, <1>4, <1>5, <1>6, <1>7, <1>8, <1>9, <1>10, <1>11, <1>12, <1>13 DEF Next, Works, Receives

\* A job's copy, while it is held, stays the one the job is for.
LEMMA ShapeStep ==
  ASSUME Shape, [Next]_vars
  PROVE  Shape'
<1>1. /\ CopyStep /\ JobsTyped /\ Recorded
      /\ copy' \in [Copy -> CopyType] /\ Held'
  BY CopySteps, CopyTyping, JobSteps, OtherSteps
<1>2. TypeOK' /\ RetriesLeft'
  BY <1>1 DEF TypeOK, JobsTyped, Recorded
<1>3. ASSUME NEW w \in Worker, NEW c \in Copy, job'[w] # None,
             c = job'[w].copy, copy'[c].holder = w
      PROVE  copy'[c].msg = job'[w].msg /\ copy'[c].attempt = job'[w].attempt
  <2>1. CASE copy' = copy /\ copy[c].holder = w /\ job'[w].msg = copy[c].msg
             /\ job'[w].attempt = copy[c].attempt
    BY <2>1
  <2>2. CASE /\ job[w] # None /\ job'[w].copy = job[w].copy
             /\ job'[w].msg = job[w].msg /\ job'[w].attempt = job[w].attempt
    <3>1. CASE copy[c].holder = w
      <4>1. copy[c] # Gone
        BY <3>1, DeliveryAssumption DEF Gone, DeliveryAssumption
      <4>2. ~ \E v \in Worker : Acked(v) /\ c = job[v].copy
        <5> SUFFICES ASSUME NEW v \in Worker, Acked(v), c = job[v].copy PROVE FALSE
          OBVIOUS
        <5>1. copy'[c].holder = None
          BY DEF Acked, Shape, TypeOK, Gone
        <5> QED
          BY <1>3, <5>1, DeliveryAssumption DEF DeliveryAssumption
      <4> QED
        BY <1>1, <1>3, <2>2, <3>1, <4>1, <4>2, CopiesPersist DEF Shape, Attached
    <3>2. CASE copy[c].holder # w
      <4>1. CASE copy' = copy
        BY <1>3, <3>2, <4>1
      <4>2. CASE Placed
        BY <1>3, <3>2, <4>2, DeliveryAssumption DEF Placed, At, Shape, TypeOK, DeliveryAssumption
      <4>3. CASE \E v \in Worker : copy' = SessionEnded(v)
        BY <1>3, <3>2, <4>3, SessionEndedCopies, DeliveryAssumption DEF Shape, DeliveryAssumption
      <4>4. CASE \E k \in Copy : RetryExpires(k)
        BY <1>3, <3>2, <4>4, CopyCases DEF RetryExpires, Shape, TypeOK, Gone
      <4>5. ASSUME NEW v \in Worker, NEW k \in Copy, Deliver(v, k) PROVE FALSE
        <5>1. k = c /\ v = w
          BY <1>3, <3>2, <4>5, CopyCases DEF Deliver, Shape, TypeOK, Gone
        <5> QED
          BY <1>3, <2>2, <3>2, <4>5, <5>1 DEF Deliver, Connected
      <4>6. CASE \E v \in Worker : Acked(v)
        BY <1>3, <3>2, <4>6, DeliveryAssumption DEF Acked, Gone, Shape, TypeOK, DeliveryAssumption
      <4> QED
        BY <1>1, <4>1, <4>2, <4>3, <4>4, <4>5, <4>6 DEF CopyStep
    <3> QED
      BY <3>1, <3>2
  <2> QED
    BY <1>1, <1>3, <2>1, <2>2 DEF JobsTyped, JobStep
<1>4. Attached'
  <2>1. \A w \in Worker : job'[w] # None => job'[w].copy \in Copy
    BY <1>2 DEF TypeOK, JobType
  <2> QED
    BY <1>3, <2>1 DEF Attached
<1> QED
  BY <1>1, <1>2, <1>4 DEF Shape
-----------------------------------------------------------------------------
(* Nothing that justifies the end of an attempt is ever wrong. *)

LEMMA AllKept ==
  ASSUME IInv, [Next]_vars
  PROVE  \A m \in Message, a \in Attempt \cup {0} : Kept(m, a) => Kept(m, a)'
  BY CopySteps, OtherSteps, KeptStable DEF IInv, Recorded

\* A row is completed by a job, or a late statement, of an attempt that is kept.
LEMMA RowsStep ==
  ASSUME IInv, [Next]_vars
  PROVE  RowsKept'
<1> DEFINE Rows == \A m \in Message, a \in Attempt :
                     inbox'[m][a].status = "completed"
                       => inbox[m][a].status = "completed" \/ Kept(m, a)
<1> HIDE DEF Rows
<1>1. ASSUME inbox' = inbox PROVE Rows
  BY <1>1 DEF Rows
<1>2. ASSUME NEW m \in Message, NEW a \in Attempt, Lapse(m, a) \/ PurgeExpired(m, a) PROVE Rows
  <2>1. /\ inbox \in [Message -> [Attempt -> RowType]]
        /\ inbox[m][a] \in RowType /\ NoRow.status # "completed"
        /\ [inbox[m][a] EXCEPT !.lapsed = TRUE].status = inbox[m][a].status
    BY DEF IInv, Shape, TypeOK, RowType, NoRow
  <2>2. PICK r : /\ inbox' = [inbox EXCEPT ![m][a] = r]
                 /\ r.status = "completed" => inbox[m][a].status = "completed"
    <3>1. CASE Lapse(m, a)
      BY <2>1, <3>1 DEF Lapse
    <3>2. CASE PurgeExpired(m, a)
      BY <2>1, <3>2 DEF PurgeExpired
    <3> QED
      BY <1>2, <3>1, <3>2
  <2>3. ASSUME NEW n \in Message, NEW b \in Attempt, inbox'[n][b].status = "completed"
        PROVE  inbox[n][b].status = "completed"
    BY <2>1, <2>2, <2>3
  <2> QED
    BY <2>3 DEF Rows
<1>3. ASSUME NEW w \in Worker, NEW c \in Copy, Begin(w, c) \/ BeginErrors(w, c) PROVE Rows
  <2>1. Leased(w, copy[c].hash).status # "completed"
    BY DEF Leased
  <2>2. \/ inbox' = inbox
        \/ inbox' = [inbox EXCEPT ![copy[c].msg][copy[c].attempt] = Leased(w, copy[c].hash)]
    BY <1>3 DEF Begin, BeginErrors, BeginLeased
  <2>3. inbox \in [Message -> [Attempt -> RowType]]
    BY DEF IInv, Shape, TypeOK
  <2> HIDE DEF Leased
  <2>4. ASSUME NEW m \in Message, NEW a \in Attempt, inbox'[m][a].status = "completed"
        PROVE  inbox[m][a].status = "completed"
    BY <2>1, <2>2, <2>3, <2>4
  <2> QED
    BY <2>4 DEF Rows
<1>4. ASSUME NEW w \in Worker, CompleteSucceeds(w) \/ Forget(w) \/ Record(w) PROVE Rows
  <2>1. job[w] # None
    BY <1>4 DEF CompleteSucceeds, Forget, Record, InStage
  <2>2. \/ inbox' = inbox
        \/ inbox' = Executed(StatementOf(w, "forget"))
        \/ /\ inbox' = Executed(StatementOf(w, "complete"))
           /\ job[w].stage \in {"completing", "recording"}
    BY <1>4 DEF CompleteSucceeds, Forget, Record, InStage
  <2>3. job[w].stage \in {"completing", "recording"} => Kept(job[w].msg, job[w].attempt)
    BY <2>1 DEF IInv, JobsKept, Kept
  <2>4. /\ StatementOf(w, "complete") \in Statement /\ StatementOf(w, "forget") \in Statement
        /\ StatementOf(w, "complete").msg = job[w].msg
        /\ StatementOf(w, "complete").attempt = job[w].attempt
        /\ StatementOf(w, "forget").op # "complete"
    BY <2>1, StatementTyped DEF IInv, Shape
  <2> HIDE DEF StatementOf, Kept
  <2> QED
    BY <2>2, <2>3, <2>4, ExecutedRows DEF IInv, Shape, Rows
<1>5. ASSUME ExecuteLate PROVE Rows
  BY <1>5, ExecutedRows DEF ExecuteLate, IInv, Shape, TypeOK, LateKept, Rows
<1>6. Rows
  <2>1. \/ inbox' = inbox
        \/ \E m \in Message, a \in Attempt : Lapse(m, a) \/ PurgeExpired(m, a)
        \/ \E w \in Worker, c \in Copy : Begin(w, c) \/ BeginErrors(w, c)
        \/ \E w \in Worker : CompleteSucceeds(w) \/ Forget(w) \/ Record(w)
        \/ ExecuteLate
    BY DEF Next, Works, Receives, Send, RetryExpires, Disconnect, Crash, Deliver,
           RejectMalformed, BeginComplete, BeginRefused, HandlerSucceeds, HandlerFails,
           CompleteLosesLease, CompleteErrors, PublishConfirmed, PublishRetries, PublishFails, Nack, Ack, vars
  <2> QED
    BY <1>1, <1>2, <1>3, <1>4, <1>5, <2>1
<1>7. \A m \in Message, a \in Attempt : inbox'[m][a].status = "completed" => Kept(m, a)
  BY <1>6 DEF Rows, IInv, RowsKept
<1> QED
  BY <1>7, AllKept DEF RowsKept

\* So is what a late statement will complete.
LEMMA LateStep ==
  ASSUME IInv, [Next]_vars
  PROVE  LateKept'
<1>1. ASSUME NEW q \in late', q \notin late, q.op = "complete" PROVE Kept(q.msg, q.attempt)
  <2>1. PICK w \in Worker : /\ CompleteErrors(w) \/ Forget(w) \/ Record(w)
                            /\ late' # late
    <3>1. \/ late' \subseteq late
          \/ \E w \in Worker : CompleteErrors(w) \/ Forget(w) \/ Record(w)
      BY DEF Next, Works, Receives, Send, RetryExpires, Disconnect, Crash, Deliver, Lapse,
             PurgeExpired, Begin, BeginErrors, RejectMalformed, BeginComplete, BeginRefused,
             HandlerSucceeds, HandlerFails, CompleteSucceeds, CompleteLosesLease,
             PublishConfirmed, PublishRetries, PublishFails, Nack, Ack, ExecuteLate, vars
    <3> QED
      BY <1>1, <3>1
  <2>2. job[w] # None
    BY <2>1 DEF CompleteErrors, Forget, Record, InStage
  <2>3. /\ StatementOf(w, "complete").msg = job[w].msg
        /\ StatementOf(w, "complete").attempt = job[w].attempt
        /\ StatementOf(w, "forget").op = "forget"
    BY <2>2, StatementTyped DEF IInv, Shape
  <2>4. /\ q = StatementOf(w, "complete")
        /\ job[w].stage \in {"completing", "recording"}
    BY <1>1, <2>1, <2>3 DEF CompleteErrors, Forget, Record, InStage
  <2> HIDE DEF StatementOf
  <2> QED
    BY <2>2, <2>3, <2>4 DEF IInv, JobsKept, Kept
<1>2. \A q \in late' : q.op = "complete" => Kept(q.msg, q.attempt)
  BY <1>1 DEF IInv, LateKept
<1>3. \A q \in late' : q.msg \in Message /\ q.attempt \in Attempt
  BY OtherSteps DEF IInv, Recorded, Statement
<1> QED
  BY <1>2, <1>3, AllKept DEF LateKept

\* A job comes to its end on the inbox row of its own or of an earlier run of
\* its attempt, after a success, or after the broker has taken its successor.
LEMMA JobKeptStep ==
  ASSUME IInv, [Next]_vars, NEW w \in Worker, job'[w] # None,
         NEW m \in Message, m = job'[w].msg, NEW a \in Attempt, a = job'[w].attempt
  PROVE  /\ Kept(m, 0)'
         /\ job'[w].stage = "completing" => m \in done'
         /\ job'[w].stage \in {"recording", "acking"} => Kept(m, a)'
<1> DEFINE Stages == /\ job'[w].stage = "completing" => m \in done'
                     /\ job'[w].stage \in {"recording", "acking"} => Kept(m, a) \/ Kept(m, a)'
<1> HIDE DEF Stages
<1>1. /\ JobsTyped /\ Recorded /\ Shape /\ JobsKept
      /\ job \in [Worker -> JobType \cup {None}]
  BY JobSteps, OtherSteps DEF IInv, Shape, TypeOK
<1>2. ASSUME job' = job PROVE Stages
  BY <1>1, <1>2 DEF JobsKept, Recorded, Stages
<1>3. ASSUME NEW c \in Copy, RejectMalformed(w, c) \/ Begin(w, c) PROVE Stages
  BY <1>1, <1>3 DEF RejectMalformed, Begin, JobOn, Stages
<1>4. ASSUME NEW c \in Copy, BeginComplete(w, c) PROVE Stages
  <2>1. /\ copy[c] # Gone /\ job'[w] = JobOn(c, "acking", "retry")
        /\ RowOf(c).status = "completed"
    BY <1>1, <1>4, DeliveryAssumption DEF BeginComplete, Takes, Gone, DeliveryAssumption
  <2>2. Kept(copy[c].msg, copy[c].attempt)
    BY <1>1, <2>1, CopyCases DEF RowOf, IInv, RowsKept, Shape
  <2> QED
    BY <2>1, <2>2 DEF JobOn, Stages
<1>5. ASSUME HandlerSucceeds(w) PROVE Stages
  BY <1>1, <1>5 DEF HandlerSucceeds, Proceeds, InStage, JobType, Stages
<1>6. ASSUME HandlerFails(w) \/ PublishFails(w) PROVE Stages
  <2>1. job'[w].stage \in {"publishing", "nacking", "forgetting"}
    BY <1>1, <1>6 DEF HandlerFails, PublishFails, Proceeds, InStage, JobType
  <2> QED
    BY <2>1 DEF Stages
<1>7. ASSUME CompleteSucceeds(w) \/ Record(w) PROVE Stages
  <2>1. /\ job[w] # None /\ job[w].stage \in {"completing", "recording"}
        /\ job'[w].stage = "acking" /\ m = job[w].msg /\ a = job[w].attempt
    BY <1>1, <1>7 DEF CompleteSucceeds, Record, Proceeds, InStage, JobType
  <2> QED
    BY <1>1, <2>1 DEF JobsKept, Kept, Stages
<1>8. ASSUME PublishConfirmed(w) PROVE Stages
  <2>1. PICK c \in Copy, h \in Hash : Accepts(w, c, h)
    BY <1>8 DEF PublishConfirmed
  <2>2. /\ job[w] \in JobType /\ job'[w].stage \in {"acking", "recording"}
        /\ m = job[w].msg /\ a = job[w].attempt
    BY <1>1, <1>8 DEF PublishConfirmed, Proceeds, InStage, JobType
  <2>3. /\ copy'[c].msg = m /\ copy'[c].place = job[w].target
        /\ job[w].target = "retry" => copy'[c].attempt = a + 1
    BY <1>1, <2>1, <2>2 DEF Accepts, At, Shape, TypeOK
  <2>4. job[w].target \in {"retry"} \cup Parked /\ a \in Nat
    BY <2>2, DeliveryAssumption DEF JobType, Attempt, DeliveryAssumption
  <2>5. \/ copy'[c].place \in Parked
        \/ copy'[c].place \in Live /\ copy'[c].attempt > a
    BY <2>3, <2>4 DEF Live
  <2>6. Kept(m, a)'
    BY <2>3, <2>5 DEF Kept
  <2> QED
    BY <2>2, <2>6 DEF Stages
<1>9. Stages
  <2> DEFINE Mine(v) == v = w \/ job'[w] = job[w]
  <2>1. CASE job'[w] = job[w]
    BY <1>1, <2>1 DEF JobsKept, Recorded, Stages
  <2>2. ASSUME NEW v \in Worker, CompleteLosesLease(v) \/ CompleteErrors(v) \/ Forget(v)
                                  \/ Nack(v) \/ Ack(v) \/ Crash(v)
        PROVE  job'[w] = job[w]
    BY <1>1, <2>2 DEF CompleteLosesLease, CompleteErrors, Forget, Nack, Nacked, Ack, Crash
  <2>3. ASSUME NEW v \in Worker, NEW c \in Copy,
               RejectMalformed(v, c) \/ Begin(v, c) \/ BeginComplete(v, c)
        PROVE  Mine(v)
    BY <1>1, <2>3 DEF RejectMalformed, Begin, BeginComplete
  <2>4. ASSUME NEW v \in Worker, HandlerSucceeds(v) \/ HandlerFails(v) \/ CompleteSucceeds(v)
               \/ PublishConfirmed(v) \/ PublishFails(v) \/ Record(v)
        PROVE  Mine(v)
    BY <1>1, <2>4 DEF HandlerSucceeds, HandlerFails, CompleteSucceeds, PublishConfirmed,
       PublishFails, Record, Proceeds
  <2>5. \/ job' = job
        \/ \E v \in Worker :
             \/ CompleteLosesLease(v) \/ CompleteErrors(v) \/ Forget(v)
             \/ Nack(v) \/ Ack(v) \/ Crash(v)
             \/ \E c \in Copy : RejectMalformed(v, c) \/ Begin(v, c) \/ BeginComplete(v, c)
             \/ HandlerSucceeds(v) \/ HandlerFails(v) \/ CompleteSucceeds(v)
             \/ PublishConfirmed(v) \/ PublishFails(v) \/ Record(v)
    BY DEF Next, Works, Receives, Send, RetryExpires, Disconnect, Deliver, Lapse, PurgeExpired,
       BeginErrors, BeginRefused, PublishRetries, ExecuteLate, vars
  <2> QED
    BY <1>2, <1>3, <1>4, <1>5, <1>6, <1>7, <1>8, <2>1, <2>2, <2>3, <2>4, <2>5
<1>10. Kept(m, 0)
  <2>1. CASE job[w] # None /\ m = job[w].msg
    BY <1>1, <2>1 DEF JobsKept
  <2>2. ASSUME NEW c \in Copy, copy[c].holder = w, m = copy[c].msg PROVE Kept(m, 0)
    <3>1. copy[c] # Gone
      BY <2>2, DeliveryAssumption DEF Gone, DeliveryAssumption
    <3> QED
      BY <1>1, <2>2, <3>1, CopyCases, DeliveryAssumption DEF Kept, Attempt, Shape, DeliveryAssumption
  <2> QED
    BY <1>1, <2>1, <2>2 DEF JobsTyped, JobStep
<1> QED
  BY <1>9, <1>10, AllKept DEF Stages

LEMMA JobsKeptStep ==
  ASSUME IInv, [Next]_vars
  PROVE  JobsKept'
<1>1. ASSUME NEW w \in Worker, job'[w] # None
      PROVE  job'[w].msg \in Message /\ job'[w].attempt \in Attempt
  BY <1>1, JobSteps DEF IInv, JobsTyped, JobType
<1> QED
  BY <1>1, JobKeptStep DEF JobsKept

\* A publication of a producer is one more copy.
LEMMA SentStep ==
  ASSUME IInv, [Next]_vars
  PROVE  NothingIsLost'
<1>1. ASSUME NEW m \in Message, NEW n \in Message, Send(n), m = n
      PROVE  Kept(m, 0)'
  <2>1. PICK c \in Copy, h \in Hash :
          copy[c] = Gone /\ copy' = [copy EXCEPT ![c] = At("primary", n, 1, h)]
    BY <1>1 DEF Send
  <2>2. copy'[c].msg = m /\ copy'[c].place = "primary" /\ copy'[c].attempt = 1
    BY <1>1, <2>1 DEF At, IInv, Shape, TypeOK
  <2> QED
    BY <2>2 DEF Kept, Live
<1>2. ASSUME NEW m \in Message, sent'[m] = sent[m], sent'[m] > 0
      PROVE  Kept(m, 0)'
  BY <1>2, AllKept DEF IInv, NothingIsLost
<1>3. \/ sent' = sent
      \/ \E n \in Message : Send(n) /\ sent' = [sent EXCEPT ![n] = @ + 1]
  BY DEF Next, Works, Receives, Send, RetryExpires, Disconnect, Crash, Deliver, Lapse,
         PurgeExpired, Begin, BeginErrors, RejectMalformed, BeginComplete, BeginRefused,
         HandlerSucceeds, HandlerFails, CompleteSucceeds, CompleteLosesLease, CompleteErrors,
         PublishConfirmed, PublishRetries, PublishFails, Forget, Record, Nack, Ack, ExecuteLate, vars
<1>4. sent \in [Message -> 0..MaxSends]
  BY DEF IInv, Shape, TypeOK
<1> QED
  BY <1>1, <1>2, <1>3, <1>4 DEF NothingIsLost

-----------------------------------------------------------------------------
\* No message the broker took is lost, whatever fails: queue.go processDelivery.
THEOREM InductiveInvariant == Spec => []IInv
<1>1. Init => IInv
  <2> SUFFICES ASSUME Init PROVE IInv
    OBVIOUS
  <2>1. TypeOK
    BY DeliveryAssumption DEF Init, TypeOK, CopyType, RowType, DeliveryAssumption
  <2>2. Held /\ Attached /\ RetriesLeft /\ JobsKept
    BY DEF Init, Held, Attached, RetriesLeft, JobsKept, InStage, Gone
  <2>3. RowsKept /\ LateKept /\ NothingIsLost
    BY DEF Init, RowsKept, LateKept, NothingIsLost, NoRow
  <2> QED
    BY <2>1, <2>2, <2>3 DEF IInv, Shape
<1>2. IInv /\ [Next]_vars => IInv'
  BY ShapeStep, JobsKeptStep, RowsStep, LateStep, SentStep DEF IInv
<1> QED
  BY <1>1, <1>2, PTL DEF Spec

\* Every state is well typed; in particular no attempt exceeds MaxAttempts.
THEOREM TypeCorrect == Spec => []TypeOK
<1>1. IInv => TypeOK
  BY DEF IInv, Shape
<1> QED
  BY <1>1, InductiveInvariant, PTL

\* What the broker has taken is kept until a handler succeeded with it.
THEOREM NoLoss == Spec => []NothingIsLost
<1>1. IInv => NothingIsLost
  BY DEF IInv
<1> QED
  BY <1>1, InductiveInvariant, PTL

-----------------------------------------------------------------------------
(* Every step is one of AtLeastOnce, or leaves what it talks of alone. *)

LEMMA UnsentIsUnkept ==
  ASSUME TypeOK, NEW m \in Message
  PROVE  Kept(m, 0) <=> StatusOf(m) # "unsent"
<1>1. \A c \in Copy : copy[c].msg = m => /\ copy[c].place \in Live \cup Parked
                                        /\ copy[c].attempt > 0
  BY CopyCases, DeliveryAssumption DEF Gone, Attempt, DeliveryAssumption
<1> QED
  BY <1>1 DEF Kept, StatusOf

Status == [m \in Message |-> StatusOf(m)]

\* A session, an acknowledgement or a job never takes a message back to where
\* AtLeastOnce would not let it be.
LEMMA StatusSteps ==
  ASSUME IInv, [Next]_vars, done' = done, NEW m \in Message
  PROVE  /\ StatusOf(m) = "succeeded" => StatusOf(m)' = "succeeded"
         /\ StatusOf(m) = "parked" => StatusOf(m)' = "parked"
         /\ StatusOf(m) = "owed" => StatusOf(m)' \in {"owed", "parked"}
<1>1. Shape /\ CopyStep /\ TypeOK' /\ TypeOK
  BY CopySteps, ShapeStep DEF IInv, Shape
<1>2. StatusOf(m) = "succeeded" <=> m \in done
  BY DEF StatusOf
<1>3. StatusOf(m)' = "succeeded" <=> m \in done
  BY DEF StatusOf
<1>4. ASSUME StatusOf(m) = "parked" PROVE StatusOf(m)' = "parked"
  <2>1. PICK c \in Copy : copy[c].msg = m /\ copy[c].place \in Parked
    BY <1>4 DEF StatusOf
  <2>2. copy[c] # Gone
    BY <2>1 DEF Gone, Parked
  <2>3. ~ \E w \in Worker : Acked(w) /\ c = job[w].copy
    BY <1>1, <2>1, DeliveryAssumption DEF Acked, Shape, Held, Parked, DeliveryAssumption
  <2>4. copy'[c].msg = m /\ copy'[c].place \in Parked
    BY <1>1, <2>1, <2>2, <2>3, CopiesPersist
  <2> QED
    BY <1>2, <1>3, <1>4, <2>4 DEF StatusOf
<1>5. ASSUME StatusOf(m) = "owed" PROVE StatusOf(m)' \in {"owed", "parked"}
  <2>1. Kept(m, 0)
    BY <1>1, <1>5, UnsentIsUnkept
  <2>2. Kept(m, 0)'
    BY <2>1, AllKept
  <2>3. m \notin done
    BY <1>2, <1>5
  <2>4. \E c \in Copy : copy'[c].msg = m
    BY <2>2, <2>3 DEF Kept
  <2> QED
    BY <2>3, <2>4 DEF StatusOf
<1> QED
  BY <1>2, <1>3, <1>4, <1>5

\* Only a producer's publication makes the queue owe a message.
LEMMA UnsentStays ==
  ASSUME IInv, [Next]_vars, done' = done, ~ \E n \in Message : Send(n),
         NEW m \in Message, StatusOf(m) = "unsent"
  PROVE  StatusOf(m)' = "unsent"
<1>1. Shape /\ CopyStep /\ TypeOK /\ JobsKept
  BY CopySteps DEF IInv, Shape
<1>2. m \notin done /\ \A c \in Copy : copy[c].msg # m
  BY DEF StatusOf
<1>3. \A w \in Worker : job[w] # None => job[w].msg # m
  BY <1>1, UnsentIsUnkept DEF JobsKept
<1>4. \/ \E w \in Worker, c \in Copy, h \in Hash : Accepts(w, c, h) /\ job[w] # None
      \/ copy' = copy
      \/ \E w \in Worker : copy' = SessionEnded(w)
      \/ \E c \in Copy : RetryExpires(c)
      \/ \E w \in Worker, c \in Copy : Deliver(w, c)
      \/ \E w \in Worker : Ack(w)
  BY DEF Next, Works, Receives, Disconnect, Crash, Lapse, PurgeExpired, Begin, BeginErrors,
         RejectMalformed, BeginComplete, BeginRefused, HandlerSucceeds, HandlerFails,
         CompleteSucceeds, CompleteLosesLease, CompleteErrors, PublishConfirmed,
         PublishRetries, PublishFails, Forget, Record, Nack, Nacked, InStage, ExecuteLate, vars
<1>5. \A c \in Copy : copy'[c].msg # m
  <2>1. ASSUME NEW w \in Worker, NEW k \in Copy, NEW h \in Hash, Accepts(w, k, h), job[w] # None
        PROVE  \A c \in Copy : copy'[c].msg # m
    BY <1>1, <1>2, <1>3, <2>1 DEF Accepts, At, TypeOK
  <2>2. CASE copy' = copy
    BY <1>2, <2>2
  <2>3. ASSUME NEW w \in Worker, copy' = SessionEnded(w)
        PROVE  \A c \in Copy : copy'[c].msg # m
    BY <1>1, <1>2, <2>3, SessionEndedCopies DEF Shape
  <2>4. ASSUME NEW k \in Copy, RetryExpires(k) PROVE \A c \in Copy : copy'[c].msg # m
    BY <1>1, <1>2, <2>4, CopyCases DEF RetryExpires, TypeOK, Gone
  <2>5. ASSUME NEW w \in Worker, NEW k \in Copy, Deliver(w, k)
        PROVE  \A c \in Copy : copy'[c].msg # m
    BY <1>1, <1>2, <2>5, CopyCases DEF Deliver, TypeOK, Gone
  <2>6. ASSUME NEW w \in Worker, Ack(w) PROVE \A c \in Copy : copy'[c].msg # m
    <3>1. Gone.msg # m
      BY DeliveryAssumption DEF Gone, DeliveryAssumption
    <3> QED
      BY <1>1, <1>2, <2>6, <3>1 DEF Ack, TypeOK
  <2> QED
    BY <1>4, <2>1, <2>2, <2>3, <2>4, <2>5, <2>6
<1> QED
  BY <1>2, <1>5 DEF StatusOf

\* Delivery implements AtLeastOnce.
THEOREM Refinement == Spec => KeepsPromise
<1>1. Init => Promise!Init
  BY DeliveryAssumption DEF Init, Promise!Init, StatusOf, Gone, DeliveryAssumption
<1>2. ASSUME IInv, [Next]_vars PROVE [Promise!Next]_Status
  <2>1. Shape /\ TypeOK /\ JobsKept
    BY <1>2 DEF IInv, Shape
  <2>2. CASE \E n \in Message : Send(n)
    <3> PICK n \in Message : Send(n)
      BY <2>2
    <3>1. PICK c \in Copy, h \in Hash :
            copy[c] = Gone /\ copy' = [copy EXCEPT ![c] = At("primary", n, 1, h)]
      BY DEF Send
    <3>2. done' = done
      BY DEF Send
    <3>3. /\ copy'[c].msg = n /\ copy'[c].place = "primary"
          /\ \A k \in Copy : k # c => copy'[k] = copy[k]
          /\ copy[c].msg = None
      BY <2>1, <3>1 DEF At, TypeOK, Gone
    <3>4. \A m \in Message : m # n => StatusOf(m)' = StatusOf(m)
      BY <3>2, <3>3, DeliveryAssumption DEF StatusOf, DeliveryAssumption
    <3>5. StatusOf(n)' = IF StatusOf(n) = "unsent" THEN "owed" ELSE StatusOf(n)
      BY <3>2, <3>3, DeliveryAssumption DEF StatusOf, Parked, DeliveryAssumption
    <3>6. Status' = [Status EXCEPT ![n] = StatusOf(n)']
      BY <2>1, <3>4 DEF Status
    <3>7. CASE StatusOf(n) = "unsent"
      BY <3>5, <3>6, <3>7 DEF Status, Promise!Next, Promise!Accept
    <3>8. CASE StatusOf(n) # "unsent"
      BY <2>1, <3>5, <3>6, <3>8 DEF Status
    <3> QED
      BY <3>7, <3>8
  <2>3. CASE \E w \in Worker : HandlerSucceeds(w)
    <3> PICK w \in Worker : HandlerSucceeds(w)
      BY <2>3
    <3> PICK n \in Message : n = job[w].msg
      BY <2>1 DEF HandlerSucceeds, InStage, TypeOK, JobType
    <3>1. job[w] # None /\ copy' = copy /\ done' = done \cup {n}
      BY DEF HandlerSucceeds, InStage
    <3>2. StatusOf(n) # "unsent" /\ StatusOf(n) \in {"owed", "parked", "succeeded", "unsent"}
      BY <2>1, <3>1, UnsentIsUnkept DEF JobsKept, StatusOf
    <3>3. /\ \A m \in Message : m # n => StatusOf(m)' = StatusOf(m)
          /\ StatusOf(n)' = "succeeded"
      BY <3>1 DEF StatusOf
    <3>4. Status' = [Status EXCEPT ![n] = "succeeded"]
      BY <2>1, <3>1, <3>3 DEF Status
    <3>5. CASE StatusOf(n) = "succeeded"
      BY <2>1, <3>1, <3>4, <3>5 DEF Status
    <3>6. CASE StatusOf(n) # "succeeded"
      BY <3>1, <3>2, <3>4, <3>6 DEF Status, Promise!Next, Promise!Succeed
    <3> QED
      BY <3>5, <3>6
  <2>4. CASE done' = done /\ ~ \E n \in Message : Send(n)
    <3> DEFINE ms == {m \in Message : StatusOf(m) = "owed" /\ StatusOf(m)' = "parked"}
    <3>1. \A m \in Message : StatusOf(m)' = IF m \in ms THEN "parked" ELSE StatusOf(m)
      <4> TAKE m \in Message
      <4>1. StatusOf(m) \in {"owed", "parked", "succeeded", "unsent"}
        BY DEF StatusOf
      <4> QED
        BY <1>2, <2>4, <4>1, StatusSteps, UnsentStays
    <3>2. Status' = [m \in Message |-> IF m \in ms THEN "parked" ELSE Status[m]]
      BY <3>1 DEF Status
    <3>3. ms \in SUBSET Message /\ \A m \in ms : Status[m] = "owed"
      BY DEF Status
    <3> HIDE DEF ms
    <3> QED
      BY <3>2, <3>3 DEF Promise!Next, Promise!Park, Status
  <2>5. \/ done' = done
        \/ \E w \in Worker : HandlerSucceeds(w)
    BY <1>2 DEF Next, Works, Receives, Send, RetryExpires, Disconnect, Crash, Deliver, Lapse,
       PurgeExpired, Begin, BeginErrors, RejectMalformed, BeginComplete, BeginRefused,
       HandlerFails, CompleteSucceeds, CompleteLosesLease, CompleteErrors,
       PublishConfirmed, PublishRetries, PublishFails, Forget, Record, Nack, Ack, ExecuteLate, vars
  <2> QED
    BY <2>2, <2>3, <2>4, <2>5
<1> QED
  BY <1>1, <1>2, InductiveInvariant, PTL DEF Spec, KeepsPromise, Promise!Spec, Status

-----------------------------------------------------------------------------
(* Who relies on the lease of an attempt: a job from Begin to the inbox's    *)
(* last word, or the statement it left behind.  Until the lease lapses under *)
(* it there is one claim at most, and the row is its own.                    *)

Claiming(w) ==
  /\ job[w] # None /\ job[w].stage \in ClaimStages
  /\ job[w].stage = "publishing" => job[w].target # "quarantine"

Claim == [by : Worker, hash : Hash, from : {"job", "complete", "forget"}]

Claims(m, a) ==
  {c \in Claim :
     \/ /\ c.from = "job" /\ Claiming(c.by)
        /\ job[c.by].msg = m /\ job[c.by].attempt = a /\ job[c.by].hash = c.hash
     \/ [op |-> c.from, by |-> c.by, msg |-> m, attempt |-> a, hash |-> c.hash] \in late}

Owns(c, m, a) ==
  LET r == inbox[m][a]
  IN  r.status = "processing" /\ r.owner = c.by /\ r.hash = c.hash /\ ~ r.lapsed

Sole(m, a) ==
  <<m, a>> \notin overrun =>
    \A c \in Claims(m, a) : Owns(c, m, a) /\ \A d \in Claims(m, a) : d = c

SoleClaims == \A m \in Message, a \in Attempt : Sole(m, a)

\* What a step may do to the claims on an attempt.
Leaves(m, a) == inbox'[m][a] = inbox[m][a] /\ Claims(m, a)' \subseteq Claims(m, a)

Settles(m, a) == \E c \in Claims(m, a) : Claims(m, a)' \subseteq Claims(m, a) \ {c}

HandsOver(m, a) ==
  /\ inbox'[m][a] = inbox[m][a]
  /\ \E c \in Claims(m, a), d \in Claim :
       /\ d.by = c.by /\ d.hash = c.hash
       /\ Claims(m, a)' \subseteq (Claims(m, a) \ {c}) \cup {d}

Leases(m, a) ==
  /\ inbox[m][a].status = "none" \/ inbox[m][a].lapsed
  /\ \E c \in Claim : /\ inbox'[m][a] = Leased(c.by, c.hash)
                      /\ Claims(m, a)' \subseteq Claims(m, a) \cup {c}

Expires(m, a) ==
  \/ <<m, a>> \in overrun'
  \/ inbox[m][a].status = "completed" /\ Claims(m, a)' \subseteq Claims(m, a)
  \/ Claims(m, a)' = {}

ClaimStep ==
  /\ overrun \subseteq overrun'
  /\ \A m \in Message, a \in Attempt :
       \/ Leaves(m, a) \/ Settles(m, a) \/ HandsOver(m, a) \/ Leases(m, a) \/ Expires(m, a)

LEMMA SoleClaimsFollow ==
  ASSUME SoleClaims, ClaimStep
  PROVE  SoleClaims'
<1> SUFFICES ASSUME NEW m \in Message, NEW a \in Attempt, <<m, a>> \notin overrun'
             PROVE  \A c \in Claims(m, a)' : /\ Owns(c, m, a)'
                                             /\ \A d \in Claims(m, a)' : d = c
  BY DEF SoleClaims, Sole
<1> DEFINE before == Claims(m, a)   after == Claims(m, a)'
<1>1. \A c \in before : Owns(c, m, a) /\ \A d \in before : d = c
  BY DEF SoleClaims, Sole, ClaimStep
<1> HIDE DEF before, after
<1>2. CASE Leaves(m, a)
  BY <1>1, <1>2 DEF Leaves, Owns, before, after
<1>3. CASE Settles(m, a)
  <2>1. after = {}
    BY <1>1, <1>3 DEF Settles, before, after
  <2> QED
    BY <2>1 DEF after
<1>4. CASE HandsOver(m, a)
  <2>1. PICK c \in before, d \in Claim :
          d.by = c.by /\ d.hash = c.hash /\ after \subseteq (before \ {c}) \cup {d}
    BY <1>4 DEF HandsOver, before, after
  <2>2. after \subseteq {d} /\ Owns(c, m, a)
    BY <1>1, <2>1
  <2>3. Owns(d, m, a)'
    BY <1>4, <2>1, <2>2 DEF HandsOver, Owns
  <2> QED
    BY <2>2, <2>3 DEF after
<1>5. CASE Leases(m, a)
  <2>1. before = {}
    BY <1>1, <1>5 DEF Leases, Owns
  <2>2. PICK c \in Claim : inbox'[m][a] = Leased(c.by, c.hash) /\ after \subseteq before \cup {c}
    BY <1>5 DEF Leases, before, after
  <2>3. after \subseteq {c}
    BY <2>1, <2>2
  <2>4. Owns(c, m, a)'
    BY <2>2 DEF Owns, Leased
  <2> QED
    BY <2>3, <2>4 DEF after
<1>6. CASE Expires(m, a)
  <2>1. after = {}
    BY <1>1, <1>6 DEF Expires, Owns, before, after
  <2> QED
    BY <2>1 DEF after
<1> QED
  BY <1>2, <1>3, <1>4, <1>5, <1>6 DEF ClaimStep

\* Jobs that go on with their attempt, or leave it, and late statements that end.
Dwindle ==
  /\ \A v \in Worker : Claiming(v)' =>
       /\ Claiming(v) /\ job'[v].msg = job[v].msg
       /\ job'[v].attempt = job[v].attempt /\ job'[v].hash = job[v].hash
  /\ late' \subseteq late

LEMMA ClaimsDwindle ==
  ASSUME Dwindle, NEW m, NEW a
  PROVE  Claims(m, a)' \subseteq Claims(m, a)
<1> SUFFICES ASSUME NEW c \in Claims(m, a)' PROVE c \in Claims(m, a)
  OBVIOUS
<1>1. c \in Claim /\ c.by \in Worker
  BY DEF Claims, Claim
<1>2. CASE /\ c.from = "job" /\ Claiming(c.by)'
           /\ job'[c.by].msg = m /\ job'[c.by].attempt = a /\ job'[c.by].hash = c.hash
  <2>1. /\ Claiming(c.by)
        /\ job[c.by].msg = m /\ job[c.by].attempt = a /\ job[c.by].hash = c.hash
    BY <1>1, <1>2 DEF Dwindle
  <2> QED
    BY <1>1, <1>2, <2>1 DEF Claims
<1>3. CASE [op |-> c.from, by |-> c.by, msg |-> m, attempt |-> a, hash |-> c.hash] \in late'
  <2>1. [op |-> c.from, by |-> c.by, msg |-> m, attempt |-> a, hash |-> c.hash] \in late
    BY <1>3 DEF Dwindle
  <2> QED
    BY <1>1, <2>1 DEF Claims
<1> QED
  BY <1>2, <1>3 DEF Claims

LEMMA ClaimsLeft ==
  ASSUME Dwindle, UNCHANGED <<inbox, overrun>>
  PROVE  ClaimStep
  BY ClaimsDwindle DEF ClaimStep, Leaves

\* The claim that a job has.
LEMMA JobsClaim ==
  ASSUME TypeOK, NEW w \in Worker, Claiming(w)
  PROVE  /\ [by |-> w, hash |-> job[w].hash, from |-> "job"] \in Claims(job[w].msg, job[w].attempt)
         /\ job[w].msg \in Message /\ job[w].attempt \in Attempt /\ job[w].hash \in Hash
<1>1. job[w] \in JobType
  BY DEF TypeOK, Claiming
<1>2. job[w].msg \in Message /\ job[w].attempt \in Attempt /\ job[w].hash \in Hash
  BY <1>1 DEF JobType
<1> QED
  BY <1>2 DEF Claims, Claim

LEMMA NoJobsClaim ==
  ASSUME TypeOK', NEW w, ~ Claiming(w)', NEW h, NEW m, NEW a
  PROVE  [by |-> w, hash |-> h, from |-> "job"] \notin Claims(m, a)'
<1> DEFINE c == [by |-> w, hash |-> h, from |-> "job"]
<1>1. c.by = w /\ c.from = "job"
  OBVIOUS
<1>2. [op |-> c.from, by |-> c.by, msg |-> m, attempt |-> a, hash |-> c.hash] \notin late'
  <2> SUFFICES ASSUME NEW q \in late' PROVE q.op # "job"
    BY <1>1
  <2> QED
    BY DEF TypeOK, Statement
<1> HIDE DEF c
<1>3. c \notin Claims(m, a)'
  BY <1>1, <1>2 DEF Claims
<1> QED
  BY <1>3 DEF c

\* A statement changes the row it names, and no other.
LEMMA ExecutedElsewhere ==
  ASSUME TypeOK, NEW q \in Statement, NEW m \in Message, NEW a \in Attempt,
         m # q.msg \/ a # q.attempt
  PROVE  Executed(q)[m][a] = inbox[m][a]
  BY DEF TypeOK, Executed, Statement

\* A job's statement is executed, or its caller gives up on it; the job's claim ends.
LEMMA JobSettles ==
  ASSUME TypeOK, TypeOK', NEW w \in Worker, Claiming(w), ~ Claiming(w)', Dwindle,
         UNCHANGED overrun,
         NEW op \in {"complete", "forget"}, inbox' = Executed(StatementOf(w, op)), late' = late
  PROVE  ClaimStep
<1>1. PICK q \in Statement : q = StatementOf(w, op) /\ q.msg = job[w].msg /\ q.attempt = job[w].attempt
  BY StatementTyped DEF Claiming
<1>2. ASSUME NEW m \in Message, NEW a \in Attempt, m # q.msg \/ a # q.attempt
      PROVE  Leaves(m, a)
  BY <1>1, <1>2, ExecutedElsewhere, ClaimsDwindle DEF Leaves
<1>3. Settles(q.msg, q.attempt)
  <2>1. PICK c \in Claims(q.msg, q.attempt) : c = [by |-> w, hash |-> job[w].hash, from |-> "job"]
    BY <1>1, JobsClaim
  <2>2. c \notin Claims(q.msg, q.attempt)'
    <3>1. c.by = w /\ c.from = "job" /\ c = [by |-> c.by, hash |-> c.hash, from |-> c.from]
      BY <2>1
    <3> QED
      BY <3>1, NoJobsClaim
  <2> QED
    BY <2>2, ClaimsDwindle DEF Settles
<1> QED
  BY <1>1, <1>2, <1>3 DEF ClaimStep, Statement

\* A job gives up on its statement, which may still be executed.
LEMMA JobHandsOver ==
  ASSUME TypeOK, TypeOK', NEW w \in Worker, Claiming(w), ~ Claiming(w)',
         UNCHANGED <<inbox, overrun>>, \A v \in Worker \ {w} : job'[v] = job[v],
         NEW op \in {"complete", "forget"}, late' = late \cup {StatementOf(w, op)}
  PROVE  ClaimStep
<1>1. PICK m \in Message, a \in Attempt, h \in Hash :
        m = job[w].msg /\ a = job[w].attempt /\ h = job[w].hash
  BY JobsClaim
<1>2. late' = late \cup {[op |-> op, by |-> w, msg |-> m, attempt |-> a, hash |-> h]}
  BY <1>1 DEF StatementOf
<1>3. \A v \in Worker : Claiming(v)' => Claiming(v) /\ v # w /\ job'[v] = job[v]
  BY DEF Claiming
<1>4. PICK c \in Claim, d \in Claim : /\ c = [by |-> w, hash |-> h, from |-> "job"]
                                      /\ d = [by |-> w, hash |-> h, from |-> op]
  BY DEF Claim
<1>5. ASSUME NEW n \in Message, NEW b \in Attempt, NEW e \in Claims(n, b)', e \notin Claims(n, b)
      PROVE  e = d /\ n = m /\ b = a
  <2>1. e \in Claim
    BY <1>5 DEF Claims
  <2>2. [op |-> e.from, by |-> e.by, msg |-> n, attempt |-> b, hash |-> e.hash]
          = [op |-> op, by |-> w, msg |-> m, attempt |-> a, hash |-> h]
    BY <1>2, <1>3, <1>5 DEF Claims, Claim
  <2> QED
    BY <1>4, <2>1, <2>2 DEF Claim
<1>6. ASSUME NEW n \in Message, NEW b \in Attempt, n # m \/ b # a PROVE Leaves(n, b)
  BY <1>5, <1>6 DEF Leaves
<1>7. HandsOver(m, a)
  <2>1. c \in Claims(m, a)
    BY <1>1, <1>4, JobsClaim
  <2>2. c \notin Claims(m, a)'
    BY <1>4, NoJobsClaim
  <2>3. Claims(m, a)' \subseteq (Claims(m, a) \ {c}) \cup {d}
    BY <1>5, <2>2
  <2>4. d.by = c.by /\ d.hash = c.hash
    BY <1>4
  <2> QED
    BY <2>1, <2>3, <2>4 DEF HandsOver
<1> QED
  BY <1>6, <1>7 DEF ClaimStep

\* A job that stays with its attempt and its hash, in whatever stage.
LEMMA JobGoesOn ==
  ASSUME TypeOK, NEW w \in Worker, \A v \in Worker \ {w} : job'[v] = job[v],
         late' \subseteq late,
         \/ ~ Claiming(w)'
         \/ /\ Claiming(w) /\ job'[w].msg = job[w].msg
            /\ job'[w].attempt = job[w].attempt /\ job'[w].hash = job[w].hash
  PROVE  Dwindle
  BY DEF Dwindle, Claiming

LEMMA BeginClaims ==
  ASSUME Shape, NEW w \in Worker, NEW c \in Copy, Begin(w, c) \/ BeginErrors(w, c)
  PROVE  ClaimStep
<1>1. PICK m \in Message, a \in Attempt, h \in Hash :
        m = copy[c].msg /\ a = copy[c].attempt /\ h = copy[c].hash
  <2>1. copy[c] # Gone
    BY DeliveryAssumption DEF Begin, BeginErrors, Takes, Gone, DeliveryAssumption
  <2> QED
    BY <2>1, CopyCases DEF Shape
<1>2. PICK k \in Claim : k = [by |-> w, hash |-> h, from |-> "job"]
  BY DEF Claim
<1>3. late' = late /\ overrun' = overrun /\ k.by = w /\ k.hash = h
  BY <1>2 DEF Begin, BeginErrors
<1>4. ASSUME NEW n \in Message, NEW b \in Attempt, NEW e \in Claims(n, b)', e \notin Claims(n, b)
      PROVE  Begin(w, c) /\ e = k /\ n = m /\ b = a
  <2>1. e \in Claim
    BY <1>4 DEF Claims
  <2>2. /\ e.from = "job" /\ Claiming(e.by)'
        /\ job'[e.by].msg = n /\ job'[e.by].attempt = b /\ job'[e.by].hash = e.hash
        /\ job'[e.by] # job[e.by]
    BY <1>3, <1>4 DEF Claims, Claiming
  <2>3. Begin(w, c) /\ e.by = w
    BY <2>1, <2>2 DEF Begin, BeginErrors, Shape, TypeOK, Claim
  <2>4. job'[w] = JobOn(c, "handling", "retry")
    BY <2>3 DEF Begin, Shape, TypeOK
  <2>5. job'[w].msg = m /\ job'[w].attempt = a /\ job'[w].hash = h
    BY <1>1, <2>4 DEF JobOn
  <2> QED
    BY <1>2, <2>1, <2>2, <2>3, <2>5 DEF Claim
<1>5. ASSUME NEW n \in Message, NEW b \in Attempt, ~ Begin(w, c) \/ n # m \/ b # a
      PROVE  Claims(n, b)' \subseteq Claims(n, b)
  BY <1>4, <1>5
<1>6. Claims(m, a)' \subseteq Claims(m, a) \cup {k}
  BY <1>4
<1>7. CASE BeginErrors(w, c) /\ ~ Begin(w, c) /\ inbox' = inbox
  BY <1>3, <1>5, <1>7 DEF ClaimStep, Leaves
<1>8. CASE BeginLeased(w, c)
  <2>1. Takeable(inbox[m][a], h) /\ inbox' = [inbox EXCEPT ![m][a] = Leased(w, h)]
    BY <1>1, <1>8 DEF BeginLeased, RowOf
  <2>2. ASSUME NEW n \in Message, NEW b \in Attempt, n # m \/ b # a PROVE Leaves(n, b)
    <3>1. inbox'[n][b] = inbox[n][b]
      BY <2>1, <2>2 DEF Shape, TypeOK
    <3> QED
      BY <1>5, <2>2, <3>1 DEF Leaves
  <2>3. inbox'[m][a] = Leased(w, h)
    BY <2>1 DEF Shape, TypeOK
  <2>4. Leases(m, a)
    BY <1>3, <1>6, <2>1, <2>3 DEF Leases, Takeable
  <2> QED
    BY <1>3, <2>2, <2>4 DEF ClaimStep
<1> QED
  BY <1>7, <1>8 DEF Begin, BeginErrors

LEMMA LateClaims ==
  ASSUME Shape, ExecuteLate
  PROVE  ClaimStep
<1>1. PICK q \in late : late' = late \ {q} /\ (inbox' = Executed(q) \/ inbox' = inbox)
  BY DEF ExecuteLate
<1>2. q \in Statement /\ UNCHANGED <<job, overrun>>
  BY DEF ExecuteLate, Shape, TypeOK
<1>3. Dwindle
  BY <1>1, <1>2 DEF Dwindle, Claiming
<1> DEFINE c == [by |-> q.by, hash |-> q.hash, from |-> q.op]
<1>4. /\ q.msg \in Message /\ q.attempt \in Attempt /\ c \in Claim /\ c.from # "job"
      /\ [op |-> c.from, by |-> c.by, msg |-> q.msg, attempt |-> q.attempt, hash |-> c.hash] = q
  BY <1>2 DEF Statement, Claim
<1> HIDE DEF c
<1>5. c \in Claims(q.msg, q.attempt) /\ c \notin Claims(q.msg, q.attempt)'
  BY <1>1, <1>4 DEF Claims
<1>6. Settles(q.msg, q.attempt)
  BY <1>3, <1>5, ClaimsDwindle DEF Settles
<1>7. ASSUME NEW m \in Message, NEW a \in Attempt, m # q.msg \/ a # q.attempt PROVE Leaves(m, a)
  BY <1>1, <1>2, <1>3, <1>7, ExecutedElsewhere, ClaimsDwindle DEF Leaves, Shape
<1> QED
  BY <1>2, <1>6, <1>7 DEF ClaimStep

\* A lease that lapses under a claim is on record.
LEMMA ExpiryClaims ==
  ASSUME Shape, NEW m \in Message, NEW a \in Attempt, Lapse(m, a) \/ PurgeExpired(m, a)
  PROVE  ClaimStep
<1>1. Dwindle /\ UNCHANGED <<job, late>>
  BY DEF Lapse, PurgeExpired, Dwindle, Claiming
<1>2. ASSUME NEW n \in Message, NEW b \in Attempt, n # m \/ b # a PROVE Leaves(n, b)
  <2>1. inbox'[n][b] = inbox[n][b]
    BY <1>2 DEF Lapse, PurgeExpired, Shape, TypeOK
  <2> QED
    BY <1>1, <2>1, ClaimsDwindle DEF Leaves
<1>3. CASE Lapse(m, a)
  <2>1. CASE Claimed(m, a)
    <3>1. <<m, a>> \in overrun' /\ overrun \subseteq overrun'
      BY <1>3, <2>1 DEF Lapse
    <3> QED
      BY <1>2, <3>1 DEF ClaimStep, Expires
  <2>2. CASE ~ Claimed(m, a)
    <3>1. Claims(m, a) = {}
      BY <2>2 DEF Claims, Claimed, Claiming, Claim
    <3>2. Claims(m, a)' = {}
      BY <1>1, <3>1, ClaimsDwindle
    <3> QED
      BY <1>2, <1>3, <2>2, <3>2 DEF ClaimStep, Expires, Lapse
  <2> QED
    BY <2>1, <2>2
<1>4. CASE PurgeExpired(m, a)
  <2>1. Expires(m, a) /\ UNCHANGED overrun
    BY <1>1, <1>4, ClaimsDwindle DEF PurgeExpired, Expires
  <2> QED
    BY <1>2, <2>1 DEF ClaimStep
<1> QED
  BY <1>3, <1>4

LEMMA WorkClaims ==
  ASSUME Shape, TypeOK', NEW w \in Worker, Works(w) \/ PublishRetries(w)
  PROVE  ClaimStep
<1> USE DEF InStage
<1>1. \A X : job' = [job EXCEPT ![w] = X] => \A v \in Worker \ {w} : job'[v] = job[v]
  BY DEF Shape, TypeOK
<1>2. CASE HandlerSucceeds(w)
  <2>1. /\ Claiming(w) /\ \A v \in Worker \ {w} : job'[v] = job[v]
        /\ job'[w] = [job[w] EXCEPT !.stage = "completing"]
    BY <1>2 DEF HandlerSucceeds, Proceeds, Claiming, ClaimStages, Shape, TypeOK
  <2>2. job'[w].msg = job[w].msg /\ job'[w].attempt = job[w].attempt /\ job'[w].hash = job[w].hash
    BY <1>2, <2>1 DEF HandlerSucceeds, Shape, TypeOK, JobType
  <2> QED
    BY <1>2, <2>1, <2>2, JobGoesOn, ClaimsLeft DEF HandlerSucceeds, Shape
<1>3. CASE HandlerFails(w)
  <2>1. PICK permanent \in BOOLEAN :
          job' = [job EXCEPT ![w].stage = "publishing",
                             ![w].target = failureRoute(job[w].attempt, permanent)]
    BY <1>3 DEF HandlerFails
  <2>2. /\ Claiming(w) /\ \A v \in Worker \ {w} : job'[v] = job[v]
        /\ job'[w] = [job[w] EXCEPT !.stage = "publishing",
                                    !.target = failureRoute(job[w].attempt, permanent)]
    BY <1>3, <2>1 DEF HandlerFails, Claiming, ClaimStages, Shape, TypeOK
  <2>3. job'[w].msg = job[w].msg /\ job'[w].attempt = job[w].attempt /\ job'[w].hash = job[w].hash
    BY <1>3, <2>2 DEF HandlerFails, Shape, TypeOK, JobType
  <2> QED
    BY <1>3, <2>2, <2>3, JobGoesOn, ClaimsLeft DEF HandlerFails, Shape
<1>4. CASE CompleteSucceeds(w)
  <2>1. /\ Claiming(w) /\ ~ Claiming(w)' /\ \A v \in Worker \ {w} : job'[v] = job[v]
        /\ inbox' = Executed(StatementOf(w, "complete")) /\ UNCHANGED <<late, overrun>>
    BY <1>4 DEF CompleteSucceeds, Proceeds, Claiming, ClaimStages, Shape, TypeOK, JobType
  <2> QED
    BY <2>1, JobGoesOn, JobSettles DEF Shape
<1>5. CASE CompleteLosesLease(w) \/ Nack(w) \/ Ack(w)
  <2>1. ~ Claiming(w)' /\ \A v \in Worker \ {w} : job'[v] = job[v]
    BY <1>5 DEF CompleteLosesLease, Nack, Ack, Nacked, Claiming, Shape, TypeOK
  <2> QED
    BY <1>5, <2>1, JobGoesOn, ClaimsLeft DEF CompleteLosesLease, Nack, Ack, Shape
<1>6. CASE CompleteErrors(w)
  <2>1. /\ Claiming(w) /\ ~ Claiming(w)' /\ \A v \in Worker \ {w} : job'[v] = job[v]
        /\ late' = late \cup {StatementOf(w, "complete")} /\ UNCHANGED <<inbox, overrun>>
    BY <1>6 DEF CompleteErrors, Nacked, Claiming, ClaimStages, Shape, TypeOK
  <2> QED
    BY <2>1, JobHandsOver DEF Shape
<1>7. CASE PublishConfirmed(w) \/ PublishFails(w)
  <2>1. PICK stage \in {"acking", "nacking", "recording", "forgetting"} :
          /\ job' = [job EXCEPT ![w].stage = stage]
          /\ job[w].target = "quarantine" => stage \in {"acking", "nacking"}
    BY <1>7 DEF PublishConfirmed, PublishFails, Proceeds
  <2>2. /\ \A v \in Worker \ {w} : job'[v] = job[v]
        /\ job'[w].stage = stage /\ job'[w].target = job[w].target /\ job'[w].msg = job[w].msg
        /\ job'[w].attempt = job[w].attempt /\ job'[w].hash = job[w].hash
    BY <1>7, <2>1 DEF PublishConfirmed, PublishFails, Shape, TypeOK, JobType
  <2>3. ~ Claiming(w)' \/ Claiming(w)
    BY <1>7, <2>1, <2>2 DEF PublishConfirmed, PublishFails, Claiming, ClaimStages
  <2> QED
    BY <1>7, <2>2, <2>3, JobGoesOn, ClaimsLeft DEF PublishConfirmed, PublishFails, Shape
<1>8. CASE Forget(w)
  <2>1. Claiming(w) /\ ~ Claiming(w)' /\ \A v \in Worker \ {w} : job'[v] = job[v]
    BY <1>8 DEF Forget, Nacked, Claiming, ClaimStages, Shape, TypeOK
  <2>2. \/ inbox' = Executed(StatementOf(w, "forget")) /\ late' = late
        \/ inbox' = inbox /\ late' = late \cup {StatementOf(w, "forget")}
    BY <1>8 DEF Forget
  <2> QED
    BY <1>8, <2>1, <2>2, JobGoesOn, JobSettles, JobHandsOver DEF Forget, Shape
<1>9. CASE Record(w)
  <2>1. Claiming(w) /\ ~ Claiming(w)' /\ \A v \in Worker \ {w} : job'[v] = job[v]
    BY <1>9 DEF Record, Proceeds, Claiming, ClaimStages, Shape, TypeOK, JobType
  <2>2. \/ inbox' = Executed(StatementOf(w, "complete")) /\ late' = late
        \/ inbox' = inbox /\ late' = late \cup {StatementOf(w, "complete")}
    BY <1>9 DEF Record
  <2> QED
    BY <1>9, <2>1, <2>2, JobGoesOn, JobSettles, JobHandsOver DEF Record, Shape
<1>10. CASE PublishRetries(w)
  BY <1>10, ClaimsLeft DEF PublishRetries, Dwindle, Claiming
<1> QED
  BY <1>2, <1>3, <1>4, <1>5, <1>6, <1>7, <1>8, <1>9, <1>10 DEF Works

LEMMA ClaimSteps == Shape /\ TypeOK' /\ [Next]_vars => ClaimStep
<1> SUFFICES ASSUME Shape, TypeOK', [Next]_vars PROVE ClaimStep
  OBVIOUS
<1>1. ASSUME NEW m \in Message, Send(m) PROVE ClaimStep
  BY <1>1, ClaimsLeft DEF Send, Dwindle, Claiming
<1>2. ASSUME NEW c \in Copy, RetryExpires(c) PROVE ClaimStep
  BY <1>2, ClaimsLeft DEF RetryExpires, Dwindle, Claiming
<1>3. ASSUME NEW w \in Worker, Disconnect(w) PROVE ClaimStep
  BY <1>3, ClaimsLeft DEF Disconnect, Dwindle, Claiming
<1>4. ASSUME NEW w \in Worker, Crash(w) PROVE ClaimStep
  <2>1. ~ Claiming(w)' /\ \A v \in Worker \ {w} : job'[v] = job[v]
    BY <1>4 DEF Crash, Claiming, Shape, TypeOK
  <2> QED
    BY <1>4, <2>1, JobGoesOn, ClaimsLeft DEF Crash, Shape
<1>5. ASSUME NEW w \in Worker, NEW c \in Copy, Deliver(w, c) \/ BeginRefused(w, c) PROVE ClaimStep
  BY <1>5, ClaimsLeft DEF Deliver, BeginRefused, Dwindle, Claiming
<1>6. ASSUME NEW w \in Worker, NEW c \in Copy, RejectMalformed(w, c) \/ BeginComplete(w, c)
      PROVE  ClaimStep
  <2>1. PICK s \in {<<"publishing", "quarantine">>, <<"acking", "retry">>} :
          job' = [job EXCEPT ![w] = JobOn(c, s[1], s[2])]
    BY <1>6 DEF RejectMalformed, BeginComplete
  <2>2. \A v \in Worker \ {w} : job'[v] = job[v]
    BY <2>1 DEF Shape, TypeOK
  <2>3. ~ Claiming(w)'
    <3>1. job'[w] = JobOn(c, s[1], s[2])
      BY <2>1 DEF Shape, TypeOK
    <3>2. job'[w].stage = s[1] /\ job'[w].target = s[2]
      BY <3>1 DEF JobOn
    <3> QED
      BY <3>2 DEF Claiming, ClaimStages
  <2> QED
    BY <1>6, <2>2, <2>3, JobGoesOn, ClaimsLeft DEF RejectMalformed, BeginComplete, Shape
<1>7. CASE UNCHANGED vars
  BY <1>7, ClaimsLeft DEF vars, Dwindle, Claiming
<1> QED
  BY <1>1, <1>2, <1>3, <1>4, <1>5, <1>6, <1>7, BeginClaims, LateClaims, ExpiryClaims, WorkClaims
  DEF Next, Receives

\* Two workers run one attempt at once only after its lease lapsed under a claim.
THEOREM OneRunPerLease == Spec => []ExclusiveUnlessOverrun
<1>1. Init => SoleClaims
  <2> SUFFICES ASSUME Init, NEW m \in Message, NEW a \in Attempt, NEW c \in Claims(m, a)
               PROVE  FALSE
    BY DEF SoleClaims, Sole
  <2>1. late = {} /\ c.by \in Worker
    BY DEF Init, Claims, Claim
  <2>2. ~ Claiming(c.by)
    BY <2>1 DEF Init, Claiming
  <2> QED
    BY <2>1, <2>2 DEF Claims
<1>2. IInv /\ IInv' /\ SoleClaims /\ [Next]_vars => SoleClaims'
  BY ClaimSteps, SoleClaimsFollow DEF IInv, Shape
<1>3. IInv /\ SoleClaims => ExclusiveUnlessOverrun
  <2> SUFFICES ASSUME TypeOK, SoleClaims, NEW v \in Worker, NEW w \in Worker,
                      InStage(v, "handling"), InStage(w, "handling"),
                      job[v].msg = job[w].msg, job[v].attempt = job[w].attempt,
                      <<job[w].msg, job[w].attempt>> \notin overrun
               PROVE  v = w
    BY DEF ExclusiveUnlessOverrun, IInv, Shape
  <2> DEFINE c(u) == [by |-> u, hash |-> job[u].hash, from |-> "job"]
  <2>1. Claiming(v) /\ Claiming(w)
    BY DEF InStage, Claiming, ClaimStages
  <2>2. /\ c(v) \in Claims(job[w].msg, job[w].attempt)
        /\ c(w) \in Claims(job[w].msg, job[w].attempt)
        /\ job[w].msg \in Message /\ job[w].attempt \in Attempt
    BY <2>1, JobsClaim
  <2>3. c(v) = c(w)
    <3> HIDE DEF c
    <3> QED
      BY <2>2 DEF SoleClaims, Sole
  <2> QED
    BY <2>3
<1> QED
  BY <1>1, <1>2, <1>3, InductiveInvariant, PTL DEF Spec
=============================================================================
