----------------------------- MODULE EventProofs -----------------------------
(***************************************************************************)
(* TLAPS proofs about EventBridge and about NotificationRules: how an      *)
(* event reaches the outbox, and what becomes of it when it is delivered.  *)
(* The two specifications share nothing; each has its own part.            *)
(***************************************************************************)
EXTENDS EventBridge, NotificationRules, FiniteSetTheorems, TLAPS

-----------------------------------------------------------------------------
(***************************************************************************)
(* EventBridge, for any occurrences, any capacity of the channel and any   *)
(* bounds.                                                                 *)
(*                                                                         *)
(* The invariant is inductive as it stands, once the types are known.      *)
(* What has to be followed is an exception on its way through the process: *)
(* from the committed expiry (announce) to the channel, to the bridge and  *)
(* into the outbox.                                                        *)
(***************************************************************************)

Carried == {bus[i] : i \in DOMAIN bus}

-----------------------------------------------------------------------------
(* The channel. *)

LEMMA AppendCarries ==
  ASSUME NEW s \in Seq(Published), NEW o \in Published
  PROVE  /\ Append(s, o) \in Seq(Published) /\ Len(Append(s, o)) = Len(s) + 1
         /\ {Append(s, o)[i] : i \in DOMAIN Append(s, o)} = {s[i] : i \in DOMAIN s} \cup {o}
<1>1. Append(s, o) \in Seq(Published) /\ Len(Append(s, o)) = Len(s) + 1 /\ Len(s) \in Nat
  OBVIOUS
<1>2. /\ DOMAIN s = 1..Len(s) /\ DOMAIN Append(s, o) = 1..(Len(s) + 1)
      /\ \A i \in 1..Len(s) : Append(s, o)[i] = s[i]
      /\ Append(s, o)[Len(s) + 1] = o
  OBVIOUS
<1>3. \A i \in 1..(Len(s) + 1) : i \in 1..Len(s) \/ i = Len(s) + 1
  BY <1>1
<1>4. 1..Len(s) \subseteq 1..(Len(s) + 1) /\ Len(s) + 1 \in 1..(Len(s) + 1)
  BY <1>1
<1> QED
  BY <1>1, <1>2, <1>3, <1>4

LEMMA HeadTailCarry ==
  ASSUME NEW s \in Seq(Published), s # <<>>
  PROVE  /\ Head(s) \in Published /\ Tail(s) \in Seq(Published) /\ Len(Tail(s)) < Len(s)
         /\ \A i \in DOMAIN s : s[i] = Head(s) \/ \E j \in DOMAIN Tail(s) : Tail(s)[j] = s[i]
<1>1. /\ Head(s) \in Published /\ Tail(s) \in Seq(Published)
      /\ Len(Tail(s)) = Len(s) - 1 /\ Len(s) \in Nat \ {0}
  OBVIOUS
<1>2. SUFFICES ASSUME NEW i \in DOMAIN s, i # 1
               PROVE  \E j \in DOMAIN Tail(s) : Tail(s)[j] = s[i]
  BY <1>1
<1>3. i \in 2..Len(s) /\ i - 1 \in 1..Len(Tail(s))
  BY <1>1, <1>2
<1>4. i - 1 \in DOMAIN Tail(s) /\ Tail(s)[i - 1] = s[i]
  BY <1>1, <1>3
<1> QED
  BY <1>4

LEMMA PublishedSets ==
  /\ Published \subseteq Occurrence /\ Deadline \subseteq Published /\ Exception \subseteq Published
  /\ \A x \in Exception : x \notin Deadline
  /\ \A v \in Evidence : v \notin Deadline
BY OccurrencesAssumption DEF OccurrencesAssumption, Published, Occurrence

-----------------------------------------------------------------------------

LEMMA InitOK == BridgeInit => BridgeTypeOK /\ NothingVanishes
<1> SUFFICES ASSUME BridgeInit PROVE BridgeTypeOK /\ NothingVanishes
  OBVIOUS
<1>1. bus \in Seq(Published) /\ Len(bus) = 0
  BY DEF BridgeInit
<1>2. BridgeTypeOK
  BY <1>1, BridgeBoundsAssumption DEF BridgeInit, BridgeTypeOK, AtMostOne, BridgeBoundsAssumption
<1>3. NothingVanishes
  <2>1. \A o \in Occurrence : source[o] = "waiting"
    BY DEF BridgeInit
  <2>2. Evidence \subseteq Occurrence /\ Exception \subseteq Occurrence
    BY DEF Occurrence
  <2> QED
    BY <2>1, <2>2 DEF NothingVanishes
<1> QED
  BY <1>2, <1>3

\* What a publication leaves in the channel.
LEMMA PublishTyped ==
  ASSUME BridgeTypeOK, NEW o \in Published
  PROVE  LET b == IF HasRoom THEN Append(bus, o) ELSE bus IN
           /\ b \in Seq(Published) /\ Len(b) <= Buffer
           /\ Carried \subseteq {b[i] : i \in DOMAIN b}
           /\ HasRoom => o \in {b[i] : i \in DOMAIN b}
<1>1. CASE HasRoom
  <2>1. Len(bus) < Buffer /\ Len(bus) \in Nat /\ bus \in Seq(Published)
    BY <1>1 DEF HasRoom, BridgeTypeOK
  <2>2. /\ Append(bus, o) \in Seq(Published) /\ Len(Append(bus, o)) = Len(bus) + 1
        /\ {Append(bus, o)[i] : i \in DOMAIN Append(bus, o)} = Carried \cup {o}
    BY <2>1, AppendCarries DEF Carried
  <2>3. Len(bus) + 1 <= Buffer
    BY <2>1, BridgeBoundsAssumption DEF BridgeBoundsAssumption
  <2> QED
    BY <1>1, <2>2, <2>3
<1>2. CASE ~HasRoom
  BY <1>2 DEF BridgeTypeOK, Carried
<1> QED
  BY <1>1, <1>2

LEMMA TypePreserved ==
  ASSUME BridgeTypeOK, [BridgeNext]_bridgeVars
  PROVE  BridgeTypeOK'
<1> USE DEF BridgeTypeOK
<1>1. ASSUME NEW o \in Occurrence, BecomeDue(o) PROVE BridgeTypeOK'
  BY <1>1 DEF BecomeDue
<1>2. ASSUME NEW d \in Deadline, Settle(d) PROVE BridgeTypeOK'
  BY <1>2 DEF Settle
<1>3. ASSUME NEW d \in Deadline, PublishNext(d) PROVE BridgeTypeOK'
  <2>1. bus' \in Seq(Published) /\ Len(bus') <= Buffer
    BY <1>3, PublishTyped, PublishedSets DEF PublishNext
  <2> QED
    BY <1>3, <2>1 DEF PublishNext
<1>4. ASSUME NEW d \in Deadline, Purge(d) PROVE BridgeTypeOK'
  BY <1>4, BridgeBoundsAssumption DEF Purge, BridgeBoundsAssumption, scheduling
<1>5. ASSUME NEW x \in Exception, AutoExpire(x) PROVE BridgeTypeOK'
  BY <1>5 DEF AutoExpire, AtMostOne
<1>6. ASSUME NEW x \in Exception, PublishExpiry(x) PROVE BridgeTypeOK'
  <2>1. bus' \in Seq(Published) /\ Len(bus') <= Buffer
    BY <1>6, PublishTyped, PublishedSets DEF PublishExpiry
  <2> QED
    BY <1>6, <2>1 DEF PublishExpiry, AtMostOne
<1>7. ASSUME NEW v \in Evidence, ExpireDueEvidence(v) PROVE BridgeTypeOK'
  BY <1>7 DEF ExpireDueEvidence, Occurrence
<1>8. ASSUME StartSweep PROVE BridgeTypeOK'
  BY <1>8 DEF StartSweep
<1>9. ASSUME TakeEvent PROVE BridgeTypeOK'
  <2>1. Head(bus) \in Published /\ Tail(bus) \in Seq(Published) /\ Len(Tail(bus)) < Len(bus)
    BY <1>9, HeadTailCarry DEF TakeEvent
  <2>2. Len(Tail(bus)) <= Buffer
    BY <2>1, BridgeBoundsAssumption DEF BridgeBoundsAssumption
  <2> QED
    BY <1>9, <2>1, <2>2 DEF TakeEvent, scheduling, AtMostOne
<1>10. ASSUME EnqueueHeld PROVE BridgeTypeOK'
  BY <1>10, PublishedSets DEF EnqueueHeld, scheduling, AtMostOne
<1>11. ASSUME ProcessEnds, queued' \subseteq Occurrence PROVE BridgeTypeOK'
  <2>1. <<>> \in Seq(Published) /\ Len(<<>>) <= Buffer
    BY BridgeBoundsAssumption DEF BridgeBoundsAssumption
  <2>2. ends' \in 0..MaxEnds
    BY <1>11, BridgeBoundsAssumption DEF ProcessEnds, BridgeBoundsAssumption
  <2> QED
    BY <1>11, <2>1, <2>2 DEF ProcessEnds, AtMostOne
<1>12. ASSUME Stop PROVE BridgeTypeOK'
  BY <1>11, <1>12 DEF Stop
<1>13. ASSUME EnqueueFails PROVE BridgeTypeOK'
  BY <1>11, <1>13, PublishedSets DEF EnqueueFails
<1>14. CASE UNCHANGED bridgeVars
  BY <1>14 DEF bridgeVars
<1>15. ASSUME NEW x \in Exception, CommitUnanswered(x) PROVE BridgeTypeOK'
  BY <1>15 DEF CommitUnanswered
<1>16. ASSUME DropHeld PROVE BridgeTypeOK'
  BY <1>16 DEF DropHeld, scheduling, AtMostOne
<1> QED
  BY <1>1, <1>2, <1>3, <1>4, <1>5, <1>6, <1>7, <1>8, <1>9, <1>10, <1>12, <1>13, <1>14, <1>15, <1>16
     DEF BridgeNext

-----------------------------------------------------------------------------
(* NothingVanishes. *)

\* The step keeps what is queued, in memory or on record as lost, and settles
\* nothing that is not.
Keeps ==
  /\ \A o \in Evidence : o \in queued => o \in queued'
  /\ \A x \in Exception : x \in queued \cup InMemory \cup lost
                            => x \in queued' \cup InMemory' \cup lost'
  /\ \A o \in Exception \cup Evidence : source'[o] = "settled" =>
       source[o] = "settled" \/ o \in (IF o \in Evidence THEN queued' ELSE InMemory' \cup lost')

LEMMA KeepsEnough ==
  ASSUME NothingVanishes, Keeps
  PROVE  NothingVanishes'
BY OccurrencesAssumption DEF NothingVanishes, Keeps, OccurrencesAssumption

LEMMA StepKeeps ==
  ASSUME BridgeTypeOK, [BridgeNext]_bridgeVars
  PROVE  Keeps
<1> USE DEF Keeps
<1>1. ASSUME NEW o \in Occurrence, BecomeDue(o) PROVE Keeps
  <2>1. \A p \in Occurrence : source'[p] = "settled" => source[p] = "settled"
    BY <1>1 DEF BecomeDue, BridgeTypeOK
  <2> QED
    BY <1>1, <2>1 DEF BecomeDue, InMemory, Occurrence
<1>2. ASSUME NEW d \in Deadline, Settle(d) PROVE Keeps
  <2>1. \A p \in Exception \cup Evidence : source'[p] = source[p]
    BY <1>2, PublishedSets DEF Settle, BridgeTypeOK
  <2> QED
    BY <1>2, <2>1 DEF Settle, InMemory
<1>3. ASSUME NEW d \in Deadline, PublishNext(d) PROVE Keeps
  <2>1. Carried \subseteq {bus'[i] : i \in DOMAIN bus'}
    BY <1>3, PublishTyped, PublishedSets DEF PublishNext
  <2> QED
    BY <1>3, <2>1 DEF PublishNext, InMemory, Carried
<1>4. ASSUME NEW d \in Deadline, Purge(d) PROVE Keeps
  BY <1>4, PublishedSets DEF Purge, scheduling, InMemory
<1>5. ASSUME NEW x \in Exception, AutoExpire(x) PROVE Keeps
  <2>1. \A p \in Exception \cup Evidence : source'[p] = source[p] \/ p = x
    BY <1>5 DEF AutoExpire, BridgeTypeOK, Occurrence
  <2>2. x \in InMemory' /\ x \notin Evidence
    BY <1>5, OccurrencesAssumption DEF AutoExpire, InMemory, OccurrencesAssumption
  <2>3. \A p \in InMemory : p \in InMemory'
    BY <1>5 DEF AutoExpire, InMemory
  <2> QED
    BY <1>5, <2>1, <2>2, <2>3 DEF AutoExpire
<1>6. ASSUME NEW x \in Exception, PublishExpiry(x) PROVE Keeps
  <2>1. Carried \subseteq {bus'[i] : i \in DOMAIN bus'}
    BY <1>6, PublishTyped, PublishedSets DEF PublishExpiry
  <2>2. x \in {bus'[i] : i \in DOMAIN bus'} \cup lost'
    BY <1>6, PublishTyped, PublishedSets DEF PublishExpiry
  <2>3. announce = {x}
    BY <1>6 DEF PublishExpiry, BridgeTypeOK, AtMostOne
  <2>4. lost \subseteq lost' /\ UNCHANGED <<source, held, queued>>
    BY <1>6 DEF PublishExpiry
  <2> QED
    BY <2>1, <2>2, <2>3, <2>4 DEF InMemory, Carried
<1>7. ASSUME NEW v \in Evidence, ExpireDueEvidence(v) PROVE Keeps
  <2>1. \A p \in Exception \cup Evidence : source'[p] = source[p] \/ p = v
    BY <1>7 DEF ExpireDueEvidence, BridgeTypeOK, Occurrence
  <2> QED
    BY <1>7, <2>1 DEF ExpireDueEvidence, InMemory
<1>8. ASSUME StartSweep PROVE Keeps
  BY <1>8 DEF StartSweep, InMemory
<1>9. ASSUME TakeEvent PROVE Keeps
  <2>1. \A i \in DOMAIN bus :
          bus[i] = Head(bus) \/ \E j \in DOMAIN Tail(bus) : Tail(bus)[j] = bus[i]
    BY <1>9, HeadTailCarry DEF TakeEvent, BridgeTypeOK
  <2>2. \A p \in InMemory : p \in InMemory'
    BY <1>9, <2>1 DEF TakeEvent, InMemory, scheduling
  <2> QED
    BY <1>9, <2>2 DEF TakeEvent, scheduling
<1>10. ASSUME EnqueueHeld PROVE Keeps
  BY <1>10 DEF EnqueueHeld, InMemory, scheduling
<1>11. ASSUME ProcessEnds, queued \subseteq queued' PROVE Keeps
  BY <1>11 DEF ProcessEnds
<1>12. ASSUME Stop PROVE Keeps
  BY <1>11, <1>12 DEF Stop
<1>13. ASSUME EnqueueFails PROVE Keeps
  BY <1>11, <1>13 DEF EnqueueFails
<1>14. CASE UNCHANGED bridgeVars
  BY <1>14 DEF bridgeVars, InMemory
<1>15. ASSUME NEW x \in Exception, CommitUnanswered(x) PROVE Keeps
  <2>1. \A p \in Exception \cup Evidence : source'[p] = source[p] \/ p = x
    BY <1>15 DEF CommitUnanswered, BridgeTypeOK, Occurrence
  <2>2. x \in lost' /\ x \notin Evidence /\ lost \subseteq lost' /\ InMemory' = InMemory
    BY <1>15, OccurrencesAssumption DEF CommitUnanswered, InMemory, OccurrencesAssumption
  <2> QED
    BY <1>15, <2>1, <2>2 DEF CommitUnanswered
<1>16. ASSUME DropHeld PROVE Keeps
  BY <1>16 DEF DropHeld, InMemory, scheduling
<1> QED
  BY <1>1, <1>2, <1>3, <1>4, <1>5, <1>6, <1>7, <1>8, <1>9, <1>10, <1>12, <1>13, <1>14, <1>15, <1>16
     DEF BridgeNext

-----------------------------------------------------------------------------
\* The channel never holds more than its capacity, and the bridge and the expiry
\* scheduler have at most one event in hand.
THEOREM BridgeTypeCorrect == BridgeSpec => []BridgeTypeOK
<1>1. BridgeInit => BridgeTypeOK
  BY InitOK
<1>2. BridgeTypeOK /\ [BridgeNext]_bridgeVars => BridgeTypeOK'
  BY TypePreserved
<1> QED
  BY <1>1, <1>2, PTL DEF BridgeSpec

\* An expiry is enqueued, on its way, or on record as lost: to a commit whose
\* answer was lost (autoExpire), to a full channel (Publish), as an invalid
\* envelope (bridgeEvents) or with the process.  An evidence's expiry is always
\* enqueued.
THEOREM OnlyRecordedLosses == BridgeSpec => []NothingVanishes
<1>1. BridgeInit => BridgeTypeOK /\ NothingVanishes
  BY InitOK
<1>2. BridgeTypeOK /\ NothingVanishes /\ [BridgeNext]_bridgeVars
        => (BridgeTypeOK /\ NothingVanishes)'
  BY TypePreserved, StepKeeps, KeepsEnough
<1> QED
  BY <1>1, <1>2, PTL DEF BridgeSpec

-----------------------------------------------------------------------------
(***************************************************************************)
(* NotificationRules, for any events, entities, rules, recipients and      *)
(* limits.                                                                 *)
(*                                                                         *)
(* Nothing spans the statements of a run, so each property needs to know   *)
(* what an unfinished run has behind it: Reached follows a run without     *)
(* errors through its rules and recipients, FirstRun says that the rows of *)
(* a first run stem from rules it has come to, and AtMostOneInside that    *)
(* unless runs raced, a rule is busy with one event of an entity.          *)
(***************************************************************************)

Noted(e, r, p) ==
  \/ notes[<<e, r, p>>].rows # 0
  \/ \E why \in {"own", "other"} : <<e, r, why>> \in muted

\* A run is of an owed message, and inside a rule that it has not finished.
RunOfOwed ==
  \A e \in Event : Running(e) => /\ stage[e] = "owed"
                                 /\ runs[e].rule # Idle => runs[e].rule \in runs[e].rules

\* What a run without errors has behind it is noted.
Reached ==
  \A e \in Event : Running(e) /\ ~runs[e].failed =>
    /\ \A r \in Rule : r \notin runs[e].rules => \A p \in Recipient : Noted(e, r, p)
    /\ \A r \in Rule : runs[e].rule = r =>
         \A p \in Recipient : p \notin runs[e].todo => notes[<<e, r, p>>].rows # 0

DoneIsNoted ==
  \A e \in Event : stage[e] = "done" => \A r \in Rule, p \in Recipient : Noted(e, r, p)

\* The row of an event's first run stems from a rule that the run has come to.
FirstRun ==
  \A e \in Event, r \in Rule, p \in Recipient :
    notes[<<e, r, p>>].rows # 0 /\ attempts[e] = 0 /\ returns = 0 =>
      \/ stage[e] = "done"
      \/ Running(e) /\ (r \notin runs[e].rules \/ runs[e].rule = r)

\* A message that may be run has runs left.
RunsAreLeft ==
  \A e \in Event : stage[e] \in {"absent", "owed"} => attempts[e] < MaxRuns

OwnIsRepeated ==
  \A e \in Event, r \in Rule : <<e, r, "own">> \in muted => attempts[e] > 0 \/ returns > 0

\* A row counts in the cooldown only if it exists.
RecentExists == \A t \in Target : notes[t].state = "recent" => notes[t].rows # 0

\* The rule is open in a run of the event, or its cooldown counts its rows.
Inside(e, r) ==
  \/ Running(e) /\ runs[e].rule = r
  \/ \E p \in Recipient : notes[<<e, r, p>>].state = "recent"

AtMostOneInside ==
  \A r \in Rule, e, f \in Event :
    EntityOf[e] = EntityOf[f] /\ Inside(e, r) /\ Inside(f, r) /\ <<r, EntityOf[e]>> \notin raced
      => e = f

RulesInv ==
  /\ RulesTypeOK /\ RunOfOwed /\ Reached /\ DoneIsNoted /\ FirstRun /\ RunsAreLeft
  /\ OwnIsRepeated /\ RecentExists /\ AtMostOneInside /\ NotifiedOnce

-----------------------------------------------------------------------------

LEMMA RulesInitOK == RulesInit => RulesInv
<1> SUFFICES ASSUME RulesInit PROVE RulesInv
  OBVIOUS
<1>1. RulesTypeOK
  BY RulesAssumption DEF RulesInit, RulesTypeOK, RulesAssumption
<1>2. \A e \in Event : ~Running(e) /\ stage[e] = "absent"
  BY DEF RulesInit, Running
<1>3. \A t \in Target : notes[t].rows = 0 /\ notes[t].state = "none"
  BY DEF RulesInit
<1>4. \A e \in Event, r \in Rule, p \in Recipient : <<e, r, p>> \in Target
  BY DEF Target
<1>5. \A e \in Event, r \in Rule : ~Inside(e, r)
  BY <1>2, <1>3, <1>4 DEF Inside
<1>6. RunOfOwed /\ Reached /\ DoneIsNoted
  BY <1>2 DEF RunOfOwed, Reached, DoneIsNoted
<1>7. FirstRun /\ RecentExists /\ NotifiedOnce
  BY <1>3, <1>4 DEF FirstRun, RecentExists, NotifiedOnce
<1>8. OwnIsRepeated
  BY DEF OwnIsRepeated, RulesInit
<1>9. AtMostOneInside
  BY <1>5 DEF AtMostOneInside
<1>10. RunsAreLeft
  BY RulesAssumption DEF RunsAreLeft, RulesInit, RulesAssumption
<1> QED
  BY <1>1, <1>6, <1>7, <1>8, <1>9, <1>10 DEF RulesInv

-----------------------------------------------------------------------------
(* The steps, by what they change. *)

\* Event e gets the run x, or leaves its run; the runs of others stay.
LEMMA OneRun ==
  ASSUME RulesTypeOK, NEW e \in Event, NEW x \in Run \cup {Idle},
         runs' = [runs EXCEPT ![e] = x]
  PROVE  /\ runs' \in [Event -> Run \cup {Idle}] /\ runs'[e] = x
         /\ \A f \in Event \ {e} : runs'[f] = runs[f] /\ (Running(f)' <=> Running(f))
         /\ Running(e)' <=> x # Idle
BY DEF RulesTypeOK, Running

LEMMA RunFields ==
  ASSUME RulesTypeOK, NEW e \in Event, Running(e)
  PROVE  /\ runs[e] \in Run /\ runs[e].rules \subseteq Rule /\ runs[e].rule \in Rule \cup {Idle}
         /\ runs[e].todo \subseteq Recipient /\ runs[e].failed \in BOOLEAN
BY DEF RulesTypeOK, Running, Run

LEMMA RunIsNotIdle == \A x \in Run : x # Idle
BY RulesAssumption DEF RulesAssumption

LEMMA TargetTyped == \A e \in Event, r \in Rule, p \in Recipient : <<e, r, p>> \in Target
BY DEF Target

\* The message of e is offered anew, without a run.
LEMMA OfferedStep ==
  ASSUME RulesInv, NEW e \in Event, Arrive(e) \/ Return(e)
  PROVE  RulesInv'
<1>1. /\ UNCHANGED <<runs, notes, muted, raced>>
      /\ stage' = [stage EXCEPT ![e] = "owed"] /\ stage[e] # "owed"
  BY DEF Arrive, Return
<1>2. RulesTypeOK'
  BY RulesAssumption DEF RulesInv, RulesTypeOK, Arrive, Return, RulesAssumption
<1>3. \A f \in Event : stage'[f] = IF f = e THEN "owed" ELSE stage[f]
  BY <1>1 DEF RulesInv, RulesTypeOK
<1>4. ~Running(e) /\ \A f \in Event : Running(f)' <=> Running(f)
  BY <1>1 DEF RulesInv, RunOfOwed, Running
<1>5. RunOfOwed'
  BY <1>1, <1>3, <1>4 DEF RulesInv, RunOfOwed
<1>6. Reached' /\ DoneIsNoted'
  BY <1>1, <1>3, <1>4 DEF RulesInv, Reached, DoneIsNoted, Noted
<1>7. /\ \A f \in Event : attempts'[f] = attempts[f] \/ returns' > 0
      /\ returns' = returns \/ returns' > 0
      /\ Return(e) => returns' > 0
      /\ returns' = 0 => returns = 0
      /\ returns > 0 => returns' > 0
  <2>1. CASE Arrive(e)
    <3>1. ~Return(e)
      BY <2>1 DEF Arrive, Return
    <3> QED
      BY <2>1, <3>1 DEF Arrive
  <2>2. CASE Return(e)
    BY <2>2 DEF Return, RulesInv, RulesTypeOK
  <2> QED
    BY <2>1, <2>2
<1>8. FirstRun'
  <2> SUFFICES ASSUME NEW f \in Event, NEW r \in Rule, NEW p \in Recipient,
                      notes[<<f, r, p>>].rows # 0, attempts'[f] = 0, returns' = 0
               PROVE  \/ stage'[f] = "done"
                      \/ Running(f)' /\ (r \notin runs'[f].rules \/ runs'[f].rule = r)
    BY <1>1 DEF FirstRun
  <2>1. attempts[f] = 0 /\ returns = 0 /\ ~Return(e)
    BY <1>7
  <2>2. \/ stage[f] = "done"
        \/ Running(f) /\ (r \notin runs[f].rules \/ runs[f].rule = r)
    BY <2>1 DEF RulesInv, FirstRun
  <2>3. Arrive(e)
    BY <2>1
  <2>4. f # e
    BY <1>4, <2>2, <2>3 DEF Arrive
  <2> QED
    BY <1>1, <1>3, <1>4, <2>2, <2>4
<1>9. OwnIsRepeated'
  BY <1>1, <1>7 DEF RulesInv, OwnIsRepeated
<1>10. RecentExists' /\ NotifiedOnce' /\ AtMostOneInside'
  BY <1>1 DEF RulesInv, RecentExists, NotifiedOnce, AtMostOneInside, Inside, Running
<1>11. RunsAreLeft'
  BY <1>3, RulesAssumption DEF RulesInv, RunsAreLeft, RulesTypeOK, RulesAssumption, Arrive, Return
<1> QED
  BY <1>2, <1>5, <1>6, <1>8, <1>9, <1>10, <1>11 DEF RulesInv

LEMMA ReceiveStep ==
  ASSUME RulesInv, NEW e \in Event, Receive(e)
  PROVE  RulesInv'
<1> DEFINE x == [rules |-> Rule, rule |-> Idle, todo |-> {}, failed |-> FALSE]
<1>1. /\ UNCHANGED <<stage, attempts, notes, muted, raced, returns>>
      /\ stage[e] = "owed" /\ ~Running(e) /\ runs' = [runs EXCEPT ![e] = x]
  BY DEF Receive
<1>2. x \in Run /\ x.rules = Rule /\ x.rule = Idle /\ x # Idle
  BY RunIsNotIdle DEF Run
<1> HIDE DEF x
<1>3. /\ runs' \in [Event -> Run \cup {Idle}] /\ runs'[e] = x /\ Running(e)'
      /\ \A f \in Event \ {e} : runs'[f] = runs[f] /\ (Running(f)' <=> Running(f))
  BY <1>1, <1>2, OneRun DEF RulesInv
<1>4. RulesTypeOK'
  BY <1>1, <1>3 DEF RulesInv, RulesTypeOK
<1>5. Idle \notin Rule
  BY RulesAssumption DEF RulesAssumption
<1>6. RunOfOwed'
  BY <1>1, <1>2, <1>3 DEF RulesInv, RunOfOwed
<1>7. Reached'
  BY <1>1, <1>2, <1>3, <1>5 DEF RulesInv, Reached, Noted
<1>8. FirstRun'
  BY <1>1, <1>3 DEF RulesInv, FirstRun
<1>9. \A f \in Event, r \in Rule : Inside(f, r)' => Inside(f, r)
  BY <1>1, <1>2, <1>3, <1>5 DEF Inside
<1>10. AtMostOneInside'
  BY <1>1, <1>9 DEF RulesInv, AtMostOneInside
<1>11. DoneIsNoted' /\ RunsAreLeft' /\ OwnIsRepeated' /\ RecentExists' /\ NotifiedOnce'
  BY <1>1 DEF RulesInv, DoneIsNoted, Noted, RunsAreLeft, OwnIsRepeated, RecentExists, NotifiedOnce
<1> QED
  BY <1>4, <1>6, <1>7, <1>8, <1>10, <1>11 DEF RulesInv

LEMMA SkipRuleStep ==
  ASSUME RulesInv, NEW e \in Event, NEW r \in Rule, SkipRule(e, r)
  PROVE  RulesInv'
<1> DEFINE x == [runs[e] EXCEPT !.rules = @ \ {r}]
           seen == checkCooldown(e, r)
           why == IF seen = {e} THEN "own" ELSE "other"
<1>1. /\ UNCHANGED <<stage, attempts, notes, raced, returns>>
      /\ Running(e) /\ runs[e].rule = Idle /\ r \in runs[e].rules
      /\ seen # {} /\ muted' = muted \cup {<<e, r, why>>}
      /\ runs' = [runs EXCEPT ![e].rules = @ \ {r}]
  BY DEF SkipRule, AtRule
<1>2. runs[e] \in Run
  BY <1>1, RunFields DEF RulesInv
<1>3. /\ x \in Run /\ x.rules = runs[e].rules \ {r} /\ x.rule = Idle
      /\ x.failed = runs[e].failed /\ x # Idle
  BY <1>1, <1>2, RunIsNotIdle DEF Run
<1>4. runs' = [runs EXCEPT ![e] = x]
  BY <1>1
<1>5. seen = Recent(r, EntityOf[e]) /\ why \in {"own", "other"} /\ (why = "own" => e \in seen)
  BY DEF checkCooldown
<1> HIDE DEF x, why, seen
<1>6. /\ runs' \in [Event -> Run \cup {Idle}] /\ runs'[e] = x /\ Running(e)'
      /\ \A f \in Event \ {e} : runs'[f] = runs[f] /\ (Running(f)' <=> Running(f))
  BY <1>3, <1>4, OneRun DEF RulesInv
<1>7. Idle \notin Rule
  BY RulesAssumption DEF RulesAssumption
<1>8. RulesTypeOK'
  BY <1>1, <1>5, <1>6 DEF RulesInv, RulesTypeOK
<1>9. RunOfOwed'
  BY <1>1, <1>3, <1>6 DEF RulesInv, RunOfOwed
<1>10. \A f \in Event, s \in Rule, p \in Recipient : Noted(f, s, p) => Noted(f, s, p)'
  BY <1>1 DEF Noted
<1>11. \A p \in Recipient : Noted(e, r, p)'
  BY <1>1, <1>5 DEF Noted
<1>12. Reached'
  <2> SUFFICES ASSUME NEW f \in Event, Running(f)', ~runs'[f].failed
               PROVE  /\ \A s \in Rule : s \notin runs'[f].rules => \A p \in Recipient : Noted(f, s, p)'
                      /\ \A s \in Rule : runs'[f].rule = s =>
                           \A p \in Recipient : p \notin runs'[f].todo => notes'[<<f, s, p>>].rows # 0
    BY DEF Reached
  <2>1. CASE f = e
    BY <1>1, <1>3, <1>6, <1>7, <1>10, <1>11, <2>1 DEF RulesInv, Reached
  <2>2. CASE f # e
    BY <1>1, <1>6, <1>10, <2>2 DEF RulesInv, Reached
  <2> QED
    BY <2>1, <2>2
<1>13. DoneIsNoted'
  BY <1>1, <1>10 DEF RulesInv, DoneIsNoted
<1>14. FirstRun'
  BY <1>1, <1>3, <1>6, <1>7 DEF RulesInv, FirstRun
<1>15. why = "own" => attempts[e] > 0 \/ returns > 0
  <2> SUFFICES ASSUME why = "own" PROVE attempts[e] > 0 \/ returns > 0
    OBVIOUS
  <2>1. PICK p \in Recipient : notes[<<e, r, p>>].state = "recent"
    BY <1>5 DEF Recent
  <2>2. notes[<<e, r, p>>].rows # 0
    BY <2>1, TargetTyped DEF RulesInv, RecentExists
  <2>3. stage[e] = "owed"
    BY <1>1 DEF RulesInv, RunOfOwed
  <2>4. ~(attempts[e] = 0 /\ returns = 0)
    BY <1>1, <1>7, <2>2, <2>3 DEF RulesInv, FirstRun
  <2> QED
    BY <2>4, RulesAssumption DEF RulesInv, RulesTypeOK, RulesAssumption
<1>16. OwnIsRepeated'
  <2> SUFFICES ASSUME NEW f \in Event, NEW s \in Rule, <<f, s, "own">> \in muted'
               PROVE  attempts'[f] > 0 \/ returns' > 0
    BY DEF OwnIsRepeated
  <2>1. CASE <<f, s, "own">> \in muted
    BY <1>1, <2>1 DEF RulesInv, OwnIsRepeated
  <2>2. CASE <<f, s, "own">> = <<e, r, why>>
    BY <1>1, <1>15, <2>2
  <2> QED
    BY <1>1, <2>1, <2>2
<1>17. \A f \in Event, s \in Rule : Inside(f, s)' => Inside(f, s)
  BY <1>1, <1>3, <1>6, <1>7 DEF Inside
<1>18. AtMostOneInside' /\ RunsAreLeft' /\ RecentExists' /\ NotifiedOnce'
  BY <1>1, <1>17 DEF RulesInv, RunsAreLeft, AtMostOneInside, RecentExists, NotifiedOnce
<1> QED
  BY <1>8, <1>9, <1>12, <1>13, <1>14, <1>16, <1>18 DEF RulesInv

LEMMA RuleErrorsStep ==
  ASSUME RulesInv, NEW e \in Event, NEW r \in Rule, RuleErrors(e, r)
  PROVE  RulesInv'
<1> DEFINE x == [runs[e] EXCEPT !.rules = @ \ {r}, !.failed = TRUE]
<1>1. /\ UNCHANGED <<stage, attempts, notes, muted, raced, returns>>
      /\ Running(e) /\ runs[e].rule = Idle
      /\ runs' = [runs EXCEPT ![e].rules = @ \ {r}, ![e].failed = TRUE]
  BY DEF RuleErrors, AtRule
<1>2. runs[e] \in Run
  BY <1>1, RunFields DEF RulesInv
<1>3. /\ x \in Run /\ x.rules = runs[e].rules \ {r} /\ x.rule = Idle
      /\ x.failed = TRUE /\ x # Idle
  BY <1>1, <1>2, RunIsNotIdle DEF Run
<1>4. runs' = [runs EXCEPT ![e] = x]
  BY <1>1, <1>2 DEF RulesInv, RulesTypeOK, Run
<1> HIDE DEF x
<1>5. /\ runs' \in [Event -> Run \cup {Idle}] /\ runs'[e] = x /\ Running(e)'
      /\ \A f \in Event \ {e} : runs'[f] = runs[f] /\ (Running(f)' <=> Running(f))
  BY <1>3, <1>4, OneRun DEF RulesInv
<1>6. Idle \notin Rule
  BY RulesAssumption DEF RulesAssumption
<1>7. RulesTypeOK'
  BY <1>1, <1>5 DEF RulesInv, RulesTypeOK
<1>8. RunOfOwed'
  BY <1>1, <1>3, <1>5 DEF RulesInv, RunOfOwed
<1>9. Reached'
  BY <1>1, <1>3, <1>5 DEF RulesInv, Reached, Noted
<1>10. FirstRun'
  BY <1>1, <1>3, <1>5, <1>6 DEF RulesInv, FirstRun
<1>11. \A f \in Event, s \in Rule : Inside(f, s)' => Inside(f, s)
  BY <1>1, <1>3, <1>5, <1>6 DEF Inside
<1>12. AtMostOneInside'
  BY <1>1, <1>11 DEF RulesInv, AtMostOneInside
<1>13. DoneIsNoted' /\ RunsAreLeft' /\ OwnIsRepeated' /\ RecentExists' /\ NotifiedOnce'
  BY <1>1 DEF RulesInv, DoneIsNoted, Noted, RunsAreLeft, OwnIsRepeated, RecentExists, NotifiedOnce
<1> QED
  BY <1>7, <1>8, <1>9, <1>10, <1>12, <1>13 DEF RulesInv

\* The cooldown counts no row of the entity, so whoever else is inside is open.
LEMMA OpenRuleStep ==
  ASSUME RulesInv, NEW e \in Event, NEW r \in Rule, OpenRule(e, r)
  PROVE  RulesInv'
<1> DEFINE x == [runs[e] EXCEPT !.rule = r, !.todo = Recipient]
<1>1. /\ UNCHANGED <<stage, attempts, notes, muted, returns>>
      /\ Running(e) /\ runs[e].rule = Idle /\ r \in runs[e].rules
      /\ Recent(r, EntityOf[e]) = {}
      /\ runs' = [runs EXCEPT ![e].rule = r, ![e].todo = Recipient]
      /\ raced' = IF Overlapped(e, r) THEN raced \cup {<<r, EntityOf[e]>>} ELSE raced
  BY DEF OpenRule, AtRule, checkCooldown
<1>2. runs[e] \in Run
  BY <1>1, RunFields DEF RulesInv
<1>3. /\ x \in Run /\ x.rules = runs[e].rules /\ x.rule = r /\ x.todo = Recipient
      /\ x.failed = runs[e].failed /\ x # Idle
  BY <1>1, <1>2, RunIsNotIdle DEF Run
<1>4. runs' = [runs EXCEPT ![e] = x]
  BY <1>1, <1>2 DEF RulesInv, RulesTypeOK, Run
<1> HIDE DEF x
<1>5. /\ runs' \in [Event -> Run \cup {Idle}] /\ runs'[e] = x /\ Running(e)'
      /\ \A f \in Event \ {e} : runs'[f] = runs[f] /\ (Running(f)' <=> Running(f))
  BY <1>3, <1>4, OneRun DEF RulesInv
<1>6. /\ Idle \notin Rule /\ \A f \in Event : EntityOf[f] \in Entities
  BY RulesAssumption DEF RulesAssumption, Entities
<1>7. RulesTypeOK'
  BY <1>1, <1>5, <1>6 DEF RulesInv, RulesTypeOK
<1>8. RunOfOwed'
  BY <1>1, <1>3, <1>5 DEF RulesInv, RunOfOwed
<1>9. Reached'
  <2> SUFFICES ASSUME NEW f \in Event, Running(f)', ~runs'[f].failed
               PROVE  /\ \A s \in Rule : s \notin runs'[f].rules => \A p \in Recipient : Noted(f, s, p)'
                      /\ \A s \in Rule : runs'[f].rule = s =>
                           \A p \in Recipient : p \notin runs'[f].todo => notes'[<<f, s, p>>].rows # 0
    BY DEF Reached
  <2>1. \A g \in Event, s \in Rule, p \in Recipient : Noted(g, s, p) => Noted(g, s, p)'
    BY <1>1 DEF Noted
  <2>2. CASE f = e
    BY <1>1, <1>3, <1>5, <2>1, <2>2 DEF RulesInv, Reached
  <2>3. CASE f # e
    BY <1>1, <1>5, <2>1, <2>3 DEF RulesInv, Reached
  <2> QED
    BY <2>2, <2>3
<1>10. FirstRun'
  BY <1>1, <1>3, <1>5, <1>6 DEF RulesInv, FirstRun
<1>11. AtMostOneInside'
  <2> SUFFICES ASSUME NEW s \in Rule, NEW f \in Event, NEW g \in Event,
                      EntityOf[f] = EntityOf[g], Inside(f, s)', Inside(g, s)',
                      <<s, EntityOf[f]>> \notin raced'
               PROVE  f = g
    BY DEF AtMostOneInside
  <2>1. \A h \in Event : Inside(h, s)' => Inside(h, s) \/ (h = e /\ s = r)
    BY <1>1, <1>3, <1>5, <1>6 DEF Inside
  <2>2. <<s, EntityOf[f]>> \notin raced
    BY <1>1
  <2>3. CASE s = r /\ EntityOf[f] = EntityOf[e]
    <3>1. ~Overlapped(e, r)
      BY <1>1, <2>3
    <3>2. \A h \in Event \ {e} : EntityOf[h] = EntityOf[e] => ~Inside(h, r)
      BY <1>1, <3>1 DEF Overlapped, Inside, Recent
    <3> QED
      BY <2>1, <2>3, <3>2
  <2>4. CASE ~(s = r /\ EntityOf[f] = EntityOf[e])
    BY <2>1, <2>2, <2>4 DEF RulesInv, AtMostOneInside
  <2> QED
    BY <2>3, <2>4
<1>12. DoneIsNoted' /\ RunsAreLeft' /\ OwnIsRepeated' /\ RecentExists' /\ NotifiedOnce'
  BY <1>1 DEF RulesInv, DoneIsNoted, Noted, RunsAreLeft, OwnIsRepeated, RecentExists, NotifiedOnce
<1> QED
  BY <1>7, <1>8, <1>9, <1>10, <1>11, <1>12 DEF RulesInv

-----------------------------------------------------------------------------
(* A recipient is dealt with. *)

LEMMA WithoutRun ==
  ASSUME RulesInv, NEW e \in Event, NEW p \in Recipient, Running(e), p \in runs[e].todo
  PROVE  LET x == Without(e, p) IN
           /\ x \in Run /\ x.failed = runs[e].failed
           /\ \/ /\ runs[e].todo = {p} /\ x.rule = Idle
                 /\ x.rules = runs[e].rules \ {runs[e].rule}
              \/ /\ x.rule = runs[e].rule /\ x.rules = runs[e].rules
                 /\ x.todo = runs[e].todo \ {p}
<1>1. runs[e] \in Run
  BY RunFields DEF RulesInv
<1>2. CASE runs[e].todo = {p}
  <2>1. Without(e, p) = [runs[e] EXCEPT !.rules = @ \ {runs[e].rule}, !.rule = Idle, !.todo = {}]
    BY <1>2 DEF Without
  <2> QED
    BY <1>1, <1>2, <2>1 DEF Run
<1>3. CASE runs[e].todo # {p}
  <2>1. Without(e, p) = [runs[e] EXCEPT !.todo = @ \ {p}]
    BY <1>3 DEF Without
  <2> QED
    BY <1>1, <2>1 DEF Run
<1> QED
  BY <1>2, <1>3

\* A run inside a rule has one, or it would have no recipient left.
LEMMA CreateRecordStep ==
  ASSUME RulesInv, NEW e \in Event, NEW p \in Recipient, CreateRecord(e, p)
  PROVE  RulesInv'
<1>0. PICK r \in Rule \cup {Idle} : r = runs[e].rule
  BY RunFields DEF RulesInv, CreateRecord
<1> DEFINE x == Without(e, p)
           t == <<e, r, p>>
<1>1. /\ UNCHANGED <<stage, attempts, muted, raced, returns>>
      /\ Running(e) /\ p \in runs[e].todo
      /\ runs' = [runs EXCEPT ![e] = x]
      /\ notes' = [notes EXCEPT ![t] = Kept(@)]
  BY <1>0 DEF CreateRecord
<1>2. /\ x \in Run /\ x.failed = runs[e].failed
      /\ \/ runs[e].todo = {p} /\ x.rule = Idle /\ x.rules = runs[e].rules \ {r}
         \/ x.rule = r /\ x.rules = runs[e].rules /\ x.todo = runs[e].todo \ {p}
  BY <1>0, <1>1, WithoutRun
<1>3. runs[e] \in Run /\ r \in Rule \cup {Idle} /\ Idle \notin Rule /\ x # Idle
  BY <1>1, <1>2, RunFields, RunIsNotIdle, RulesAssumption DEF RulesInv, RulesAssumption
<1> HIDE DEF x
<1>4. /\ runs' \in [Event -> Run \cup {Idle}] /\ runs'[e] = x /\ Running(e)'
      /\ \A f \in Event \ {e} : runs'[f] = runs[f] /\ (Running(f)' <=> Running(f))
  BY <1>1, <1>2, <1>3, OneRun DEF RulesInv
<1>5. \A u \in Target :
        /\ notes'[u] = notes[u] \/ (u = t /\ r \in Rule /\ notes'[u] = [rows |-> 1, state |-> "recent"])
        /\ notes[u].rows # 0 => notes'[u] = notes[u]
        /\ u = t => notes'[u].rows # 0
  <2>1. \A u \in Target : notes'[u] = IF u = t THEN Kept(notes[u]) ELSE notes[u]
    BY <1>1 DEF RulesInv, RulesTypeOK
  <2>2. t \in Target => r \in Rule
    BY DEF Target
  <2> QED
    BY <2>1, <2>2 DEF Kept
<1>6. notes' \in [Target -> [rows : Nat, state : {"none", "recent", "cold"}]]
  <2>1. \A u \in Target : notes'[u] \in [rows : Nat, state : {"none", "recent", "cold"}]
    BY <1>5 DEF RulesInv, RulesTypeOK
  <2> QED
    BY <1>1, <2>1 DEF RulesInv, RulesTypeOK
<1>7. RulesTypeOK'
  BY <1>1, <1>4, <1>6 DEF RulesInv, RulesTypeOK
<1>8. RunOfOwed'
  <2>1. r # Idle => r \in runs[e].rules
    BY <1>0, <1>1 DEF RulesInv, RunOfOwed
  <2> QED
    BY <1>1, <1>2, <1>4, <2>1 DEF RulesInv, RunOfOwed
<1>9. \A f \in Event, s \in Rule, q \in Recipient :
        /\ notes[<<f, s, q>>].rows # 0 => notes'[<<f, s, q>>].rows # 0
        /\ Noted(f, s, q) => Noted(f, s, q)'
        /\ notes'[<<f, s, q>>].rows # 0 => notes[<<f, s, q>>].rows # 0 \/ (f = e /\ s = r)
        /\ notes'[<<f, s, q>>].state = "recent" =>
             notes[<<f, s, q>>].state = "recent" \/ (f = e /\ s = r)
  <2> SUFFICES ASSUME NEW f \in Event, NEW s \in Rule, NEW q \in Recipient
               PROVE  /\ notes[<<f, s, q>>].rows # 0 => notes'[<<f, s, q>>].rows # 0
                      /\ Noted(f, s, q) => Noted(f, s, q)'
                      /\ notes'[<<f, s, q>>].rows # 0 =>
                           notes[<<f, s, q>>].rows # 0 \/ (f = e /\ s = r)
                      /\ notes'[<<f, s, q>>].state = "recent" =>
                           notes[<<f, s, q>>].state = "recent" \/ (f = e /\ s = r)
    OBVIOUS
  <2>1. <<f, s, q>> \in Target /\ (<<f, s, q>> = t => f = e /\ s = r)
    BY TargetTyped
  <2>2. notes[<<f, s, q>>].rows # 0 => notes'[<<f, s, q>>].rows # 0
    BY <1>5, <2>1
  <2> QED
    BY <1>1, <1>5, <2>1, <2>2 DEF Noted
<1>10. Reached'
  <2> SUFFICES ASSUME NEW f \in Event, Running(f)', ~runs'[f].failed
               PROVE  /\ \A s \in Rule : s \notin runs'[f].rules => \A q \in Recipient : Noted(f, s, q)'
                      /\ \A s \in Rule : runs'[f].rule = s =>
                           \A q \in Recipient : q \notin runs'[f].todo => notes'[<<f, s, q>>].rows # 0
    BY DEF Reached
  <2>1. CASE f # e
    BY <1>4, <1>9, <2>1 DEF RulesInv, Reached
  <2>2. CASE f = e
    <3>1. /\ \A s \in Rule : s \notin runs[e].rules => \A q \in Recipient : Noted(e, s, q)
          /\ r \in Rule => \A q \in Recipient : q \notin runs[e].todo => notes[<<e, r, q>>].rows # 0
      BY <1>0, <1>1, <1>2, <1>4, <2>2 DEF RulesInv, Reached
    <3>2. r \in Rule => notes'[<<e, r, p>>].rows # 0
      BY <1>5, TargetTyped
    <3>3. CASE runs[e].todo = {p} /\ x.rule = Idle /\ x.rules = runs[e].rules \ {r}
      <4>1. r \in Rule => \A q \in Recipient : notes'[<<e, r, q>>].rows # 0
        BY <1>9, <3>1, <3>2, <3>3
      <4>2. r \in Rule => \A q \in Recipient : Noted(e, r, q)'
        BY <4>1 DEF Noted
      <4> QED
        BY <1>3, <1>4, <1>9, <2>2, <3>1, <3>3, <4>2
    <3>4. CASE x.rule = r /\ x.rules = runs[e].rules /\ x.todo = runs[e].todo \ {p}
      <4>1. \A s \in Rule : s \notin x.rules => \A q \in Recipient : Noted(e, s, q)'
        BY <1>9, <3>1, <3>4
      <4>2. r \in Rule => \A q \in Recipient : q \notin x.todo => notes'[<<e, r, q>>].rows # 0
        BY <1>9, <3>1, <3>2, <3>4
      <4> QED
        BY <1>4, <2>2, <3>4, <4>1, <4>2
    <3> QED
      BY <1>2, <3>3, <3>4
  <2> QED
    BY <2>1, <2>2
<1>11. DoneIsNoted'
  BY <1>1, <1>9 DEF RulesInv, DoneIsNoted
<1>12. FirstRun'
  <2> SUFFICES ASSUME NEW f \in Event, NEW s \in Rule, NEW q \in Recipient,
                      notes'[<<f, s, q>>].rows # 0, attempts'[f] = 0, returns' = 0
               PROVE  \/ stage'[f] = "done"
                      \/ Running(f)' /\ (s \notin runs'[f].rules \/ runs'[f].rule = s)
    BY DEF FirstRun
  <2>1. attempts[f] = 0 /\ returns = 0
    BY <1>1
  <2>2. \/ stage[f] = "done"
        \/ Running(f) /\ (s \notin runs[f].rules \/ runs[f].rule = s)
        \/ f = e /\ s = r
    BY <1>9, <2>1 DEF RulesInv, FirstRun
  <2>3. s = r => s \notin x.rules \/ x.rule = s
    BY <1>2
  <2>4. s \notin runs[e].rules \/ r = s => s \notin x.rules \/ x.rule = s
    BY <1>2
  <2> QED
    BY <1>0, <1>1, <1>4, <2>2, <2>3, <2>4
<1>13. \A f \in Event, s \in Rule : Inside(f, s)' => Inside(f, s)
  <2> SUFFICES ASSUME NEW f \in Event, NEW s \in Rule, Inside(f, s)'
               PROVE  Inside(f, s)
    OBVIOUS
  <2>1. CASE Running(f)' /\ runs'[f].rule = s
    BY <1>0, <1>1, <1>2, <1>3, <1>4, <2>1 DEF Inside
  <2>2. CASE \E q \in Recipient : notes'[<<f, s, q>>].state = "recent"
    BY <1>0, <1>1, <1>9, <2>2 DEF Inside
  <2> QED
    BY <2>1, <2>2 DEF Inside
<1>14. AtMostOneInside' /\ RunsAreLeft' /\ OwnIsRepeated'
  BY <1>1, <1>13 DEF RulesInv, RunsAreLeft, AtMostOneInside, OwnIsRepeated
<1>15. RecentExists' /\ NotifiedOnce'
  BY <1>5 DEF RulesInv, RecentExists, NotifiedOnce
<1> QED
  BY <1>7, <1>8, <1>10, <1>11, <1>12, <1>14, <1>15 DEF RulesInv

LEMMA RecipientErrorsStep ==
  ASSUME RulesInv, NEW e \in Event, NEW p \in Recipient, RecipientErrors(e, p)
  PROVE  RulesInv'
<1> DEFINE y == Without(e, p)
           x == [y EXCEPT !.failed = TRUE]
           r == runs[e].rule
<1>1. /\ UNCHANGED <<stage, attempts, notes, muted, raced, returns>>
      /\ Running(e) /\ p \in runs[e].todo /\ runs' = [runs EXCEPT ![e] = x]
  BY DEF RecipientErrors
<1>2. /\ y \in Run
      /\ \/ y.rule = Idle /\ y.rules = runs[e].rules \ {r}
         \/ y.rule = r /\ y.rules = runs[e].rules
  BY <1>1, WithoutRun
<1>3. x \in Run /\ x.failed = TRUE /\ x.rule = y.rule /\ x.rules = y.rules
  BY <1>2 DEF Run
<1>4. Idle \notin Rule /\ x # Idle
  BY <1>3, RunIsNotIdle, RulesAssumption DEF RulesAssumption
<1> HIDE DEF x, y, r
<1>5. /\ runs' \in [Event -> Run \cup {Idle}] /\ runs'[e] = x /\ Running(e)'
      /\ \A f \in Event \ {e} : runs'[f] = runs[f] /\ (Running(f)' <=> Running(f))
  BY <1>1, <1>3, <1>4, OneRun DEF RulesInv
<1>6. RulesTypeOK'
  BY <1>1, <1>5 DEF RulesInv, RulesTypeOK
<1>7. RunOfOwed'
  <2>1. r # Idle => r \in runs[e].rules
    BY <1>1 DEF RulesInv, RunOfOwed, r
  <2> QED
    BY <1>1, <1>2, <1>3, <1>5, <2>1 DEF RulesInv, RunOfOwed
<1>8. Reached'
  BY <1>1, <1>3, <1>5 DEF RulesInv, Reached, Noted
<1>9. \A s \in Rule : s \notin runs[e].rules \/ r = s => s \notin x.rules \/ x.rule = s
  BY <1>2, <1>3
<1>10. FirstRun'
  BY <1>1, <1>5, <1>9 DEF RulesInv, FirstRun, r
<1>11. \A f \in Event, s \in Rule : Inside(f, s)' => Inside(f, s)
  BY <1>1, <1>2, <1>3, <1>4, <1>5 DEF Inside, r
<1>12. AtMostOneInside'
  BY <1>1, <1>11 DEF RulesInv, AtMostOneInside
<1>13. DoneIsNoted' /\ RunsAreLeft' /\ OwnIsRepeated' /\ RecentExists' /\ NotifiedOnce'
  BY <1>1 DEF RulesInv, DoneIsNoted, Noted, RunsAreLeft, OwnIsRepeated, RecentExists, NotifiedOnce
<1> QED
  BY <1>6, <1>7, <1>8, <1>10, <1>12, <1>13 DEF RulesInv

-----------------------------------------------------------------------------
(* A run ends; a row leaves the cooldown. *)

LEMMA EndRunStep ==
  ASSUME RulesInv, NEW e \in Event, NEW outcome \in {"owed", "done"}, EndRun(e, outcome),
         Running(e),
         outcome = "done" => runs[e].rules = {} /\ ~runs[e].failed
  PROVE  RulesInv'
<1>1. /\ UNCHANGED <<notes, muted, raced, returns>> /\ runs' = [runs EXCEPT ![e] = Idle]
      /\ stage' = [stage EXCEPT ![e] = Settled(e, outcome)]
      /\ attempts' = [attempts EXCEPT ![e] = IF outcome = "owed" THEN @ + 1 ELSE @]
  BY DEF EndRun
<1>2. /\ runs' \in [Event -> Run \cup {Idle}] /\ runs'[e] = Idle /\ ~Running(e)'
      /\ \A f \in Event \ {e} : runs'[f] = runs[f] /\ (Running(f)' <=> Running(f))
  BY <1>1, OneRun DEF RulesInv
<1>3. /\ \A f \in Event : stage'[f] = IF f = e THEN Settled(e, outcome) ELSE stage[f]
      /\ Settled(e, outcome) \in {"owed", "done", "parked"}
      /\ Settled(e, outcome) = "done" => outcome = "done"
      /\ outcome = "done" => Settled(e, outcome) = "done"
  BY <1>1 DEF RulesInv, RulesTypeOK, Settled
<1>4. attempts[e] \in 0..MaxRuns /\ MaxRuns \in Nat
  BY RulesAssumption DEF RulesInv, RulesTypeOK, RulesAssumption
<1>5. attempts[e] < MaxRuns /\ stage[e] = "owed"
  BY DEF RulesInv, RunsAreLeft, RunOfOwed
<1>6. \A f \in Event : attempts'[f] = IF f = e /\ outcome = "owed" THEN attempts[e] + 1 ELSE attempts[f]
  BY <1>1 DEF RulesInv, RulesTypeOK
<1>7. RulesTypeOK'
  <2>1. attempts' \in [Event -> 0..MaxRuns]
    BY <1>1, <1>4, <1>5, <1>6 DEF RulesInv, RulesTypeOK
  <2>2. stage' \in [Event -> {"absent", "owed", "done", "parked"}]
    BY <1>1, <1>3 DEF RulesInv, RulesTypeOK
  <2> QED
    BY <1>1, <1>2, <2>1, <2>2 DEF RulesInv, RulesTypeOK
<1>8. RunsAreLeft'
  <2>1. stage'[e] = "owed" => attempts'[e] < MaxRuns
    BY <1>1, <1>4, <1>5, <1>6 DEF Settled, RulesInv, RulesTypeOK
  <2> QED
    BY <1>3, <1>6, <2>1 DEF RulesInv, RunsAreLeft
<1>9. RunOfOwed'
  BY <1>2, <1>3 DEF RulesInv, RunOfOwed
<1>10. Reached'
  BY <1>1, <1>2 DEF RulesInv, Reached, Noted
<1>11. DoneIsNoted'
  BY <1>1, <1>3 DEF RulesInv, DoneIsNoted, Reached, Noted
<1>12. FirstRun'
  BY <1>1, <1>2, <1>3, <1>4, <1>6 DEF RulesInv, FirstRun
<1>13. OwnIsRepeated'
  BY <1>1, <1>4, <1>6 DEF RulesInv, OwnIsRepeated
<1>14. \A f \in Event, s \in Rule : Inside(f, s)' => Inside(f, s)
  BY <1>1, <1>2 DEF Inside
<1>15. AtMostOneInside' /\ RecentExists' /\ NotifiedOnce'
  BY <1>1, <1>14 DEF RulesInv, AtMostOneInside, RecentExists, NotifiedOnce
<1> QED
  BY <1>7, <1>8, <1>9, <1>10, <1>11, <1>12, <1>13, <1>15 DEF RulesInv

LEMMA CoolStep ==
  ASSUME RulesInv, NEW t \in Target, Cool(t)
  PROVE  RulesInv'
<1>1. /\ UNCHANGED <<stage, attempts, runs, muted, raced, returns>>
      /\ notes[t].state = "recent" /\ notes' = [notes EXCEPT ![t].state = "cold"]
  BY DEF Cool
<1>2. /\ RulesTypeOK'
      /\ \A u \in Target : /\ notes'[u].rows = notes[u].rows
                           /\ notes'[u].state = "recent" => notes[u].state = "recent"
  BY <1>1 DEF RulesInv, RulesTypeOK
<1>3. \A e \in Event, r \in Rule, p \in Recipient :
        /\ notes'[<<e, r, p>>].rows = notes[<<e, r, p>>].rows
        /\ notes'[<<e, r, p>>].state = "recent" => notes[<<e, r, p>>].state = "recent"
  <2> SUFFICES ASSUME NEW e \in Event, NEW r \in Rule, NEW p \in Recipient
               PROVE  /\ notes'[<<e, r, p>>].rows = notes[<<e, r, p>>].rows
                      /\ notes'[<<e, r, p>>].state = "recent" =>
                           notes[<<e, r, p>>].state = "recent"
    OBVIOUS
  <2>1. <<e, r, p>> \in Target
    BY TargetTyped
  <2> QED
    BY <1>2, <2>1
<1>4. \A e \in Event, r \in Rule : /\ Inside(e, r)' => Inside(e, r)
                                   /\ \A p \in Recipient : Noted(e, r, p)' <=> Noted(e, r, p)
  BY <1>1, <1>3 DEF Inside, Noted, Running
<1>5. RunOfOwed' /\ RunsAreLeft' /\ OwnIsRepeated'
  BY <1>1 DEF RulesInv, RunOfOwed, Running, RunsAreLeft, OwnIsRepeated
<1>6. Reached' /\ DoneIsNoted' /\ FirstRun'
  <2>1. Reached'
    BY <1>1, <1>3, <1>4 DEF RulesInv, Reached, Running
  <2>2. DoneIsNoted'
    BY <1>1, <1>4 DEF RulesInv, DoneIsNoted
  <2>3. FirstRun'
    BY <1>1, <1>3 DEF RulesInv, FirstRun, Running
  <2> QED
    BY <2>1, <2>2, <2>3
<1>7. RecentExists' /\ NotifiedOnce'
  BY <1>2 DEF RulesInv, RecentExists, NotifiedOnce
<1>8. AtMostOneInside'
  BY <1>1, <1>4 DEF RulesInv, AtMostOneInside
<1> QED
  BY <1>2, <1>5, <1>6, <1>7, <1>8 DEF RulesInv

-----------------------------------------------------------------------------

LEMMA RulesInvPreserved == RulesInv /\ [RulesNext]_ruleVars => RulesInv'
<1> SUFFICES ASSUME RulesInv, [RulesNext]_ruleVars PROVE RulesInv'
  OBVIOUS
<1>1. ASSUME NEW e \in Event, Works(e) PROVE RulesInv'
  <2>1. ASSUME Finish(e) PROVE RulesInv'
    <3>1. /\ Running(e) /\ runs[e].rules = {} /\ EndRun(e, RunVerdict(runs[e]))
          /\ runs[e].failed \in BOOLEAN
      BY <2>1, RunFields DEF Finish, RulesInv
    <3> QED
      BY <3>1, EndRunStep DEF RunVerdict
  <2> QED
    BY <1>1, <2>1, SkipRuleStep, OpenRuleStep, RuleErrorsStep, CreateRecordStep,
       RecipientErrorsStep DEF Works
<1>2. ASSUME NEW e \in Event, Abandon(e) PROVE RulesInv'
  BY <1>2, EndRunStep DEF Abandon
<1>3. CASE UNCHANGED ruleVars
  <2>1. RulesTypeOK' /\ RunOfOwed' /\ RunsAreLeft' /\ OwnIsRepeated' /\ RecentExists'
    BY <1>3 DEF ruleVars, RulesInv, RulesTypeOK, RunOfOwed, RunsAreLeft, OwnIsRepeated,
       RecentExists, Running
  <2>2. Reached' /\ DoneIsNoted' /\ NotifiedOnce'
    BY <1>3 DEF ruleVars, RulesInv, Reached, DoneIsNoted, Noted, NotifiedOnce, Running
  <2>3. FirstRun' /\ AtMostOneInside'
    BY <1>3 DEF ruleVars, RulesInv, FirstRun, AtMostOneInside, Inside, Running
  <2> QED
    BY <2>1, <2>2, <2>3 DEF RulesInv
<1> QED
  BY <1>1, <1>2, <1>3, OfferedStep, ReceiveStep, CoolStep DEF RulesNext

LEMMA RulesInvInvariant == RulesSpec => []RulesInv
BY RulesInitOK, RulesInvPreserved, PTL DEF RulesSpec

\* The state of the queue, the runs and the rows is well formed.
THEOREM RulesTypeCorrect == RulesSpec => []RulesTypeOK
<1>1. RulesInv => RulesTypeOK
  BY DEF RulesInv
<1> QED
  BY <1>1, RulesInvInvariant, PTL

\* Whatever is retried or enqueued again, a recipient has one row per event and rule.
THEOREM NoSecondNotification == RulesSpec => []NotifiedOnce
<1>1. RulesInv => NotifiedOnce
  BY DEF RulesInv
<1> QED
  BY <1>1, RulesInvInvariant, PTL

\* A recipient of a completed event has a row, or the rule's cooldown was the reason;
\* and a first run is never stopped by its own rows.
THEOREM OnlyCooldownMisses == RulesSpec => []MissedOnlyByCooldown
<1>1. RulesInv => MissedOnlyByCooldown
  <2> SUFFICES ASSUME RulesInv PROVE MissedOnlyByCooldown
    OBVIOUS
  <2>1. \A t \in Target : stage[t[1]] = "done" /\ notes[t].rows = 0 =>
          \E why \in {"own", "other"} : <<t[1], t[2], why>> \in muted
    <3> SUFFICES ASSUME NEW e \in Event, NEW r \in Rule, NEW p \in Recipient,
                        stage[e] = "done", notes[<<e, r, p>>].rows = 0
                 PROVE  \E why \in {"own", "other"} : <<e, r, why>> \in muted
      BY DEF Target
    <3> QED
      BY DEF RulesInv, DoneIsNoted, Noted
  <2> QED
    BY <2>1 DEF MissedOnlyByCooldown, RulesInv, OwnIsRepeated
<1> QED
  BY <1>1, RulesInvInvariant, PTL

\* Two events of an entity are both in a rule's cooldown only if their runs raced.
THEOREM OnlyRacesBreakCooldown == RulesSpec => []CooldownUnlessRaced
<1>1. RulesInv => CooldownUnlessRaced
  <2> SUFFICES ASSUME RulesInv, NEW r \in Rule, NEW entity \in Entities,
                      <<r, entity>> \notin raced
               PROVE  ~(Cardinality(Recent(r, entity)) > 1)
    BY DEF CooldownUnlessRaced
  <2>1. \A e, f \in Recent(r, entity) : e = f
    BY DEF RulesInv, AtMostOneInside, Inside, Recent
  <2>2. CASE Recent(r, entity) = {}
    BY <2>2, FS_EmptySet
  <2>3. CASE Recent(r, entity) # {}
    <3>1. PICK e \in Recent(r, entity) : Recent(r, entity) = {e}
      BY <2>1, <2>3
    <3>2. Cardinality(Recent(r, entity)) = 1
      BY <3>1, FS_Singleton
    <3> QED
      BY <3>2
  <2> QED
    BY <2>2, <2>3
<1> QED
  BY <1>1, RulesInvInvariant, PTL
=============================================================================
