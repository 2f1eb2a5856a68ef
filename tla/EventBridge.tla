----------------------------- MODULE EventBridge -----------------------------
(***************************************************************************)
(* From something that becomes due to its message in the outbox: the       *)
(* schedulers (internal/worker), the in-process event bus                  *)
(* (internal/service/event_bus.go) and the goroutine that moves events     *)
(* into the outbox (bridgeEvents, cmd/worker/main.go).                     *)
(*                                                                         *)
(* An occurrence is one thing to announce.  A deadline's threshold has an  *)
(* event ID derived from it and is published by every poll while it is     *)
(* due; an exception's expiry is committed first and published once, with  *)
(* no ID; an evidence's expiry is enqueued by the transaction that records *)
(* it.  The outbox itself is module Outbox: here a message is a member of  *)
(* queued for as long as its row exists.                                   *)
(***************************************************************************)
EXTENDS Integers, FiniteSets, Sequences

CONSTANTS Deadline,    \* thresholds, numbered in the order of the poll's query
          Exception,   \* exceptions that expire
          Evidence,    \* evidence that expires
          Unsendable,  \* thresholds whose event cannot be encoded, or is not valid
          Buffer,      \* capacity of a subscriber's channel: 64
          MaxEnds,     \* bound on the ends of the worker process
          MaxPurges    \* bound on the purges of a behaviour

ASSUME OccurrencesAssumption ==
  /\ Deadline \subseteq Nat
  /\ Deadline \cap (Exception \cup Evidence) = {}
  /\ Exception \cap Evidence = {}

ASSUME BridgeBoundsAssumption ==
  Buffer \in Nat \ {0} /\ MaxEnds \in Nat /\ MaxPurges \in Nat

Occurrence == Deadline \cup Exception \cup Evidence

\* What goes through the bus.
Published == Deadline \cup Exception

ASSUME UnsendableAssumption == Unsendable \subseteq Deadline

VARIABLES
  source,    \* what the database says of each occurrence
  sweep,     \* due deadlines the poll under way has yet to publish
  announce,  \* the exception whose expiry is committed and not yet published
  bus,       \* the channel of the subscriber to "*"
  held,      \* the event bridgeEvents has taken from the channel
  queued,    \* occurrences with a row in the outbox
  lost,      \* history: expired exceptions whose event was dropped, with the process
             \* or without
  ends,
  purges

scheduling == <<source, sweep, announce>>
bridgeVars == <<source, sweep, announce, bus, held, queued, lost, ends, purges>>

AtMostOne(S) == \A a, b \in S : a = b

BridgeTypeOK ==
  /\ source \in [Occurrence -> {"waiting", "due", "settled"}]
  /\ sweep \subseteq Deadline
  /\ announce \subseteq Exception /\ AtMostOne(announce)
  /\ bus \in Seq(Published) /\ Len(bus) <= Buffer
  /\ held \subseteq Published /\ AtMostOne(held)
  /\ queued \subseteq Occurrence
  /\ lost \subseteq Exception
  /\ ends \in 0..MaxEnds
  /\ purges \in 0..MaxPurges

BridgeInit ==
  /\ source = [o \in Occurrence |-> "waiting"]
  /\ sweep = {} /\ announce = {}
  /\ bus = <<>> /\ held = {}
  /\ queued = {} /\ lost = {}
  /\ ends = 0 /\ purges = 0

-----------------------------------------------------------------------------
(* The schedulers. *)

BecomeDue(o) ==
  /\ source[o] = "waiting"
  /\ source' = [source EXCEPT ![o] = "due"]
  /\ UNCHANGED <<sweep, announce, bus, held, queued, lost, ends, purges>>

\* Somebody deals with what was due: the query no longer returns it.
Settle(d) ==
  /\ source[d] = "due"
  /\ source' = [source EXCEPT ![d] = "settled"]
  /\ UNCHANGED <<sweep, announce, bus, held, queued, lost, ends, purges>>

\* mutant: off by one
HasRoom_OffByOne == Len(bus) <= Buffer
HasRoom == Len(bus) < Buffer

\* The query of a poll.  Polls are at least a quarter of an hour apart: the next
\* one finds the channel drained, unless the process has ended.
StartSweep ==
  /\ sweep = {} /\ bus = <<>> /\ held = {}
  /\ sweep' = {d \in Deadline : source[d] = "due"}
  /\ UNCHANGED <<source, announce, bus, held, queued, lost, ends, purges>>

\* Publish for the next row; a full channel drops the event, and nobody knows.
PublishNext(d) ==
  /\ d \in sweep /\ \A e \in sweep : d <= e
  /\ sweep' = sweep \ {d}
  /\ bus' = IF HasRoom THEN Append(bus, d) ELSE bus
  /\ UNCHANGED <<source, announce, held, queued, lost, ends, purges>>

\* The transaction that sets status to expired, with its audit row, commits.
AutoExpire(x) ==
  /\ announce = {} /\ source[x] = "due"
  /\ source' = [source EXCEPT ![x] = "settled"]
  /\ announce' = {x}
  /\ UNCHANGED <<sweep, bus, held, queued, lost, ends, purges>>

\* It commits, but its answer is lost: the run ends with an error, and the row
\* that it has expired is never looked at again.
CommitUnanswered(x) ==
  /\ announce = {} /\ source[x] = "due"
  /\ source' = [source EXCEPT ![x] = "settled"]
  /\ lost' = lost \cup {x}
  /\ UNCHANGED <<sweep, announce, bus, held, queued, ends, purges>>

\* The Publish that follows its commit.
PublishExpiry(x) ==
  /\ x \in announce
  /\ announce' = {}
  /\ bus' = IF HasRoom THEN Append(bus, x) ELSE bus
  /\ lost' = IF HasRoom THEN lost ELSE lost \cup {x}
  /\ UNCHANGED <<source, sweep, held, queued, ends, purges>>

\* The transaction that expires evidence enqueues the message, too.
ExpireDueEvidence(v) ==
  /\ source[v] = "due"
  /\ source' = [source EXCEPT ![v] = "settled"]
  /\ queued' = queued \cup {v}
  /\ UNCHANGED <<sweep, announce, bus, held, lost, ends, purges>>

-----------------------------------------------------------------------------
(* bridgeEvents and the process it runs in. *)

\* mutant: the next event is read while an insert is under way
TakeEvent_ReadsOn ==
  /\ bus # <<>>
  /\ held' = {Head(bus)} /\ bus' = Tail(bus)
  /\ UNCHANGED <<scheduling, queued, lost, ends, purges>>

TakeEvent ==
  /\ held = {} /\ bus # <<>>
  /\ held' = {Head(bus)} /\ bus' = Tail(bus)
  /\ UNCHANGED <<scheduling, queued, lost, ends, purges>>

\* mutant: a conflict is an error, and the bridge tries the event again
EnqueueHeld_RetriesConflict ==
  /\ held # {} /\ held \cap (queued \cup Unsendable) = {}
  /\ queued' = queued \cup held
  /\ held' = {}
  /\ UNCHANGED <<scheduling, bus, lost, ends, purges>>

\* INSERT .. ON CONFLICT (message_id) DO NOTHING.  A row that exists already,
\* identical or with an earlier snapshot of the occurrence, is left as it is.
EnqueueHeld ==
  /\ held # {} /\ held \cap Unsendable = {}
  /\ queued' = queued \cup held
  /\ held' = {}
  /\ UNCHANGED <<scheduling, bus, lost, ends, purges>>

\* NewEnvelope or Validate refuses the event: it is logged, and the next is read.
\* A threshold's events are all alike; an exception has one, which is valid or not.
DropHeld ==
  /\ held # {} /\ held \subseteq Unsendable \cup Exception
  /\ lost' = lost \cup (held \cap Exception)
  /\ held' = {}
  /\ UNCHANGED <<scheduling, bus, queued, ends, purges>>

\* What the process had only in memory: the channel, the bridge and the polls.
InMemory == {bus[i] : i \in DOMAIN bus} \cup held \cup announce

ProcessEnds ==
  /\ ends < MaxEnds /\ ends' = ends + 1
  /\ lost' = lost \cup (InMemory \cap Exception)
  /\ bus' = <<>> /\ held' = {} /\ sweep' = {} /\ announce' = {}
  /\ UNCHANGED <<source, purges>>

\* A crash, or a shutdown: bridgeEvents returns with events in the channel.
Stop ==
  /\ ProcessEnds
  /\ UNCHANGED queued

\* A database error ends bridgeEvents, and that ends the worker.  The row may
\* have been inserted all the same.
EnqueueFails ==
  /\ held # {} /\ held \cap Unsendable = {}
  /\ ProcessEnds
  /\ queued' \in {queued, queued \cup held}

\* PurgePublishedBefore deletes a published row.  Only a deadline's event comes
\* back after that, so only its row matters.
Purge(d) ==
  /\ purges < MaxPurges /\ d \in queued
  /\ queued' = queued \ {d}
  /\ purges' = purges + 1
  /\ UNCHANGED <<scheduling, bus, held, lost, ends>>

BridgeNext ==
  \/ \E o \in Occurrence : BecomeDue(o)
  \/ \E d \in Deadline : Settle(d) \/ PublishNext(d) \/ Purge(d)
  \/ \E x \in Exception : AutoExpire(x) \/ CommitUnanswered(x) \/ PublishExpiry(x)
  \/ \E v \in Evidence : ExpireDueEvidence(v)
  \/ StartSweep \/ TakeEvent \/ EnqueueHeld \/ DropHeld
  \/ Stop \/ EnqueueFails

BridgeSpec == BridgeInit /\ [][BridgeNext]_bridgeVars

-----------------------------------------------------------------------------
(* Properties. *)

\* Evidence that has expired was given to the outbox.  An exception that has
\* expired was, or it is still on its way, or the only event about it is on
\* record as lost: to a commit whose answer was lost, to a full channel, to an
\* envelope that is not valid, or to the end of the process.
NothingVanishes ==
  /\ \A v \in Evidence : source[v] = "settled" => v \in queued
  /\ \A x \in Exception : source[x] = "settled" => x \in queued \cup InMemory \cup lost

\* Fewer than Buffer due deadlines come before d, whose event is valid, in a poll.
InReach(d) ==
  /\ source[d] = "due" /\ d \notin Unsendable
  /\ Cardinality({e \in Deadline : e < d /\ source[e] = "due"}) < Buffer

\* A deadline that stays due with fewer than Buffer due before it reaches the
\* outbox again and again, whatever a full channel or a stopped process drops.
\* One further back has no such promise: each poll starts with the same ones.
EveryDeadlineInReachIsQueued ==
  \A d \in Deadline : []<>(InReach(d) => d \in queued)
=============================================================================
