----------------------------- MODULE MCDelivery -----------------------------
(* A few workers that consume one queue, for TLC.                           *)
EXTENDS Delivery, TLC

\* Copies, workers and hashes are only ever compared.
Symmetry == Permutations(Copy) \cup Permutations(Worker) \cup Permutations(Hash)

\* Behaviours of Spec in which processes crash, and nothing else goes wrong: no
\* session breaks, the inbox answers every Begin, and no lease lapses before the
\* delivery limit is used up.  (The backoff of SubscribeEnvelope doubles from
\* ReconnectMin to ReconnectMax, 1 s to 30 s, so the MaxAttempts + 2 returns the
\* limit allows take some 90 s, a fraction of IdempotencyLease, 5 minutes.)
CrashOnlyNext ==
  \/ \E m \in Message : Send(m)
  \/ \E c \in Copy : RetryExpires(c)
  \/ \E w \in Worker :
       \/ Crash(w) \/ Works(w)
       \/ \E c \in Copy : \/ Deliver(w, c) \/ Begin(w, c)
                          \/ BeginComplete(w, c) \/ BeginRefused(w, c)

CrashOnlySpec == Init /\ [][CrashOnlyNext]_vars
=============================================================================
