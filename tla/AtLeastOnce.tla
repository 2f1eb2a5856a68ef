---------------------------- MODULE AtLeastOnce ----------------------------
(***************************************************************************)
(* What the queue promises of each message it has accepted: it stays owed  *)
(* until a handler has succeeded with it or it is parked for an operator.  *)
(* A parked message may still succeed, when a run outlives its delivery.   *)
(***************************************************************************)
CONSTANT Message

VARIABLE status

Statuses == {"unsent", "owed", "parked", "succeeded"}

Init == status = [m \in Message |-> "unsent"]

Accept(m) ==
  /\ status[m] = "unsent"
  /\ status' = [status EXCEPT ![m] = "owed"]

Succeed(m) ==
  /\ status[m] \in {"owed", "parked"}
  /\ status' = [status EXCEPT ![m] = "succeeded"]

\* Several messages may be parked at once: a broken session gives back many.
Park(ms) ==
  /\ \A m \in ms : status[m] = "owed"
  /\ status' = [m \in Message |-> IF m \in ms THEN "parked" ELSE status[m]]

Next ==
  \/ \E m \in Message : Accept(m) \/ Succeed(m)
  \/ \E ms \in SUBSET Message : Park(ms)

Spec == Init /\ [][Next]_status
=============================================================================
