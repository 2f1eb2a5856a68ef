-------------------------- MODULE MCDurableDelivery --------------------------
(* A few dispatchers over a few messages in front of the queue, for TLC.    *)
EXTENDS DurableDelivery, TLC

\* Messages, dispatchers and tokens are only ever compared.
Symmetry ==
  Permutations(Message) \cup Permutations(Dispatcher) \cup Permutations(Token)
=============================================================================
