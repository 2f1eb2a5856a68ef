----------------------- MODULE MCNotificationDelivery -----------------------
(* A few notifications and workers, for TLC.                                *)
EXTENDS NotificationDelivery, TLC

\* Workers are only ever compared.
Symmetry == Permutations(Worker)
=============================================================================
