-------------------------- MODULE MCSchedulerLease --------------------------
(* Two replicas that compete for one task, for TLC.                         *)
EXTENDS SchedulerLease, TLC

CONSTANTS r1, r2, t1, t2, t3

\* A token is only ever compared, so tokens are interchangeable; so are
\* replicas.  Used by the runs that check no liveness.
Symmetry == Permutations({r1, r2}) \cup Permutations({t1, t2, t3})
=============================================================================
