-------------------------- MODULE MCScheduledJobs --------------------------
(* A small instance of ScheduledJobsWatched for TLC.                       *)
EXTENDS ScheduledJobsWatched, TLC

CONSTANTS uid, sweep, c1, c2

MCJob == {uid, sweep}
MCCoordinator == {c1, c2}
MCPriority == (uid :> 2) @@ (sweep :> 1)

On(i) == [interval |-> i, enabled |-> TRUE]
Off(i) == [interval |-> i, enabled |-> FALSE]

(* Two configurations: the sweep is slowed down, or switched off.          *)
MCDeployment == {(uid :> On(2)) @@ (sweep :> On(1)),
                 (uid :> On(2)) @@ (sweep :> Off(3))}

Symmetry == Permutations(MCCoordinator)
=============================================================================
