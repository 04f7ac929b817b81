-------------------------- MODULE MCCohortPlanner --------------------------
(* Small instances of CohortPlanner for TLC.                               *)
EXTENDS CohortPlanner

(* The default policy with checkpoints 40, 60 and 420 minutes after the
   publication, a ceiling that is no divisor of an hour, and life stages
   that come within them.                                                  *)
Fixed ==
  [hours |-> {40, 60, 420}, lateness |-> 20, bucket |-> 5,
   confirmations |-> 2, officialAge |-> 60, turnoverConfirmations |-> 2,
   thresholds |-> [s |-> [views |-> 6000, comments |-> 60, turnover |-> 35],
                   a |-> [views |-> 1200, comments |-> 20, turnover |-> 20],
                   b |-> [views |-> 300, comments |-> 5, turnover |-> None]],
   hot |-> [routine |-> [s |-> 3, a |-> 2, b |-> 1, c |-> 1],
            checkpoint |-> [s |-> 20, a |-> 10, b |-> 3, c |-> 1],
            sliceSeconds |-> 55],
   lifecycle |-> [dormantAfter |-> 430, archiveAfter |-> 900,
                  dormantInterval |-> 30, probeInterval |-> 60],
   windows |-> {[start |-> 1290, end |-> 30]},
   intervals |-> [s |-> [active |-> 2, normal |-> 10],
                  a |-> [active |-> 10, normal |-> 30],
                  b |-> [active |-> 30, normal |-> 60],
                  c |-> [active |-> 45, normal |-> 50]]]

OnePolicy == [v1 |-> Fixed]

BothModes == {"live", "shadow"}
Checkpoints ==
  ({AgeKey(60)} \X {"hot_core", "latest_reconciliation"})
    \cup {<<RecoveryKey(60), "latest_reconciliation">>}
MCInstants == {61, 401, 441}
=============================================================================
