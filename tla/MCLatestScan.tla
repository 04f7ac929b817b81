--------------------------- MODULE MCLatestScan ---------------------------
(* Small instances of LatestScan for TLC.                                  *)
EXTENDS LatestScan, TLC

CONSTANTS early, late

TwoComponents == {early, late}

(* The windows of two cohorts: a routine cohort, and the recovery of a     *)
(* checkpoint that expires meanwhile, with the same next due time for a    *)
(* deadline.  It is planned again until the next checkpoint has expired.   *)
MCDue == [c \in Component |-> IF c = early THEN 0 ELSE 1]
MCDeadline == [c \in Component |-> 2]
MCUntil == [c \in Component |-> IF c = early THEN 0 ELSE 4]

(* Cohorts that are due at any time, and never planned again.              *)
Always == [c \in Component |-> 0]
Once == [c \in Component |-> 0]
NoDeadline == [c \in Component |-> MaxTime + 1]
Symmetry == Permutations(Component)
=============================================================================
