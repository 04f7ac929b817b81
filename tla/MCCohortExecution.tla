------------------------- MODULE MCCohortExecution -------------------------
(* A small instance of CohortExecution for TLC.                            *)
EXTENDS CohortExecution

TwoComponents == {1, 2}
=============================================================================
