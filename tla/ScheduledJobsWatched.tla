----------------------- MODULE ScheduledJobsWatched -----------------------
(***************************************************************************)
(* ScheduledJobs with a history variable: whether time has passed only     *)
(* when no coordinator was down and none that was idle had a job to lease. *)
(***************************************************************************)
EXTENDS ScheduledJobs

VARIABLE prompt

WatchedInit == Init /\ prompt = TRUE

WatchedNext == Next /\ prompt' = (prompt /\ (now' # now => Prompt))

WatchedSpec == WatchedInit /\ [][WatchedNext]_<<vars, prompt>>

(* With coordinators that poll and are restarted promptly, a job of the    *)
(* highest priority waits for at most one run of another job, also after a *)
(* kill in the middle of a run (lease_due, run_once, run_loop).            *)
PunctualIfPrompt == prompt => Punctual
=============================================================================
