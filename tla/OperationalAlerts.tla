------------------------- MODULE OperationalAlerts -------------------------
(***************************************************************************)
(* The operational alerts, evaluated by the coordinators of the service.   *)
(* An evaluation is the handler of a scheduled job: it reads the queue,    *)
(* the coverage, the jobs and the service instances, tells the operator of *)
(* every change of an alert, and then commits the alerts together with the *)
(* success of the job.  What was told is not taken back when the           *)
(* transaction is rolled back.                                             *)
(*                                                                         *)
(* The job is leased, so one coordinator evaluates at a time (module       *)
(* ScheduledJobs).  Load stands for what the evaluation reads of queue and *)
(* coverage.  Times are ages in ticks.                                     *)
(***************************************************************************)
EXTENDS ServiceHost

CONSTANTS Jobs,           \* keys of the other scheduled jobs
          Loads,          \* records [pending, oldest, pages, errors]
          FirstLoad,      \* what the service finds
          Pending, Oldest, MinPages, Failures,  \* the thresholds of the policy
          Rate,           \* request_failure_rate in percent
          Repeat,         \* repeat_notification_seconds
          MaxChanges      \* bound: changes of load and jobs

ASSUME AlertAssumption ==
  /\ {Pending, Oldest, MinPages, Failures, Repeat} \subseteq Nat \ {0}
  /\ Rate \in 1..100
  /\ FirstLoad \in Loads
  /\ \A l \in Loads : {l.pending, l.oldest, l.pages, l.errors} \subseteq Nat

VARIABLES load,     \* what there is to read
          job,      \* scheduled_jobs: enabled and consecutive_failures
          alert,    \* operational_alert_states
          draft,    \* what an evaluation has written and not committed
          heard,    \* the last notification of each key
          changes

alertVars == <<load, job, alert, draft, heard, changes>>

vars == <<hostVars, alertVars>>

Ambient == {"worker_heartbeat", "task_backlog", "request_failure_rate"}

Key == Ambient \cup Jobs

NoAlert == [status |-> "none", notified |-> 0]

AlertStatus == {"none", "active", "resolved"}

-----------------------------------------------------------------------------
(* Drafts                                                                  *)

(* The conditions.  The rate is undefined without pages.                   *)
Triggered(k) ==
  \/ k = "worker_heartbeat" /\ ~Fresh("worker")
  \/ /\ k = "task_backlog"
     /\ load.pending >= Pending \/ (load.pending > 0 /\ load.oldest >= Oldest)
  \/ /\ k = "request_failure_rate"
     /\ load.pages >= MinPages /\ load.errors * 100 >= Rate * load.pages
  \/ k \in Jobs /\ job[k].enabled /\ job[k].failures >= Failures

(* The keys that get a draft: a job that is enabled, or whose alert is
   still active.                                                           *)
Drafted == Ambient \cup {k \in Jobs : job[k].enabled \/ alert[k].status = "active"}

(* Mutant of Action: an alert that is active is never repeated.            *)
ActionOnce(k) ==
  LET a == alert[k] IN
  IF Triggered(k) THEN IF a.status # "active" THEN "triggered" ELSE "none"
  ELSE IF a.status = "active" THEN "resolved" ELSE "none"

(* _apply_draft: the notification of a draft, "none" if it is not worth one.*)
Action(k) ==
  LET a == alert[k] IN
  IF Triggered(k)
  THEN IF a.status # "active" THEN "triggered"
       ELSE IF a.notified >= Repeat THEN "repeated" ELSE "none"
  ELSE IF a.status = "active" THEN "resolved" ELSE "none"

Applied(k) ==
  CASE Action(k) \in {"triggered", "repeated"} -> [status |-> "active", notified |-> 0]
    [] Action(k) = "resolved" -> [status |-> "resolved", notified |-> 0]
    [] OTHER -> alert[k]

Told(k) == CASE Action(k) \in {"triggered", "repeated"} -> "active"
             [] Action(k) = "resolved" -> "resolved"
             [] OTHER -> heard[k]

-----------------------------------------------------------------------------
Init ==
  /\ HostInit
  /\ load = FirstLoad
  /\ job = [k \in Jobs |-> [enabled |-> TRUE, failures |-> 0]]
  /\ alert = [k \in Key |-> NoAlert]
  /\ draft = NoAlert
  /\ heard = [k \in Key |-> "none"]
  /\ changes = 0

Evaluating == {i \in Instance : loop[i]["coordinator"] = "busy"}

(* The job is leased.                                                      *)
Lease(i) ==
  /\ Evaluating = {} /\ LoopBegins(i, "coordinator")
  /\ UNCHANGED alertVars

(* evaluate: one transaction reads, tells and writes.                      *)
Evaluate(i) ==
  /\ i \in Evaluating /\ draft = NoAlert
  /\ draft' = [k \in Key |-> IF k \in Drafted THEN Applied(k) ELSE alert[k]]
  /\ heard' = [k \in Key |-> IF k \in Drafted THEN Told(k) ELSE heard[k]]
  /\ UNCHANGED <<hostVars, load, job, alert, changes>>

Commit(i) ==
  /\ i \in Evaluating /\ draft # NoAlert
  /\ LoopReturns(i, "coordinator") /\ UNCHANGED row
  /\ alert' = draft /\ draft' = NoAlert
  /\ UNCHANGED <<load, job, heard, changes>>

(* The evaluation or its commit fails; the coordinator marks the job failed
   and goes on.                                                            *)
RollBack(i) ==
  /\ i \in Evaluating /\ Faulty
  /\ loop' = [loop EXCEPT ![i]["coordinator"] = "idle"]
  /\ draft' = NoAlert
  /\ UNCHANGED <<row, main, stop, waited, load, job, alert, heard, changes>>

(* A step of the host that may end the coordinator: its transaction is
   rolled back with it.                                                    *)
Loses == /\ draft' = IF \E i \in Instance : loop'[i]["coordinator"] = "busy"
                     THEN draft ELSE NoAlert
         /\ UNCHANGED <<load, job, alert, heard, changes>>

Changed == changes < MaxChanges /\ changes' = changes + 1

LoadChanges ==
  /\ Changed
  /\ load' \in Loads \ {load}
  /\ UNCHANGED <<hostVars, job, alert, draft, heard>>

JobChanges(k) ==
  /\ Changed
  /\ \/ job' = [job EXCEPT ![k].failures = Failures]
     \/ job' = [job EXCEPT ![k].failures = 0]
     \/ job' = [job EXCEPT ![k].enabled = ~@]
  /\ UNCHANGED <<hostVars, load, alert, draft, heard>>

Tick ==
  /\ HostTick
  /\ alert' = [k \in Key |-> [alert[k] EXCEPT !.notified =
                                IF alert[k].status = "active" THEN Later(@, Repeat) ELSE 0]]
  /\ draft' = IF draft = NoAlert THEN draft
              ELSE [k \in Key |-> [draft[k] EXCEPT !.notified =
                                IF draft[k].status = "active" THEN Later(@, Repeat) ELSE 0]]
  /\ UNCHANGED <<load, job, heard, changes>>

-----------------------------------------------------------------------------
Starts(i) == Register(i) \/ MarkRunning(i)

Waits(i) == Wakes(i) \/ FinishWorker(i) \/ MarkStopping(i) \/ Awaits(i) \/ MarkStopped(i)

Recovers(i) == Drain(i) \/ MarkFailed(i)

Loops(i) ==
  \/ LoopBegins(i, "worker")
  \/ \E l \in Loop : LoopEnds(i, l)
  \/ WorkerReturns(i) \/ Heartbeat(i)

Breaks(i) ==
  \/ StartFails(i) \/ MarkFails(i) \/ Kill(i)
  \/ \E l \in Loop : LoopRaises(i, l)

Next ==
  \/ \E i \in Instance :
       \/ (Starts(i) \/ Waits(i) \/ Recovers(i) \/ Loops(i) \/ Breaks(i) \/ RequestStop(i))
            /\ Loses
       \/ Lease(i) \/ Evaluate(i) \/ Commit(i) \/ RollBack(i)
  \/ LoadChanges
  \/ \E k \in Jobs : JobChanges(k)
  \/ Tick

(* What the event loop, the database and the clock owe: every step of the
   host that can be taken, every loop between and inside its iterations,
   the evaluation.  A loop that is idle may be stopped or go on.           *)
Fairness ==
  /\ WF_vars(Tick)
  /\ \A i \in Instance :
       /\ WF_vars((Waits(i) \/ Recovers(i)) /\ Loses)
       /\ \A l \in {"worker", "heartbeat"} : WF_vars(LoopEnds(i, l) /\ Loses)
       /\ WF_vars(LoopEnds(i, "coordinator") /\ Loses)
       /\ WF_vars(WorkerReturns(i) /\ Loses) /\ WF_vars(Heartbeat(i) /\ Loses)
       /\ WF_vars(MarkRunning(i) /\ Loses)
       /\ WF_vars(Lease(i)) /\ WF_vars(Evaluate(i) \/ Commit(i))

Spec == Init /\ [][Next]_vars /\ Fairness
-----------------------------------------------------------------------------
TypeOK ==
  /\ HostTypeOK
  /\ load \in Loads
  /\ job \in [Jobs -> [enabled : BOOLEAN, failures : {0, Failures}]]
  /\ alert \in [Key -> [status : AlertStatus, notified : 0..Repeat]]
  /\ \/ draft = NoAlert
     \/ draft \in [Key -> [status : AlertStatus, notified : 0..Repeat]]
  /\ heard \in [Key -> AlertStatus]
  /\ changes \in 0..MaxChanges

(* A process that has been asked to stop, or one of whose loops has come to
   an end or to grief, ends as a whole, whatever else fails meanwhile: run
   waits for the worker no longer than the grace period, and for the
   coordinator as long as its handler takes.                               *)
Ends ==
  \A i \in Instance :
    /\ main[i] \notin {"off", "registered"}
    /\ stop[i] \/ \E l \in Loop : Done(i, l)
    ~> main[i] = "exited"

(* Where a coordinator goes on evaluating, a condition that lasts ends up
   as an active alert that the operator has been told of last, even when a
   message went out for a transaction that was rolled back; and one that is
   over for good, or whose job is disabled, ends up as no active alert.    *)
AlertsConverge ==
  (\E i \in Instance : <>[]Alive(i, "coordinator")) =>
    \A k \in Key :
      /\ <>[]Triggered(k) => <>[](alert[k].status = "active" /\ heard[k] = "active")
      /\ <>[]~Triggered(k) => <>[](alert[k].status # "active")
=============================================================================
