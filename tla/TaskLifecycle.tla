--------------------------- MODULE TaskLifecycle ---------------------------
(***************************************************************************)
(* What the task queue promises of one row of collection_tasks: the life   *)
(* cycle pending -> running -> succeeded, failed or pending again, with    *)
(* the retries that remain.  Several tasks may move in one step, because   *)
(* one commit may publish a task's outcome and the tasks it enqueued.      *)
(***************************************************************************)
EXTENDS Naturals

CONSTANTS Task, MaxRetries

VARIABLES life, retries

vars == <<life, retries>>

Init == /\ life = [t \in Task |-> "absent"]
        /\ retries = [t \in Task |-> 0]

Becomes(t, from, to, n) ==
  /\ life[t] \in from
  /\ life'[t] = to
  /\ retries'[t] = n

(* A task is enqueued.                                                     *)
Appear(t) == Becomes(t, {"absent"}, "pending", 0)

(* A worker takes it.                                                      *)
Start(t) == Becomes(t, {"pending"}, "running", retries[t])

(* The worker is lost: the task waits again and no retry is counted.       *)
Recover(t) == Becomes(t, {"running"}, "pending", retries[t])

Complete(t) == Becomes(t, {"running"}, "succeeded", retries[t])

(* An attempt fails while retries remain.                                  *)
Postpone(t) == /\ retries[t] < MaxRetries
               /\ Becomes(t, {"running"}, "pending", retries[t] + 1)

(* The last attempt fails.                                                 *)
Exhaust(t) == /\ retries[t] = MaxRetries
              /\ Becomes(t, {"running"}, "failed", retries[t] + 1)

(* No worker can run its kind.                                             *)
Refuse(t) == Becomes(t, {"pending"}, "failed", retries[t])

(* The operator retries a failed task.                                     *)
Reset(t) == Becomes(t, {"failed"}, "pending", 0)

Stay(t) == life'[t] = life[t] /\ retries'[t] = retries[t]

Move(t) ==
  \/ Appear(t) \/ Start(t) \/ Recover(t) \/ Complete(t) \/ Postpone(t)
  \/ Exhaust(t) \/ Refuse(t) \/ Reset(t) \/ Stay(t)

Next == \A t \in Task : Move(t)

Spec == Init /\ [][Next]_vars
=============================================================================
