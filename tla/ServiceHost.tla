---------------------------- MODULE ServiceHost ----------------------------
(***************************************************************************)
(* The processes of the service: each runs a worker loop, a coordinator    *)
(* loop, or both, beside a heartbeat loop, as tasks of one event loop, and *)
(* keeps a row of service_instances from its start to its end.             *)
(*                                                                         *)
(* Time is kept as ages in ticks: of the last heartbeat of a row and of    *)
(* the wait that the host is in.  Both stop counting when nobody can tell  *)
(* the difference any more.  Faults (an error of the database or of a      *)
(* loop, a process killed) are limited to MaxFaults.                       *)
(***************************************************************************)
EXTENDS Integers, FiniteSets

CONSTANTS Instance,      \* identifiers of processes, one for each start
          Roles,         \* Roles[i]: what instance i runs
          Grace,         \* shutdown_grace_seconds
          Interval,      \* heartbeat_seconds
          Timeout,       \* worker_heartbeat_timeout_seconds
          Finite,        \* the worker has a maximum of iterations
          MaxFaults

Role == {"worker", "scheduler"}

ASSUME HostAssumption ==
  /\ Roles \in [Instance -> SUBSET Role \ {{}}]
  /\ Grace \in Nat /\ Interval \in Nat \ {0} /\ Timeout \in Nat
  /\ Finite \in BOOLEAN /\ MaxFaults \in Nat

VARIABLES row,      \* the row of an instance in service_instances
          main,     \* where ServiceHost.run is
          loop,     \* the tasks it has started
          stop,     \* stop_event
          waited,   \* ticks since the host began to wait
          faults

hostVars == <<row, main, loop, stop, waited, faults>>

Loop == {"worker", "coordinator", "heartbeat"}

LoopState == {"absent", "idle", "busy", "ended", "raised", "timed_out", "cancelled"}

Status == {"none", "starting", "running", "stopping", "stopped", "failed"}

Place == {"off", "registered", "serving", "finishing", "leaving", "awaiting",
          "closing", "draining", "failing", "exited"}

DrainTime == IF Grace < Interval + 1 THEN Grace ELSE Interval + 1

Later(age, most) == IF age < most THEN age + 1 ELSE age

-----------------------------------------------------------------------------
(* The tasks of an instance                                                *)

Alive(i, l) == loop[i][l] \in {"idle", "busy"}

Done(i, l) == loop[i][l] \in {"ended", "raised", "timed_out", "cancelled"}

Raised(i, l) == loop[i][l] \in {"raised", "timed_out"}

Started(i) == [l \in Loop |->
                 IF \/ l = "worker" /\ "worker" \notin Roles[i]
                    \/ l = "coordinator" /\ "scheduler" \notin Roles[i]
                 THEN "absent" ELSE "idle"]

(* Mutant of Cancelled: what is still running is left running.             *)
CancelledNot(i) == loop[i]

(* A cancelled task is awaited: its transaction is rolled back.            *)
Cancelled(i) == [l \in Loop |-> IF Alive(i, l) THEN "cancelled" ELSE loop[i][l]]

-----------------------------------------------------------------------------
(* The rows                                                                *)

(* _transition: every change of the status is a heartbeat.                 *)
Became(i, status) == row' = [row EXCEPT ![i] = [status |-> status, age |-> 0]]

(* has_fresh_running_instance                                              *)
Fresh(role) == \E i \in Instance : /\ row[i].status = "running"
                                   /\ row[i].age <= Timeout
                                   /\ role \in Roles[i]

-----------------------------------------------------------------------------
HostInit ==
  /\ row = [i \in Instance |-> [status |-> "none", age |-> 0]]
  /\ main = [i \in Instance |-> "off"]
  /\ loop = [i \in Instance |-> [l \in Loop |-> "absent"]]
  /\ stop = [i \in Instance |-> FALSE]
  /\ waited = [i \in Instance |-> 0]
  /\ faults = 0

Goes(i, place) == main' = [main EXCEPT ![i] = place]

(* The except clause of run.                                               *)
Fails(i) ==
  /\ Goes(i, "draining")
  /\ stop' = [stop EXCEPT ![i] = TRUE]
  /\ waited' = [waited EXCEPT ![i] = 0]

Faulty == faults < MaxFaults /\ faults' = faults + 1

Register(i) ==
  /\ main[i] = "off" /\ Goes(i, "registered")
  /\ Became(i, "starting")
  /\ UNCHANGED <<loop, stop, waited, faults>>

MarkRunning(i) ==
  /\ main[i] = "registered" /\ Goes(i, "serving")
  /\ Became(i, "running")
  /\ loop' = [loop EXCEPT ![i] = Started(i)]
  /\ UNCHANGED <<stop, waited, faults>>

(* An error before the try: the row is left as it is.                      *)
StartFails(i) ==
  /\ Faulty /\ main[i] \in {"off", "registered"}
  /\ Goes(i, "exited")
  /\ UNCHANGED <<row, loop, stop, waited>>

(* A signal, once the handlers are installed.                              *)
RequestStop(i) ==
  /\ ~stop[i] /\ main[i] # "exited"
  /\ stop' = [stop EXCEPT ![i] = TRUE]
  /\ UNCHANGED <<row, main, loop, waited, faults>>

(* asyncio.wait with FIRST_COMPLETED: the worker is looked at first, then
   the stop event, then the others.                                        *)
Wakes(i) ==
  /\ main[i] = "serving"
  /\ \/ /\ Done(i, "worker") /\ ~Raised(i, "worker")
        /\ Goes(i, "leaving")
        /\ UNCHANGED <<stop, waited>>
     \/ /\ Raised(i, "worker")
        /\ Fails(i)
     \/ /\ ~Done(i, "worker") /\ stop[i]
        /\ Goes(i, IF loop[i]["worker"] = "absent" THEN "leaving" ELSE "finishing")
        /\ waited' = [waited EXCEPT ![i] = 0]
        /\ UNCHANGED stop
     \/ /\ ~Done(i, "worker") /\ ~stop[i]
        /\ Done(i, "heartbeat") \/ Done(i, "coordinator")
        /\ Fails(i)
  /\ UNCHANGED <<row, loop, faults>>

(* _finish_worker: a TimeoutError of the worker is taken for the end of
   the grace period.                                                       *)
FinishWorker(i) ==
  /\ main[i] = "finishing"
  /\ \/ /\ loop[i]["worker"] \in {"ended", "timed_out"}
        /\ Goes(i, "leaving")
        /\ UNCHANGED <<loop, stop, waited>>
     \/ /\ loop[i]["worker"] = "raised"
        /\ Fails(i)
        /\ UNCHANGED loop
     \/ /\ Alive(i, "worker") /\ waited[i] >= Grace
        /\ loop' = [loop EXCEPT ![i]["worker"] = "cancelled"]
        /\ Goes(i, "leaving")
        /\ UNCHANGED <<stop, waited>>
  /\ UNCHANGED <<row, faults>>

(* Mutant of MarkStopping: the stop event is left as it is.               *)
MarkStoppingOnly(i) ==
  /\ main[i] = "leaving" /\ Goes(i, "awaiting")
  /\ Became(i, "stopping")
  /\ UNCHANGED <<loop, stop, waited, faults>>

MarkStopping(i) ==
  /\ main[i] = "leaving" /\ Goes(i, "awaiting")
  /\ Became(i, "stopping")
  /\ stop' = [stop EXCEPT ![i] = TRUE]
  /\ UNCHANGED <<loop, waited, faults>>

(* Mutant of Awaits: it is not looked at how the coordinator has ended.    *)
AwaitsAny(i) ==
  /\ main[i] = "awaiting" /\ Goes(i, "closing")
  /\ Done(i, "heartbeat") /\ ~Raised(i, "heartbeat")
  /\ loop[i]["coordinator"] = "absent" \/ Done(i, "coordinator")
  /\ UNCHANGED <<row, loop, stop, waited, faults>>

(* The heartbeat is awaited, then the coordinator, however long it takes.  *)
Awaits(i) ==
  /\ main[i] = "awaiting"
  /\ \/ /\ Done(i, "heartbeat") /\ ~Raised(i, "heartbeat")
        /\ \/ loop[i]["coordinator"] = "absent"
           \/ Done(i, "coordinator") /\ ~Raised(i, "coordinator")
        /\ Goes(i, "closing")
        /\ UNCHANGED <<stop, waited>>
     \/ /\ Done(i, "heartbeat")
        /\ Raised(i, "heartbeat") \/ Raised(i, "coordinator")
        /\ Fails(i)
  /\ UNCHANGED <<row, loop, faults>>

MarkStopped(i) ==
  /\ main[i] = "closing" /\ Goes(i, "exited")
  /\ Became(i, "stopped")
  /\ UNCHANGED <<loop, stop, waited, faults>>

(* mark_stopping or mark_stopped fails.                                    *)
MarkFails(i) ==
  /\ Faulty /\ main[i] \in {"leaving", "closing"}
  /\ Fails(i)
  /\ UNCHANGED <<row, loop>>

(* _drain_tasks: what does not end in time is cancelled and awaited.       *)
Drain(i) ==
  /\ main[i] = "draining" /\ Goes(i, "failing")
  /\ \/ ~\E l \in Loop : Alive(i, l)
     \/ waited[i] >= DrainTime
  /\ loop' = [loop EXCEPT ![i] = Cancelled(i)]
  /\ UNCHANGED <<row, stop, waited, faults>>

(* mark_failed, which may itself fail: then the row stays as it is.        *)
MarkFailed(i) ==
  /\ main[i] = "failing" /\ Goes(i, "exited")
  /\ \/ Became(i, "failed") /\ UNCHANGED faults
     \/ Faulty /\ UNCHANGED row
  /\ UNCHANGED <<loop, stop, waited>>

(* The process dies: nothing is written.                                   *)
Kill(i) ==
  /\ Faulty /\ main[i] \notin {"off", "exited"}
  /\ Goes(i, "exited")
  /\ loop' = [loop EXCEPT ![i] = Cancelled(i)]
  /\ UNCHANGED <<row, stop, waited>>

-----------------------------------------------------------------------------
(* The loops: each looks at the stop event between two iterations.         *)

LoopBegins(i, l) ==
  /\ loop[i][l] = "idle" /\ ~stop[i]
  /\ loop' = [loop EXCEPT ![i][l] = "busy"]
  /\ UNCHANGED <<row, main, stop, waited, faults>>

LoopReturns(i, l) ==
  /\ loop[i][l] = "busy"
  /\ loop' = [loop EXCEPT ![i][l] = "idle"]
  /\ UNCHANGED <<main, stop, waited, faults>>

(* Outside of an iteration, or after the last one allowed to the worker.   *)
LoopEnds(i, l) ==
  /\ loop[i][l] = "idle" /\ (stop[i] \/ (l = "worker" /\ Finite))
  /\ loop' = [loop EXCEPT ![i][l] = "ended"]
  /\ UNCHANGED <<row, main, stop, waited, faults>>

LoopRaises(i, l) ==
  /\ Faulty /\ loop[i][l] = (IF l = "heartbeat" THEN "idle" ELSE "busy")
  /\ \/ loop' = [loop EXCEPT ![i][l] = "raised"]
     \/ l = "worker" /\ loop' = [loop EXCEPT ![i][l] = "timed_out"]
  /\ UNCHANGED <<row, main, stop, waited>>

(* The loop of the heartbeat: a transaction on its own row, then a pause.  *)
Heartbeat(i) ==
  /\ Alive(i, "heartbeat") /\ ~stop[i]
  /\ row' = [row EXCEPT ![i].age = 0]
  /\ UNCHANGED <<main, loop, stop, waited, faults>>

WorkerReturns(i) == LoopReturns(i, "worker") /\ UNCHANGED row

(* A tick ages rows and waits, whatever the loops are doing, where the age
   is of use to anybody.                                                   *)
HostTick ==
  /\ row' = [i \in Instance |-> IF row[i].status = "running"
                                THEN [row[i] EXCEPT !.age = Later(@, Timeout + 1)]
                                ELSE row[i]]
  /\ waited' = [i \in Instance |-> IF main[i] \in {"finishing", "draining"}
                                   THEN Later(waited[i], Grace) ELSE waited[i]]
  /\ UNCHANGED <<main, loop, stop, faults>>
-----------------------------------------------------------------------------
HostTypeOK ==
  /\ row \in [Instance -> [status : Status, age : 0..(Timeout + 1)]]
  /\ main \in [Instance -> Place]
  /\ loop \in [Instance -> [Loop -> LoopState]]
  /\ stop \in [Instance -> BOOLEAN]
  /\ waited \in [Instance -> 0..Grace]
  /\ faults \in 0..MaxFaults

(* When the row of an instance says that it has stopped or failed, none of
   its tasks is running any more: a collection, a job or a heartbeat of a
   process that reports its end could still write.  ServiceHost.run awaits
   or cancels every task, on each of its ways out, before it writes the
   row.                                                                    *)
RestsWhenDone ==
  \A i \in Instance : row[i].status \in {"stopped", "failed"} =>
    \A l \in Loop : ~Alive(i, l)

(* An instance that reports a clean stop had no loop that ended with an
   error, whenever in the shutdown that was: run looks at the result of
   every task it awaits.  (A TimeoutError of the worker is the exception.)  *)
CleanStop ==
  \A i \in Instance : row[i].status = "stopped" =>
    \A l \in Loop : loop[i][l] # "raised"
=============================================================================
