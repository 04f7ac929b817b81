------------------------- MODULE ServiceHostProofs -------------------------
(***************************************************************************)
(* What the rows of service_instances say about the ends of the processes, *)
(* for any number of instances, any roles and times: a row that reports an *)
(* end reports it of a process that is at rest, and a clean stop is one.   *)
(* The evaluation of alerts runs beside it and does not matter here.       *)
(***************************************************************************)
EXTENDS OperationalAlerts, TLAPS

(* A task that can neither go on nor has ended with an error.              *)
Settled(i, l) == ~Alive(i, l) /\ loop[i][l] # "raised"

(* Where ServiceHost.run is when it writes the row, and what it has waited *)
(* for by then; and what follows for the row.                              *)
Sound(i) ==
  /\ row[i].status \in {"stopped", "failed"} => main[i] = "exited"
  /\ main[i] \in {"leaving", "awaiting", "closing"} => Settled(i, "worker")
  /\ main[i] = "closing" => \A l \in Loop : Settled(i, l)
  /\ main[i] = "failing" => \A l \in Loop : ~Alive(i, l)
  /\ row[i].status \in {"stopped", "failed"} => \A l \in Loop : ~Alive(i, l)
  /\ row[i].status = "stopped" => \A l \in Loop : loop[i][l] # "raised"

Inv == HostTypeOK /\ \A i \in Instance : Sound(i)

-----------------------------------------------------------------------------
(* A task that is alive does anything.                                     *)
LEMMA LoopMoves ==
  ASSUME HostTypeOK, NEW i \in Instance, NEW l \in Loop, Alive(i, l),
         NEW s \in LoopState, loop' = [loop EXCEPT ![i][l] = s], main' = main,
         \A j \in Instance : row'[j].status = row[j].status,
         \A j \in Instance : Sound(j)
  PROVE  /\ loop' \in [Instance -> [Loop -> LoopState]]
         /\ \A j \in Instance : Sound(j)'
<1>1. loop' \in [Instance -> [Loop -> LoopState]]
  BY DEF HostTypeOK
<1>2. ASSUME NEW j \in Instance PROVE Sound(j)'
  <2>1. CASE j # i
    <3>1. loop'[j] = loop[j]
      BY <2>1 DEF HostTypeOK
    <3> QED BY <3>1 DEF Sound, Settled, Alive
  <2>2. CASE j = i
    <3>1. \A k \in Loop : k # l => loop'[i][k] = loop[i][k]
      BY DEF HostTypeOK
    <3>2. /\ row[i].status \notin {"stopped", "failed"}
          /\ main[i] \notin {"closing", "failing"}
          /\ main[i] \in {"leaving", "awaiting"} => l # "worker"
      BY DEF Sound, Settled
    <3> QED BY <2>2, <3>1, <3>2 DEF Sound, Settled, Alive, Loop
  <2> QED BY <2>1, <2>2
<1> QED BY <1>1, <1>2
-----------------------------------------------------------------------------
(* A step of one instance.                                                 *)
LEMMA OneInstance ==
  ASSUME \A j \in Instance : Sound(j), NEW i \in Instance,
         \A j \in Instance \ {i} :
           /\ row'[j].status = row[j].status
           /\ main'[j] = main[j]
           /\ loop'[j] = loop[j],
         Sound(i)'
  PROVE  \A j \in Instance : Sound(j)'
<1>1. ASSUME NEW j \in Instance \ {i} PROVE Sound(j)'
  BY <1>1 DEF Sound, Settled, Alive
<1> QED BY <1>1

(* What Goes, Became and Fails write.                                      *)
LEMMA Written ==
  ASSUME HostTypeOK, NEW i \in Instance
  PROVE  /\ \A place \in Place : Goes(i, place) =>
              /\ main' \in [Instance -> Place]
              /\ main'[i] = place
              /\ \A j \in Instance \ {i} : main'[j] = main[j]
         /\ \A status \in Status : Became(i, status) =>
              /\ row' \in [Instance -> [status : Status, age : 0..(Timeout + 1)]]
              /\ row'[i].status = status
              /\ \A j \in Instance \ {i} : row'[j] = row[j]
         /\ Fails(i) =>
              /\ main' \in [Instance -> Place]
              /\ main'[i] = "draining"
              /\ \A j \in Instance \ {i} : main'[j] = main[j]
              /\ stop' \in [Instance -> BOOLEAN]
              /\ waited' \in [Instance -> 0..Grace]
<1>1. 0 \in 0..(Timeout + 1) /\ 0 \in 0..Grace
  BY HostAssumption
<1>2. ASSUME NEW place \in Place, Goes(i, place)
      PROVE  /\ main' \in [Instance -> Place]
             /\ main'[i] = place
             /\ \A j \in Instance \ {i} : main'[j] = main[j]
  BY <1>2 DEF HostTypeOK, Goes
<1>3. ASSUME NEW status \in Status, Became(i, status)
      PROVE  /\ row' \in [Instance -> [status : Status, age : 0..(Timeout + 1)]]
             /\ row'[i].status = status
             /\ \A j \in Instance \ {i} : row'[j] = row[j]
  <2>1. [status |-> status, age |-> 0] \in [status : Status, age : 0..(Timeout + 1)]
    BY <1>1
  <2> QED BY <1>3, <2>1 DEF HostTypeOK, Became
<1>4. ASSUME Fails(i)
      PROVE  /\ main' \in [Instance -> Place]
             /\ main'[i] = "draining"
             /\ \A j \in Instance \ {i} : main'[j] = main[j]
             /\ stop' \in [Instance -> BOOLEAN]
             /\ waited' \in [Instance -> 0..Grace]
  <2>1. "draining" \in Place
    BY DEF Place
  <2>2. Goes(i, "draining")
    BY <1>4 DEF Fails
  <2>3. /\ stop' = [stop EXCEPT ![i] = TRUE]
        /\ waited' = [waited EXCEPT ![i] = 0]
    BY <1>4 DEF Fails
  <2>4. stop' \in [Instance -> BOOLEAN] /\ waited' \in [Instance -> 0..Grace]
    BY <1>1, <2>3 DEF HostTypeOK
  <2> QED BY <1>2, <2>1, <2>2, <2>4
<1> QED BY <1>2, <1>3, <1>4

(* faults stay within their bound.                                         *)
LEMMA FaultsBounded == HostTypeOK /\ Faulty => faults' \in 0..MaxFaults
BY HostAssumption DEF HostTypeOK, Faulty

-----------------------------------------------------------------------------
(* The steps of ServiceHost.run.                                           *)
LEMMA StartsInv ==
  ASSUME Inv, NEW i \in Instance, Starts(i)
  PROVE  Inv'
<1> USE DEF Inv
<1>1. CASE Register(i)
  <2>1. /\ main[i] = "off" /\ Goes(i, "registered") /\ Became(i, "starting")
        /\ UNCHANGED <<loop, stop, waited, faults>>
    BY <1>1 DEF Register
  <2>2. HostTypeOK'
    BY <2>1, Written DEF HostTypeOK, Place, Status
  <2>3. Sound(i)'
    BY <2>1, Written DEF Sound, Place, Status
  <2> QED BY <2>1, <2>2, <2>3, OneInstance, Written DEF Place, Status
<1>2. CASE MarkRunning(i)
  <2>1. /\ main[i] = "registered" /\ Goes(i, "serving") /\ Became(i, "running")
        /\ loop' = [loop EXCEPT ![i] = Started(i)]
        /\ UNCHANGED <<stop, waited, faults>>
    BY <1>2 DEF MarkRunning
  <2>2. Started(i) \in [Loop -> LoopState]
    BY DEF Started, LoopState
  <2>3. HostTypeOK'
    BY <2>1, <2>2, Written DEF HostTypeOK, Place, Status
  <2>4. Sound(i)'
    BY <2>1, Written DEF Sound, Place, Status
  <2> QED BY <2>1, <2>3, <2>4, OneInstance, Written DEF Place, Status, HostTypeOK
<1> QED BY <1>1, <1>2 DEF Starts

LEMMA WakesInv ==
  ASSUME Inv, NEW i \in Instance, Wakes(i)
  PROVE  Inv'
<1> USE DEF Inv
<1>1. main[i] = "serving" /\ UNCHANGED <<row, loop, faults>>
  BY DEF Wakes
<1>2. CASE /\ Done(i, "worker") /\ ~Raised(i, "worker")
           /\ Goes(i, "leaving")
           /\ UNCHANGED <<stop, waited>>
  <2>1. HostTypeOK'
    BY <1>1, <1>2, Written DEF HostTypeOK, Place
  <2>2. Settled(i, "worker")'
    BY <1>1, <1>2 DEF Settled, Alive, Done, Raised
  <2>3. Sound(i)'
    BY <1>1, <1>2, <2>2, Written DEF Sound, Place
  <2> QED BY <1>1, <1>2, <2>1, <2>3, OneInstance, Written DEF Place
<1>3. CASE Fails(i)
  <2>1. HostTypeOK'
    BY <1>1, <1>3, Written DEF HostTypeOK
  <2>2. Sound(i)'
    BY <1>1, <1>3, Written DEF Sound
  <2> QED BY <1>1, <1>3, <2>1, <2>2, OneInstance, Written
<1>4. CASE /\ ~Done(i, "worker") /\ stop[i]
           /\ Goes(i, IF loop[i]["worker"] = "absent" THEN "leaving" ELSE "finishing")
           /\ waited' = [waited EXCEPT ![i] = 0]
           /\ UNCHANGED stop
  <2>1. HostTypeOK'
    <3>1. 0 \in 0..Grace
      BY HostAssumption
    <3>2. waited' \in [Instance -> 0..Grace]
      BY <1>4, <3>1 DEF HostTypeOK
    <3> QED BY <1>1, <1>4, <3>2, Written DEF HostTypeOK, Place
  <2>2. loop[i]["worker"] = "absent" => Settled(i, "worker")'
    BY <1>1 DEF Settled, Alive
  <2>3. Sound(i)'
    BY <1>1, <1>4, <2>2, Written DEF Sound, Place
  <2> QED BY <1>1, <1>4, <2>1, <2>3, OneInstance, Written DEF Place
<1> QED BY <1>2, <1>3, <1>4 DEF Wakes

(* A worker that is cancelled has come to rest, and has not raised.        *)
LEMMA FinishWorkerInv ==
  ASSUME Inv, NEW i \in Instance, FinishWorker(i)
  PROVE  Inv'
<1> USE DEF Inv
<1>1. main[i] = "finishing" /\ UNCHANGED <<row, faults>>
  BY DEF FinishWorker
<1>2. CASE /\ loop[i]["worker"] \in {"ended", "timed_out"}
           /\ Goes(i, "leaving")
           /\ UNCHANGED <<loop, stop, waited>>
  <2>1. HostTypeOK'
    BY <1>1, <1>2, Written DEF HostTypeOK, Place
  <2>2. Settled(i, "worker")'
    BY <1>2 DEF Settled, Alive
  <2>3. Sound(i)'
    BY <1>1, <1>2, <2>2, Written DEF Sound, Place
  <2> QED BY <1>1, <1>2, <2>1, <2>3, OneInstance, Written DEF Place
<1>3. CASE Fails(i) /\ UNCHANGED loop
  <2>1. HostTypeOK'
    BY <1>1, <1>3, Written DEF HostTypeOK
  <2>2. Sound(i)'
    BY <1>1, <1>3, Written DEF Sound
  <2> QED BY <1>1, <1>3, <2>1, <2>2, OneInstance, Written
<1>4. CASE /\ loop' = [loop EXCEPT ![i]["worker"] = "cancelled"]
           /\ Goes(i, "leaving")
           /\ UNCHANGED <<stop, waited>>
  <2>1. loop' \in [Instance -> [Loop -> LoopState]] /\ loop'[i]["worker"] = "cancelled"
    BY <1>4 DEF HostTypeOK, Loop, LoopState
  <2>2. HostTypeOK'
    BY <1>1, <1>4, <2>1, Written DEF HostTypeOK, Place
  <2>3. Settled(i, "worker")'
    BY <2>1 DEF Settled, Alive
  <2>4. Sound(i)'
    BY <1>1, <1>4, <2>3, Written DEF Sound, Place
  <2>5. \A j \in Instance \ {i} : loop'[j] = loop[j]
    BY <1>4 DEF HostTypeOK
  <2> QED BY <1>1, <1>4, <2>2, <2>4, <2>5, OneInstance, Written DEF Place
<1> QED BY <1>2, <1>3, <1>4 DEF FinishWorker

LEMMA MarkStoppingInv ==
  ASSUME Inv, NEW i \in Instance, MarkStopping(i)
  PROVE  Inv'
<1> USE DEF Inv
<1>1. /\ main[i] = "leaving" /\ Goes(i, "awaiting") /\ Became(i, "stopping")
      /\ stop' = [stop EXCEPT ![i] = TRUE]
      /\ UNCHANGED <<loop, waited, faults>>
  BY DEF MarkStopping
<1>2. HostTypeOK'
  <2>1. stop' \in [Instance -> BOOLEAN]
    BY <1>1 DEF HostTypeOK
  <2> QED BY <1>1, <2>1, Written DEF HostTypeOK, Place, Status
<1>3. Settled(i, "worker")'
  BY <1>1 DEF Sound, Settled, Alive
<1>4. Sound(i)'
  BY <1>1, <1>3, Written DEF Sound, Place, Status
<1> QED BY <1>1, <1>2, <1>4, OneInstance, Written DEF Place, Status

(* Behind the awaiting of all tasks none of them is left, and none has     *)
(* raised: the worker was looked at before.                                *)
LEMMA AwaitsInv ==
  ASSUME Inv, NEW i \in Instance, Awaits(i)
  PROVE  Inv'
<1> USE DEF Inv
<1>1. main[i] = "awaiting" /\ UNCHANGED <<row, loop, faults>>
  BY DEF Awaits
<1>2. CASE /\ Done(i, "heartbeat") /\ ~Raised(i, "heartbeat")
           /\ \/ loop[i]["coordinator"] = "absent"
              \/ Done(i, "coordinator") /\ ~Raised(i, "coordinator")
           /\ Goes(i, "closing")
           /\ UNCHANGED <<stop, waited>>
  <2>1. HostTypeOK'
    BY <1>1, <1>2, Written DEF HostTypeOK, Place
  <2>2. Settled(i, "worker")'
    BY <1>1 DEF Sound, Settled, Alive
  <2>3. Settled(i, "heartbeat")' /\ Settled(i, "coordinator")'
    BY <1>1, <1>2 DEF Settled, Alive, Done, Raised
  <2>4. \A l \in Loop : Settled(i, l)'
    BY <2>2, <2>3 DEF Loop
  <2>5. Sound(i)'
    BY <1>1, <1>2, <2>2, <2>4, Written DEF Sound, Place
  <2> QED BY <1>1, <1>2, <2>1, <2>5, OneInstance, Written DEF Place
<1>3. CASE Fails(i)
  <2>1. HostTypeOK'
    BY <1>1, <1>3, Written DEF HostTypeOK
  <2>2. Sound(i)'
    BY <1>1, <1>3, Written DEF Sound
  <2> QED BY <1>1, <1>3, <2>1, <2>2, OneInstance, Written
<1> QED BY <1>2, <1>3 DEF Awaits

LEMMA MarkStoppedInv ==
  ASSUME Inv, NEW i \in Instance, MarkStopped(i)
  PROVE  Inv'
<1> USE DEF Inv
<1>1. /\ main[i] = "closing" /\ Goes(i, "exited") /\ Became(i, "stopped")
      /\ UNCHANGED <<loop, stop, waited, faults>>
  BY DEF MarkStopped
<1>2. HostTypeOK'
  BY <1>1, Written DEF HostTypeOK, Place, Status
<1>3. \A l \in Loop : ~Alive(i, l)' /\ loop'[i][l] # "raised"
  BY <1>1 DEF Sound, Settled, Alive
<1>4. Sound(i)'
  BY <1>1, <1>3, Written DEF Sound, Place, Status
<1> QED BY <1>1, <1>2, <1>4, OneInstance, Written DEF Place, Status

(* The cancelled tasks of an instance are at rest.                         *)
LEMMA CancelledRests ==
  ASSUME HostTypeOK, NEW i \in Instance,
         loop' = [loop EXCEPT ![i] = Cancelled(i)]
  PROVE  /\ loop' \in [Instance -> [Loop -> LoopState]]
         /\ \A l \in Loop : ~Alive(i, l)'
         /\ \A j \in Instance \ {i} : loop'[j] = loop[j]
<1>1. Cancelled(i) \in [Loop -> LoopState]
  BY DEF HostTypeOK, Cancelled, LoopState
<1>2. \A l \in Loop : Cancelled(i)[l] \notin {"idle", "busy"}
  BY DEF Cancelled, Alive
<1>3. loop'[i] = Cancelled(i)
  BY DEF HostTypeOK
<1> QED BY <1>1, <1>2, <1>3 DEF HostTypeOK, Alive

LEMMA RecoversInv ==
  ASSUME Inv, NEW i \in Instance, Recovers(i)
  PROVE  Inv'
<1> USE DEF Inv
<1>1. CASE Drain(i)
  <2>1. /\ main[i] = "draining" /\ Goes(i, "failing")
        /\ loop' = [loop EXCEPT ![i] = Cancelled(i)]
        /\ UNCHANGED <<row, stop, waited, faults>>
    BY <1>1 DEF Drain
  <2>2. HostTypeOK'
    BY <2>1, CancelledRests, Written DEF HostTypeOK, Place
  <2>3. Sound(i)'
    BY <2>1, CancelledRests, Written DEF Sound, Place
  <2> QED BY <2>1, <2>2, <2>3, CancelledRests, OneInstance, Written DEF Place
<1>2. CASE MarkFailed(i)
  <2>1. /\ main[i] = "failing" /\ Goes(i, "exited")
        /\ UNCHANGED <<loop, stop, waited>>
    BY <1>2 DEF MarkFailed
  <2>2. \/ Became(i, "failed") /\ UNCHANGED faults
        \/ Faulty /\ UNCHANGED row
    BY <1>2 DEF MarkFailed
  <2>3. HostTypeOK'
    BY <2>1, <2>2, FaultsBounded, Written DEF HostTypeOK, Place, Status
  <2>4. \A l \in Loop : ~Alive(i, l)'
    BY <2>1 DEF Sound, Alive
  <2>5. row'[i].status \in {"failed", row[i].status} /\ main'[i] = "exited"
    BY <2>1, <2>2, Written DEF Place, Status
  <2>6. row[i].status \notin {"stopped", "failed"}
    BY <2>1 DEF Sound
  <2>7. Sound(i)'
    BY <2>4, <2>5, <2>6 DEF Sound
  <2>8. \A j \in Instance \ {i} : row'[j].status = row[j].status
    BY <2>2, Written DEF Status
  <2> QED BY <2>1, <2>3, <2>7, <2>8, OneInstance, Written DEF Place
<1> QED BY <1>1, <1>2 DEF Recovers

-----------------------------------------------------------------------------
(* The steps of the loops, of which only the heartbeat writes the row.     *)
LEMMA LoopStep ==
  ASSUME Inv, NEW i \in Instance, NEW l \in Loop, Alive(i, l),
         NEW s \in LoopState, loop' = [loop EXCEPT ![i][l] = s],
         UNCHANGED <<row, main, stop, waited>>, faults' \in 0..MaxFaults
  PROVE  Inv'
<1>1. \A j \in Instance : Sound(j)
  BY DEF Inv
<1>2. HostTypeOK
  BY DEF Inv
<1>3. /\ loop' \in [Instance -> [Loop -> LoopState]]
      /\ \A j \in Instance : Sound(j)'
  BY <1>1, <1>2, LoopMoves
<1> QED BY <1>2, <1>3 DEF Inv, HostTypeOK

LEMMA LoopsInv ==
  ASSUME Inv, NEW i \in Instance,
         Loops(i) \/ Lease(i) \/ Commit(i) \/ RollBack(i)
           \/ \E l \in Loop : LoopRaises(i, l)
  PROVE  Inv'
<1>1. faults \in 0..MaxFaults /\ (Faulty => faults' \in 0..MaxFaults)
  BY FaultsBounded DEF Inv, HostTypeOK
<1>2. ASSUME NEW l \in Loop, LoopBegins(i, l) PROVE Inv'
  <2>1. Alive(i, l) /\ "busy" \in LoopState
    BY <1>2 DEF LoopBegins, Alive, LoopState
  <2> QED BY <1>1, <1>2, <2>1, LoopStep DEF LoopBegins
<1>3. ASSUME NEW l \in Loop, LoopReturns(i, l), UNCHANGED row PROVE Inv'
  <2>1. Alive(i, l) /\ "idle" \in LoopState
    BY <1>3 DEF LoopReturns, Alive, LoopState
  <2> QED BY <1>1, <1>3, <2>1, LoopStep DEF LoopReturns
<1>4. ASSUME NEW l \in Loop, LoopEnds(i, l) PROVE Inv'
  <2>1. Alive(i, l) /\ "ended" \in LoopState
    BY <1>4 DEF LoopEnds, Alive, LoopState
  <2> QED BY <1>1, <1>4, <2>1, LoopStep DEF LoopEnds
<1>5. ASSUME NEW l \in Loop, LoopRaises(i, l) PROVE Inv'
  <2>1. Alive(i, l) /\ "raised" \in LoopState /\ "timed_out" \in LoopState
    BY <1>5 DEF LoopRaises, Alive, LoopState
  <2>2. /\ UNCHANGED <<row, main, stop, waited>> /\ Faulty
        /\ \/ loop' = [loop EXCEPT ![i][l] = "raised"]
           \/ loop' = [loop EXCEPT ![i][l] = "timed_out"]
    BY <1>5 DEF LoopRaises
  <2> QED BY <1>1, <2>1, <2>2, LoopStep
<1>6. CASE RollBack(i)
  <2>1. /\ Alive(i, "coordinator") /\ "idle" \in LoopState
        /\ "coordinator" \in Loop
    BY <1>6 DEF RollBack, Evaluating, Alive, LoopState, Loop
  <2> QED BY <1>1, <1>6, <2>1, LoopStep DEF RollBack
<1>7. CASE Heartbeat(i)
  <2>1. /\ row' = [row EXCEPT ![i].age = 0]
        /\ UNCHANGED <<main, loop, stop, waited, faults>>
    BY <1>7 DEF Heartbeat
  <2>2. /\ row' \in [Instance -> [status : Status, age : 0..(Timeout + 1)]]
        /\ \A j \in Instance : row'[j].status = row[j].status
    BY <2>1, HostAssumption DEF Inv, HostTypeOK
  <2> QED BY <2>1, <2>2 DEF Inv, HostTypeOK, Sound, Settled, Alive
<1>8. "worker" \in Loop /\ "coordinator" \in Loop
  BY DEF Loop
<1> QED BY <1>2, <1>3, <1>4, <1>5, <1>6, <1>7, <1>8
        DEF Loops, Lease, Commit, WorkerReturns

-----------------------------------------------------------------------------
(* What breaks from outside of the loops, and the signal.                  *)
LEMMA BreaksInv ==
  ASSUME Inv, NEW i \in Instance,
         StartFails(i) \/ MarkFails(i) \/ Kill(i) \/ RequestStop(i)
  PROVE  Inv'
<1> USE DEF Inv
<1>1. CASE StartFails(i)
  <2>1. /\ Faulty /\ main[i] \in {"off", "registered"} /\ Goes(i, "exited")
        /\ UNCHANGED <<row, loop, stop, waited>>
    BY <1>1 DEF StartFails
  <2>2. HostTypeOK'
    BY <2>1, FaultsBounded, Written DEF HostTypeOK, Place
  <2>3. Sound(i)'
    BY <2>1, Written DEF Sound, Place
  <2> QED BY <2>1, <2>2, <2>3, OneInstance, Written DEF Place
<1>2. CASE MarkFails(i)
  <2>1. /\ Faulty /\ main[i] \in {"leaving", "closing"} /\ Fails(i)
        /\ UNCHANGED <<row, loop>>
    BY <1>2 DEF MarkFails
  <2>2. HostTypeOK'
    BY <2>1, FaultsBounded, Written DEF HostTypeOK
  <2>3. Sound(i)'
    BY <2>1, Written DEF Sound
  <2> QED BY <2>1, <2>2, <2>3, OneInstance, Written
<1>3. CASE Kill(i)
  <2>1. /\ Faulty /\ main[i] # "exited" /\ Goes(i, "exited")
        /\ loop' = [loop EXCEPT ![i] = Cancelled(i)]
        /\ UNCHANGED <<row, stop, waited>>
    BY <1>3 DEF Kill
  <2>2. HostTypeOK'
    BY <2>1, FaultsBounded, CancelledRests, Written DEF HostTypeOK, Place
  <2>3. Sound(i)'
    BY <2>1, CancelledRests, Written DEF Sound, Place
  <2> QED BY <2>1, <2>2, <2>3, CancelledRests, OneInstance, Written DEF Place
<1>4. CASE RequestStop(i)
  BY <1>4 DEF RequestStop, HostTypeOK, Sound, Settled, Alive
<1> QED BY <1>1, <1>2, <1>3, <1>4

(* Time makes rows and waits older, up to where nobody can tell.           *)
LEMMA TickInv ==
  ASSUME Inv, HostTick
  PROVE  Inv'
<1>1. ASSUME NEW m \in Nat, NEW age \in 0..m PROVE Later(age, m) \in 0..m
  BY DEF Later
<1>2. waited' \in [Instance -> 0..Grace]
  BY <1>1, HostAssumption DEF Inv, HostTypeOK, HostTick
<1>3. \A i \in Instance :
        /\ row'[i] \in [status : Status, age : 0..(Timeout + 1)]
        /\ row'[i].status = row[i].status
  <2> TAKE i \in Instance
  <2>1. Later(row[i].age, Timeout + 1) \in 0..(Timeout + 1)
    BY <1>1, HostAssumption DEF Inv, HostTypeOK
  <2>2. row'[i] = IF row[i].status = "running"
                  THEN [row[i] EXCEPT !.age = Later(@, Timeout + 1)] ELSE row[i]
    BY DEF HostTick
  <2> QED BY <2>1, <2>2 DEF Inv, HostTypeOK
<1>4. row' \in [Instance -> [status : Status, age : 0..(Timeout + 1)]]
  <2>1. row' = [i \in Instance |-> row'[i]]
    BY DEF HostTick
  <2> QED BY <1>3, <2>1
<1>5. UNCHANGED <<main, loop, stop, faults>>
  BY DEF HostTick
<1> QED BY <1>2, <1>3, <1>4, <1>5 DEF Inv, HostTypeOK, Sound, Settled, Alive

-----------------------------------------------------------------------------
LEMMA InitInv == Init => Inv
<1> SUFFICES ASSUME HostInit PROVE Inv
  BY DEF Init
<1>1. HostTypeOK
  BY HostAssumption DEF HostInit, HostTypeOK, Status, Place, LoopState
<1>2. \A i \in Instance : Sound(i)
  BY DEF HostInit, Sound
<1> QED BY <1>1, <1>2 DEF Inv

LEMMA NextInv == Inv /\ [Next]_vars => Inv'
<1> SUFFICES ASSUME Inv, [Next]_vars PROVE Inv'
  OBVIOUS
<1>1. CASE UNCHANGED hostVars
  BY <1>1 DEF hostVars, Inv, HostTypeOK, Sound, Settled, Alive
<1>2. ASSUME NEW i \in Instance, Starts(i) \/ Recovers(i) PROVE Inv'
  BY <1>2, StartsInv, RecoversInv
<1>3. ASSUME NEW i \in Instance, Waits(i) PROVE Inv'
  BY <1>3, WakesInv, FinishWorkerInv, MarkStoppingInv, AwaitsInv, MarkStoppedInv
     DEF Waits
<1>4. ASSUME NEW i \in Instance,
             Loops(i) \/ Lease(i) \/ Commit(i) \/ RollBack(i)
      PROVE  Inv'
  BY <1>4, LoopsInv
<1>5. ASSUME NEW i \in Instance, Breaks(i) \/ RequestStop(i) PROVE Inv'
  BY <1>5, LoopsInv, BreaksInv DEF Breaks
<1>6. CASE Tick
  BY <1>6, TickInv DEF Tick
<1>7. CASE \/ LoadChanges \/ \E k \in Jobs : JobChanges(k)
           \/ \E i \in Instance : Evaluate(i)
  BY <1>1, <1>7 DEF LoadChanges, JobChanges, Evaluate
<1> QED BY <1>1, <1>2, <1>3, <1>4, <1>5, <1>6, <1>7 DEF Next, vars

(* The rows, the places and the tasks keep their types.                    *)
THEOREM HostTypes == Spec => []HostTypeOK
<1>1. Inv => HostTypeOK
  BY DEF Inv
<1> QED BY <1>1, InitInv, NextInv, PTL DEF Spec

(* A row that reports the end of a process, in ServiceHost.run or after an *)
(* error, is written when none of its tasks can write any more.            *)
THEOREM RestTheorem == Spec => []RestsWhenDone
<1>1. Inv => RestsWhenDone
  BY DEF Inv, Sound, RestsWhenDone
<1> QED BY <1>1, InitInv, NextInv, PTL DEF Spec

(* A clean stop is reported only of a process none of whose loops ended    *)
(* with an error, however faults and signals fall.                         *)
THEOREM CleanTheorem == Spec => []CleanStop
<1>1. Inv => CleanStop
  BY DEF Inv, Sound, CleanStop
<1> QED BY <1>1, InitInv, NextInv, PTL DEF Spec
=============================================================================
