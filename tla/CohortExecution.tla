-------------------------- MODULE CohortExecution --------------------------
(***************************************************************************)
(* The execution of one live checkpoint cohort: workers that collect its   *)
(* components in slices, and the planner that goes through the cohort      *)
(* again and, when its window is over, writes off what nobody has begun.   *)
(*                                                                         *)
(* A worker's attempt and a plan are one database transaction each.  The   *)
(* rows they change are locked one after the other, in orders that differ, *)
(* and stay locked until the commit; when transactions wait for each other *)
(* in a circle the database rolls one of them back.  What a transaction    *)
(* has not committed is in its draft.  Latest components, which follow     *)
(* their scan, are the subject of LatestScan.                              *)
(***************************************************************************)
EXTENDS CohortPolicy, SequencesExt

CONSTANTS
  Worker, Planner,
  Component,     \* the identifiers of the components, numbers
  Hot,           \* those among them that page through a hot list
  Pages,         \* the last page of the range of a hot component
  SlicePages,    \* max_pages_per_slice
  MaxRetries,    \* CollectionTask.max_retries
  MaxCrashes,    \* bound on the workers killed
  MaxPlans       \* bound on the plans

ASSUME ExecutionAssumption ==
  /\ Component \subseteq Nat /\ IsFiniteSet(Component) /\ Hot \subseteq Component
  /\ Component # {}  \* _validate_cohort_plan
  /\ Planner \notin Worker
  /\ None \notin {"complete", "ended", "paused"}
  /\ {Pages, SlicePages} \subseteq Nat \ {0}
  /\ {MaxRetries, MaxCrashes, MaxPlans} \subseteq Nat

VARIABLES
  late,      \* is the deadline of the checkpoint over?
  comps,     \* the components, as committed
  status,    \* the status of the cohort, as committed
  scans,     \* the scans of the hot components, as committed
  tasks,     \* the tasks of each component, one for each slice, as committed
  stored,    \* the pages whose comments are committed
  phase,     \* what each process is doing
  locks,     \* the rows that its transaction has locked
  todo,      \* the rows it has still to lock before it goes on
  draft,     \* what it has read, and what it is going to write
  crashes, plans

vars == <<late, comps, status, scans, tasks, stored, phase, locks, todo, draft,
          crashes, plans>>

rows == <<comps, status, scans, tasks, stored>>

Process == Worker \cup {Planner}

Startable == {"pending"} \cup Active
Open == {"planned", "running", "paused"}

CohortRow == <<"cohort">>
CompRow(c) == <<"component", c>>
TaskRow(c, n) == <<"task", c, n>>

InOrder == SetToSortSeq(Component, <)
Siblings == [i \in DOMAIN InOrder |-> CompRow(InOrder[i])]

-----------------------------------------------------------------------------
(* Row locks                                                               *)
Holder(row) == {q \in Process : row \in locks[q]}

Waits(q) == todo[q] # << >> /\ Holder(Head(todo[q])) \notin {{}, {q}}

Blocker(q) == CHOOSE p \in Process \ {q} : Head(todo[q]) \in locks[p]

InCircle(q) ==
  \E circle \in SUBSET Process :
    /\ q \in circle
    /\ \A p \in circle : Waits(p)
    /\ {Blocker(p) : p \in circle} = circle

Released(q) ==
  /\ locks' = [locks EXCEPT ![q] = {}]
  /\ todo' = [todo EXCEPT ![q] = << >>]
  /\ draft' = [draft EXCEPT ![q] = None]

Lock(q) ==
  /\ todo[q] # << >>
  /\ ~Waits(q)
  /\ locks' = [locks EXCEPT ![q] = @ \cup {Head(todo[q])}]
  /\ todo' = [todo EXCEPT ![q] = Tail(@)]
  /\ UNCHANGED <<late, rows, phase, draft, crashes, plans>>

(* The exception ends the loop of a worker and fails the job of a planner. *)
Abort(q) ==
  /\ InCircle(q)
  /\ phase' = [phase EXCEPT ![q] = IF q \in Worker THEN "down" ELSE "idle"]
  /\ Released(q)
  /\ UNCHANGED <<late, rows, crashes, plans>>

-----------------------------------------------------------------------------
(* A worker's attempt                                                      *)
Outcomes(cs) ==
  {[required |-> TRUE, status |-> cs[c].status, started |-> cs[c].started] :
     c \in Component}

(* Any pending task that is not locked may be due first.                   *)
Lease(w, c, n) ==
  /\ phase[w] = "idle"
  /\ tasks[c][n].status = "pending"
  /\ Holder(TaskRow(c, n)) = {}
  /\ locks' = [locks EXCEPT ![w] = {TaskRow(c, n)}]
  /\ draft' = [draft EXCEPT ![w] = [comp |-> c, slice |-> n]]
  /\ todo' = [todo EXCEPT ![w] = <<CompRow(c), CohortRow>>]
  /\ phase' = [phase EXCEPT ![w] = "starting"]
  /\ UNCHANGED <<late, rows, crashes, plans>>

(* Mutant of Executable: whatever has a task is executed.                  *)
ExecutableAny(c) == TRUE

Executable(c) == comps[c].status \in Startable

(* mark_task_started, outside of the worker's try.                         *)
Start(w) ==
  /\ phase[w] = "starting" /\ todo[w] = << >>
  /\ \/ /\ Executable(draft[w].comp)
        /\ phase' = [phase EXCEPT ![w] = "collecting"]
        /\ UNCHANGED <<locks, todo, draft>>
     \/ /\ ~Executable(draft[w].comp)
        /\ phase' = [phase EXCEPT ![w] = "down"]
        /\ Released(w)
  /\ UNCHANGED <<late, rows, crashes, plans>>

(* Mutant of Running: every attempt counts as a slice.                     *)
RunningAlways(scan) ==
  [scan EXCEPT !.status = "running", !.slices = @ + 1]

(* mark_running: a retry goes on with the slice that failed.               *)
Running(scan) ==
  [scan EXCEPT !.status = "running",
               !.slices = IF scan.status = "running" THEN @ ELSE @ + 1]

(* record_page_requested, record_page_succeeded: k pages of the list.      *)
Paged(scan, k) == [scan EXCEPT !.next = @ + k]

(* Mutant of Stumbled: the page that failed is passed over.                *)
StumbledOver(scan) == [scan EXCEPT !.next = @ + 1]

(* record_page_failed: the scan stays at the page.                         *)
Stumbled(scan) == scan

SliceEnd == {"complete", "ended", "paused", "failed", "unresolved"}

(* How the slice of a hot component may end after k more pages.            *)
SliceEnds(scan, k) ==
  LET next == scan.next + k IN
  {end \in SliceEnd :
     /\ next <= Pages + 1
     /\ end = "complete" => next = Pages + 1
     /\ end = "ended" => k > 0
     /\ end = "paused" => k > 0 /\ next <= Pages
     /\ end = "failed" => k < SlicePages /\ next <= Pages
     /\ end = "unresolved" => k = 0}

(* The task after an attempt, and whether that was its last.               *)
Again(w) == tasks[draft[w].comp][draft[w].slice].retries < MaxRetries

Failing(w) == IF Again(w) THEN "running" ELSE "failed"

FailingScan(w, parseError) ==
  IF Again(w) THEN "running" ELSE IF parseError THEN "corrupted" ELSE "failed"

Retried(task) ==
  [status |-> IF task.retries < MaxRetries THEN "pending" ELSE "failed",
   retries |-> task.retries + 1, tried |-> TRUE]

Succeeded(task) == [task EXCEPT !.status = "succeeded", !.tried = TRUE]

(* What the attempt leaves: of the component, the task, the pages.         *)
Close(w, goes, failed, scan, pages, follows) ==
  /\ phase' = [phase EXCEPT ![w] = "closing"]
  /\ todo' = [todo EXCEPT ![w] = Siblings]
  /\ draft' = [draft EXCEPT ![w] =
       [comp |-> @.comp, slice |-> @.slice, goes |-> goes, failed |-> failed,
        scan |-> scan, pages |-> pages, follows |-> follows]]
  /\ UNCHANGED <<late, rows, locks, crashes, plans>>

(* A collector without a scan, and record_task_succeeded or
   record_task_failed.                                                     *)
CollectOnce(w, end) ==
  /\ phase[w] = "collecting" /\ draft[w].comp \notin Hot
  /\ Close(w, IF end = "failed" THEN Failing(w) ELSE end, end = "failed",
           None, {}, FALSE)

(* Mutant of Follows: the slice that yields leaves no follow-up.           *)
FollowsNever(end) == FALSE

Follows(end) == end = "paused"

(* HotCommentCollector._collect_scan, and what record_task_succeeded and
   record_task_failed make of its scan.  A failure keeps the pages of the
   slice: they are committed with it.                                      *)
CollectSlice(w, k, end, parseError) ==
  LET c == draft[w].comp
      fails == end \in {"failed", "unresolved"}
      paged == Paged(Running(scans[c]), k)
      after == IF end = "failed" THEN Stumbled(paged) ELSE paged
      open == CASE end = "paused" -> "paused"
                [] fails -> FailingScan(w, parseError)
                [] OTHER -> "complete"
  IN  /\ phase[w] = "collecting" /\ c \in Hot
      /\ end \in SliceEnds(scans[c], k)
      /\ Close(w, IF open \in Open THEN "running" ELSE open, fails,
               [after EXCEPT !.status = open,
                             !.outcome = IF open \in {"complete", "paused"} THEN end ELSE @],
               scans[c].next .. (scans[c].next + k - 1), Follows(end))

(* Mutant of Recomputed: from the components as they were before.          *)
RecomputedBefore(cs) == Aggregate(Outcomes(comps))

(* _recompute_cohort                                                       *)
Recomputed(cs) == Aggregate(Outcomes(cs))

FirstSlice == [status |-> "pending", retries |-> 0, tried |-> FALSE]

Commit(w) ==
  LET d == draft[w]
      c == d.comp
      mine == [tasks[c] EXCEPT ![d.slice] = IF d.failed THEN Retried(@) ELSE Succeeded(@)]
      more == IF d.follows THEN {d.slice + 1} \ DOMAIN mine ELSE {}
      done == [comps EXCEPT ![c] = [status |-> d.goes, started |-> TRUE]]
  IN  /\ phase[w] = "closing" /\ todo[w] = << >>
      /\ comps' = done
      /\ status' = Recomputed(done)
      /\ scans' = IF c \in Hot THEN [scans EXCEPT ![c] = d.scan] ELSE scans
      /\ stored' = [stored EXCEPT ![c] = @ \cup d.pages]
      /\ tasks' = [tasks EXCEPT ![c] =
           [n \in DOMAIN mine \cup more |-> IF n \in more THEN FirstSlice ELSE mine[n]]]
      /\ phase' = [phase EXCEPT ![w] = "idle"]
      /\ Released(w)
      /\ UNCHANGED <<late, crashes, plans>>

Crash(w) ==
  /\ crashes < MaxCrashes
  /\ phase[w] \notin {"idle", "down"}
  /\ crashes' = crashes + 1
  /\ phase' = [phase EXCEPT ![w] = "down"]
  /\ Released(w)
  /\ UNCHANGED <<late, rows, plans>>

Restart(w) ==
  /\ phase[w] = "down"
  /\ phase' = [phase EXCEPT ![w] = "idle"]
  /\ UNCHANGED <<late, rows, locks, todo, draft, crashes, plans>>

-----------------------------------------------------------------------------
(* The planner goes through the checkpoint.                                *)

(* materialize: the cohort, its components, then the first task of each.   *)
PlanRows ==
  <<CohortRow>> \o Siblings
    \o [i \in DOMAIN InOrder |-> TaskRow(InOrder[i], 0)]

(* The cohort is read before anything is locked.                           *)
Plan ==
  /\ phase[Planner] = "idle"
  /\ plans < MaxPlans
  /\ plans' = plans + 1
  /\ ~late
  /\ todo' = [todo EXCEPT ![Planner] = PlanRows]
  /\ phase' = [phase EXCEPT ![Planner] = "materializing"]
  /\ UNCHANGED <<late, rows, locks, draft, crashes>>

(* _finalize_expired_checkpoint locks the components in any order.         *)
PlanLate ==
  /\ phase[Planner] = "idle"
  /\ plans < MaxPlans
  /\ plans' = plans + 1
  /\ late
  /\ draft' = [draft EXCEPT ![Planner] = status]
  /\ \E order \in SetToSeqs({CompRow(c) : c \in Component}) :
       todo' = [todo EXCEPT ![Planner] = order \o <<CohortRow>>]
  /\ phase' = [phase EXCEPT ![Planner] = "finalizing"]
  /\ UNCHANGED <<late, rows, locks, crashes>>

(* Nothing is missing: the tasks and the scan are there.                   *)
Materialize ==
  /\ phase[Planner] = "materializing" /\ todo[Planner] = << >>
  /\ phase' = [phase EXCEPT ![Planner] = "idle"]
  /\ Released(Planner)
  /\ UNCHANGED <<late, rows, crashes, plans>>

WrittenOff ==
  [c \in Component |-> IF comps[c].status = "pending"
                       THEN [comps[c] EXCEPT !.status = "missed_due_to_capacity"]
                       ELSE comps[c]]

(* The status of the cohort is written when it is another one than the one
   that was read at first.                                                 *)
Finalize ==
  /\ phase[Planner] = "finalizing" /\ todo[Planner] = << >>
  /\ comps' = WrittenOff
  /\ LET told == Recomputed(WrittenOff) IN
     status' = IF told # draft[Planner] THEN told ELSE status
  /\ phase' = [phase EXCEPT ![Planner] = "idle"]
  /\ Released(Planner)
  /\ UNCHANGED <<late, scans, tasks, stored, crashes, plans>>

Expire ==
  /\ ~late
  /\ late' = TRUE
  /\ UNCHANGED <<rows, phase, locks, todo, draft, crashes, plans>>

-----------------------------------------------------------------------------
(* The cohort has been materialized.                                       *)
Init ==
  /\ late = FALSE
  /\ comps = [c \in Component |-> [status |-> "pending", started |-> FALSE]]
  /\ status = "planned"
  /\ scans = [c \in Hot |->
       [status |-> "planned", next |-> 1, slices |-> 0, outcome |-> None]]
  /\ tasks = [c \in Component |-> [n \in {0} |-> FirstSlice]]
  /\ stored = [c \in Component |-> {}]
  /\ phase = [q \in Process |-> "idle"]
  /\ locks = [q \in Process |-> {}]
  /\ todo = [q \in Process |-> << >>]
  /\ draft = [q \in Process |-> None]
  /\ crashes = 0 /\ plans = 0

CollectSome(w) ==
  \/ \E end \in {"complete", "partial", "failed"} : CollectOnce(w, end)
  \/ \E k \in 0..SlicePages, end \in SliceEnd, parseError \in BOOLEAN :
       CollectSlice(w, k, end, parseError)

Work(w) ==
  \/ \E c \in Component : \E n \in DOMAIN tasks[c] : Lease(w, c, n)
  \/ Start(w)
  \/ CollectSome(w)
  \/ Commit(w)

PlannerStep == Plan \/ PlanLate \/ Materialize \/ Finalize

Next ==
  \/ \E w \in Worker : Work(w) \/ Crash(w) \/ Restart(w)
  \/ \E q \in Process : Lock(q) \/ Abort(q)
  \/ PlannerStep
  \/ Expire

Spec == Init /\ [][Next]_vars

(* The event loop goes on, a worker that has died is started again, and the
   database looks for circles.                                             *)
FairSpec ==
  /\ Spec
  /\ \A w \in Worker : WF_vars(Work(w)) /\ WF_vars(Restart(w))
  /\ \A q \in Process : WF_vars(Lock(q))
  /\ WF_vars(Materialize \/ Finalize)
  /\ WF_vars(\E q \in Process : Abort(q))

-----------------------------------------------------------------------------
(* Properties                                                              *)
Scan ==
  [status : Open \cup {"complete", "failed", "corrupted"},
   next : 1..(Pages + 1), slices : Nat, outcome : {None, "complete", "ended", "paused"}]

Task == [status : {"pending", "succeeded", "failed"},
         retries : 0..(MaxRetries + 1), tried : BOOLEAN]

(* The columns hold what they may hold, and a row is locked by one.        *)
TypeOK ==
  /\ comps \in [Component -> [status : ComponentStatus, started : BOOLEAN]]
  /\ status \in CohortStatus
  /\ scans \in [Hot -> Scan]
  /\ \A c \in Component : \A n \in DOMAIN tasks[c] : tasks[c][n] \in Task
  /\ \A c \in Component : stored[c] \subseteq 1..Pages
  /\ \A p, q \in Process : p # q => locks[p] \cap locks[q] = {}

(* Although workers and planner change components side by side and the
   planner has read the cohort before it locks anything, the committed
   status of the cohort is the one that its components amount to.          *)
StatusTells == status = Aggregate(Outcomes(comps))

(* A component that can still be started has exactly one task waiting, one
   that an attempt has closed has none: no slice is lost and none is done
   twice, whatever is killed.                                              *)
OneTaskWaits ==
  \A c \in Component :
    LET waiting == {n \in DOMAIN tasks[c] : tasks[c][n].status = "pending"} IN
    /\ comps[c].status \in Startable => Cardinality(waiting) = 1
    /\ comps[c].status \notin Startable \cup Missed => waiting = {}

(* The pages of a scan are captured from the first one on without a hole,
   across slices, failures and kills; one that has reached its target has
   them all.                                                               *)
PagesWithoutHole ==
  \A c \in Hot :
    /\ stored[c] = 1..(scans[c].next - 1)
    /\ scans[c].outcome = "complete" => stored[c] = 1..Pages

(* slice_count counts the slices that have been begun, not the attempts.   *)
SlicesCounted ==
  \A c \in Hot :
    scans[c].slices = Cardinality({n \in DOMAIN tasks[c] : tasks[c][n].tried})

(* "A component that has not started by that deadline is not sent as stale
   work": once written off, nothing is collected for it.                   *)
WrittenOffRests ==
  [][\A c \in Component : comps[c].status \in Missed =>
       comps'[c] = comps[c] /\ stored'[c] = stored[c]]_vars

(* Unless the database breaks circles for ever, every component is closed,
   or one of them has been written off with its task left in the queue.    *)
Settles ==
  \/ []<><<\E q \in Process : Abort(q)>>_vars
  \/ <>(\A c \in Component : comps[c].status \notin Startable)
  \/ <>(\E c \in Component : comps[c].status \in Missed)
=============================================================================
