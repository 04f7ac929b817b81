---------------------------- MODULE LatestScan ----------------------------
(***************************************************************************)
(* The scans of the latest comments of one video: the comment_scan_runs,   *)
(* the row of frontier_states that says which of them is under way and how *)
(* far it has come, the numbered slice tasks that carry it on, and the     *)
(* cohort components that wait for its evidence.                           *)
(*                                                                         *)
(* A slice runs in the worker's one transaction.  It locks its scan before *)
(* anything else it writes and keeps the lock to the end, and whoever else *)
(* would change the frontier, the scan or its components must lock that    *)
(* scan too, so they wait: the model lets them act between slices only.    *)
(* A process that dies in a slice goes back to `saved'.  Of such deadlocks *)
(* as the waiting may cause, the victim's end is Fail or Die.              *)
(*                                                                         *)
(* The planner too works in one transaction: it repairs the components     *)
(* that wait, then materializes the cohorts that are due, and if one of    *)
(* them makes it raise, the repair is rolled back as well.  Its time is    *)
(* that of its beginning, and a plan that is killed has changed nothing.   *)
(*                                                                         *)
(* The platform lists comments by age; comments are numbered in the order  *)
(* they are posted.  A cursor is the number at which a page starts, 0 is   *)
(* the empty cursor of the head (and a cursor that is null), and a page    *)
(* holds one comment.                                                      *)
(***************************************************************************)
EXTENDS Naturals, Sequences, FiniteSetsExt

CONSTANTS
  Component,     \* the latest components of the cohorts of the video
  Due, Deadline, \* their half-open windows [Due, Deadline)
  Until,         \* their cohorts are planned again before that time: those of
                 \* checkpoints up to the deadline, recoveries until the next
                 \* checkpoint is overdue, routine cohorts (0) never
  PageAttempts,  \* page_retry_attempts
  MaxRetries,    \* max_retries of a slice task
  MaxTime,       \* bound on the clock
  MaxPosts,      \* bound on the comments ever posted
  MaxDeleted,    \* bound on the comments deleted
  MaxScans,      \* bound on the scans
  MaxSlices,     \* bound on the slices of a scan
  MaxVersion     \* no slice starts at a version of the frontier beyond it

ASSUME Bounds ==
  /\ {Due, Deadline, Until} \subseteq [Component -> Nat]
  /\ PageAttempts \in Nat \ {0}
  /\ {MaxRetries, MaxTime, MaxPosts, MaxDeleted, MaxScans, MaxSlices,
      MaxVersion} \subseteq Nat

VARIABLES
  now,
  posts,     \* comments posted so far, numbered 1..posts
  gone,      \* those that were deleted
  stored,    \* those that a page has brought into the archive
  frontier,  \* the row of frontier_states
  scans,     \* the rows of comment_scan_runs, in the order of their ids
  tasks,     \* the last slice of each scan; the slices before it succeeded
  comps,     \* the components
  run,       \* the slice that is being worked on
  plan,      \* what the plan under way has still to repair, to materialize
  saved      \* what the transaction under way would be rolled back to

vars == <<now, posts, gone, stored, frontier, scans, tasks, comps, run, plan,
          saved>>

-----------------------------------------------------------------------------
Top == 0
None == 0
Never == MaxTime + 1        \* head_captured_at is not set
NoPage == MaxPosts + 1      \* no page has succeeded yet
Cursor == 0..MaxPosts
ScanId == 1..MaxScans

Mode == {"tail", "head", "incremental"}
Open == {"planned", "running", "paused"}
Closed == {"complete", "partial", "failed", "corrupted"}
Executable == {"pending", "running", "joined"}

Scan == [mode : Mode, status : Open \cup Closed, parent : 0..MaxScans,
         start : Cursor, result : Cursor, head : 0..Never, first : 0..NoPage,
         slices : 0..(MaxSlices + 1)]
Slice == [no : 0..MaxSlices, comp : Component \cup {None},
          status : {"pending", "succeeded", "failed"}, version : Nat,
          retries : 0..(MaxRetries + 1)]
Frontier == [owner : 0..MaxScans, version : Nat, cursor : Cursor,
             anchor : Cursor,
             baseline : {"none", "tail_complete", "complete", "corrupted"},
             of : 0..MaxScans, seen : SUBSET Cursor, failures : 0..PageAttempts]
Consumer == [status : {"unplanned", "partial", "complete", "failed",
                       "corrupted"} \cup Executable,
             scan : 0..MaxScans]

(* last: what the page just read calls for, "refused" if validation failed *)
NoRun == [scan |-> None, read |-> FALSE, last |-> "none"]
NoPlan == [repair |-> {}, due |-> {}]

NewScan(mode, parent, start) ==
  [mode |-> mode, status |-> "planned", parent |-> parent, start |-> start,
   result |-> None, head |-> Never, first |-> NoPage, slices |-> 0]

NewSlice(no, c, version) ==
  [no |-> no, comp |-> c, status |-> "pending", version |-> version,
   retries |-> 0]

OpenScans == {s \in DOMAIN scans : scans[s].status \in Open}
InState(S) == {c \in Component : comps[c].status \in S}

(* What a transaction would be rolled back to, and its end that way.       *)
Snapshot == [stored |-> stored, frontier |-> frontier, scans |-> scans,
             tasks |-> tasks, comps |-> comps]

RollBack ==
  /\ stored' = saved.stored
  /\ frontier' = saved.frontier
  /\ scans' = saved.scans
  /\ tasks' = saved.tasks
  /\ comps' = saved.comps
  /\ saved' = <<>>
  /\ UNCHANGED <<now, posts, gone>>

(* latest_scan_progress, which counts only for the scan that wrote it.     *)
Seen(s) == IF frontier.of = s THEN frontier.seen ELSE {}
Failures(s) == IF frontier.of = s THEN frontier.failures ELSE 0

-----------------------------------------------------------------------------
(* The platform.                                                           *)
Newest(S) == IF S = {} THEN None ELSE Max(S)
Listed(c) == {i \in (1..posts) \ gone : c = Top \/ i <= c}
Item(c) == Newest(Listed(c))
After(c) == Newest(Listed(c) \ {Item(c)})

(* Where a page says the next one starts: after its comment, or, from a    *)
(* platform that repeats itself, at a cursor it has been asked for before. *)
NextCursors(s, c) ==
  {After(c)} \cup (IF Item(c) = None THEN {} ELSE (Seen(s) \cup {c}) \ {Top})

Post ==
  /\ plan = NoPlan
  /\ posts < MaxPosts
  /\ posts' = posts + 1
  /\ UNCHANGED <<now, gone, stored, frontier, scans, tasks, comps, run, plan,
                 saved>>

Delete(i) ==
  /\ plan = NoPlan
  /\ Cardinality(gone) < MaxDeleted
  /\ gone' = gone \cup {i}
  /\ UNCHANGED <<now, posts, stored, frontier, scans, tasks, comps, run, plan,
                 saved>>

Tick ==
  /\ plan = NoPlan
  /\ now < MaxTime
  /\ now' = now + 1
  /\ UNCHANGED <<posts, gone, stored, frontier, scans, tasks, comps, run, plan,
                 saved>>

-----------------------------------------------------------------------------
(* sync_latest_scan_consumers: the components of scan s move on to the     *)
(* head sweep that follows a completed tail, and take over what the scan   *)
(* they wait for has come to.                                              *)
Effective(sc, s) ==
  LET children == {k \in DOMAIN sc : sc[k].parent = s} IN
  IF sc[s].mode = "tail" /\ sc[s].status = "complete" /\ children # {}
  THEN Min(children) ELSE s

(* _head_capture_satisfies                                                 *)
Captured(c, head) == head # Never /\ Due[c] <= head /\ head < Deadline[c]

Outcome(c, scan) ==
  IF Captured(c, scan.head) THEN "complete"
  ELSE IF scan.status \in {"failed", "corrupted"} THEN scan.status
  ELSE "joined"

Waiting(co, S) ==
  {c \in Component : co[c].status \in Executable /\ co[c].scan \in S}

Sync(sc, co, s) ==
  LET e == Effective(sc, s)
      W == Waiting(co, {s, e, sc[e].parent} \ {None})
  IN [c \in Component |->
        IF c \in W THEN [status |-> Outcome(c, sc[e]), scan |-> e] ELSE co[c]]

-----------------------------------------------------------------------------
(* claim_or_join, under the lock of the frontier: join the scan that is    *)
(* open, or plan one that goes on from the frontier's cursor.              *)
PlanMode ==
  CASE frontier.baseline = "complete" -> "incremental"
    [] frontier.baseline = "tail_complete" -> "head"
    [] OTHER -> "tail"

Planned ==
  NewScan(PlanMode, None, IF PlanMode = "tail" THEN None ELSE frontier.anchor)

(* Mutant of Joinable: whoever comes plans a scan of its own.              *)
JoinableNever == {}

Joinable ==
  IF frontier.owner \in OpenScans THEN {frontier.owner} ELSE OpenScans

(* _replace_owner, which first drops a pointer to a scan that is closed.   *)
OwnedBy(s) ==
  LET dropped == frontier.owner \notin OpenScans \cup {None} IN
  [frontier EXCEPT !.owner = s, !.version = @ + (IF dropped THEN 2 ELSE 1)]

Join(s) ==
  /\ s \in Joinable
  /\ frontier' = IF frontier.owner = s THEN frontier ELSE OwnedBy(s)
  /\ UNCHANGED scans

Plan ==
  /\ Joinable = {}
  /\ Len(scans) < MaxScans
  /\ scans' = Append(scans, Planned)
  /\ frontier' = OwnedBy(Len(scans) + 1)

-----------------------------------------------------------------------------
(* A plan: the components that wait are repaired, then the cohorts of S,   *)
(* whose time has come, and those that are planned again are materialized. *)
(* Room: no plan runs against the bound on the scans.                      *)
Plannable ==
  {c \in InState({"unplanned"}) :
     /\ Due[c] <= now
     /\ now < Deadline[c] \/ (now = Deadline[c] /\ Until[c] = now + 1)}

PlannedAgain ==
  {c \in Component : comps[c].status # "unplanned" /\ now < Until[c]}

Room(S) ==
  \/ OpenScans # {} \/ Len(scans) < MaxScans
  \/ S = {} /\ \A c \in InState(Executable) : Deadline[c] <= now

PlanBegins(S) ==
  /\ run = NoRun /\ plan = NoPlan
  /\ Room(S)
  /\ plan' = [repair |-> InState(Executable), due |-> S \cup PlannedAgain]
  /\ plan' # NoPlan
  /\ saved' = Snapshot
  /\ UNCHANGED <<now, posts, gone, stored, frontier, scans, tasks, comps, run>>

(* One component is done, and those that are closed by now are skipped.    *)
(* The last one commits the plan.                                          *)
Done(repair, due) ==
  /\ plan' = [repair |-> {c \in repair : comps'[c].status \in Executable},
              due |-> due]
  /\ saved' = IF plan' = NoPlan THEN <<>> ELSE saved
  /\ UNCHANGED <<now, posts, gone, stored, run>>

(* The planner's repair of one waiting component, repair_latest_consumers, *)
(* which walks them in the order of their deadlines, locking as it goes.   *)
SliceNo(scan) == IF scan.status = "planned" THEN 0 ELSE scan.slices

(* _repair_latest_scan_task: a slice that does not exist yet is enqueued.  *)
Reissued(s, c) ==
  LET slice == NewSlice(SliceNo(scans'[s]), c, frontier'.version) IN
  IF s \notin DOMAIN tasks THEN Append(tasks, slice)
  ELSE IF /\ scans'[s].status \in {"planned", "paused"}
          /\ tasks[s].no < slice.no
       THEN [tasks EXCEPT ![s] = slice]
       ELSE tasks

(* Mutant of Resynced: the deadline is looked at first.                    *)
ResyncedLater(c) == comps

Resynced(c) == Sync(scans, comps, comps[c].scan)

RepairSettled(c) ==
  /\ Resynced(c)[c].status \notin Executable
  /\ comps' = Resynced(c)
  /\ UNCHANGED <<frontier, scans, tasks>>

(* Mutant of RepairExpired: joined components are forgotten.               *)
RepairExpiredUnjoined(c) ==
  /\ Resynced(c)[c].status \in {"pending", "running"}
  /\ now >= Deadline[c]
  /\ comps' = [Resynced(c) EXCEPT ![c].status = "partial"]
  /\ UNCHANGED <<frontier, scans, tasks>>

RepairExpired(c) ==
  /\ Resynced(c)[c].status \in Executable
  /\ now >= Deadline[c]
  /\ comps' = [Resynced(c) EXCEPT ![c].status = "partial"]
  /\ UNCHANGED <<frontier, scans, tasks>>

(* _ensure_latest_consumer_active                                          *)
Reclaim(c, s) ==
  IF Resynced(c)[c].scan \in OpenScans \cap {frontier.owner}
  THEN s = frontier.owner /\ UNCHANGED <<frontier, scans>>
  ELSE Join(s) \/ (Plan /\ s = Len(scans) + 1)

RepairActive(c) ==
  /\ Resynced(c)[c].status \in Executable
  /\ now < Deadline[c]
  /\ \E s \in ScanId :
       /\ Reclaim(c, s)
       /\ comps' = [Resynced(c) EXCEPT ![c] = [status |-> "joined", scan |-> s]]
       /\ tasks' = Reissued(s, c)

Repair(c) ==
  /\ c \in plan.repair
  /\ \A k \in plan.repair : Deadline[c] <= Deadline[k]
  /\ RepairSettled(c) \/ RepairExpired(c) \/ RepairActive(c)
  /\ Done(plan.repair \ {c}, plan.due)

-----------------------------------------------------------------------------
(* A component of a live cohort is materialized: its scan is claimed, and  *)
(* whoever plans the scan enqueues its first slice.  When it is planned    *)
(* again, a component with a slice of its scan keeps everything, one that  *)
(* has joined its scan joins it again, whatever has become of it, and if   *)
(* that is not the scan to be joined any more, the planner raises.         *)
Slices(c) == {s \in DOMAIN tasks : tasks[s].comp = c}

MaterializeJoined(c, s) ==
  /\ Join(s)
  /\ comps[c].scan \in {None, s}
  /\ Slices(c) = {}
  /\ comps' = [comps EXCEPT ![c] = [status |-> "joined", scan |-> s]]
  /\ UNCHANGED tasks

MaterializePlanned(c) ==
  /\ Plan
  /\ comps[c].scan = None
  /\ tasks' = Append(tasks, NewSlice(0, c, frontier'.version))
  /\ comps' = [comps EXCEPT ![c] = [status |-> "pending",
                                    scan |-> Len(scans) + 1]]

MaterializeKept(c) ==
  /\ comps[c].scan \in Slices(c)
  /\ UNCHANGED <<frontier, scans, tasks, comps>>

Materialize(c) ==
  /\ plan.repair = {} /\ c \in plan.due
  /\ \/ MaterializeKept(c)
     \/ MaterializePlanned(c)
     \/ \E s \in ScanId : MaterializeJoined(c, s)
  /\ Done({}, plan.due \ {c})

Contradicts(c) ==
  /\ comps[c].scan \notin Slices(c) \cup {None}
  /\ comps[c].scan \notin Joinable \/ Slices(c) # {}

PlanRaises ==
  /\ plan.repair = {} /\ \E c \in plan.due : Contradicts(c)
  /\ RollBack
  /\ plan' = NoPlan
  /\ UNCHANGED run

-----------------------------------------------------------------------------
(* A worker starts a slice.  mark_task_started refuses a slice whose       *)
(* component is not executable, and the worker's process ends: nothing is  *)
(* changed.  _validate_task refuses a slice of another owner or version    *)
(* than the frontier's: the attempt can only fail.                         *)
Valid(s) ==
  /\ scans[s].status \in Open
  /\ frontier.owner = s
  /\ frontier.version = tasks[s].version

Executes(s) ==
  /\ tasks[s].comp \in Component
  /\ comps[tasks[s].comp].status \in Executable

(* Mutant of MarkRunning: every attempt counts as a slice.                 *)
MarkRunningEach(s) ==
  [scans EXCEPT ![s].status = "running", ![s].slices = @ + 1]

MarkRunning(s) ==
  [scans EXCEPT ![s].status = "running",
                ![s].slices = IF scans[s].status = "running" THEN @ ELSE @ + 1]

Start(s) ==
  /\ run = NoRun /\ plan = NoPlan
  /\ tasks[s].status = "pending"
  /\ Executes(s)
  /\ frontier.version < MaxVersion
  /\ scans' = IF Valid(s) THEN MarkRunning(s) ELSE scans
  /\ comps' = [comps EXCEPT ![tasks[s].comp].status = "running"]
  /\ run' = [NoRun EXCEPT !.scan = s,
                          !.last = IF Valid(s) THEN "none" ELSE "refused"]
  /\ saved' = Snapshot
  /\ UNCHANGED <<now, posts, gone, stored, frontier, tasks, plan>>

(* A compare-and-swap of the frontier that keeps its owner.                *)
Progress(s, cursor, seen, failures) ==
  [frontier EXCEPT !.version = @ + 1, !.cursor = cursor, !.of = s,
                   !.seen = seen, !.failures = failures]

Stamped(s, version) == [tasks EXCEPT ![s].version = version]

(* A head sweep needs anchors to look for.                                 *)
Reading(s) ==
  /\ run.scan = s
  /\ run.last \in {"none", "more"}
  /\ scans[s].mode = "head" => scans[s].start # None

Fetching(s) == Reading(s) /\ frontier.cursor \notin Seen(s)

(* What the first successful page of a scan is taken for.                  *)
Witnessed(s, item) ==
  IF scans[s].first # NoPage THEN scans
  ELSE IF scans[s].mode = "tail"
  THEN [scans EXCEPT ![s].start = item, ![s].first = frontier.cursor]
  ELSE [scans EXCEPT ![s].result = item, ![s].head = now,
                     ![s].first = frontier.cursor]

Verdict(s, item, next) ==
  IF scans[s].mode # "tail" /\ item # None /\ item = scans[s].start
  THEN "match"
  ELSE IF next = Top THEN "end" ELSE "more"

Read(s, next) ==
  LET item == Item(frontier.cursor) IN
  /\ Fetching(s)
  /\ next \in NextCursors(s, frontier.cursor)
  /\ stored' = stored \cup ({item} \ {None})
  /\ scans' = Witnessed(s, item)
  /\ frontier' = Progress(s, next, Seen(s) \cup {frontier.cursor}, 0)
  /\ tasks' = Stamped(s, frontier'.version)
  /\ run' = [run EXCEPT !.read = TRUE, !.last = Verdict(s, item, next)]
  /\ UNCHANGED <<now, posts, gone, comps, plan, saved>>

(* Mutant of FetchFails: the cursor moves on although no page was read.     *)
FetchFailsAhead(s) ==
  /\ Fetching(s)
  /\ Failures(s) + 1 < PageAttempts
  /\ frontier' = Progress(s, After(frontier.cursor), Seen(s), Failures(s) + 1)
  /\ tasks' = Stamped(s, frontier'.version)
  /\ UNCHANGED <<now, posts, gone, stored, scans, comps, run, plan, saved>>

(* A request fails; the slice tries again, or goes to sleep and pauses.    *)
FetchFails(s) ==
  /\ Fetching(s)
  /\ Failures(s) + 1 < PageAttempts
  /\ frontier' = Progress(s, frontier.cursor, Seen(s), Failures(s) + 1)
  /\ tasks' = Stamped(s, frontier'.version)
  /\ UNCHANGED <<now, posts, gone, stored, scans, comps, run, plan, saved>>

-----------------------------------------------------------------------------
(* The slice ends and its transaction commits, with its consumers synced.  *)
Commit(s) ==
  /\ comps' = Sync(scans', comps, s)
  /\ run' = NoRun
  /\ saved' = <<>>
  /\ UNCHANGED <<now, posts, gone, stored, plan>>

Succeeded(s) == [tasks EXCEPT ![s].status = "succeeded"]

(* The scan is closed and gives the frontier free.                         *)
Release(f, cursor) ==
  [f EXCEPT !.owner = None, !.version = @ + 1, !.cursor = cursor]

CloseScan(s, status) == [scans EXCEPT ![s].status = status]

(* Mutant of NextSlice: it carries the version the slice had before.       *)
NextSliceStale(s, version) ==
  [tasks EXCEPT ![s] = NewSlice(@.no + 1, @.comp, @.version)]

(* _enqueue_next_slice: slice n + 1, under the new version of the frontier.*)
NextSlice(s, version) ==
  [tasks EXCEPT ![s] = NewSlice(@.no + 1, @.comp, version)]

(* The time of the slice is over: before a page only if a page was read,   *)
(* before a request at any time.                                           *)
Pause(s) ==
  /\ Reading(s)
  /\ run.read \/ frontier.cursor \notin Seen(s)
  /\ tasks[s].no < MaxSlices
  /\ scans' = CloseScan(s, "paused")
  /\ frontier' = Progress(s, frontier.cursor, Seen(s), Failures(s))
  /\ tasks' = NextSlice(s, frontier'.version)
  /\ Commit(s)

Baseline(s) ==
  IF scans[s].mode = "head" THEN "corrupted" ELSE frontier.baseline

(* The platform has led back to a cursor of this scan.                     *)
CursorLoop(s) ==
  /\ Reading(s)
  /\ frontier.cursor \in Seen(s)
  /\ scans' = CloseScan(s, "corrupted")
  /\ frontier' = [Release(frontier, frontier.cursor)
                    EXCEPT !.baseline = Baseline(s)]
  /\ tasks' = Succeeded(s)
  /\ Commit(s)

RetryExhausted(s) ==
  /\ Fetching(s)
  /\ Failures(s) + 1 >= PageAttempts
  /\ scans' = CloseScan(s, "corrupted")
  /\ frontier' = Release(Progress(s, frontier.cursor, Seen(s), PageAttempts),
                         frontier.cursor)
  /\ tasks' = Succeeded(s)
  /\ Commit(s)

(* The tail of an empty list: the baseline is complete, and empty.         *)
CompleteEmpty(s) ==
  /\ run.scan = s /\ run.last = "end"
  /\ scans[s].mode = "tail" /\ scans[s].start = None
  /\ scans' = CloseScan(s, "complete")
  /\ frontier' = [Release(frontier, Top) EXCEPT !.baseline = "complete",
                                                 !.anchor = None]
  /\ tasks' = Succeeded(s)
  /\ Commit(s)

(* The tail is complete: the frontier, the consumers and a first slice are *)
(* handed over to a head sweep.                                            *)
HandOver(s) ==
  LET child == Len(scans) + 1
      W == Waiting(comps, {s})
      c == tasks[s].comp
      moved == [k \in Component |->
                  IF k \in W THEN [status |-> "joined", scan |-> child]
                  ELSE comps[k]]
      owner == IF c \in W \/ W = {} THEN {c} \cap W ELSE W
  IN
  /\ run.scan = s /\ run.last = "end"
  /\ scans[s].mode = "tail" /\ scans[s].start # None
  /\ Len(scans) < MaxScans
  /\ scans' = Append(CloseScan(s, "complete"), NewScan("head", s, scans[s].start))
  /\ frontier' = [frontier EXCEPT
                    !.owner = child, !.version = @ + 1, !.cursor = Top,
                    !.baseline = "tail_complete",
                    !.of = child, !.seen = {}, !.failures = 0]
  /\ \E k \in IF owner = {} THEN {None} ELSE owner :
       tasks' = Append(Succeeded(s), NewSlice(0, k, frontier'.version))
  /\ comps' = Sync(scans', moved, s)
  /\ run' = NoRun
  /\ saved' = <<>>
  /\ UNCHANGED <<now, posts, gone, stored, plan>>

(* The official frontier moves up to the head this scan began with.        *)
Promote(s) ==
  [Release(frontier, Top) EXCEPT !.anchor = scans[s].result,
                                  !.baseline = "complete"]

CompleteHead(s) ==
  /\ run.scan = s /\ run.last = "match"
  /\ scans[s].mode = "head"
  /\ scans' = CloseScan(s, "complete")
  /\ frontier' = Promote(s)
  /\ tasks' = Succeeded(s)
  /\ Commit(s)

StartAnchorMissing(s) ==
  /\ run.scan = s /\ run.last = "end"
  /\ scans[s].mode = "head"
  /\ scans' = CloseScan(s, "corrupted")
  /\ frontier' = [Release(frontier, Top) EXCEPT !.baseline = "corrupted"]
  /\ tasks' = Succeeded(s)
  /\ Commit(s)

(* An incremental scan ends at an anchor of the frontier, or at the end of *)
(* the list: partial, if there was an anchor to be found.                  *)
CompleteIncremental(s) ==
  LET missing == run.last = "end" /\ scans[s].start # None IN
  /\ run.scan = s /\ run.last \in {"match", "end"}
  /\ scans[s].mode = "incremental"
  /\ scans' = CloseScan(s, IF missing THEN "partial" ELSE "complete")
  /\ frontier' = Promote(s)
  /\ tasks' = Succeeded(s)
  /\ Commit(s)

-----------------------------------------------------------------------------
(* The collector raises: a slice is refused, the aid cannot be resolved, a *)
(* page cannot be stored or parsed (its savepoint is rolled back).  What   *)
(* the slice had done before is committed with the failed attempt, and the *)
(* last attempt closes the scan, unless the frontier has moved on.         *)
Fail(s, status) ==
  LET t == [tasks[s] EXCEPT !.retries = @ + 1,
              !.status = IF tasks[s].retries < MaxRetries THEN "pending"
                         ELSE "failed"]
      closes == /\ t.status = "failed"
                /\ \/ frontier.owner = None
                   \/ frontier.owner = s /\ frontier.version = t.version
  IN
  /\ run.scan = s
  /\ run.last \in {"none", "more", "refused"}
  /\ tasks' = [tasks EXCEPT ![s] = t]
  /\ scans' = IF closes /\ scans[s].status \in Open
              THEN CloseScan(s, status) ELSE scans
  /\ frontier' = IF closes /\ frontier.owner = s
                 THEN Release(frontier, Top) ELSE frontier
  /\ Commit(s)

(* The process ends in the middle of a slice: killed, or the victim of a   *)
(* deadlock outside a savepoint.                                           *)
Die(s) ==
  /\ run.scan = s
  /\ RollBack
  /\ run' = NoRun
  /\ UNCHANGED plan

-----------------------------------------------------------------------------
Init ==
  /\ now = 0
  /\ posts \in 0..MaxPosts
  /\ gone = {}
  /\ stored = {}
  /\ frontier = [owner |-> None, version |-> 0, cursor |-> Top,
                 anchor |-> None, baseline |-> "none", of |-> None,
                 seen |-> {}, failures |-> 0]
  /\ scans = <<>>
  /\ tasks = <<>>
  /\ comps = [c \in Component |-> [status |-> "unplanned", scan |-> None]]
  /\ run = NoRun
  /\ plan = NoPlan
  /\ saved = <<>>

Work(s) ==
  \/ \E next \in Cursor : Read(s, next)
  \/ FetchFails(s)
  \/ Pause(s)
  \/ CursorLoop(s) \/ RetryExhausted(s)
  \/ CompleteEmpty(s) \/ HandOver(s)
  \/ CompleteHead(s) \/ StartAnchorMissing(s)
  \/ CompleteIncremental(s)
  \/ \E status \in {"failed", "corrupted"} : Fail(s, status)
  \/ Die(s)

Planning ==
  \/ \E c \in Component : Repair(c) \/ Materialize(c)
  \/ PlanRaises

Next ==
  \/ Post \/ Tick
  \/ \E i \in (1..posts) \ gone : Delete(i)
  \/ \E S \in SUBSET Plannable : PlanBegins(S)
  \/ Planning
  \/ \E s \in DOMAIN scans : Start(s) \/ Work(s)

Spec == Init /\ [][Next]_vars

(* Time passes, whatever plans and slices do; a slice, which its time      *)
(* limit bounds, and a plan end somehow; and the planner, which comes      *)
(* every few seconds and waits for the locks of a slice, gets them before  *)
(* the slice that comes after.  What it repairs may be rolled back again.  *)
Fairness ==
  /\ SF_vars(Tick)
  /\ WF_vars(\E s \in DOMAIN scans : Work(s))
  /\ SF_vars(\E S \in SUBSET Plannable : PlanBegins(S))
  /\ WF_vars(Planning)

FairSpec == Spec /\ Fairness

-----------------------------------------------------------------------------
TypeOK ==
  /\ now \in 0..MaxTime
  /\ posts \in 0..MaxPosts
  /\ gone \subseteq 1..posts
  /\ stored \subseteq 1..posts
  /\ frontier \in Frontier
  /\ scans \in Seq(Scan) /\ Len(scans) <= MaxScans
  /\ tasks \in Seq(Slice) /\ Len(tasks) = Len(scans)
  /\ comps \in [Component -> Consumer]
  /\ run.scan \in 0..MaxScans
  /\ run.last \in {"none", "more", "match", "end", "refused"}
  /\ plan \in [repair : SUBSET Component, due : SUBSET Component]

(* What other transactions see of a slice or a plan in progress is nothing. *)
Committed == run = NoRun /\ plan = NoPlan

(* There is at most one open scan of a video, and the frontier points to   *)
(* it: no scan is orphaned, and no closed scan keeps the frontier          *)
(* (claim_or_join, complete_tail_and_create_head, the closing of scans).   *)
OwnershipExact == Committed => OpenScans = {frontier.owner} \ {None}

(* An open scan can go on: its last slice is queued under the version of   *)
(* the frontier, with the number that slice_count says; a closed scan has  *)
(* no slice left in the queue (_enqueue_next_slice, mark_running, the      *)
(* repair of missing slices, the terminal failure).                        *)
SliceMatchesScan ==
  Committed =>
    \A s \in DOMAIN scans :
      IF scans[s].status \in Open
      THEN /\ tasks[s].status = "pending"
           /\ tasks[s].version = frontier.version
           /\ scans[s].slices = tasks[s].no +
                                (IF scans[s].status = "running" THEN 1 ELSE 0)
      ELSE tasks[s].status # "pending"

(* Once a baseline is complete, every comment that still exists and is not *)
(* newer than the official frontier is in the archive, over pauses, failed *)
(* and corrupted scans, restarts and deletions.                            *)
NoGap ==
  Committed /\ frontier.baseline = "complete" =>
    (1..frontier.anchor) \ gone \subseteq stored

(* A component ends partial only if the scan it waited for has captured no *)
(* head in its window, although slice and deadline race.                   *)
PartialMeansNoCapture ==
  \A c \in Component :
    Committed /\ comps[c].status = "partial" =>
      ~Captured(c, scans[comps[c].scan].head)

(* Every component of a live cohort comes to an end once its cohort is not *)
(* planned again, whatever becomes of the scan it waits for.  Until then,  *)
(* the plan that repairs it may undo that.                                 *)
ConsumersSettle ==
  \A c \in Component :
    comps[c].status \in Executable
      ~> Committed /\ comps[c].status \notin Executable
=============================================================================
