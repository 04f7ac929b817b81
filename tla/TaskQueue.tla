----------------------------- MODULE TaskQueue -----------------------------
(***************************************************************************)
(* The persistent task queue: the collection_tasks table, the processes    *)
(* that enqueue into it, the workers that drain it and the operator who    *)
(* retries failed tasks.                                                   *)
(*                                                                         *)
(* `rows' is the table as its transactions left it.  A worker runs the     *)
(* whole of Worker.run_once in ONE database transaction, from the lease to *)
(* the final commit: until that commit its lease is a row lock and nothing *)
(* else, so what it writes stays in the variables of its open transaction  *)
(* (leased, locks, want) and a crash undoes all of it.  The rows that the  *)
(* collector inserts are kept in `rows' with status "uncommitted": other   *)
(* transactions cannot read them, but the unique index on the active       *)
(* idempotency keys already makes them wait.                               *)
(*                                                                         *)
(* Time is relative: a row carries the time left until not_before and the  *)
(* time left on its lease, a worker the time since it started.             *)
(***************************************************************************)
EXTENDS Naturals

CONSTANTS
  Task,          \* row identifiers of collection_tasks
  Worker,        \* worker processes
  Key,           \* idempotency keys
  HandledKey,    \* the keys of tasks whose kind has a collector
  LinkedKey,     \* the keys of tasks that belong to a live cohort component
  PriorityOf,    \* the priority each key is enqueued with
  NoTask, NoKey,
  MaxRetries,    \* CollectionTask.max_retries
  LeaseSeconds,  \* Worker.lease_seconds
  MaxDelay,      \* the longest retry delay or request backoff
  MaxCrashes,    \* bound on the worker processes killed
  MaxResets      \* bound on the runs of `task retry-failed'

ASSUME KeyAssumption ==
  /\ NoKey \notin Key
  /\ HandledKey \subseteq Key
  /\ LinkedKey \subseteq Key
  /\ PriorityOf \in [Key -> Nat]
ASSUME TaskAssumption == NoTask \notin Task
ASSUME BoundAssumption ==
  /\ MaxRetries \in Nat
  /\ LeaseSeconds \in Nat
  /\ MaxDelay \in Nat
  /\ MaxCrashes \in Nat
  /\ MaxResets \in Nat

VARIABLES
  rows,      \* the table, with the uncommitted inserts of open transactions
  phase,     \* what each worker is doing
  leased,    \* the task whose transaction the worker has open
  elapsed,   \* the time since that transaction's effective_now
  locks,     \* the rows that transaction has locked
  want,      \* the key it is trying to insert while another holds it
  closed,    \* the tasks whose cohort component cannot be started any more
  attempts,  \* coverage rows written for a task since it was last reset
  crashes, resets

vars == <<rows, phase, leased, elapsed, locks, want, closed, attempts,
          crashes, resets>>

-----------------------------------------------------------------------------
Status == {"absent", "uncommitted", "pending", "running", "succeeded", "failed"}

Row == [status : Status, key : Key \cup {NoKey}, wait : 0..MaxDelay,
        lease : 0..LeaseSeconds, retries : 0..(MaxRetries + 1)]

Phase == {"idle", "collecting", "inserting", "reselecting", "down"}

Absent == [status |-> "absent", key |-> NoKey, wait |-> 0, lease |-> 0,
           retries |-> 0]

(* A row as CollectionTaskRepository.enqueue inserts it.                   *)
NewRow(k, status, delay) ==
  [status |-> status, key |-> k, wait |-> delay, lease |-> 0, retries |-> 0]

(* The row r with its lease cleared, as every update of a task leaves it.  *)
With(r, status, delay, retries) ==
  [status |-> status, key |-> r.key, wait |-> delay, lease |-> 0,
   retries |-> retries]

(* The statuses that the partial unique index on idempotency_key covers.   *)
Active == {"pending", "running"}

LockedBy(t) == {w \in Worker : t \in locks[w]}

(* The other open transactions that hold a row or an index entry of k.     *)
HeldElsewhere(w, k) ==
  \E v \in Worker \ {w} : \E t \in locks[v] : rows[t].key = k

(* A row of another transaction's that has been changed or inserted there, *)
(* so that the unique index has to wait for its outcome.                   *)
ChangedElsewhere(w, k) ==
  \E v \in Worker \ {w} : \E t \in locks[v] :
    /\ rows[t].key = k
    /\ t = leased[v] \/ rows[t].status \in {"uncommitted", "running"}

ActiveRows(k) == {t \in Task : rows[t].key = k /\ rows[t].status \in Active}

(* What w's own transaction sees of k: the committed active rows and its   *)
(* own inserts, its leased task included.                                  *)
VisibleRows(w, k) ==
  ActiveRows(k) \cup
  {t \in locks[w] : rows[t].key = k /\ rows[t].status = "uncommitted"}

-----------------------------------------------------------------------------
(* recover_expired_leases: a running row whose lease has run out goes back *)
(* to pending.  Its update belongs to the worker's transaction.            *)
Expired == {t \in Task : /\ rows[t].status = "running"
                         /\ rows[t].lease = 0
                         /\ LockedBy(t) = {}}

Recovered(r) == With(r, "pending", 0, r.retries)

View(t) == IF t \in Expired THEN Recovered(rows[t]) ELSE rows[t]

(* Mutant of Due: a select that neither locks nor skips locked rows.       *)
DueWhileLocked(t) == View(t).status = "pending" /\ View(t).wait = 0

Due(t) == /\ View(t).status = "pending"
          /\ View(t).wait = 0
          /\ LockedBy(t) = {}

(* lease_next: FOR UPDATE SKIP LOCKED over the due rows, the highest       *)
(* priority first.                                                         *)
Picks(t) == /\ Due(t)
            /\ \A s \in Task : 
                 Due(s) => PriorityOf[rows[s].key] <= PriorityOf[rows[t].key]

(* A row as the commit of worker w's transaction leaves it, when the       *)
(* leased task ends as `outcome'.                                          *)
Committed(w, outcome) ==
  [t \in Task |->
     CASE t = leased[w] -> outcome
       [] t # leased[w] /\ t \in locks[w] /\ rows[t].status = "uncommitted" ->
            [rows[t] EXCEPT !.status = "pending"]
       [] t # leased[w] /\ t \in locks[w] /\ rows[t].status = "running" ->
            Recovered(rows[t])
       [] OTHER -> rows[t]]

RolledBack(w) ==
  [t \in Task |-> IF t \in locks[w] /\ rows[t].status = "uncommitted"
                  THEN Absent ELSE rows[t]]

(* The transaction of w is over: its locks are released.                   *)
Release(w, next) ==
  /\ phase' = [phase EXCEPT ![w] = next]
  /\ leased' = [leased EXCEPT ![w] = NoTask]
  /\ elapsed' = [elapsed EXCEPT ![w] = 0]
  /\ locks' = [locks EXCEPT ![w] = {}]
  /\ want' = [want EXCEPT ![w] = NoKey]

Init ==
  /\ rows = [t \in Task |-> Absent]
  /\ phase = [w \in Worker |-> "idle"]
  /\ leased = [w \in Worker |-> NoTask]
  /\ elapsed = [w \in Worker |-> 0]
  /\ locks = [w \in Worker |-> {}]
  /\ want = [w \in Worker |-> NoKey]
  /\ closed = {}
  /\ attempts = [t \in Task |-> 0]
  /\ crashes = 0
  /\ resets = 0

-----------------------------------------------------------------------------
(* A scheduler job or the command line enqueues key k and commits.  When k *)
(* is active the existing row is returned and nothing changes; while an    *)
(* open transaction holds k the enqueuer waits.                            *)
Enqueue(t, k, delay) ==
  /\ rows[t].status = "absent"
  /\ ActiveRows(k) = {}
  /\ \A w \in Worker : \A s \in locks[w] : rows[s].key # k
  /\ rows' = [rows EXCEPT ![t] = NewRow(k, "pending", delay)]
  /\ UNCHANGED <<phase, leased, elapsed, locks, want, closed, attempts,
                 crashes, resets>>

(* The component of a waiting task reaches its deadline, is completed by   *)
(* another consumer of the same scan, or is finalised as missed.           *)
CloseComponent(t) ==
  /\ rows[t].status \in {"pending", "failed"}
  /\ rows[t].key \in LinkedKey
  /\ LockedBy(t) = {}
  /\ t \notin closed
  /\ closed' = closed \cup {t}
  /\ UNCHANGED <<rows, phase, leased, elapsed, locks, want, attempts,
                 crashes, resets>>

(* Mutant of Lease: the chosen row is not locked.                          *)
LeaseUnlocked(w, t) ==
  /\ phase[w] = "idle"
  /\ Picks(t)
  /\ t \notin closed
  /\ rows[t].key \in HandledKey
  /\ phase' = [phase EXCEPT ![w] = "collecting"]
  /\ leased' = [leased EXCEPT ![w] = t]
  /\ UNCHANGED <<rows, elapsed, locks, want, closed, attempts, crashes, resets>>

(* run_once up to the call of the collector.                               *)
Lease(w, t) ==
  /\ phase[w] = "idle"
  /\ Picks(t)
  /\ t \notin closed
  /\ rows[t].key \in HandledKey
  /\ phase' = [phase EXCEPT ![w] = "collecting"]
  /\ leased' = [leased EXCEPT ![w] = t]
  /\ locks' = [locks EXCEPT ![w] = Expired \cup {t}]
  /\ UNCHANGED <<rows, elapsed, want, closed, attempts, crashes, resets>>

(* run_once on a task whose kind has no collector: failed at once, with a  *)
(* coverage row, whatever retries are left.                                *)
FailUnhandled(w, t) ==
  /\ phase[w] = "idle"
  /\ Picks(t)
  /\ t \notin closed
  /\ rows[t].key \notin HandledKey
  /\ rows' = [s \in Task |->
                IF s = t THEN With(rows[t], "failed", 0, rows[t].retries)
                ELSE View(s)]
  /\ attempts' = [attempts EXCEPT ![t] = @ + 1]
  /\ closed' = IF rows[t].key \in LinkedKey THEN closed \cup {t} ELSE closed
  /\ UNCHANGED <<phase, leased, elapsed, locks, want, crashes, resets>>

(* mark_task_started raises on a component that cannot be started, outside *)
(* the try of run_once: the transaction is rolled back and the exception   *)
(* ends the worker's process.                                              *)
RejectStart(w, t) ==
  /\ phase[w] = "idle"
  /\ Picks(t)
  /\ t \in closed
  /\ phase' = [phase EXCEPT ![w] = "down"]
  /\ UNCHANGED <<rows, leased, elapsed, locks, want, closed, attempts,
                 crashes, resets>>

-----------------------------------------------------------------------------
(* The collector enqueues key k within the worker's transaction, at its    *)
(* first call, or again once the transaction it waits for has ended.       *)
Enqueuing(w, k) ==
  \/ phase[w] = "collecting" /\ k \in Key
  \/ phase[w] \in {"inserting", "reselecting"} /\ want[w] = k

Resume(w) == /\ phase' = [phase EXCEPT ![w] = "collecting"]
             /\ want' = [want EXCEPT ![w] = NoKey]

(* An active row is found and locked until the end of the transaction; the *)
(* row may be the very task that w is running.                             *)
Absorb(w, k, t) ==
  /\ Enqueuing(w, k)
  /\ t \in VisibleRows(w, k)
  /\ LockedBy(t) \subseteq {w}
  /\ phase[w] = "collecting" => t \notin locks[w]
  /\ phase[w] = "inserting" => ~ChangedElsewhere(w, k)
  /\ locks' = [locks EXCEPT ![w] = @ \cup {t}]
  /\ Resume(w)
  /\ UNCHANGED <<rows, leased, elapsed, closed, attempts, crashes, resets>>

(* No active row: the savepoint inserts one.                               *)
Insert(w, k, t, delay) ==
  /\ Enqueuing(w, k)
  /\ phase[w] # "reselecting"
  /\ rows[t].status = "absent"
  /\ VisibleRows(w, k) = {}
  /\ ~HeldElsewhere(w, k)
  /\ rows' = [rows EXCEPT ![t] = NewRow(k, "uncommitted", delay)]
  /\ locks' = [locks EXCEPT ![w] = @ \cup {t}]
  /\ Resume(w)
  /\ UNCHANGED <<leased, elapsed, closed, attempts, crashes, resets>>

(* SKIP LOCKED hides a row that another transaction holds, and the insert  *)
(* then waits for that transaction in the unique index.                    *)
WaitForIndex(w, k) ==
  /\ phase[w] = "collecting"
  /\ \A t \in VisibleRows(w, k) : LockedBy(t) # {} /\ w \notin LockedBy(t)
  /\ ChangedElsewhere(w, k)
  /\ phase' = [phase EXCEPT ![w] = "inserting"]
  /\ want' = [want EXCEPT ![w] = k]
  /\ UNCHANGED <<rows, leased, elapsed, locks, closed, attempts, crashes,
                 resets>>

(* The insert hits an active row that is locked but unchanged: the         *)
(* IntegrityError is answered by a second select, which waits for the row. *)
WaitForRow(w, k) ==
  /\ Enqueuing(w, k)
  /\ phase[w] # "reselecting"
  /\ ~ChangedElsewhere(w, k)
  /\ \E t \in ActiveRows(k) : LockedBy(t) # {} /\ w \notin LockedBy(t)
  /\ phase' = [phase EXCEPT ![w] = "reselecting"]
  /\ want' = [want EXCEPT ![w] = k]
  /\ UNCHANGED <<rows, leased, elapsed, locks, closed, attempts, crashes,
                 resets>>

-----------------------------------------------------------------------------
(* Transactions that wait for each other in a circle: the database aborts  *)
(* the statement of one of them.  An insert is aborted within its          *)
(* savepoint, and the attempt fails as with any exception of the           *)
(* collector; the second select has no savepoint (see Abort).              *)
Deadlocked(w) ==
  \E S \in SUBSET Worker :
    /\ w \in S
    /\ \A v \in S : /\ phase[v] \in {"inserting", "reselecting"}
                    /\ \E u \in S \ {v} : \E t \in locks[u] :
                         rows[t].key = want[v]

(* Mutant of ConflictVanished: the select is repeated until a row turns up.*)
ConflictIgnored(w) == FALSE

(* The second select finds nothing, because the row it waited for is no    *)
(* longer active: enqueue re-raises the IntegrityError.                    *)
ConflictVanished(w) ==
  /\ phase[w] = "reselecting"
  /\ VisibleRows(w, want[w]) = {}
  /\ ~HeldElsewhere(w, want[w])

(* The bound on the table, met by an insert that had to wait: it fails.    *)
TableFull(w) ==
  /\ phase[w] = "inserting"
  /\ VisibleRows(w, want[w]) = {}
  /\ ~HeldElsewhere(w, want[w])
  /\ \A t \in Task : rows[t].status # "absent"

Minus(a, b) == IF a > b THEN a - b ELSE 0

(* Mutant of Retried: one retry too many.                                  *)
RetriedOnceMore(w, delay) ==
  LET r == rows[leased[w]] IN
  IF r.retries <= MaxRetries
  THEN With(r, "pending", Minus(delay, elapsed[w]), r.retries + 1)
  ELSE With(r, "failed", r.wait, r.retries + 1)

(* The except branch: one more retry, not before the start of this attempt *)
(* plus the delay, or failed once max_retries is used up.                  *)
Retried(w, delay) ==
  LET r == rows[leased[w]] IN
  IF r.retries < MaxRetries
  THEN With(r, "pending", Minus(delay, elapsed[w]), r.retries + 1)
  ELSE With(r, "failed", r.wait, r.retries + 1)

(* The collector returned: everything is committed at once.                *)
Succeed(w) ==
  /\ phase[w] = "collecting"
  /\ rows' = LET r == rows[leased[w]] IN
             Committed(w, With(r, "succeeded", r.wait, r.retries))
  /\ attempts' = [attempts EXCEPT ![leased[w]] = @ + 1]
  /\ Release(w, "idle")
  /\ UNCHANGED <<closed, crashes, resets>>

(* The collector raised.  Its partial progress is committed together with  *)
(* the failed coverage row; a terminal failure also fails the component.   *)
Raise(w, delay) ==
  /\ \/ phase[w] = "collecting"
     \/ phase[w] = "inserting" /\ Deadlocked(w)
     \/ ConflictVanished(w)
     \/ TableFull(w)
  /\ rows' = Committed(w, Retried(w, delay))
  /\ attempts' = [attempts EXCEPT ![leased[w]] = @ + 1]
  /\ closed' = IF /\ Retried(w, delay).status = "failed"
                  /\ rows[leased[w]].key \in LinkedKey
               THEN closed \cup {leased[w]} ELSE closed
  /\ Release(w, "idle")
  /\ UNCHANGED <<crashes, resets>>

(* The process ends with its transaction open, which is rolled back.       *)
Abandon(w) ==
  /\ rows' = RolledBack(w)
  /\ Release(w, "down")
  /\ UNCHANGED <<closed, attempts, resets>>

(* The second select of enqueue is the victim of a deadlock, outside of    *)
(* any savepoint: the transaction cannot be used any more, so the first    *)
(* statement of the except branch of run_once raises and ends run_loop.    *)
Abort(w) ==
  /\ phase[w] = "reselecting"
  /\ Deadlocked(w)
  /\ Abandon(w)
  /\ UNCHANGED crashes

(* The process is killed, or its task is cancelled when the shutdown grace *)
(* period is over.                                                         *)
Crash(w) ==
  /\ phase[w] # "down"
  /\ crashes < MaxCrashes
  /\ crashes' = crashes + 1
  /\ Abandon(w)

(* The service manager restarts the process.                               *)
Restart(w) ==
  /\ phase[w] = "down"
  /\ phase' = [phase EXCEPT ![w] = "idle"]
  /\ UNCHANGED <<rows, leased, elapsed, locks, want, closed, attempts,
                 crashes, resets>>

-----------------------------------------------------------------------------
(* `task retry-failed' resets the failed rows its filter selects, in one   *)
(* transaction, which waits while a key of theirs is held by another.      *)
Selected(S) ==
  /\ S # {}
  /\ \A t \in S : rows[t].status = "failed" /\ LockedBy(t) = {}
  /\ \A w \in Worker : \A s \in locks[w] : \A t \in S :
       rows[s].key # rows[t].key

(* Mutant of KeysFree: only the first of two selected rows is looked at.   *)
KeysFreeBefore(S) == \A t \in S : ActiveRows(rows[t].key) = {}

KeysFree(S) ==
  /\ \A t \in S : ActiveRows(rows[t].key) = {}
  /\ \A s, t \in S : rows[s].key = rows[t].key => s = t

(* Mutant of RetryFailed: retry_count is not reset.                        *)
RetryFailedCounted(S) ==
  /\ resets < MaxResets
  /\ Selected(S)
  /\ KeysFree(S)
  /\ rows' = [t \in Task |->
                IF t \in S THEN With(rows[t], "pending", 0, rows[t].retries)
                ELSE rows[t]]
  /\ attempts' = [t \in Task |-> IF t \in S THEN 0 ELSE attempts[t]]
  /\ resets' = resets + 1
  /\ UNCHANGED <<phase, leased, elapsed, locks, want, closed, crashes>>

RetryFailed(S) ==
  /\ resets < MaxResets
  /\ Selected(S)
  /\ KeysFree(S)
  /\ rows' = [t \in Task |->
                IF t \in S THEN With(rows[t], "pending", 0, 0) ELSE rows[t]]
  /\ attempts' = [t \in Task |-> IF t \in S THEN 0 ELSE attempts[t]]
  /\ resets' = resets + 1
  /\ UNCHANGED <<phase, leased, elapsed, locks, want, closed, crashes>>

(* When a key is active again, or twice among the selected rows, the       *)
(* unique index refuses the whole transaction and no row changes.          *)
RefuseRetry(S) ==
  /\ resets < MaxResets
  /\ Selected(S)
  /\ ~KeysFree(S)
  /\ resets' = resets + 1
  /\ UNCHANGED <<rows, phase, leased, elapsed, locks, want, closed, attempts,
                 crashes>>

(* A unit of time passes.                                                  *)
Tick ==
  /\ rows' = [t \in Task |->
                [status |-> rows[t].status, key |-> rows[t].key,
                 wait |-> Minus(rows[t].wait, 1),
                 lease |-> Minus(rows[t].lease, 1),
                 retries |-> rows[t].retries]]
  /\ elapsed' = [w \in Worker |->
                   IF leased[w] # NoTask /\ elapsed[w] < MaxDelay
                   THEN elapsed[w] + 1 ELSE elapsed[w]]
  /\ UNCHANGED <<phase, leased, locks, want, closed, attempts, crashes, resets>>

-----------------------------------------------------------------------------
Collect(w) ==
  \/ \E k \in Key, t \in Task : Absorb(w, k, t)
  \/ \E k \in Key, t \in Task, d \in 0..MaxDelay : Insert(w, k, t, d)
  \/ \E k \in Key : WaitForIndex(w, k) \/ WaitForRow(w, k)

Begin(w) ==
  \E t \in Task : Lease(w, t) \/ FailUnhandled(w, t) \/ RejectStart(w, t)

Finish(w) ==
  Succeed(w) \/ Abort(w) \/ \E d \in 0..MaxDelay : Raise(w, d)

Next ==
  \/ \E t \in Task, k \in Key, d \in 0..MaxDelay : Enqueue(t, k, d)
  \/ \E t \in Task : CloseComponent(t)
  \/ \E w \in Worker :
       Begin(w) \/ Collect(w) \/ Finish(w) \/ Crash(w) \/ Restart(w)
  \/ \E S \in SUBSET Task : RetryFailed(S) \/ RefuseRetry(S)
  \/ Tick

Spec == Init /\ [][Next]_vars

(* A worker process polls, finishes what it runs and is restarted; time    *)
(* passes.  The database serves those that wait for a lock before those    *)
(* that come later, hence the strong fairness of an enqueue that waits.    *)
(* Nobody has to enqueue, crash, retry or close anything.                  *)
Fairness ==
  /\ \A w \in Worker : /\ WF_vars(Begin(w))
                       /\ WF_vars(Collect(w))
                       /\ SF_vars(Collect(w) /\ want[w] # NoKey)
                       /\ WF_vars(Finish(w))
                       /\ WF_vars(Restart(w))
  /\ WF_vars(Tick)

FairSpec == Spec /\ Fairness

-----------------------------------------------------------------------------
TypeOK ==
  /\ rows \in [Task -> Row]
  /\ phase \in [Worker -> Phase]
  /\ leased \in [Worker -> Task \cup {NoTask}]
  /\ elapsed \in [Worker -> 0..MaxDelay]
  /\ locks \in [Worker -> SUBSET Task]
  /\ want \in [Worker -> Key \cup {NoKey}]
  /\ closed \subseteq Task
  /\ attempts \in [Task -> 0..(MaxRetries + 1)]
  /\ crashes \in 0..MaxCrashes
  /\ resets \in 0..MaxResets

(* At most one open transaction holds an idempotency key, whether by       *)
(* running the task, by inserting one or by having found one (lease_next,  *)
(* the two selects of enqueue and its insert).  In particular two workers  *)
(* never run the same task.                                                *)
ExclusiveKeys ==
  \A v, w \in Worker : \A s \in locks[v], t \in locks[w] :
    rows[s].key = rows[t].key => v = w

(* One active task per idempotency key, in what is committed and in what   *)
(* an open transaction is about to commit, across crashes, retries and     *)
(* `task retry-failed'.                                                    *)
UniqueActiveKey ==
  \A s, t \in Task :
    /\ rows[s].status \in Active \cup {"uncommitted"}
    /\ rows[t].status \in Active \cup {"uncommitted"}
    /\ rows[s].key = rows[t].key
    => s = t

(* A row that answered an enqueue stays active until the enqueuing         *)
(* transaction ends: no worker finishes it meanwhile, so the answer does   *)
(* not go stale.  The one exception is the task the transaction runs.      *)
AnswerStaysActive ==
  \A w \in Worker : \A t \in locks[w] \ {leased[w]} :
    rows[t].status \in {"pending", "uncommitted"}

(* The retry budget of run_once: a task is tried once and retried at most  *)
(* MaxRetries times between two resets, whatever crashes, and the retries  *)
(* recorded in its row are the failed coverage rows it has.                *)
RetryBudget ==
  \A t \in Task :
    /\ rows[t].status = "pending" => attempts[t] = rows[t].retries
    /\ rows[t].status = "failed" /\ rows[t].key \in HandledKey =>
         attempts[t] = MaxRetries + 1
    /\ rows[t].status = "succeeded" => attempts[t] = rows[t].retries + 1

(* The lease is never committed: every transaction that sets status        *)
(* running also leaves it, so recover_expired_leases finds no row.         *)
RunningNeverCommitted == \A t \in Task : rows[t].status # "running"

(* Every pending task is settled, however often its attempts fail.         *)
EveryTaskSettles ==
  \A t \in Task :
    rows[t].status = "pending" ~> rows[t].status \in {"succeeded", "failed"}

-----------------------------------------------------------------------------
(* The documented life cycle of a task, as an outside observer sees it: a  *)
(* task is running while a worker's transaction is open on it.             *)
LifeOf(t) ==
  IF \E w \in Worker : leased[w] = t THEN "running"
  ELSE IF rows[t].status = "uncommitted" THEN "absent"
  ELSE rows[t].status

Life == INSTANCE TaskLifecycle WITH
          life <- [t \in Task |-> LifeOf(t)],
          retries <- [t \in Task |-> rows[t].retries]

(* The queue implements the life cycle that COLLECTION.md draws.           *)
LifecycleRefined == Life!Spec
=============================================================================
