--------------------------- MODULE ScheduledJobs ---------------------------
(***************************************************************************)
(* The scheduled_jobs table and the coordinators that run its jobs.        *)
(*                                                                         *)
(* ScheduledJobCoordinator.run_once uses up to three transactions: one     *)
(* that leases a due job and commits, one that loads the row again, runs   *)
(* the handler and moves the job to its next slot, and, when the second    *)
(* raised, one that loads the row once more and postpones the job.  Only   *)
(* the first looks at the lease; the others write what they computed from  *)
(* the row as they loaded it, and only the columns they changed.           *)
(*                                                                         *)
(* Time is counted in whole units up to MaxTime.  A run of a job lasts for *)
(* at most MaxHandle of them, from its effective_now to its last commit.   *)
(***************************************************************************)
EXTENDS Integers, FiniteSets

CONSTANTS
  Job,           \* the job keys of the definitions
  Coordinator,   \* the scheduler processes that share the table
  Deployment,    \* the configurations a process may be started with
  PriorityOf,    \* the priority of each job
  NoJob, NoOwner,
  LeaseSeconds, RetryDelay,
  MaxHandle,     \* the longest run of a job
  MaxTime,       \* bound on the clock
  MaxFailures,   \* bound on the handlers that raise
  MaxCrashes     \* bound on the processes killed

Definition == [interval : Nat \ {0}, enabled : BOOLEAN]

ASSUME JobAssumption ==
  /\ NoJob \notin Job
  /\ NoOwner \notin Coordinator
  /\ Coordinator # {}
  /\ PriorityOf \in [Job -> Nat]
  /\ Deployment \subseteq [Job -> Definition]
  /\ Deployment # {}
ASSUME TimeAssumption ==
  /\ LeaseSeconds \in Nat \ {0}
  /\ RetryDelay \in Nat \ {0}
  /\ MaxHandle \in Nat
  /\ MaxTime \in Nat
  /\ MaxFailures \in Nat
  /\ MaxCrashes \in Nat

VARIABLES
  now,      \* the clock
  jobs,     \* the rows of scheduled_jobs
  phase,    \* what each coordinator is doing
  job,      \* the job it has leased
  at,       \* the effective_now of its run
  loaded,   \* the row as its handling transaction loaded it
  done,     \* the slots of each job whose handling has been committed
  failures, crashes

vars == <<now, jobs, phase, job, at, loaded, done, failures, crashes>>

-----------------------------------------------------------------------------
Row == [next : Nat, owner : Coordinator \cup {NoOwner}, until : Nat,
        interval : Nat \ {0}, enabled : BOOLEAN]

Phase == {"down", "idle", "leased", "handling", "failing"}

Running == {"leased", "handling", "failing"}

RowOf(next, owner, until, interval, enabled) ==
  [next |-> next, owner |-> owner, until |-> until, interval |-> interval,
   enabled |-> enabled]

Free(next, interval, enabled) == RowOf(next, NoOwner, 0, interval, enabled)

NothingLoaded == Free(0, 1, FALSE)

(* Mutant of Expired: a lease that has been taken is never taken over.     *)
ExpiredNever(j) == jobs[j].owner = NoOwner

(* Mutant of Expired: the comparison with the clock is the wrong way round.*)
ExpiredTooEarly(j) == jobs[j].owner = NoOwner \/ jobs[j].until >= now

Expired(j) == jobs[j].owner = NoOwner \/ jobs[j].until <= now

(* What lease_due selects from.                                            *)
Leasable(j) == jobs[j].enabled /\ jobs[j].next <= now /\ Expired(j)

(* Its order: the priority, then the slot that has waited longest.         *)
Precedes(i, j) ==
  \/ PriorityOf[i] > PriorityOf[j]
  \/ PriorityOf[i] = PriorityOf[j] /\ jobs[i].next < jobs[j].next

Picks(j) == Leasable(j) /\ \A i \in Job : Leasable(i) => ~Precedes(i, j)

(* Mutant of NextSlot: the due slot itself is not skipped.                 *)
NextSlotRounded(slot, interval, t) ==
  slot + interval * ((t - slot) \div interval)

(* Mutant of NextSlot: a slot that is due right now counts as future.      *)
NextSlotDueNow(slot, interval, t) ==
  LET next == slot + interval IN
  IF next < t THEN next + interval * ((t - next) \div interval + 1) ELSE next

(* mark_succeeded: the next slot of the schedule after time t.             *)
NextSlot(slot, interval, t) ==
  LET next == slot + interval IN
  IF next <= t THEN next + interval * ((t - next) \div interval + 1) ELSE next

-----------------------------------------------------------------------------
Init ==
  /\ now = 0
  /\ jobs \in {[j \in Job |-> Free(0, d[j].interval, d[j].enabled)] :
                 d \in Deployment}
  /\ phase = [c \in Coordinator |-> "idle"]
  /\ job = [c \in Coordinator |-> NoJob]
  /\ at = [c \in Coordinator |-> 0]
  /\ loaded = [c \in Coordinator |-> NothingLoaded]
  /\ done = [j \in Job |-> {}]
  /\ failures = 0
  /\ crashes = 0

Become(c, next) == phase' = [phase EXCEPT ![c] = next]

Forget(c) ==
  /\ job' = [job EXCEPT ![c] = NoJob]
  /\ at' = [at EXCEPT ![c] = 0]
  /\ loaded' = [loaded EXCEPT ![c] = NothingLoaded]

(* The first transaction of run_once: lease_due and commit.                *)
Lease(c, j) ==
  /\ phase[c] = "idle"
  /\ Picks(j)
  /\ jobs' = [jobs EXCEPT ![j] =
       RowOf(jobs[j].next, c, now + LeaseSeconds, jobs[j].interval,
             jobs[j].enabled)]
  /\ job' = [job EXCEPT ![c] = j]
  /\ at' = [at EXCEPT ![c] = now]
  /\ Become(c, "leased")
  /\ UNCHANGED <<now, loaded, done, failures, crashes>>

(* The second transaction loads the row and calls the handler.             *)
Load(c) ==
  /\ phase[c] = "leased"
  /\ loaded' = [loaded EXCEPT ![c] = jobs[job[c]]]
  /\ Become(c, "handling")
  /\ UNCHANGED <<now, jobs, job, at, done, failures, crashes>>

(* The handler returned: its writes and mark_succeeded are committed.  The *)
(* slot is the one that was loaded; an attribute that already has its new  *)
(* value in the loaded row is not written.                                 *)
Succeed(c) ==
  /\ phase[c] = "handling"
  /\ LET j == job[c]
         row == loaded[c]
         taken == row.owner # NoOwner
     IN /\ jobs' = [jobs EXCEPT ![j] =
             RowOf(NextSlot(row.next, row.interval, at[c]),
                   IF taken THEN NoOwner ELSE jobs[j].owner,
                   IF taken THEN 0 ELSE jobs[j].until,
                   jobs[j].interval, jobs[j].enabled)]
        /\ done' = [done EXCEPT ![j] = @ \cup {row.next}]
  /\ Forget(c)
  /\ Become(c, "idle")
  /\ UNCHANGED <<now, failures, crashes>>

(* The handler raised, or no handler is registered for the kind of the     *)
(* job: the second transaction is rolled back.                             *)
Raise(c) ==
  /\ phase[c] \in {"leased", "handling"}
  /\ failures < MaxFailures
  /\ failures' = failures + 1
  /\ Become(c, "failing")
  /\ UNCHANGED <<now, jobs, job, at, loaded, done, crashes>>

(* The third transaction: mark_failed leaves the grid of slots, the next   *)
(* run is due RetryDelay after the start of this one.                      *)
MarkFailed(c) ==
  /\ phase[c] = "failing"
  /\ LET j == job[c] IN
     jobs' = [jobs EXCEPT ![j] =
       Free(at[c] + RetryDelay, jobs[j].interval, jobs[j].enabled)]
  /\ Forget(c)
  /\ Become(c, "idle")
  /\ UNCHANGED <<now, done, failures, crashes>>

(* The process is killed, or the third transaction fails too and the       *)
(* exception ends run_loop.  A lease that was committed stays.             *)
Crash(c) ==
  /\ phase[c] # "down"
  /\ crashes < MaxCrashes
  /\ crashes' = crashes + 1
  /\ Forget(c)
  /\ Become(c, "down")
  /\ UNCHANGED <<now, jobs, done, failures>>

(* The process is started again, with the same or a new configuration:     *)
(* bootstrap updates every definition and leaves slots and leases alone.   *)
Bootstrap(c, d) ==
  /\ phase[c] = "down"
  /\ jobs' = [j \in Job |->
       RowOf(jobs[j].next, jobs[j].owner, jobs[j].until, d[j].interval,
             d[j].enabled)]
  /\ Become(c, "idle")
  /\ UNCHANGED <<now, job, at, loaded, done, failures, crashes>>

(* A unit of time passes; no run outlasts MaxHandle.                       *)
Tick ==
  /\ now < MaxTime
  /\ \A c \in Coordinator : phase[c] \in Running => now < at[c] + MaxHandle
  /\ now' = now + 1
  /\ UNCHANGED <<jobs, phase, job, at, loaded, done, failures, crashes>>

Run(c) ==
  \/ \E j \in Job : Lease(c, j)
  \/ Load(c) \/ Succeed(c) \/ Raise(c) \/ MarkFailed(c)

Next ==
  \/ \E c \in Coordinator :
       Run(c) \/ Crash(c) \/ \E d \in Deployment : Bootstrap(c, d)
  \/ Tick

Spec == Init /\ [][Next]_vars

(* An idle coordinator polls once per idle_sleep_seconds, which is less    *)
(* than a unit, and the service manager restarts a process at once: time   *)
(* does not pass while either has something to do.                         *)
Prompt ==
  /\ \A c \in Coordinator : phase[c] # "down"
  /\ (\E c \in Coordinator : phase[c] = "idle") => \A j \in Job : ~Leasable(j)

-----------------------------------------------------------------------------
TypeOK ==
  /\ now \in 0..MaxTime
  /\ jobs \in [Job -> Row]
  /\ phase \in [Coordinator -> Phase]
  /\ job \in [Coordinator -> Job \cup {NoJob}]
  /\ at \in [Coordinator -> 0..MaxTime]
  /\ loaded \in [Coordinator -> Row]
  /\ done \in [Job -> SUBSET Nat]
  /\ failures \in 0..MaxFailures
  /\ crashes \in 0..MaxCrashes
  /\ \A c \in Coordinator : phase[c] \in Running <=> job[c] # NoJob

(* The lease of lease_due controls who handles a job: two coordinators     *)
(* never run the same job, also when one is killed and its lease taken     *)
(* over, as long as no run outlasts the lease.                             *)
OneHandler ==
  \A c, d \in Coordinator :
    phase[c] \in Running /\ phase[d] \in Running /\ job[c] = job[d] => c = d

(* A slot is handled to its end at most once: mark_succeeded moves the job *)
(* past every slot it has committed, and a handler never works on a slot   *)
(* that has been committed already.                                        *)
SlotOnce ==
  /\ \A j \in Job : \A s \in done[j] : s < jobs[j].next
  /\ \A c \in Coordinator :
       phase[c] = "handling" => loaded[c].next \notin done[job[c]]

(* A success leads to the first slot after the start of the run: no slot   *)
(* that is still to come is skipped, and no missed one is caught up with.  *)
SkipsOnlyMissedSlots ==
  [][\A c \in Coordinator :
       phase[c] = "handling" /\ phase'[c] = "idle" =>
         /\ jobs'[job[c]].next > at[c]
         /\ jobs'[job[c]].next <= at[c] + loaded[c].interval
         /\ (jobs'[job[c]].next - loaded[c].next) % loaded[c].interval = 0
    ]_vars

(* The jobs that outrank every other one, in a scheduler that never        *)
(* switches them off.                                                      *)
Foremost ==
  {j \in Job : /\ \A d \in Deployment : d[j].enabled
               /\ \A i \in Job \ {j} : PriorityOf[i] < PriorityOf[j]}

(* With coordinators that poll and are restarted promptly, a job of the    *)
(* highest priority waits, once it is due and its last lease is over, for  *)
(* at most one run of another job, also after a kill in the middle of a    *)
(* run.                                                                    *)
Punctual ==
  \A j \in Foremost :
    (jobs[j].owner # NoOwner => jobs[j].until <= now)
    => \/ now <= jobs[j].next + MaxHandle
       \/ jobs[j].owner # NoOwner /\ now <= jobs[j].until + MaxHandle
=============================================================================
