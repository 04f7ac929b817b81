----------------------- MODULE ScheduledJobsProofs -----------------------
(***************************************************************************)
(* Theorems about ScheduledJobs, for any number of jobs and coordinators.  *)
(*                                                                         *)
(* Exclusion rests on the clock: while a coordinator runs a job, the row   *)
(* names it as owner and the lease, taken when the run began, ends after   *)
(* the run must have ended (Owned).  Hence nobody else leases the job, the *)
(* row that the handler loaded is still the row of the table (Fresh), and  *)
(* the slot it commits lies past every slot committed before (Past).       *)
(* That a foremost job is served in time rests on one coordinator: once    *)
(* the job can be leased, there is one that is free, or that will be soon, *)
(* since its run began before (InTurn).                                    *)
(***************************************************************************)
EXTENDS ScheduledJobsWatched, TLAPS

(* The condition under which a lease excludes other handlers.              *)
LeaseCoversRun == MaxHandle < LeaseSeconds

Busy(c) == phase[c] \in Running

Owned ==
  \A c \in Coordinator : Busy(c) =>
    /\ at[c] <= now
    /\ now <= at[c] + MaxHandle
    /\ jobs[job[c]].owner = c
    /\ jobs[job[c]].until = at[c] + LeaseSeconds
    /\ jobs[job[c]].next <= at[c]

Fresh ==
  \A c \in Coordinator : phase[c] = "handling" =>
    /\ loaded[c].next = jobs[job[c]].next
    /\ loaded[c].owner = c

Past == \A j \in Job : \A s \in done[j] : s < jobs[j].next

Safe == Owned /\ Fresh /\ Past

(* At time t job j is not yet waiting to be leased.                        *)
Reached(j, t) ==
  \/ t <= jobs[j].next
  \/ jobs[j].owner # NoOwner /\ t <= jobs[j].until

InTurn(j) ==
  ~Reached(j, now) =>
    /\ Reached(j, now - MaxHandle)
    /\ \E c \in Coordinator : Busy(c) => Reached(j, at[c])

Served ==
  \A j \in Foremost : jobs[j].enabled /\ (prompt => InTurn(j))

-----------------------------------------------------------------------------
(* The row constructors build rows.                                        *)
LEMMA RowIsRow ==
  ASSUME NEW n \in Nat, NEW o \in Coordinator \cup {NoOwner}, NEW u \in Nat,
         NEW i \in Nat \ {0}, NEW e \in BOOLEAN
  PROVE  /\ RowOf(n, o, u, i, e) \in Row
         /\ RowOf(n, o, u, i, e).next = n
         /\ RowOf(n, o, u, i, e).owner = o
         /\ RowOf(n, o, u, i, e).until = u
         /\ RowOf(n, o, u, i, e).interval = i
         /\ RowOf(n, o, u, i, e).enabled = e
  BY DEF RowOf, Row

LEMMA FreeIsRow ==
  ASSUME NEW n \in Nat, NEW i \in Nat \ {0}, NEW e \in BOOLEAN
  PROVE  /\ Free(n, i, e) \in Row
         /\ Free(n, i, e).next = n
         /\ Free(n, i, e).owner = NoOwner
  BY DEF Free, RowOf, Row

LEMMA NothingIsRow == NothingLoaded \in Row
<1>1. 0 \in Nat /\ 1 \in Nat \ {0} /\ FALSE \in BOOLEAN
  OBVIOUS
<1> QED BY <1>1, FreeIsRow, Zenon DEF NothingLoaded

(* The fields of a row have their types.                                   *)
LEMMA RowFields ==
  ASSUME NEW r \in Row
  PROVE  /\ r.next \in Nat
         /\ r.owner \in Coordinator \cup {NoOwner}
         /\ r.until \in Nat
         /\ r.interval \in Nat \ {0}
         /\ r.enabled \in BOOLEAN
  BY DEF Row

(* A positive multiple of a positive number is at least that number.       *)
LEMMA PositiveMultiple ==
  ASSUME NEW i \in Nat \ {0}, NEW k \in Nat
  PROVE  i * (k + 1) \in Nat /\ i * (k + 1) >= i
  OBVIOUS

(* mark_succeeded moves a job to a later slot.                             *)
LEMMA NextSlotIsLater ==
  ASSUME NEW slot \in Nat, NEW i \in Nat \ {0}, NEW t \in Nat
  PROVE  NextSlot(slot, i, t) \in Nat /\ NextSlot(slot, i, t) > slot
<1>1. CASE slot + i > t
  BY <1>1 DEF NextSlot
<1>2. CASE slot + i <= t
  <2> DEFINE q == (t - (slot + i)) \div i
  <2>1. q \in Nat
    <3>1. t - (slot + i) \in Nat
      BY <1>2
    <3> QED BY <3>1
  <2> HIDE DEF q
  <2>2. i * (q + 1) \in Nat /\ i * (q + 1) >= i
    BY <2>1, PositiveMultiple
  <2>3. NextSlot(slot, i, t) = slot + i + i * (q + 1)
    BY <1>2 DEF NextSlot, q
  <2> DEFINE m == i * (q + 1)
  <2>4. m \in Nat /\ m >= i /\ NextSlot(slot, i, t) = slot + i + m
    BY <2>2, <2>3
  <2> HIDE DEF m
  <2> QED BY <2>4
<1> QED BY <1>1, <1>2

-----------------------------------------------------------------------------
(* The initial states are typed and safe.                                  *)
LEMMA InitSafe == Init => TypeOK /\ Safe
<1> SUFFICES ASSUME Init PROVE TypeOK /\ Safe
  OBVIOUS
<1> PICK d \in Deployment :
      jobs = [j \in Job |-> Free(0, d[j].interval, d[j].enabled)]
  BY DEF Init
<1>1. \A j \in Job : jobs[j] \in Row
  <2> TAKE j \in Job
  <2>1. d[j].interval \in Nat \ {0} /\ d[j].enabled \in BOOLEAN
    BY JobAssumption DEF JobAssumption, Definition
  <2> QED BY <2>1, FreeIsRow
<1>2. NothingLoaded \in Row
  BY NothingIsRow
<1>3. TypeOK
  BY <1>1, <1>2, JobAssumption, TimeAssumption
     DEF Init, TypeOK, Phase, Running, JobAssumption, TimeAssumption
<1>4. Safe
  BY DEF Init, Safe, Owned, Fresh, Past, Busy, Running
<1> QED BY <1>3, <1>4

(* A coordinator that is done with a job keeps nothing of it.              *)
LEMMA ForgetTyped ==
  ASSUME TypeOK, NEW c \in Coordinator, NEW s \in {"idle", "down"},
         Forget(c), Become(c, s)
  PROVE  /\ phase' \in [Coordinator -> Phase]
         /\ job' \in [Coordinator -> Job \cup {NoJob}]
         /\ at' \in [Coordinator -> 0..MaxTime]
         /\ loaded' \in [Coordinator -> Row]
         /\ \A d \in Coordinator : phase'[d] \in Running <=> job'[d] # NoJob
<1> USE DEF TypeOK, Forget, Become
<1>1. phase' \in [Coordinator -> Phase]
  BY DEF Phase
<1>2. job' \in [Coordinator -> Job \cup {NoJob}]
  OBVIOUS
<1>3. at' \in [Coordinator -> 0..MaxTime]
  BY TimeAssumption DEF TimeAssumption
<1>4. loaded' \in [Coordinator -> Row]
  BY NothingIsRow
<1>5. \A d \in Coordinator : phase'[d] \in Running <=> job'[d] # NoJob
  BY DEF Running
<1> QED BY <1>1, <1>2, <1>3, <1>4, <1>5

(* Every step keeps the types.                                             *)
LEMMA NextTyped == TypeOK /\ [Next]_vars => TypeOK'
<1> SUFFICES ASSUME TypeOK, [Next]_vars PROVE TypeOK'
  OBVIOUS
<1> USE DEF TypeOK
<1>1. ASSUME NEW c \in Coordinator, NEW j \in Job, Lease(c, j) PROVE TypeOK'
  <2>1. RowOf(jobs[j].next, c, now + LeaseSeconds, jobs[j].interval,
              jobs[j].enabled) \in Row
    <3>1. /\ jobs[j].next \in Nat
          /\ jobs[j].interval \in Nat \ {0}
          /\ jobs[j].enabled \in BOOLEAN
      BY RowFields
    <3>2. now + LeaseSeconds \in Nat /\ c \in Coordinator \cup {NoOwner}
      BY TimeAssumption DEF TimeAssumption
    <3> QED BY <3>1, <3>2, RowIsRow, Zenon
  <2> QED BY <1>1, <2>1, JobAssumption
          DEF Lease, Become, Phase, Running, JobAssumption
<1>2. ASSUME NEW c \in Coordinator, Load(c) PROVE TypeOK'
  <2>1. job[c] \in Job
    BY <1>2 DEF Load, Running
  <2> QED BY <1>2, <2>1 DEF Load, Become, Phase, Running
<1>3. ASSUME NEW c \in Coordinator, Succeed(c) PROVE TypeOK'
  <2> DEFINE row == loaded[c]
             old == jobs[job[c]]
             taken == row.owner # NoOwner
             new == RowOf(NextSlot(row.next, row.interval, at[c]),
                          IF taken THEN NoOwner ELSE old.owner,
                          IF taken THEN 0 ELSE old.until,
                          old.interval, old.enabled)
  <2>1. job[c] \in Job
    BY <1>3 DEF Succeed, Running
  <2>2. row \in Row /\ old \in Row
    BY <2>1
  <2>3. row.next \in Nat /\ row.interval \in Nat \ {0}
    BY <2>2, RowFields
  <2>4. new \in Row
    <3>1. NextSlot(row.next, row.interval, at[c]) \in Nat
      <4>1. at[c] \in Nat
        BY TimeAssumption DEF TimeAssumption
      <4> HIDE DEF row
      <4> QED BY <2>3, <4>1, NextSlotIsLater
    <3>2. /\ old.owner \in Coordinator \cup {NoOwner}
          /\ old.until \in Nat
          /\ old.interval \in Nat \ {0}
          /\ old.enabled \in BOOLEAN
      BY <2>2, RowFields
    <3>3. /\ (IF taken THEN NoOwner ELSE old.owner) \in Coordinator \cup {NoOwner}
          /\ (IF taken THEN 0 ELSE old.until) \in Nat
      BY <3>2
    <3> QED BY <3>1, <3>2, <3>3, RowIsRow, Zenon
  <2>5. /\ jobs' = [jobs EXCEPT ![job[c]] = new]
        /\ done' = [done EXCEPT ![job[c]] = @ \cup {row.next}]
    BY <1>3, Zenon DEF Succeed
  <2>6. /\ Forget(c) /\ Become(c, "idle")
        /\ UNCHANGED <<now, failures, crashes>>
    BY <1>3 DEF Succeed
  <2> HIDE DEF row, old, new
  <2>7. jobs' \in [Job -> Row] /\ done' \in [Job -> SUBSET Nat]
    BY <2>1, <2>3, <2>4, <2>5
  <2> QED BY <2>6, <2>7, ForgetTyped
<1>4. ASSUME NEW c \in Coordinator, Raise(c) PROVE TypeOK'
  BY <1>4, TimeAssumption DEF Raise, Become, Phase, Running, TimeAssumption
<1>5. ASSUME NEW c \in Coordinator, MarkFailed(c) PROVE TypeOK'
  <2>1. job[c] \in Job
    BY <1>5 DEF MarkFailed, Running
  <2> DEFINE n == at[c] + RetryDelay
             i == jobs[job[c]].interval
             e == jobs[job[c]].enabled
  <2>2. Free(n, i, e) \in Row
    <3>1. i \in Nat \ {0} /\ e \in BOOLEAN
      BY <2>1, RowFields
    <3>2. n \in Nat
      BY TimeAssumption DEF TimeAssumption
    <3> HIDE DEF n, i, e
    <3> QED BY <3>1, <3>2, FreeIsRow, Zenon
  <2>3. /\ jobs' = [jobs EXCEPT ![job[c]] = Free(n, i, e)]
        /\ Forget(c) /\ Become(c, "idle")
        /\ UNCHANGED <<now, done, failures, crashes>>
    BY <1>5, Zenon DEF MarkFailed, n, i, e
  <2> HIDE DEF n, i, e
  <2>4. jobs' \in [Job -> Row]
    BY <2>1, <2>2, <2>3
  <2> QED BY <2>3, <2>4, ForgetTyped
<1>6. ASSUME NEW c \in Coordinator, Crash(c) PROVE TypeOK'
  BY <1>6, ForgetTyped, TimeAssumption DEF Crash, TimeAssumption
<1>7. ASSUME NEW c \in Coordinator, NEW d \in Deployment, Bootstrap(c, d)
      PROVE TypeOK'
  <2>1. \A j \in Job :
          RowOf(jobs[j].next, jobs[j].owner, jobs[j].until, d[j].interval,
                d[j].enabled) \in Row
    <3> TAKE j \in Job
    <3>1. d[j].interval \in Nat \ {0} /\ d[j].enabled \in BOOLEAN
      BY JobAssumption DEF JobAssumption, Definition
    <3>2. /\ jobs[j].next \in Nat
          /\ jobs[j].owner \in Coordinator \cup {NoOwner}
          /\ jobs[j].until \in Nat
      BY RowFields
    <3> QED BY <3>1, <3>2, RowIsRow
  <2> QED BY <1>7, <2>1 DEF Bootstrap, Become, Phase, Running
<1>8. CASE Tick
  BY <1>8, TimeAssumption DEF Tick, TimeAssumption
<1>9. CASE UNCHANGED vars
  BY <1>9 DEF vars
<1> QED BY <1>1, <1>2, <1>3, <1>4, <1>5, <1>6, <1>7, <1>8, <1>9
        DEF Next, Run

(* The types hold for ever.                                                *)
THEOREM TypesTheorem == Spec => []TypeOK
<1>1. Init => TypeOK
  BY InitSafe
<1> QED BY <1>1, NextTyped, PTL DEF Spec

-----------------------------------------------------------------------------
(* While a run goes on its lease has not expired, so two runs are runs of  *)
(* different jobs.                                                         *)
LEMMA RunsDiffer ==
  ASSUME LeaseCoversRun, TypeOK, Owned,
         NEW c \in Coordinator, NEW d \in Coordinator,
         Busy(c), Busy(d), job[c] = job[d]
  PROVE  c = d
  BY DEF Owned

LEMMA LeaseHolds ==
  ASSUME LeaseCoversRun, TypeOK, Owned, NEW c \in Coordinator, Busy(c)
  PROVE  ~Expired(job[c])
<1>1. /\ now <= at[c] + MaxHandle
      /\ jobs[job[c]].owner = c
      /\ jobs[job[c]].until = at[c] + LeaseSeconds
  BY DEF Owned
<1>2. now \in Nat /\ at[c] \in Nat
  BY TimeAssumption DEF TypeOK, TimeAssumption
<1>3. c # NoOwner
  BY JobAssumption DEF JobAssumption
<1> QED BY <1>1, <1>2, <1>3, TimeAssumption
        DEF Expired, LeaseCoversRun, TimeAssumption

(* The runs of other coordinators are untouched when c ends its run and    *)
(* rewrites nothing but the row of its own job.                            *)
LEMMA OthersKeep ==
  ASSUME LeaseCoversRun, TypeOK, Owned, Fresh, NEW c \in Coordinator, Busy(c),
         Forget(c), NEW s \in {"idle", "down"}, Become(c, s), UNCHANGED now,
         NEW r, \/ jobs' = [jobs EXCEPT ![job[c]] = r]
                \/ jobs' = jobs
  PROVE  Owned' /\ Fresh'
<1>1. ASSUME NEW d \in Coordinator, phase'[d] \in Running
      PROVE  /\ Busy(d) /\ phase'[d] = phase[d]
             /\ job'[d] = job[d] /\ at'[d] = at[d] /\ loaded'[d] = loaded[d]
             /\ jobs'[job[d]] = jobs[job[d]]
  <2>1. d # c
    BY <1>1 DEF Become, TypeOK, Running
  <2>2. /\ Busy(d) /\ phase'[d] = phase[d]
        /\ job'[d] = job[d] /\ at'[d] = at[d] /\ loaded'[d] = loaded[d]
    BY <1>1, <2>1 DEF Become, Forget, TypeOK, Busy
  <2>3. job[d] # job[c]
    BY <2>1, <2>2, RunsDiffer
  <2>4. job[d] \in Job /\ job[c] \in Job
    BY <2>2 DEF TypeOK, Busy
  <2> QED BY <2>2, <2>3, <2>4 DEF TypeOK
<1>2. Owned'
  <2> SUFFICES ASSUME NEW d \in Coordinator, phase'[d] \in Running
               PROVE  /\ at'[d] <= now'
                      /\ now' <= at'[d] + MaxHandle
                      /\ jobs'[job'[d]].owner = d
                      /\ jobs'[job'[d]].until = at'[d] + LeaseSeconds
                      /\ jobs'[job'[d]].next <= at'[d]
    BY DEF Owned, Busy
  <2> QED BY <1>1 DEF Owned
<1>3. Fresh'
  <2> SUFFICES ASSUME NEW d \in Coordinator, phase'[d] = "handling"
               PROVE  /\ loaded'[d].next = jobs'[job'[d]].next
                      /\ loaded'[d].owner = d
    BY DEF Fresh
  <2>1. phase'[d] \in Running
    BY DEF Running
  <2> QED BY <1>1, <2>1 DEF Fresh
<1> QED BY <1>2, <1>3

(* Every step keeps the ownership, the loaded rows and the slots in order. *)
LEMMA NextSafe ==
  LeaseCoversRun /\ TypeOK /\ TypeOK' /\ Safe /\ [Next]_vars => Safe'
<1> SUFFICES ASSUME LeaseCoversRun, TypeOK, TypeOK', Safe, [Next]_vars
             PROVE  Safe'
  OBVIOUS
<1> USE DEF Safe
<1>1. ASSUME NEW c \in Coordinator, NEW j \in Job, Lease(c, j) PROVE Safe'
  <2> DEFINE r == RowOf(jobs[j].next, c, now + LeaseSeconds, jobs[j].interval,
                        jobs[j].enabled)
  <2>1. r.next = jobs[j].next /\ r.owner = c /\ r.until = now + LeaseSeconds
    BY DEF RowOf
  <2>2. jobs' = [jobs EXCEPT ![j] = r]
    BY <1>1 DEF Lease
  <2> HIDE DEF r
  <2>3. jobs'[j] = r /\ \A i \in Job \ {j} : jobs'[i] = jobs[i]
    BY <2>2 DEF TypeOK
  <2>4. Expired(j) /\ jobs[j].next <= now
    BY <1>1 DEF Lease, Picks, Leasable
  <2>5. \A d \in Coordinator : Busy(d) => job[d] \in Job \ {j}
    BY <2>4, LeaseHolds DEF TypeOK, Busy
  <2>6. now \in Nat
    BY TimeAssumption DEF TypeOK, TimeAssumption
  <2>7. /\ phase'[c] = "leased" /\ job'[c] = j /\ at'[c] = now
        /\ \A d \in Coordinator \ {c} :
             phase'[d] = phase[d] /\ job'[d] = job[d] /\ at'[d] = at[d]
        /\ UNCHANGED <<now, loaded, done>>
    BY <1>1 DEF Lease, Become, TypeOK
  <2>8. Owned'
    <3> SUFFICES ASSUME NEW d \in Coordinator, phase'[d] \in Running
                 PROVE  /\ at'[d] <= now'
                        /\ now' <= at'[d] + MaxHandle
                        /\ jobs'[job'[d]].owner = d
                        /\ jobs'[job'[d]].until = at'[d] + LeaseSeconds
                        /\ jobs'[job'[d]].next <= at'[d]
      BY DEF Owned, Busy
    <3>1. CASE d = c
      BY <3>1, <2>1, <2>3, <2>4, <2>6, <2>7, TimeAssumption DEF TimeAssumption
    <3>2. CASE d # c
      <4>1. Busy(d) /\ job'[d] \in Job \ {j} /\ job'[d] = job[d]
        BY <3>2, <2>5, <2>7 DEF Busy
      <4> QED BY <3>2, <4>1, <2>3, <2>7 DEF Owned
    <3> QED BY <3>1, <3>2
  <2>9. Fresh'
    <3> SUFFICES ASSUME NEW d \in Coordinator, phase'[d] = "handling"
                 PROVE  /\ loaded'[d].next = jobs'[job'[d]].next
                        /\ loaded'[d].owner = d
      BY DEF Fresh
    <3>1. d # c /\ phase[d] = "handling"
      BY <2>7
    <3>2. job[d] \in Job \ {j}
      BY <3>1, <2>5 DEF Busy, Running
    <3> QED BY <3>1, <3>2, <2>3, <2>7 DEF Fresh
  <2>10. Past'
    BY <2>1, <2>3, <2>7 DEF Past
  <2> QED BY <2>8, <2>9, <2>10
<1>2. ASSUME NEW c \in Coordinator, Load(c) PROVE Safe'
  <2>1. /\ phase[c] = "leased" /\ phase'[c] = "handling"
        /\ loaded'[c] = jobs[job[c]]
        /\ \A d \in Coordinator \ {c} :
             phase'[d] = phase[d] /\ loaded'[d] = loaded[d]
        /\ UNCHANGED <<now, jobs, job, at, done>>
    BY <1>2 DEF Load, Become, TypeOK
  <2>2. \A d \in Coordinator : Busy(d)' => Busy(d)
    BY <2>1 DEF Busy, Running
  <2>3. Owned'
    BY <2>1, <2>2 DEF Owned
  <2>4. jobs[job[c]].owner = c
    BY <2>1 DEF Owned, Busy, Running
  <2>5. Fresh'
    BY <2>1, <2>4 DEF Fresh
  <2>6. Past'
    BY <2>1 DEF Past
  <2> QED BY <2>3, <2>5, <2>6
<1>3. ASSUME NEW c \in Coordinator, Succeed(c) PROVE Safe'
  <2> DEFINE row == loaded[c]
             old == jobs[job[c]]
             taken == row.owner # NoOwner
             next == NextSlot(row.next, row.interval, at[c])
             new == RowOf(next,
                          IF taken THEN NoOwner ELSE old.owner,
                          IF taken THEN 0 ELSE old.until,
                          old.interval, old.enabled)
  <2>1. /\ phase[c] = "handling" /\ Busy(c) /\ job[c] \in Job
        /\ row \in Row /\ row.next = old.next
    BY <1>3 DEF Succeed, Busy, Running, TypeOK, Fresh
  <2>2. /\ jobs' = [jobs EXCEPT ![job[c]] = new]
        /\ done' = [done EXCEPT ![job[c]] = @ \cup {row.next}]
    BY <1>3, Zenon DEF Succeed
  <2>3. /\ Forget(c) /\ Become(c, "idle") /\ UNCHANGED now
    BY <1>3 DEF Succeed
  <2>4. new.next = next
    BY DEF RowOf
  <2>5. row.next \in Nat /\ next \in Nat /\ next > row.next
    <3>1. row.next \in Nat /\ row.interval \in Nat \ {0} /\ at[c] \in Nat
      BY <2>1, RowFields, TimeAssumption DEF TypeOK, TimeAssumption
    <3> HIDE DEF row
    <3> QED BY <3>1, NextSlotIsLater
  <2> HIDE DEF row, next, new
  <2>6. Owned' /\ Fresh'
    BY <2>1, <2>2, <2>3, OthersKeep
  <2>7. Past'
    <3> SUFFICES ASSUME NEW j \in Job, NEW s \in done'[j]
                 PROVE  s < jobs'[j].next
      BY DEF Past
    <3>1. CASE j # job[c]
      BY <3>1, <2>2 DEF Past, TypeOK
    <3>2. CASE j = job[c]
      <4>1. jobs'[j].next = next
        BY <3>2, <2>1, <2>2, <2>4 DEF TypeOK
      <4>2. s \in done[j] \/ s = row.next
        BY <3>2, <2>1, <2>2 DEF TypeOK
      <4>3. s \in Nat /\ s <= row.next
        BY <3>2, <4>2, <2>1, <2>5 DEF Past, TypeOK
      <4> QED BY <4>1, <4>3, <2>5
    <3> QED BY <3>1, <3>2
  <2> QED BY <2>6, <2>7
<1>4. ASSUME NEW c \in Coordinator, Raise(c) PROVE Safe'
  <2>1. /\ phase[c] \in {"leased", "handling"} /\ phase'[c] = "failing"
        /\ \A d \in Coordinator \ {c} : phase'[d] = phase[d]
        /\ UNCHANGED <<now, jobs, job, at, loaded, done>>
    BY <1>4 DEF Raise, Become, TypeOK
  <2>2. \A d \in Coordinator : Busy(d)' => Busy(d)
    BY <2>1 DEF Busy, Running
  <2>3. Owned'
    BY <2>1, <2>2 DEF Owned
  <2>4. Fresh' /\ Past'
    BY <2>1 DEF Fresh, Past
  <2> QED BY <2>3, <2>4
<1>5. ASSUME NEW c \in Coordinator, MarkFailed(c) PROVE Safe'
  <2> DEFINE next == at[c] + RetryDelay
             new == Free(next, jobs[job[c]].interval, jobs[job[c]].enabled)
  <2>1. Busy(c) /\ job[c] \in Job /\ jobs[job[c]].next <= at[c]
    BY <1>5 DEF MarkFailed, Busy, Running, TypeOK, Owned
  <2>2. /\ jobs' = [jobs EXCEPT ![job[c]] = new]
        /\ Forget(c) /\ Become(c, "idle") /\ UNCHANGED <<now, done>>
    BY <1>5, Zenon DEF MarkFailed
  <2>3. new.next = next
    BY DEF Free, RowOf
  <2>4. at[c] \in Nat /\ next \in Nat /\ next > at[c]
    BY TimeAssumption DEF TypeOK, TimeAssumption
  <2> HIDE DEF next, new
  <2>5. Owned' /\ Fresh'
    BY <2>1, <2>2, OthersKeep
  <2>6. Past'
    <3> SUFFICES ASSUME NEW j \in Job, NEW s \in done[j]
                 PROVE  s < jobs'[j].next
      BY <2>2 DEF Past
    <3>1. CASE j # job[c]
      BY <3>1, <2>2 DEF Past, TypeOK
    <3>2. CASE j = job[c]
      <4>1. jobs'[j].next = next
        BY <3>2, <2>1, <2>2, <2>3 DEF TypeOK
      <4>2. s \in Nat /\ s < jobs[j].next /\ jobs[j].next \in Nat
        BY RowFields DEF Past, TypeOK
      <4> QED BY <3>2, <4>1, <4>2, <2>1, <2>4
    <3> QED BY <3>1, <3>2
  <2> QED BY <2>5, <2>6
<1>6. ASSUME NEW c \in Coordinator, Crash(c) PROVE Safe'
  <2>1. Forget(c) /\ Become(c, "down") /\ UNCHANGED <<now, jobs, done>>
    BY <1>6 DEF Crash
  <2>2. \A d \in Coordinator : phase'[d] \in Running =>
          /\ d # c /\ Busy(d) /\ phase'[d] = phase[d]
          /\ job'[d] = job[d] /\ at'[d] = at[d] /\ loaded'[d] = loaded[d]
    BY <2>1 DEF Forget, Become, TypeOK, Busy, Running
  <2>3. Owned'
    <3> SUFFICES ASSUME NEW d \in Coordinator, phase'[d] \in Running
                 PROVE  /\ at'[d] <= now'
                        /\ now' <= at'[d] + MaxHandle
                        /\ jobs'[job'[d]].owner = d
                        /\ jobs'[job'[d]].until = at'[d] + LeaseSeconds
                        /\ jobs'[job'[d]].next <= at'[d]
      BY DEF Owned, Busy
    <3> QED BY <2>1, <2>2 DEF Owned
  <2>4. Fresh'
    BY <2>1, <2>2 DEF Fresh, Running
  <2>5. Past'
    BY <2>1 DEF Past
  <2> QED BY <2>3, <2>4, <2>5
<1>7. ASSUME NEW c \in Coordinator, NEW d \in Deployment, Bootstrap(c, d)
      PROVE Safe'
  <2>1. /\ phase[c] = "down" /\ phase'[c] = "idle"
        /\ \A b \in Coordinator \ {c} : phase'[b] = phase[b]
        /\ UNCHANGED <<now, job, at, loaded, done>>
    BY <1>7 DEF Bootstrap, Become, TypeOK
  <2>2. \A j \in Job : /\ jobs'[j].next = jobs[j].next
                       /\ jobs'[j].owner = jobs[j].owner
                       /\ jobs'[j].until = jobs[j].until
    BY <1>7 DEF Bootstrap, RowOf
  <2>3. \A b \in Coordinator : Busy(b)' => Busy(b) /\ job[b] \in Job
    BY <2>1 DEF Busy, Running, TypeOK
  <2>4. Owned'
    BY <2>1, <2>2, <2>3 DEF Owned
  <2>5. Fresh'
    BY <2>1, <2>2, <2>3 DEF Fresh, Busy, Running
  <2>6. Past'
    BY <2>1, <2>2 DEF Past
  <2> QED BY <2>4, <2>5, <2>6
<1>8. CASE Tick
  <2>1. /\ now' = now + 1 /\ UNCHANGED <<jobs, phase, job, at, loaded, done>>
        /\ \A c \in Coordinator : Busy(c) => now < at[c] + MaxHandle
    BY <1>8 DEF Tick, Busy
  <2>2. now \in Nat /\ \A c \in Coordinator : at[c] \in Nat
    BY TimeAssumption DEF TypeOK, TimeAssumption
  <2>3. Owned'
    <3> SUFFICES ASSUME NEW c \in Coordinator, Busy(c)
                 PROVE  at[c] <= now' /\ now' <= at[c] + MaxHandle
      BY <2>1 DEF Owned, Busy
    <3>1. at[c] <= now /\ now < at[c] + MaxHandle
      BY <2>1 DEF Owned
    <3> QED BY <3>1, <2>1, <2>2, TimeAssumption DEF TimeAssumption
  <2>4. Fresh' /\ Past'
    BY <2>1 DEF Fresh, Past
  <2> QED BY <2>3, <2>4
<1>9. CASE UNCHANGED vars
  BY <1>9 DEF vars, Owned, Fresh, Past, Busy
<1> QED BY <1>1, <1>2, <1>3, <1>4, <1>5, <1>6, <1>7, <1>8, <1>9
        DEF Next, Run

(* The invariant holds for ever when the lease covers every run.           *)
LEMMA SafeAlways == LeaseCoversRun => (Spec => [](TypeOK /\ Safe))
<1> SUFFICES ASSUME LeaseCoversRun PROVE Spec => [](TypeOK /\ Safe)
  OBVIOUS
<1>1. Init => TypeOK /\ Safe
  BY InitSafe
<1>2. (TypeOK /\ Safe) /\ [Next]_vars => (TypeOK /\ Safe)'
  BY NextTyped, NextSafe
<1> QED BY <1>1, <1>2, PTL DEF Spec

(* When no run outlasts its lease, two coordinators never run the same     *)
(* job.                                                                    *)
THEOREM HandlerTheorem == LeaseCoversRun => (Spec => []OneHandler)
<1> SUFFICES ASSUME LeaseCoversRun PROVE Spec => []OneHandler
  OBVIOUS
<1>1. TypeOK /\ Safe => OneHandler
  BY RunsDiffer DEF Safe, OneHandler, Busy
<1>2. Spec => [](TypeOK /\ Safe)
  BY SafeAlways
<1> QED BY <1>1, <1>2, PTL

(* When no run outlasts its lease, no slot of a job is handled twice.      *)
THEOREM SlotTheorem == LeaseCoversRun => (Spec => []SlotOnce)
<1> SUFFICES ASSUME LeaseCoversRun PROVE Spec => []SlotOnce
  OBVIOUS
<1>1. TypeOK /\ Safe => SlotOnce
  <2> SUFFICES ASSUME TypeOK, Safe, NEW c \in Coordinator,
                      phase[c] = "handling"
               PROVE  loaded[c].next \notin done[job[c]]
    BY DEF SlotOnce, Safe, Past
  <2>1. job[c] \in Job /\ loaded[c].next = jobs[job[c]].next
    BY DEF Safe, Fresh, TypeOK, Running
  <2>2. jobs[job[c]].next \in Nat
    BY <2>1, RowFields DEF TypeOK
  <2> QED BY <2>1, <2>2 DEF Safe, Past
<1>2. Spec => [](TypeOK /\ Safe)
  BY SafeAlways
<1> QED BY <1>1, <1>2, PTL

-----------------------------------------------------------------------------
(* A success leads to the first slot after the start of the run.           *)
LEMMA Divided ==
  ASSUME NEW a \in Nat, NEW b \in Nat \ {0}
  PROVE  /\ a \div b \in Nat
         /\ b * (a \div b) \in Nat /\ b * (a \div b) <= a
         /\ a < b * (a \div b) + b
<1>1. /\ a \div b \in Nat /\ a % b \in 0..(b - 1)
      /\ a = b * (a \div b) + (a % b)
  OBVIOUS
<1> QED BY <1>1

LEMMA Multiple ==
  ASSUME NEW b \in Nat \ {0}, NEW k \in Nat
  PROVE  /\ b * (k + 1) = b * k + b
         /\ b * k \in Nat /\ (b * k) % b = 0
OBVIOUS

LEMMA NextSlotIsNext ==
  ASSUME NEW slot \in Nat, NEW i \in Nat \ {0}, NEW t \in Nat, slot <= t
  PROVE  LET next == NextSlot(slot, i, t) IN
         next > t /\ next <= t + i /\ (next - slot) % i = 0
<1> DEFINE next == NextSlot(slot, i, t)
<1>1. CASE slot + i > t
  <2>1. next = slot + i
    BY <1>1 DEF NextSlot
  <2>2. next - slot = i * 1 /\ (i * 1) % i = 0
    BY <2>1, Multiple
  <2> QED BY <1>1, <2>1, <2>2
<1>2. CASE slot + i <= t
  <2> DEFINE a == t - (slot + i)
             q == a \div i
  <2>1. a \in Nat
    BY <1>2
  <2>2. next = slot + i + i * (q + 1)
    BY <1>2 DEF NextSlot
  <2> HIDE DEF a, next
  <2>3. q \in Nat /\ i * q \in Nat /\ i * q <= a /\ a < i * q + i
    BY <2>1, Divided
  <2> HIDE DEF q
  <2>4. i * (q + 1) = i * q + i /\ i * ((q + 1) + 1) = i * (q + 1) + i
    BY <2>3, Multiple
  <2>5. (i * ((q + 1) + 1)) % i = 0
    <3>1. (q + 1) + 1 \in Nat
      BY <2>3
    <3> QED BY <3>1, Multiple
  <2>6. next = slot + (i * q + i + i)
    BY <2>2, <2>3, <2>4
  <2>7. next > t /\ next <= t + i
    BY <2>3, <2>6 DEF a
  <2>8. next - slot = i * ((q + 1) + 1)
    BY <2>3, <2>4, <2>6
  <2> QED BY <2>5, <2>7, <2>8 DEF next
<1> QED BY <1>1, <1>2

(* Only a success takes a coordinator from its handler to the next poll.   *)
LEMMA OnlySuccess ==
  ASSUME TypeOK, [Next]_vars, NEW c \in Coordinator,
         phase[c] = "handling", phase'[c] = "idle"
  PROVE  Succeed(c)
<1>1. ASSUME NEW d \in Coordinator, d # c, NEW s, Become(d, s)
      PROVE  FALSE
  BY <1>1 DEF Become, TypeOK
<1>2. ASSUME NEW s, Become(c, s)
      PROVE  s = "idle"
  BY <1>2 DEF Become, TypeOK
<1>3. phase' # phase
  OBVIOUS
<1>4. PICK d \in Coordinator :
        Run(d) \/ Crash(d) \/ \E k \in Deployment : Bootstrap(d, k)
  BY <1>3 DEF Next, Tick, vars
<1>5. d = c
  BY <1>1, <1>4
     DEF Run, Lease, Load, Succeed, Raise, MarkFailed, Crash, Bootstrap
<1> QED BY <1>2, <1>4, <1>5
        DEF Run, Lease, Load, Raise, MarkFailed, Crash, Bootstrap

LEMMA SuccessSkips ==
  ASSUME TypeOK, Safe, NEW c \in Coordinator, Succeed(c)
  PROVE  /\ jobs'[job[c]].next > at[c]
         /\ jobs'[job[c]].next <= at[c] + loaded[c].interval
         /\ (jobs'[job[c]].next - loaded[c].next) % loaded[c].interval = 0
<1> DEFINE row == loaded[c]
           next == NextSlot(row.next, row.interval, at[c])
<1>1. phase[c] = "handling" /\ Busy(c) /\ job[c] \in Job /\ row \in Row
  BY DEF Succeed, Busy, Running, TypeOK
<1>2. row.next <= at[c]
  BY <1>1 DEF Safe, Owned, Fresh
<1>3. row.next \in Nat /\ row.interval \in Nat \ {0} /\ at[c] \in Nat
  BY <1>1, RowFields, TimeAssumption DEF TypeOK, TimeAssumption
<1>4. jobs'[job[c]].next = next
  BY <1>1 DEF Succeed, RowOf, TypeOK
<1> HIDE DEF row
<1>5. next > at[c] /\ next <= at[c] + row.interval
      /\ (next - row.next) % row.interval = 0
  BY <1>2, <1>3, NextSlotIsNext
<1> HIDE DEF next
<1> QED BY <1>4, <1>5 DEF row

(* When no run outlasts its lease, a job that has been handled is due next *)
(* at the first slot of its grid after the start of the run: none that is  *)
(* still to come is skipped, none that was missed is caught up with        *)
(* (mark_succeeded).                                                       *)
THEOREM SkipTheorem == LeaseCoversRun => (Spec => SkipsOnlyMissedSlots)
<1> SUFFICES ASSUME LeaseCoversRun PROVE Spec => SkipsOnlyMissedSlots
  OBVIOUS
<1> DEFINE Skips ==
      \A c \in Coordinator :
        phase[c] = "handling" /\ phase'[c] = "idle" =>
          /\ jobs'[job[c]].next > at[c]
          /\ jobs'[job[c]].next <= at[c] + loaded[c].interval
          /\ (jobs'[job[c]].next - loaded[c].next) % loaded[c].interval = 0
<1>1. TypeOK /\ Safe /\ [Next]_vars => [Skips]_vars
  BY OnlySuccess, SuccessSkips
<1>2. Spec => [](TypeOK /\ Safe)
  BY SafeAlways
<1>3. SkipsOnlyMissedSlots <=> [][Skips]_vars
  BY DEF SkipsOnlyMissedSlots
<1> HIDE DEF Skips
<1> QED BY <1>1, <1>2, <1>3, PTL DEF Spec

-----------------------------------------------------------------------------
(* Serving the foremost jobs.  What is reached at a time was reached       *)
(* before it.                                                              *)
LEMMA ReachedBefore ==
  ASSUME TypeOK, NEW j \in Job, NEW t \in Int, NEW u \in Int, t <= u,
         Reached(j, u)
  PROVE  Reached(j, t)
<1>1. jobs[j].next \in Nat /\ jobs[j].until \in Nat
  BY RowFields DEF TypeOK
<1> QED BY <1>1 DEF Reached

(* Steps at one instant that leave the slot and the lease of a job alone,  *)
(* and begin no run.                                                       *)
LEMMA TurnKept ==
  ASSUME NEW j \in Job, InTurn(j), UNCHANGED now,
         jobs'[j].next = jobs[j].next, jobs'[j].owner = jobs[j].owner,
         jobs'[j].until = jobs[j].until,
         \A c \in Coordinator :
           phase'[c] \in Running => Busy(c) /\ at'[c] = at[c]
  PROVE  InTurn(j)'
BY DEF InTurn, Reached, Busy

(* A coordinator that comes free when the job it ran has a new slot.       *)
LEMMA TurnFreed ==
  ASSUME TypeOK, TypeOK', NEW j \in Job, NEW c \in Coordinator,
         phase'[c] = "idle", now' <= jobs'[j].next + MaxHandle
  PROVE  InTurn(j)'
<1>1. now' \in Nat /\ jobs'[j].next \in Nat
  BY RowFields, TimeAssumption DEF TypeOK, TimeAssumption
<1>2. now' - MaxHandle <= jobs'[j].next
  BY <1>1, TimeAssumption DEF TimeAssumption
<1>3. ~Busy(c)'
  BY DEF Busy, Running
<1> QED BY <1>2, <1>3 DEF InTurn, Reached

(* A foremost job that can be leased is picked before any other.           *)
LEMMA TurnTaken ==
  ASSUME TypeOK, NEW j \in Foremost, jobs[j].enabled, NEW i \in Job \ {j},
         Picks(i)
  PROVE  Reached(j, now)
<1>1. /\ j \in Job /\ PriorityOf[i] < PriorityOf[j]
      /\ PriorityOf[i] \in Nat /\ PriorityOf[j] \in Nat
  BY JobAssumption DEF Foremost, JobAssumption
<1>2. ~Leasable(j)
  BY <1>1 DEF Picks, Precedes
<1>3. now \in Nat /\ jobs[j].next \in Nat /\ jobs[j].until \in Nat
  BY <1>1, RowFields, TimeAssumption DEF TypeOK, TimeAssumption
<1> QED BY <1>2, <1>3 DEF Leasable, Expired, Reached

(* No configuration switches a foremost job off.                           *)
LEMMA StaysEnabled ==
  ASSUME TypeOK, NEW j \in Foremost, jobs[j].enabled, [Next]_vars
  PROVE  jobs'[j].enabled
<1>1. j \in Job /\ \A d \in Deployment : d[j].enabled
  BY DEF Foremost
<1>2. ASSUME NEW c \in Coordinator, NEW i \in Job, Lease(c, i)
      PROVE  jobs'[j].enabled
  BY <1>1, <1>2 DEF Lease, RowOf, TypeOK
<1>3. ASSUME NEW c \in Coordinator, Succeed(c) \/ MarkFailed(c)
      PROVE  jobs'[j].enabled
  <2>1. job[c] \in Job
    BY <1>3 DEF Succeed, MarkFailed, Running, TypeOK
  <2>2. PICK r : jobs' = [jobs EXCEPT ![job[c]] = r]
                 /\ r.enabled = jobs[job[c]].enabled
    BY <1>3 DEF Succeed, MarkFailed, Free, RowOf
  <2> QED BY <1>1, <2>1, <2>2 DEF TypeOK
<1>4. ASSUME NEW c \in Coordinator, NEW d \in Deployment, Bootstrap(c, d)
      PROVE  jobs'[j].enabled
  BY <1>1, <1>4 DEF Bootstrap, RowOf
<1>5. ASSUME UNCHANGED jobs
      PROVE  jobs'[j].enabled
  BY <1>5
<1> QED BY <1>2, <1>3, <1>4, <1>5
        DEF Next, Run, Load, Raise, Crash, Tick, vars

(* The end of a run: of the job itself, or of another.                     *)
LEMMA TurnEnds ==
  ASSUME LeaseCoversRun, TypeOK, TypeOK', Safe, NEW j \in Job, InTurn(j),
         NEW c \in Coordinator, Succeed(c) \/ MarkFailed(c)
  PROVE  InTurn(j)'
<1>1. /\ Busy(c) /\ job[c] \in Job /\ UNCHANGED now
      /\ Forget(c) /\ Become(c, "idle")
  BY DEF Succeed, MarkFailed, Busy, Running, TypeOK
<1>2. PICK r : jobs' = [jobs EXCEPT ![job[c]] = r] /\ r.next >= at[c]
  <2>1. CASE Succeed(c)
    <3> DEFINE r == jobs'[job[c]]
    <3>1. jobs' = [jobs EXCEPT ![job[c]] = r]
      BY <1>1, <2>1 DEF Succeed, TypeOK
    <3>2. r.next > at[c] /\ r.next \in Nat /\ at[c] \in Nat
      BY <1>1, <2>1, SuccessSkips, RowFields, TimeAssumption
         DEF TypeOK, TimeAssumption
    <3> QED BY <3>1, <3>2
  <2>2. CASE MarkFailed(c)
    <3> DEFINE r == Free(at[c] + RetryDelay, jobs[job[c]].interval,
                         jobs[job[c]].enabled)
    <3>1. jobs' = [jobs EXCEPT ![job[c]] = r]
      BY <2>2 DEF MarkFailed
    <3>2. r.next = at[c] + RetryDelay
      BY DEF Free, RowOf
    <3>3. at[c] \in Nat /\ RetryDelay \in Nat
      BY TimeAssumption DEF TypeOK, TimeAssumption
    <3> HIDE DEF r
    <3>4. r.next >= at[c]
      BY <3>2, <3>3
    <3> QED BY <3>1, <3>4
  <2> QED BY <2>1, <2>2
<1>3. /\ phase'[c] = "idle"
      /\ \A d \in Coordinator :
           phase'[d] \in Running => Busy(d) /\ at'[d] = at[d]
  BY <1>1 DEF Become, Forget, TypeOK, Busy, Running
<1>4. CASE j = job[c]
  <2>1. jobs'[j].next >= at[c] /\ now' <= at[c] + MaxHandle
    BY <1>1, <1>2, <1>4 DEF TypeOK, Safe, Owned
  <2>2. now' \in Nat /\ at[c] \in Nat /\ jobs'[j].next \in Nat
    BY RowFields, TimeAssumption DEF TypeOK, TimeAssumption
  <2>3. now' <= jobs'[j].next + MaxHandle
    BY <2>1, <2>2, TimeAssumption DEF TimeAssumption
  <2> QED BY <1>3, <2>3, TurnFreed
<1>5. CASE j # job[c]
  <2>1. jobs'[j] = jobs[j]
    BY <1>1, <1>2, <1>5 DEF TypeOK
  <2> QED BY <1>1, <1>3, <2>1, TurnKept
<1> QED BY <1>4, <1>5

(* Time passes promptly: if a foremost job waits, every coordinator is in  *)
(* a run, and the one that began before it waited bounds the clock.        *)
LEMMA TurnTicks ==
  ASSUME TypeOK, Owned, NEW j \in Foremost, jobs[j].enabled, InTurn(j), Tick, Prompt
  PROVE  InTurn(j)'
<1>1. /\ now' = now + 1 /\ UNCHANGED <<jobs, phase, job, at, loaded, done>>
      /\ \A c \in Coordinator : Busy(c) => now < at[c] + MaxHandle
      /\ j \in Job
  BY DEF Tick, Busy, Foremost
<1>2. /\ now \in Nat /\ jobs[j].next \in Nat /\ jobs[j].until \in Nat
      /\ \A c \in Coordinator : at[c] \in Nat
  BY <1>1, RowFields, TimeAssumption DEF TypeOK, TimeAssumption
<1>3. CASE ~Leasable(j)
  <2>1. Reached(j, now + 1)
    BY <1>2, <1>3 DEF Leasable, Expired, Reached
  <2> QED BY <1>1, <2>1 DEF InTurn, Reached
<1>4. CASE Leasable(j)
  <2>1. \A c \in Coordinator : Busy(c)
    BY <1>1, <1>4 DEF Prompt, Busy, Running, TypeOK, Phase
  <2>2. PICK c \in Coordinator : Reached(j, at[c])
    <3>1. CASE Reached(j, now)
      <4>1. PICK c \in Coordinator : TRUE
        BY JobAssumption DEF JobAssumption
      <4>2. at[c] <= now
        BY <2>1 DEF Owned
      <4>3. at[c] \in Int /\ now \in Int
        BY <1>2
      <4> QED BY <3>1, <4>2, <4>3, <1>1, ReachedBefore
    <3>2. CASE ~Reached(j, now)
      BY <2>1, <3>2 DEF InTurn
    <3> QED BY <3>1, <3>2
  <2>3. now + 1 - MaxHandle <= at[c]
    <3>1. now < at[c] + MaxHandle /\ now \in Nat /\ at[c] \in Nat
      BY <1>1, <1>2, <2>1
    <3> QED BY <3>1, TimeAssumption DEF TimeAssumption
  <2>4. Reached(j, now + 1 - MaxHandle)
    <3>1. now + 1 - MaxHandle \in Int /\ at[c] \in Int
      BY <1>2, TimeAssumption DEF TimeAssumption
    <3> QED BY <1>1, <2>2, <2>3, <3>1, ReachedBefore
  <2>5. Reached(j, now - MaxHandle)' /\ Reached(j, at[c])'
    <3>1. jobs' = jobs /\ at' = at /\ now' = now + 1
      BY <1>1
    <3>2. \/ now' - MaxHandle <= jobs'[j].next
          \/ jobs'[j].owner # NoOwner /\ now' - MaxHandle <= jobs'[j].until
      BY <1>2, <2>4, <3>1, TimeAssumption DEF Reached, TimeAssumption
    <3>3. \/ at'[c] <= jobs'[j].next
          \/ jobs'[j].owner # NoOwner /\ at'[c] <= jobs'[j].until
      BY <2>2, <3>1 DEF Reached
    <3> QED BY <3>2, <3>3 DEF Reached
  <2> QED BY <2>5 DEF InTurn
<1> QED BY <1>3, <1>4

LEMMA TurnLeased ==
  ASSUME TypeOK, TypeOK', NEW j \in Foremost, jobs[j].enabled,
         NEW c \in Coordinator, NEW i \in Job, Lease(c, i)
  PROVE  InTurn(j)'
<1> DEFINE r == RowOf(jobs[i].next, c, now + LeaseSeconds, jobs[i].interval,
                      jobs[i].enabled)
<1>1. Picks(i) /\ now' = now /\ jobs' = [jobs EXCEPT ![i] = r] /\ j \in Job
  BY DEF Lease, Foremost
<1>2. r.owner = c /\ r.until = now + LeaseSeconds /\ c # NoOwner
  BY JobAssumption DEF RowOf, JobAssumption
<1> HIDE DEF r
<1>3. CASE i = j
  <2>1. jobs'[j] = r
    BY <1>1, <1>3 DEF TypeOK
  <2>2. now' <= r.until
    BY <1>1, <1>2, TimeAssumption DEF TypeOK, TimeAssumption
  <2> QED BY <1>2, <2>1, <2>2 DEF InTurn, Reached
<1>4. CASE i # j
  <2>1. Reached(j, now) /\ jobs'[j] = jobs[j]
    BY <1>1, <1>4, TurnTaken DEF TypeOK
  <2> QED BY <1>1, <2>1 DEF InTurn, Reached
<1> QED BY <1>3, <1>4

LEMMA ServedStep ==
  ASSUME LeaseCoversRun, TypeOK, TypeOK', Safe, Served,
         [WatchedNext]_<<vars, prompt>>
  PROVE  Served'
<1> SUFFICES ASSUME NEW j \in Foremost
             PROVE  jobs'[j].enabled /\ (prompt' => InTurn(j)')
  BY DEF Served
<1>1. /\ j \in Job /\ jobs[j].enabled /\ (prompt => InTurn(j))
      /\ [Next]_vars
  BY DEF Foremost, Served, WatchedNext, vars
<1>2. jobs'[j].enabled
  BY <1>1, StaysEnabled
<1>3. SUFFICES ASSUME prompt' PROVE InTurn(j)'
  BY <1>2
<1>4. InTurn(j)
  BY <1>1, <1>3 DEF WatchedNext
<1>5. ASSUME NEW c \in Coordinator, NEW i \in Job, Lease(c, i)
      PROVE  InTurn(j)'
  BY <1>1, <1>5, TurnLeased
<1>6. ASSUME NEW c \in Coordinator, Load(c) \/ Raise(c)
      PROVE  InTurn(j)'
  <2>1. /\ UNCHANGED <<now, jobs, at>>
        /\ \A d \in Coordinator : phase'[d] \in Running => Busy(d)
    BY <1>6 DEF Load, Raise, Become, TypeOK, Busy, Running
  <2> QED BY <1>1, <1>4, <2>1, TurnKept
<1>7. ASSUME NEW c \in Coordinator, Succeed(c) \/ MarkFailed(c)
      PROVE  InTurn(j)'
  BY <1>1, <1>4, <1>7, TurnEnds
<1>8. ASSUME NEW c \in Coordinator, Crash(c)
      PROVE  InTurn(j)'
  <2>1. /\ UNCHANGED <<now, jobs>>
        /\ \A d \in Coordinator :
             phase'[d] \in Running => Busy(d) /\ at'[d] = at[d]
    BY <1>8 DEF Crash, Forget, Become, TypeOK, Busy, Running
  <2> QED BY <1>1, <1>4, <2>1, TurnKept
<1>9. ASSUME NEW c \in Coordinator, NEW d \in Deployment, Bootstrap(c, d)
      PROVE  InTurn(j)'
  <2>1. /\ UNCHANGED <<now, at>>
        /\ \A b \in Coordinator : phase'[b] \in Running => Busy(b)
    BY <1>9 DEF Bootstrap, Become, TypeOK, Busy, Running
  <2>2. /\ jobs'[j].next = jobs[j].next /\ jobs'[j].owner = jobs[j].owner
        /\ jobs'[j].until = jobs[j].until
    BY <1>1, <1>9 DEF Bootstrap, RowOf
  <2> QED BY <1>1, <1>4, <2>1, <2>2, TurnKept
<1>10. CASE Tick
  <2>1. Prompt
    <3>1. now' # now
      BY <1>10, TimeAssumption DEF Tick, TypeOK, TimeAssumption
    <3>2. prompt' = (prompt /\ (now' # now => Prompt))
      BY <3>1 DEF WatchedNext, vars
    <3> QED BY <1>3, <3>1, <3>2
  <2> QED BY <1>1, <1>4, <1>10, <2>1, TurnTicks DEF Safe
<1>11. CASE UNCHANGED vars
  BY <1>4, <1>11 DEF vars, InTurn, Reached, Busy
<1> QED BY <1>1, <1>5, <1>6, <1>7, <1>8, <1>9, <1>10, <1>11 DEF Next, Run

LEMMA InitServed == WatchedInit => Served
<1> SUFFICES ASSUME WatchedInit, NEW j \in Foremost
             PROVE  jobs[j].enabled /\ InTurn(j)
  BY DEF Served
<1>1. PICK d \in Deployment :
        jobs = [i \in Job |-> Free(0, d[i].interval, d[i].enabled)]
  BY DEF WatchedInit, Init
<1>2. j \in Job /\ d[j].enabled /\ now = 0
  BY DEF Foremost, WatchedInit, Init
<1>3. jobs[j].enabled = d[j].enabled /\ jobs[j].next = 0
  BY <1>1, <1>2 DEF Free, RowOf
<1> QED BY <1>2, <1>3 DEF InTurn, Reached

LEMMA ServedIsPunctual == TypeOK /\ Served => PunctualIfPrompt
<1> SUFFICES ASSUME TypeOK, Served, prompt, NEW j \in Foremost
             PROVE  \/ now <= jobs[j].next + MaxHandle
                    \/ jobs[j].owner # NoOwner /\ now <= jobs[j].until + MaxHandle
  BY DEF PunctualIfPrompt, Punctual
<1>1. /\ j \in Job /\ now \in Nat /\ MaxHandle \in Nat
      /\ jobs[j].next \in Nat /\ jobs[j].until \in Nat
  BY RowFields, TimeAssumption DEF Foremost, TypeOK, TimeAssumption
<1>2. Reached(j, now) \/ Reached(j, now - MaxHandle)
  BY DEF Served, InTurn
<1> QED BY <1>1, <1>2 DEF Reached

(* When no run outlasts its lease, and time passes only while coordinators *)
(* are up and have nothing to lease, a job that outranks every other is    *)
(* leased at most one run after it came due or was abandoned (lease_due,   *)
(* run_once, run_loop).                                                    *)
THEOREM PunctualTheorem ==
  LeaseCoversRun => (WatchedSpec => []PunctualIfPrompt)
<1> SUFFICES ASSUME LeaseCoversRun PROVE WatchedSpec => []PunctualIfPrompt
  OBVIOUS
<1>1. WatchedInit => TypeOK /\ Safe /\ Served
  BY InitSafe, InitServed DEF WatchedInit
<1>2. (TypeOK /\ Safe /\ Served) /\ [WatchedNext]_<<vars, prompt>>
        => (TypeOK /\ Safe /\ Served)'
  <2> SUFFICES ASSUME TypeOK, Safe, Served, [WatchedNext]_<<vars, prompt>>
               PROVE  TypeOK' /\ Safe' /\ Served'
    OBVIOUS
  <2>1. [Next]_vars
    BY DEF WatchedNext, vars
  <2> QED BY <2>1, NextTyped, NextSafe, ServedStep
<1>3. TypeOK /\ Safe /\ Served => PunctualIfPrompt
  BY ServedIsPunctual
<1> QED BY <1>1, <1>2, <1>3, PTL DEF WatchedSpec
=============================================================================
