-------------------------- MODULE TaskQueueProofs --------------------------
(***************************************************************************)
(* Proofs about TaskQueue, for every number of tasks, workers and keys and *)
(* every bound.                                                            *)
(***************************************************************************)
EXTENDS TaskQueue, TLAPS

-----------------------------------------------------------------------------
(* What the updates of a row make of it.                                   *)

(* A record of well-typed fields is a row.                                 *)
LEMMA RowOf ==
  ASSUME NEW s \in Status, NEW k \in Key \cup {NoKey}, NEW d \in 0..MaxDelay,
         NEW l \in 0..LeaseSeconds, NEW n \in 0..(MaxRetries + 1)
  PROVE  [status |-> s, key |-> k, wait |-> d, lease |-> l, retries |-> n]
           \in Row
  BY DEF Row

(* The fields of a row.                                                    *)
LEMMA RowFields ==
  ASSUME NEW r \in Row
  PROVE  /\ r = [status |-> r.status, key |-> r.key, wait |-> r.wait,
                 lease |-> r.lease, retries |-> r.retries]
         /\ r.status \in Status
         /\ r.key \in Key \cup {NoKey}
         /\ r.wait \in 0..MaxDelay
         /\ r.lease \in 0..LeaseSeconds
         /\ r.retries \in 0..(MaxRetries + 1)
  BY DEF Row

(* Zero is a wait, a lease and a number of retries.                        *)
LEMMA Zero == /\ 0 \in 0..MaxDelay
              /\ 0 \in 0..LeaseSeconds
              /\ 0 \in 0..(MaxRetries + 1)
  BY BoundAssumption DEF BoundAssumption

(* A free slot of the table.                                               *)
LEMMA AbsentRow ==
  /\ Absent \in Row
  /\ Absent.status = "absent" /\ Absent.key = NoKey /\ Absent.retries = 0
<1>1. "absent" \in Status
  BY DEF Status
<1>2. QED BY <1>1, Zero, RowOf DEF Absent

(* A row as enqueue inserts it.                                            *)
LEMMA NewRowRow ==
  ASSUME NEW k \in Key, NEW s \in {"pending", "uncommitted"},
         NEW d \in 0..MaxDelay
  PROVE  /\ NewRow(k, s, d) \in Row
         /\ NewRow(k, s, d).status = s
         /\ NewRow(k, s, d).key = k
         /\ NewRow(k, s, d).retries = 0
<1>1. s \in Status
  BY DEF Status
<1>2. QED BY <1>1, Zero, RowOf DEF NewRow

(* Changing the status alone.                                              *)
LEMMA StatusRow ==
  ASSUME NEW r \in Row, NEW s \in Status
  PROVE  /\ [r EXCEPT !.status = s] \in Row
         /\ [r EXCEPT !.status = s].status = s
         /\ [r EXCEPT !.status = s].key = r.key
         /\ [r EXCEPT !.status = s].retries = r.retries
  BY DEF Row

(* An update that clears the lease.                                        *)
LEMMA WithRow ==
  ASSUME NEW r \in Row, NEW s \in Status, NEW d \in 0..MaxDelay,
         NEW n \in 0..(MaxRetries + 1)
  PROVE  /\ With(r, s, d, n) \in Row
         /\ With(r, s, d, n).status = s
         /\ With(r, s, d, n).key = r.key
         /\ With(r, s, d, n).retries = n
  BY RowFields, Zero, RowOf DEF With

(* Counting down stays within the bound.                                   *)
LEMMA MinusBound ==
  ASSUME NEW n \in Nat, NEW a \in 0..n, NEW b \in Nat
  PROVE  Minus(a, b) \in 0..n
  BY DEF Minus

(* A failed attempt.                                                       *)
LEMMA RetriedRow ==
  ASSUME TypeOK, NEW w \in Worker, leased[w] \in Task, NEW d \in 0..MaxDelay,
         rows[leased[w]].retries \in 0..MaxRetries
  PROVE  LET r == rows[leased[w]]
             q == Retried(w, d)
         IN  /\ q \in Row
             /\ q.key = r.key
             /\ q.retries = r.retries + 1
             /\ \/ q.status = "pending" /\ r.retries < MaxRetries
                \/ q.status = "failed" /\ r.retries = MaxRetries
<1> DEFINE r == rows[leased[w]]
<1>1. r \in Row /\ elapsed[w] \in Nat
  BY BoundAssumption DEF TypeOK, BoundAssumption
<1>2. Minus(d, elapsed[w]) \in 0..MaxDelay /\ r.wait \in 0..MaxDelay
  BY <1>1, MinusBound, RowFields, BoundAssumption DEF BoundAssumption
<1>3. r.retries + 1 \in 0..(MaxRetries + 1)
  BY BoundAssumption DEF BoundAssumption
<1>4. "pending" \in Status /\ "failed" \in Status
  BY DEF Status
<1>5. CASE r.retries < MaxRetries
  <2>1. Retried(w, d) = With(r, "pending", Minus(d, elapsed[w]), r.retries + 1)
    BY <1>5 DEF Retried
  <2>2. LET q == With(r, "pending", Minus(d, elapsed[w]), r.retries + 1)
        IN  /\ q \in Row /\ q.status = "pending" /\ q.key = r.key
            /\ q.retries = r.retries + 1
    BY <1>1, <1>2, <1>3, <1>4, WithRow
  <2>3. QED BY <2>1, <2>2, <1>5
<1>6. CASE r.retries = MaxRetries
  <2>1. Retried(w, d) = With(r, "failed", r.wait, r.retries + 1)
    BY <1>6, BoundAssumption DEF Retried, BoundAssumption
  <2>2. LET q == With(r, "failed", r.wait, r.retries + 1)
        IN  /\ q \in Row /\ q.status = "failed" /\ q.key = r.key
            /\ q.retries = r.retries + 1
    BY <1>1, <1>2, <1>3, <1>4, WithRow
  <2>3. QED BY <2>1, <2>2, <1>6
<1>7. QED BY <1>5, <1>6, BoundAssumption DEF BoundAssumption

-----------------------------------------------------------------------------
(* The strengthening that makes the invariants inductive.                  *)

Open(w) == phase[w] \in {"collecting", "inserting", "reselecting"}

(* A worker has a leased task exactly while its transaction is open; the   *)
(* committed row of that task is pending until then.                       *)
TransactionsOK ==
  \A w \in Worker :
    /\ Open(w) => /\ leased[w] \in locks[w]
                  /\ rows[leased[w]].status = "pending"
    /\ ~Open(w) => leased[w] = NoTask /\ locks[w] = {}
    /\ phase[w] \in {"inserting", "reselecting"} => want[w] \in Key

(* What a transaction has locked is pending or its own insert.             *)
LocksOK ==
  \A w \in Worker : \A t \in locks[w] :
    rows[t].status \in {"pending", "uncommitted"}

(* No row is in two open transactions.                                     *)
ExclusiveRows ==
  \A v, w \in Worker : \A t \in Task :
    t \in locks[v] /\ t \in locks[w] => v = w

(* An insert that is not committed belongs to an open transaction.         *)
InsertsOwned ==
  \A t \in Task :
    rows[t].status = "uncommitted" => \E w \in Worker : t \in locks[w]

(* Every row of the table has a key.                                       *)
Keyed == \A t \in Task : rows[t].status # "absent" => rows[t].key \in Key

(* The attempts of every row, whatever its status.                         *)
Budget ==
  \A t \in Task :
    /\ rows[t].status \in {"absent", "uncommitted"} =>
         attempts[t] = 0 /\ rows[t].retries = 0
    /\ rows[t].status = "pending" =>
         attempts[t] = rows[t].retries /\ rows[t].retries \in 0..MaxRetries
    /\ rows[t].status = "failed" /\ rows[t].key \in HandledKey =>
         attempts[t] = MaxRetries + 1
    /\ rows[t].status = "succeeded" => attempts[t] = rows[t].retries + 1

Base ==
  /\ TypeOK
  /\ RunningNeverCommitted
  /\ TransactionsOK
  /\ LocksOK
  /\ ExclusiveRows
  /\ InsertsOwned
  /\ Keyed
  /\ Budget

(* No lease is ever recovered, so the worker's view is the table.          *)
LEMMA NothingExpired ==
  ASSUME RunningNeverCommitted
  PROVE  /\ Expired = {}
         /\ \A t \in Task : View(t) = rows[t]
  BY DEF RunningNeverCommitted, Expired, View

(* What the picked task is.                                                *)
LEMMA PickedTask ==
  ASSUME Base, NEW t \in Task, Picks(t)
  PROVE  /\ rows[t].status = "pending"
         /\ rows[t].key \in Key
         /\ \A w \in Worker : t \notin locks[w]
  BY NothingExpired DEF Base, Picks, Due, LockedBy, Keyed

(* A commit changes the leased task and publishes the transaction's        *)
(* inserts.                                                                *)
LEMMA CommittedRow ==
  ASSUME Base, NEW w \in Worker, NEW out \in Row, NEW t \in Task
  PROVE  LET q == Committed(w, out)[t]
         IN  /\ q \in Row
             /\ t = leased[w] => q = out
             /\ t # leased[w] =>
                  /\ q.key = rows[t].key
                  /\ q.retries = rows[t].retries
                  /\ q.status = IF t \in locks[w] /\ rows[t].status = "uncommitted"
                                THEN "pending" ELSE rows[t].status
<1>1. rows[t] \in Row /\ rows[t].status # "running"
  BY DEF Base, TypeOK, RunningNeverCommitted
<1>2. "pending" \in Status
  BY DEF Status
<1>3. CASE t = leased[w]
  <2>1. Committed(w, out)[t] = out
    BY <1>3 DEF Committed
  <2>2. QED BY <2>1, <1>3
<1>4. CASE t # leased[w] /\ t \in locks[w] /\ rows[t].status = "uncommitted"
  <2>1. Committed(w, out)[t] = [rows[t] EXCEPT !.status = "pending"]
    BY <1>4 DEF Committed
  <2>2. QED BY <2>1, <1>1, <1>2, <1>4, StatusRow
<1>5. CASE t # leased[w] /\ ~(t \in locks[w] /\ rows[t].status = "uncommitted")
  <2>1. Committed(w, out)[t] = rows[t]
    BY <1>5, <1>1 DEF Committed
  <2>2. QED BY <2>1, <1>1, <1>5
<1>6. QED BY <1>3, <1>4, <1>5

(* The empty table and idle workers.                                       *)
LEMMA InitBase == Init => Base
<1> SUFFICES ASSUME Init PROVE Base
  OBVIOUS
<1>1. \A t \in Task : rows[t] = Absent
  BY DEF Init
<1>2. TypeOK
  <2>1. rows \in [Task -> Row]
    BY AbsentRow DEF Init
  <2>2. QED BY <2>1, BoundAssumption DEF Init, TypeOK, Phase, BoundAssumption
<1>3. RunningNeverCommitted /\ LocksOK /\ InsertsOwned /\ Keyed /\ Budget
  BY <1>1, AbsentRow
     DEF Init, RunningNeverCommitted, LocksOK, InsertsOwned, Keyed, Budget
<1>4. TransactionsOK /\ ExclusiveRows
  BY DEF Init, TransactionsOK, ExclusiveRows, Open
<1>5. QED BY <1>2, <1>3, <1>4 DEF Base

-----------------------------------------------------------------------------
(* An enqueue fills a free slot that no transaction has locked.            *)
LEMMA EnqueueBase ==
  ASSUME Base, NEW t \in Task, NEW k \in Key, NEW d \in 0..MaxDelay,
         Enqueue(t, k, d)
  PROVE  Base'
<1> DEFINE q == NewRow(k, "pending", d)
<1>1. q \in Row /\ q.status = "pending" /\ q.key = k /\ q.retries = 0
  BY NewRowRow
<1>2. /\ rows \in [Task -> Row]
      /\ rows' = [rows EXCEPT ![t] = q]
      /\ rows[t].status = "absent"
      /\ UNCHANGED <<phase, leased, elapsed, locks, want, closed, attempts,
                     crashes, resets>>
  BY DEF Enqueue, Base, TypeOK
<1>3. rows'[t] = q /\ \A s \in Task \ {t} : rows'[s] = rows[s]
  BY <1>2
<1>4. \A w \in Worker : t \notin locks[w]
  BY <1>2 DEF Base, LocksOK
<1>5. TypeOK'
  BY <1>1, <1>2 DEF Base, TypeOK
<1>6. RunningNeverCommitted' /\ LocksOK' /\ ExclusiveRows' /\ InsertsOwned'
  BY <1>1, <1>2, <1>3, <1>4
     DEF Base, TypeOK, RunningNeverCommitted, LocksOK, ExclusiveRows, InsertsOwned
<1>7. TransactionsOK'
  BY <1>2, <1>3, <1>4 DEF Base, TypeOK, TransactionsOK, Open
<1>8. Keyed' /\ Budget'
  BY <1>1, <1>2, <1>3, BoundAssumption DEF Base, Keyed, Budget, BoundAssumption
<1>9. QED BY <1>5, <1>6, <1>7, <1>8 DEF Base

(* Actions that leave the table, the transactions and the attempts alone.  *)
LEMMA IdleBase ==
  ASSUME Base, TypeOK',
         UNCHANGED <<rows, phase, leased, locks, want, attempts>>
  PROVE  Base'
  BY DEF Base, RunningNeverCommitted, TransactionsOK, LocksOK, ExclusiveRows,
         InsertsOwned, Keyed, Budget, Open

(* A lease locks one pending row that nobody has locked.                   *)
LEMMA LeaseBase ==
  ASSUME Base, NEW w \in Worker, NEW t \in Task, Lease(w, t)
  PROVE  Base'
<1>1. /\ Expired = {}
      /\ rows[t].status = "pending"
      /\ \A v \in Worker : t \notin locks[v]
  BY PickedTask, NothingExpired DEF Base, Lease
<1>2. /\ phase' = [phase EXCEPT ![w] = "collecting"]
      /\ leased' = [leased EXCEPT ![w] = t]
      /\ locks' = [locks EXCEPT ![w] = {t}]
      /\ UNCHANGED <<rows, elapsed, want, closed, attempts, crashes, resets>>
      /\ ~Open(w)
  BY <1>1 DEF Lease, Open
<1>3. locks[w] = {}
  BY <1>2 DEF Base, TransactionsOK
<1>4. TypeOK'
  BY <1>2 DEF Base, TypeOK, Phase
<1>5. TransactionsOK' /\ LocksOK'
  BY <1>1, <1>2 DEF Base, TypeOK, TransactionsOK, LocksOK, Open
<1>6. ExclusiveRows' /\ InsertsOwned'
  BY <1>1, <1>2, <1>3 DEF Base, TypeOK, ExclusiveRows, InsertsOwned
<1>7. RunningNeverCommitted' /\ Keyed' /\ Budget'
  BY <1>2 DEF Base, RunningNeverCommitted, Keyed, Budget
<1>8. QED BY <1>4, <1>5, <1>6, <1>7 DEF Base

(* A task without a collector fails in a transaction of its own.           *)
LEMMA FailUnhandledBase ==
  ASSUME Base, NEW w \in Worker, NEW t \in Task, FailUnhandled(w, t)
  PROVE  Base'
<1> DEFINE q == With(rows[t], "failed", 0, rows[t].retries)
<1>1. /\ rows[t] \in Row
      /\ rows[t].status = "pending"
      /\ rows[t].key \in Key \ HandledKey
      /\ \A v \in Worker : t \notin locks[v]
      /\ attempts[t] = rows[t].retries
      /\ rows[t].retries \in 0..MaxRetries
  BY PickedTask DEF Base, TypeOK, FailUnhandled, Budget
<1>2. /\ q \in Row /\ q.status = "failed" /\ q.key = rows[t].key
      /\ q.retries = rows[t].retries
  <2>1. "failed" \in Status
    BY DEF Status
  <2>2. 0 \in 0..MaxDelay /\ rows[t].retries \in 0..(MaxRetries + 1)
    BY <1>1, RowFields, Zero
  <2>3. QED BY <1>1, <2>1, <2>2, WithRow
<1>3. /\ rows' = [s \in Task |-> IF s = t THEN q ELSE rows[s]]
      /\ attempts' = [attempts EXCEPT ![t] = @ + 1]
      /\ closed' \in SUBSET Task
      /\ UNCHANGED <<phase, leased, elapsed, locks, want, crashes, resets>>
  BY NothingExpired DEF Base, TypeOK, FailUnhandled
<1>4. attempts[t] + 1 \in 0..(MaxRetries + 1)
  BY <1>1, BoundAssumption DEF BoundAssumption
<1>5. TypeOK'
  BY <1>2, <1>3, <1>4 DEF Base, TypeOK
<1>6. TransactionsOK' /\ LocksOK' /\ ExclusiveRows'
  BY <1>1, <1>3 DEF Base, TypeOK, TransactionsOK, LocksOK, ExclusiveRows, Open
<1>7. RunningNeverCommitted' /\ InsertsOwned' /\ Keyed'
  BY <1>1, <1>2, <1>3 DEF Base, RunningNeverCommitted, InsertsOwned, Keyed
<1>8. Budget'
  BY <1>1, <1>2, <1>3 DEF Base, TypeOK, Budget
<1>9. QED BY <1>5, <1>6, <1>7, <1>8 DEF Base

(* A rejected start rolls back and ends the process.                       *)
LEMMA RejectStartBase ==
  ASSUME Base, NEW w \in Worker, NEW t \in Task, RejectStart(w, t)
  PROVE  Base'
<1>1. /\ phase[w] = "idle"
      /\ phase' = [phase EXCEPT ![w] = "down"]
      /\ UNCHANGED <<rows, leased, elapsed, locks, want, closed, attempts,
                     crashes, resets>>
  BY DEF RejectStart
<1>2. TypeOK'
  BY <1>1 DEF Base, TypeOK, Phase
<1>3. TransactionsOK'
  BY <1>1 DEF Base, TypeOK, TransactionsOK, Open
<1>4. QED
  BY <1>1, <1>2, <1>3 DEF Base, RunningNeverCommitted, LocksOK, ExclusiveRows,
                          InsertsOwned, Keyed, Budget

(* A restarted worker is idle.                                             *)
LEMMA RestartBase ==
  ASSUME Base, NEW w \in Worker, Restart(w)
  PROVE  Base'
<1>1. /\ phase[w] = "down"
      /\ phase' = [phase EXCEPT ![w] = "idle"]
      /\ UNCHANGED <<rows, leased, elapsed, locks, want, closed, attempts,
                     crashes, resets>>
  BY DEF Restart
<1>2. TypeOK'
  BY <1>1 DEF Base, TypeOK, Phase
<1>3. TransactionsOK'
  BY <1>1 DEF Base, TypeOK, TransactionsOK, Open
<1>4. QED
  BY <1>1, <1>2, <1>3 DEF Base, RunningNeverCommitted, LocksOK, ExclusiveRows,
                          InsertsOwned, Keyed, Budget

(* Closing a component touches neither table nor transactions.             *)
LEMMA CloseComponentBase ==
  ASSUME Base, NEW t \in Task, CloseComponent(t)
  PROVE  Base'
<1>1. TypeOK'
  BY DEF Base, TypeOK, CloseComponent
<1>2. QED BY <1>1, IdleBase DEF CloseComponent

(* An enqueue that finds an active row locks it.                           *)
LEMMA AbsorbBase ==
  ASSUME Base, NEW w \in Worker, NEW k \in Key, NEW t \in Task,
         Absorb(w, k, t)
  PROVE  Base'
<1>1. /\ Open(w)
      /\ phase' = [phase EXCEPT ![w] = "collecting"]
      /\ want' = [want EXCEPT ![w] = NoKey]
      /\ locks' = [locks EXCEPT ![w] = @ \cup {t}]
      /\ UNCHANGED <<rows, leased, elapsed, closed, attempts, crashes, resets>>
  BY DEF Absorb, Enqueuing, Resume, Open
<1>2. \A v \in Worker : t \in locks[v] => v = w
  BY DEF Absorb, LockedBy
<1>3. rows[t].status \in {"pending", "uncommitted"}
  BY DEF Absorb, VisibleRows, ActiveRows, Active, Base, RunningNeverCommitted
<1>4. TypeOK'
  BY <1>1 DEF Base, TypeOK, Phase
<1>5. TransactionsOK'
  BY <1>1 DEF Base, TypeOK, TransactionsOK, Open
<1>6. LocksOK' /\ ExclusiveRows' /\ InsertsOwned'
  BY <1>1, <1>2, <1>3 DEF Base, TypeOK, LocksOK, ExclusiveRows, InsertsOwned
<1>7. RunningNeverCommitted' /\ Keyed' /\ Budget'
  BY <1>1 DEF Base, RunningNeverCommitted, Keyed, Budget
<1>8. QED BY <1>4, <1>5, <1>6, <1>7 DEF Base

(* An insert fills a free slot and belongs to its transaction.             *)
LEMMA InsertBase ==
  ASSUME Base, NEW w \in Worker, NEW k \in Key, NEW t \in Task,
         NEW d \in 0..MaxDelay, Insert(w, k, t, d)
  PROVE  Base'
<1> DEFINE q == NewRow(k, "uncommitted", d)
<1>1. q \in Row /\ q.status = "uncommitted" /\ q.key = k /\ q.retries = 0
  BY NewRowRow
<1>2. /\ rows \in [Task -> Row]
      /\ rows' = [rows EXCEPT ![t] = q]
      /\ rows[t].status = "absent"
      /\ Open(w)
      /\ phase' = [phase EXCEPT ![w] = "collecting"]
      /\ want' = [want EXCEPT ![w] = NoKey]
      /\ locks' = [locks EXCEPT ![w] = @ \cup {t}]
      /\ UNCHANGED <<leased, elapsed, closed, attempts, crashes, resets>>
  BY DEF Insert, Enqueuing, Resume, Open, Base, TypeOK
<1>3. rows'[t] = q /\ \A s \in Task \ {t} : rows'[s] = rows[s]
  BY <1>2
<1>4. \A v \in Worker : t \notin locks[v]
  BY <1>2 DEF Base, LocksOK
<1>5. TypeOK'
  BY <1>1, <1>2 DEF Base, TypeOK, Phase
<1>6. LocksOK' /\ ExclusiveRows' /\ InsertsOwned'
  BY <1>1, <1>2, <1>3, <1>4 DEF Base, TypeOK, LocksOK, ExclusiveRows, InsertsOwned
<1>7. TransactionsOK'
  BY <1>2, <1>3, <1>4 DEF Base, TypeOK, TransactionsOK, Open
<1>8. RunningNeverCommitted' /\ Keyed' /\ Budget'
  BY <1>1, <1>2, <1>3, BoundAssumption
     DEF Base, RunningNeverCommitted, Keyed, Budget, BoundAssumption
<1>9. QED BY <1>5, <1>6, <1>7, <1>8 DEF Base

(* An enqueue that has to wait changes only what it waits for.             *)
LEMMA WaitBase ==
  ASSUME Base, NEW w \in Worker, NEW k \in Key,
         WaitForIndex(w, k) \/ WaitForRow(w, k)
  PROVE  Base'
<1>1. PICK p \in {"inserting", "reselecting"} :
        /\ Open(w)
        /\ phase' = [phase EXCEPT ![w] = p]
        /\ want' = [want EXCEPT ![w] = k]
        /\ UNCHANGED <<rows, leased, elapsed, locks, closed, attempts, crashes,
                       resets>>
  BY DEF WaitForIndex, WaitForRow, Enqueuing, Open
<1>2. TypeOK'
  BY <1>1 DEF Base, TypeOK, Phase
<1>3. TransactionsOK'
  BY <1>1 DEF Base, TypeOK, TransactionsOK, Open
<1>4. QED
  BY <1>1, <1>2, <1>3 DEF Base, RunningNeverCommitted, LocksOK, ExclusiveRows,
                          InsertsOwned, Keyed, Budget

(* The end of a transaction, whatever becomes of its leased task.          *)
LEMMA CommitBase ==
  ASSUME Base, NEW w \in Worker, NEW t \in Task, NEW out \in Row,
         Open(w), t = leased[w],
         out.status \in {"pending", "succeeded", "failed"},
         out.key = rows[t].key,
         out.status = "pending" => /\ out.retries = rows[t].retries + 1
                                   /\ out.retries \in 0..MaxRetries,
         out.status = "failed" => rows[t].retries = MaxRetries,
         out.status = "succeeded" => out.retries = rows[t].retries,
         rows' = Committed(w, out),
         attempts' = [attempts EXCEPT ![t] = @ + 1],
         closed' \in SUBSET Task,
         Release(w, "idle"),
         UNCHANGED <<crashes, resets>>
  PROVE  Base'
<1>1. /\ rows[t] \in Row
      /\ rows[t].status = "pending"
      /\ rows[t].key \in Key
      /\ t \in locks[w]
      /\ attempts[t] = rows[t].retries
      /\ rows[t].retries \in 0..MaxRetries
  BY DEF Base, TypeOK, TransactionsOK, Keyed, Budget
<1>2. /\ rows' \in [Task -> Row]
      /\ rows'[t] = out
      /\ \A s \in Task \ {t} :
           /\ rows'[s].key = rows[s].key
           /\ rows'[s].retries = rows[s].retries
           /\ rows'[s].status =
                IF s \in locks[w] /\ rows[s].status = "uncommitted"
                THEN "pending" ELSE rows[s].status
  <2>1. DOMAIN rows' = Task /\ rows' = [s \in Task |-> rows'[s]]
    BY DEF Committed
  <2>2. QED BY <2>1, CommittedRow
<1>3. /\ phase' = [phase EXCEPT ![w] = "idle"]
      /\ leased' = [leased EXCEPT ![w] = NoTask]
      /\ elapsed' = [elapsed EXCEPT ![w] = 0]
      /\ locks' = [locks EXCEPT ![w] = {}]
      /\ want' = [want EXCEPT ![w] = NoKey]
  BY DEF Release
<1>4. TypeOK'
  <2>1. attempts[t] + 1 \in 0..(MaxRetries + 1)
    BY <1>1, BoundAssumption DEF BoundAssumption
  <2>2. phase' \in [Worker -> Phase] /\ leased' \in [Worker -> Task \cup {NoTask}]
    BY <1>3 DEF Base, TypeOK, Phase
  <2>3. elapsed' \in [Worker -> 0..MaxDelay]
    BY <1>3, Zero DEF Base, TypeOK
  <2>4. /\ locks' \in [Worker -> SUBSET Task]
        /\ want' \in [Worker -> Key \cup {NoKey}]
    BY <1>3 DEF Base, TypeOK
  <2>5. attempts' \in [Task -> 0..(MaxRetries + 1)]
    BY <2>1 DEF Base, TypeOK
  <2>6. QED BY <1>2, <2>2, <2>3, <2>4, <2>5 DEF Base, TypeOK
<1>5. TransactionsOK'
  <2> SUFFICES ASSUME NEW v \in Worker
               PROVE  /\ Open(v)' => /\ leased'[v] \in locks'[v]
                                     /\ rows'[leased'[v]].status = "pending"
                      /\ ~Open(v)' => leased'[v] = NoTask /\ locks'[v] = {}
                      /\ phase'[v] \in {"inserting", "reselecting"} =>
                           want'[v] \in Key
    BY DEF TransactionsOK
  <2>1. CASE v = w
    BY <1>3, <2>1 DEF Base, TypeOK, Open
  <2>2. CASE v # w
    <3>1. /\ phase'[v] = phase[v] /\ leased'[v] = leased[v]
          /\ locks'[v] = locks[v] /\ want'[v] = want[v]
      BY <1>3, <2>2 DEF Base, TypeOK
    <3>2. Open(v) => leased[v] \in Task /\ leased[v] # t
      BY <1>1, <2>2 DEF Base, TypeOK, TransactionsOK, ExclusiveRows
    <3>3. QED BY <1>2, <3>1, <3>2 DEF Base, TransactionsOK, Open
  <2>3. QED BY <2>1, <2>2
<1>6. LocksOK' /\ ExclusiveRows'
  <2>1. \A v \in Worker : locks'[v] \subseteq locks[v] /\ t \notin locks'[v]
    BY <1>1, <1>3 DEF Base, TypeOK, ExclusiveRows
  <2>2. QED BY <1>2, <2>1 DEF Base, TypeOK, LocksOK, ExclusiveRows
<1>7. InsertsOwned'
  <2> SUFFICES ASSUME NEW s \in Task, rows'[s].status = "uncommitted"
               PROVE  \E v \in Worker : s \in locks'[v]
    BY DEF InsertsOwned
  <2>1. s # t /\ rows[s].status = "uncommitted" /\ s \notin locks[w]
    BY <1>2
  <2>2. QED BY <2>1, <1>3 DEF Base, TypeOK, InsertsOwned
<1>8. RunningNeverCommitted' /\ Keyed'
  BY <1>1, <1>2 DEF Base, RunningNeverCommitted, Keyed
<1>9. Budget'
  <2>1. /\ attempts'[t] = rows[t].retries + 1
        /\ \A s \in Task \ {t} : attempts'[s] = attempts[s]
    BY <1>1 DEF Base, TypeOK
  <2>2. QED BY <1>1, <1>2, <2>1, BoundAssumption DEF Base, Budget, BoundAssumption
<1>10. QED BY <1>4, <1>5, <1>6, <1>7, <1>8, <1>9 DEF Base

(* A commit after the collector returned.                                  *)
LEMMA SucceedBase ==
  ASSUME Base, NEW w \in Worker, Succeed(w)
  PROVE  Base'
<1> DEFINE t == leased[w]
           r == rows[t]
           out == With(r, "succeeded", r.wait, r.retries)
<1>1. Open(w) /\ t \in Task /\ r \in Row
  BY DEF Succeed, Open, Base, TypeOK, TransactionsOK
<1>2. /\ out \in Row /\ out.status = "succeeded" /\ out.key = r.key
      /\ out.retries = r.retries
  <2>1. "succeeded" \in Status
    BY DEF Status
  <2>2. r.wait \in 0..MaxDelay /\ r.retries \in 0..(MaxRetries + 1)
    BY <1>1, RowFields
  <2>3. QED BY <1>1, <2>1, <2>2, WithRow
<1>3. /\ rows' = Committed(w, out)
      /\ attempts' = [attempts EXCEPT ![t] = @ + 1]
      /\ closed' \in SUBSET Task
      /\ Release(w, "idle")
      /\ UNCHANGED <<crashes, resets>>
  BY DEF Succeed, Base, TypeOK
<1> HIDE DEF t, out
<1>4. t = leased[w] /\ r = rows[t]
  BY DEF t
<1>5. QED BY <1>1, <1>2, <1>3, <1>4, CommitBase

(* A commit after the collector raised.                                    *)
LEMMA RaiseBase ==
  ASSUME Base, NEW w \in Worker, NEW d \in 0..MaxDelay, Raise(w, d)
  PROVE  Base'
<1> DEFINE t == leased[w]
           r == rows[t]
           out == Retried(w, d)
<1>1. Open(w) /\ t \in Task /\ r \in Row /\ r.retries \in 0..MaxRetries
  <2>1. Open(w)
    BY DEF Raise, Open, Deadlocked, ConflictVanished, TableFull
  <2>2. QED BY <2>1 DEF Base, TypeOK, TransactionsOK, Budget
<1>2. /\ out \in Row /\ out.key = r.key /\ out.retries = r.retries + 1
      /\ \/ out.status = "pending" /\ r.retries < MaxRetries
         \/ out.status = "failed" /\ r.retries = MaxRetries
  BY <1>1, RetriedRow DEF Base
<1>3. /\ rows' = Committed(w, out)
      /\ attempts' = [attempts EXCEPT ![t] = @ + 1]
      /\ closed' \in SUBSET Task
      /\ Release(w, "idle")
      /\ UNCHANGED <<crashes, resets>>
  BY <1>1 DEF Raise, Base, TypeOK
<1> HIDE DEF t, out
<1>4. t = leased[w] /\ r = rows[t]
  BY DEF t
<1>5. out.status = "pending" => out.retries \in 0..MaxRetries
  BY <1>1, <1>2, BoundAssumption DEF BoundAssumption
<1>6. QED BY <1>1, <1>2, <1>3, <1>4, <1>5, CommitBase

(* A rollback frees the slots of the transaction's own inserts.            *)
LEMMA AbandonBase ==
  ASSUME Base, NEW w \in Worker, Crash(w) \/ Abort(w)
  PROVE  Base'
<1>1. /\ phase' = [phase EXCEPT ![w] = "down"]
      /\ leased' = [leased EXCEPT ![w] = NoTask]
      /\ elapsed' = [elapsed EXCEPT ![w] = 0]
      /\ locks' = [locks EXCEPT ![w] = {}]
      /\ want' = [want EXCEPT ![w] = NoKey]
      /\ UNCHANGED <<closed, attempts, resets>>
      /\ crashes' \in 0..MaxCrashes
  BY BoundAssumption
     DEF Crash, Abort, Abandon, Release, Base, TypeOK, BoundAssumption
<1>2. /\ rows' \in [Task -> Row]
      /\ \A t \in Task :
           rows'[t] = IF t \in locks[w] /\ rows[t].status = "uncommitted"
                      THEN Absent ELSE rows[t]
  BY AbsentRow DEF Crash, Abort, Abandon, RolledBack, Base, TypeOK
<1>3. \A v \in Worker : /\ locks'[v] \subseteq locks[v]
                        /\ locks'[v] \cap locks[w] = {}
  BY <1>1 DEF Base, TypeOK, ExclusiveRows
<1>4. TypeOK'
  <2>1. phase' \in [Worker -> Phase] /\ leased' \in [Worker -> Task \cup {NoTask}]
    BY <1>1 DEF Base, TypeOK, Phase
  <2>2. elapsed' \in [Worker -> 0..MaxDelay]
    BY <1>1, Zero DEF Base, TypeOK
  <2>3. QED BY <1>1, <1>2, <2>1, <2>2 DEF Base, TypeOK
<1>5. TransactionsOK'
  <2> SUFFICES ASSUME NEW v \in Worker
               PROVE  /\ Open(v)' => /\ leased'[v] \in locks'[v]
                                     /\ rows'[leased'[v]].status = "pending"
                      /\ ~Open(v)' => leased'[v] = NoTask /\ locks'[v] = {}
                      /\ phase'[v] \in {"inserting", "reselecting"} =>
                           want'[v] \in Key
    BY DEF TransactionsOK
  <2>1. CASE v = w
    BY <1>1, <2>1 DEF Base, TypeOK, Open
  <2>2. CASE v # w
    <3>1. /\ phase'[v] = phase[v] /\ leased'[v] = leased[v]
          /\ locks'[v] = locks[v] /\ want'[v] = want[v]
      BY <1>1, <2>2 DEF Base, TypeOK
    <3>2. Open(v) => leased[v] \in Task
      BY DEF Base, TypeOK, TransactionsOK
    <3>3. QED BY <1>2, <3>1, <3>2 DEF Base, TransactionsOK, Open
  <2>3. QED BY <2>1, <2>2
<1>6. LocksOK' /\ ExclusiveRows'
  BY <1>2, <1>3 DEF Base, TypeOK, LocksOK, ExclusiveRows
<1>7. InsertsOwned'
  <2> SUFFICES ASSUME NEW t \in Task, rows'[t].status = "uncommitted"
               PROVE  \E v \in Worker : t \in locks'[v]
    BY DEF InsertsOwned
  <2>1. rows[t].status = "uncommitted" /\ t \notin locks[w]
    BY <1>2, AbsentRow
  <2>2. QED BY <2>1, <1>1 DEF Base, TypeOK, InsertsOwned
<1>8. RunningNeverCommitted' /\ Keyed' /\ Budget'
  BY <1>1, <1>2, AbsentRow DEF Base, RunningNeverCommitted, Keyed, Budget
<1>9. QED BY <1>4, <1>5, <1>6, <1>7, <1>8 DEF Base

(* The reset rows were failed, so nobody had locked them.                  *)
LEMMA RetryFailedBase ==
  ASSUME Base, NEW S \in SUBSET Task, RetryFailed(S)
  PROVE  Base'
<1>1. /\ \A t \in S : /\ rows[t].status = "failed"
                      /\ \A w \in Worker : t \notin locks[w]
      /\ attempts' = [t \in Task |-> IF t \in S THEN 0 ELSE attempts[t]]
      /\ resets' \in 0..MaxResets
      /\ UNCHANGED <<phase, leased, elapsed, locks, want, closed, crashes>>
  BY BoundAssumption
     DEF RetryFailed, Selected, LockedBy, Base, TypeOK, BoundAssumption
<1>2. /\ rows' \in [Task -> Row]
      /\ \A t \in Task \ S : rows'[t] = rows[t]
      /\ \A t \in S : /\ rows'[t].status = "pending"
                      /\ rows'[t].key = rows[t].key
                      /\ rows'[t].retries = 0
  <2>1. "pending" \in Status
    BY DEF Status
  <2>2. \A t \in Task : LET q == With(rows[t], "pending", 0, 0)
                        IN  /\ q \in Row /\ q.status = "pending"
                            /\ q.key = rows[t].key /\ q.retries = 0
    BY <2>1, Zero, WithRow DEF Base, TypeOK
  <2>3. QED BY <2>2 DEF RetryFailed, Base, TypeOK
<1>3. TypeOK'
  BY <1>1, <1>2, Zero DEF Base, TypeOK
<1>4. LocksOK' /\ ExclusiveRows' /\ InsertsOwned'
  BY <1>1, <1>2 DEF Base, TypeOK, LocksOK, ExclusiveRows, InsertsOwned
<1>5. TransactionsOK'
  BY <1>1, <1>2 DEF Base, TypeOK, TransactionsOK, Open
<1>6. RunningNeverCommitted' /\ Keyed' /\ Budget'
  BY <1>1, <1>2, BoundAssumption
     DEF Base, RunningNeverCommitted, Keyed, Budget, BoundAssumption
<1>7. QED BY <1>3, <1>4, <1>5, <1>6 DEF Base

(* A refused retry changes no row.                                         *)
LEMMA RefuseRetryBase ==
  ASSUME Base, NEW S \in SUBSET Task, RefuseRetry(S)
  PROVE  Base'
<1>1. TypeOK'
  BY BoundAssumption DEF RefuseRetry, Base, TypeOK, BoundAssumption
<1>2. QED BY <1>1, IdleBase DEF RefuseRetry

(* Time changes no status, key or count.                                   *)
LEMMA TickBase ==
  ASSUME Base, Tick
  PROVE  Base'
<1>1. /\ rows' \in [Task -> Row]
      /\ \A t \in Task : /\ rows'[t].status = rows[t].status
                         /\ rows'[t].key = rows[t].key
                         /\ rows'[t].retries = rows[t].retries
  <2>1. \A t \in Task : /\ Minus(rows[t].wait, 1) \in 0..MaxDelay
                       /\ Minus(rows[t].lease, 1) \in 0..LeaseSeconds
    BY RowFields, MinusBound, BoundAssumption DEF Base, TypeOK, BoundAssumption
  <2>2. QED BY <2>1, RowFields, RowOf DEF Base, TypeOK, Tick
<1>2. /\ elapsed' \in [Worker -> 0..MaxDelay]
      /\ UNCHANGED <<phase, leased, locks, want, closed, attempts, crashes,
                     resets>>
  BY BoundAssumption DEF Tick, Base, TypeOK, BoundAssumption
<1>3. TypeOK'
  BY <1>1, <1>2 DEF Base, TypeOK
<1>4. LocksOK' /\ ExclusiveRows' /\ InsertsOwned'
  BY <1>1, <1>2 DEF Base, TypeOK, LocksOK, ExclusiveRows, InsertsOwned
<1>5. TransactionsOK'
  BY <1>1, <1>2 DEF Base, TypeOK, TransactionsOK, Open
<1>6. RunningNeverCommitted' /\ Keyed' /\ Budget'
  BY <1>1, <1>2 DEF Base, RunningNeverCommitted, Keyed, Budget
<1>7. QED BY <1>3, <1>4, <1>5, <1>6 DEF Base

-----------------------------------------------------------------------------
(* Base is inductive, and so what it implies holds of every behaviour.     *)

(* Every step of the specification keeps Base.                             *)
LEMMA NextBase == Base /\ [Next]_vars => Base'
<1> SUFFICES ASSUME Base, [Next]_vars PROVE Base'
  OBVIOUS
<1>1. ASSUME NEW t \in Task, NEW k \in Key, NEW d \in 0..MaxDelay,
             Enqueue(t, k, d)
      PROVE  Base'
  BY <1>1, EnqueueBase
<1>2. ASSUME NEW t \in Task, CloseComponent(t) PROVE Base'
  BY <1>2, CloseComponentBase
<1>3. ASSUME NEW w \in Worker, Begin(w) PROVE Base'
  BY <1>3, LeaseBase, FailUnhandledBase, RejectStartBase DEF Begin
<1>4. ASSUME NEW w \in Worker, Collect(w) PROVE Base'
  BY <1>4, AbsorbBase, InsertBase, WaitBase DEF Collect
<1>5. ASSUME NEW w \in Worker, Finish(w) PROVE Base'
  BY <1>5, SucceedBase, RaiseBase, AbandonBase DEF Finish
<1>6. ASSUME NEW w \in Worker, Crash(w) \/ Restart(w) PROVE Base'
  BY <1>6, AbandonBase, RestartBase
<1>7. ASSUME NEW S \in SUBSET Task, RetryFailed(S) \/ RefuseRetry(S)
      PROVE  Base'
  BY <1>7, RetryFailedBase, RefuseRetryBase
<1>8. CASE Tick
  BY <1>8, TickBase
<1>9. CASE UNCHANGED vars
  <2>1. TypeOK'
    BY <1>9 DEF Base, TypeOK, vars
  <2>2. QED BY <1>9, <2>1, IdleBase DEF vars
<1>10. QED BY <1>1, <1>2, <1>3, <1>4, <1>5, <1>6, <1>7, <1>8, <1>9 DEF Next

(* The inductive invariant of the queue.                                   *)
THEOREM BaseInvariant == Spec => []Base
<1>1. Init => Base
  BY InitBase
<1>2. Base /\ [Next]_vars => Base'
  BY NextBase
<1>3. QED BY <1>1, <1>2, PTL DEF Spec

(* Every variable of the queue keeps its type.                             *)
THEOREM TypeCorrect == Spec => []TypeOK
<1>1. Base => TypeOK
  BY DEF Base
<1>2. QED BY <1>1, BaseInvariant, PTL

(* No transaction of worker.py or repositories.py commits a row as         *)
(* running, whatever crashes.                                              *)
LEMMA RunningTheorem == Spec => []RunningNeverCommitted
<1>1. Base => RunningNeverCommitted
  BY DEF Base
<1>2. QED BY <1>1, BaseInvariant, PTL

(* run_once never exceeds the retry budget, and the retries in a row count *)
(* the failed attempts, for every MaxRetries and any number of workers.    *)
THEOREM RetryTheorem == Spec => []RetryBudget
<1>1. Base => RetryBudget
  BY DEF Base, Budget, RetryBudget
<1>2. QED BY <1>1, BaseInvariant, PTL

(* A row that an enqueue returned stays active until the transaction that  *)
(* enqueued it ends.                                                       *)
THEOREM AnswerTheorem == Spec => []AnswerStaysActive
<1>1. Base => AnswerStaysActive
  BY DEF Base, LocksOK, AnswerStaysActive
<1>2. QED BY <1>1, BaseInvariant, PTL

-----------------------------------------------------------------------------
(* One transaction per key, one active row per key: the two facts need     *)
(* each other.                                                             *)

Keys == ExclusiveKeys /\ UniqueActiveKey

(* The statuses of the rows that UniqueActiveKey compares.                 *)
Live == Active \cup {"uncommitted"}

(* Steps that lock no row, make none live and change no key of a live or   *)
(* locked row.                                                             *)
LEMMA KeysShrink ==
  ASSUME Base, Keys,
         \A w \in Worker : locks'[w] \subseteq locks[w],
         \A w \in Worker : \A t \in locks'[w] : rows'[t].key = rows[t].key,
         \A t \in Task : rows'[t].status \in Live =>
                           rows[t].status \in Live /\ rows'[t].key = rows[t].key
  PROVE  Keys'
<1>1. ExclusiveKeys'
  BY DEF Keys, ExclusiveKeys
<1>2. UniqueActiveKey'
  BY DEF Keys, UniqueActiveKey, Live, Active
<1>3. QED BY <1>1, <1>2 DEF Keys

(* Two live rows of a key are one row.                                     *)
LEMMA LiveUnique ==
  ASSUME UniqueActiveKey, NEW s \in Task, NEW t \in Task,
         rows[s].status \in Live, rows[t].status \in Live,
         rows[s].key = rows[t].key
  PROVE  s = t
  BY DEF UniqueActiveKey, Live

(* The rows that transactions have locked are live.                        *)
LEMMA LockedLive ==
  ASSUME Base, NEW w \in Worker, NEW t \in locks[w]
  PROVE  t \in Task /\ rows[t].status \in Live
  BY DEF Base, TypeOK, LocksOK, Live, Active

(* An enqueue found no live row of its key.                                *)
LEMMA EnqueueKeys ==
  ASSUME Base, Keys, NEW t \in Task, NEW k \in Key, NEW d \in 0..MaxDelay,
         Enqueue(t, k, d)
  PROVE  Keys'
<1>1. /\ rows'[t].key = k
      /\ \A s \in Task \ {t} : rows'[s] = rows[s]
      /\ locks' = locks
      /\ \A w \in Worker : t \notin locks[w]
  BY DEF Enqueue, Base, TypeOK, LocksOK, NewRow
<1>2. \A s \in Task : rows[s].status \in Live => rows[s].key # k
  BY DEF Enqueue, ActiveRows, Base, InsertsOwned, Live
<1>3. ExclusiveKeys'
  BY <1>1 DEF Base, TypeOK, Keys, ExclusiveKeys
<1>4. UniqueActiveKey'
  BY <1>1, <1>2 DEF Keys, UniqueActiveKey, Live, Active
<1>5. QED BY <1>3, <1>4 DEF Keys

(* A transaction that locks one more live row, of a key no other one has.  *)
LEMMA LockKeys ==
  ASSUME Base, Keys, NEW w \in Worker, NEW t \in Task,
         rows[t].status \in Live,
         \A v \in Worker \ {w} : t \notin locks[v],
         \A s \in Task : rows'[s] = rows[s],
         \A v \in Worker \ {w} : locks'[v] = locks[v],
         locks'[w] \subseteq locks[w] \cup {t}
  PROVE  Keys'
<1>1. \A v \in Worker \ {w} : \A s \in locks[v] : rows[s].key # rows[t].key
  BY LiveUnique, LockedLive DEF Keys
<1>2. ExclusiveKeys'
  BY <1>1 DEF Base, TypeOK, Keys, ExclusiveKeys
<1>3. UniqueActiveKey'
  BY DEF Keys, UniqueActiveKey
<1>4. QED BY <1>2, <1>3 DEF Keys

(* A leased row was live and unlocked.                                     *)
LEMMA LeaseKeys ==
  ASSUME Base, Keys, NEW w \in Worker, NEW t \in Task, Lease(w, t)
  PROVE  Keys'
<1>1. rows[t].status \in Live /\ \A v \in Worker : t \notin locks[v]
  BY PickedTask DEF Lease, Live, Active
<1>2. Expired = {}
  BY NothingExpired DEF Base
<1>3. rows' = rows /\ locks' = [locks EXCEPT ![w] = {t}]
  BY <1>2 DEF Lease
<1>4. QED BY <1>1, <1>3, LockKeys DEF Base, TypeOK

(* An enqueue locks a live row that no other transaction has.              *)
LEMMA AbsorbKeys ==
  ASSUME Base, Keys, NEW w \in Worker, NEW k \in Key, NEW t \in Task,
         Absorb(w, k, t)
  PROVE  Keys'
<1>1. /\ rows[t].status \in Live
      /\ \A v \in Worker \ {w} : t \notin locks[v]
      /\ rows' = rows /\ locks' = [locks EXCEPT ![w] = @ \cup {t}]
  BY DEF Absorb, VisibleRows, ActiveRows, LockedBy, Live
<1>2. QED BY <1>1, LockKeys DEF Base, TypeOK

(* An insert found no live row of its key and no lock on one.              *)
LEMMA InsertKeys ==
  ASSUME Base, Keys, NEW w \in Worker, NEW k \in Key, NEW t \in Task,
         NEW d \in 0..MaxDelay, Insert(w, k, t, d)
  PROVE  Keys'
<1>1. /\ rows'[t].key = k
      /\ \A s \in Task \ {t} : rows'[s] = rows[s]
      /\ locks' = [locks EXCEPT ![w] = @ \cup {t}]
      /\ \A v \in Worker : t \notin locks[v]
  BY DEF Insert, Base, TypeOK, LocksOK, NewRow
<1>2. \A v \in Worker \ {w} : \A s \in locks[v] : rows[s].key # k
  BY DEF Insert, HeldElsewhere
<1>3. \A s \in Task : rows[s].status \in Live => rows[s].key # k
  BY <1>2 DEF Insert, VisibleRows, ActiveRows, Base, InsertsOwned, Live
<1>4. ExclusiveKeys'
  BY <1>1, <1>2 DEF Base, TypeOK, Keys, ExclusiveKeys
<1>5. UniqueActiveKey'
  BY <1>1, <1>3 DEF Keys, UniqueActiveKey, Live, Active
<1>6. QED BY <1>4, <1>5 DEF Keys

(* A commit: the transaction's inserts, live before, become pending.       *)
LEMMA CommitKeys ==
  ASSUME Base, Keys, NEW w \in Worker, NEW out \in Row, Open(w),
         out.key = rows[leased[w]].key,
         rows' = Committed(w, out), Release(w, "idle")
  PROVE  Keys'
<1>1. leased[w] \in Task /\ rows[leased[w]].status = "pending"
  BY DEF Base, TypeOK, TransactionsOK
<1>2. \A t \in Task :
        /\ rows'[t].key = rows[t].key
        /\ rows'[t].status \in Live => rows[t].status \in Live
  BY <1>1, CommittedRow DEF Live, Active
<1>3. \A v \in Worker : locks'[v] \subseteq locks[v] /\ locks[v] \subseteq Task
  BY DEF Release, Base, TypeOK
<1>4. QED BY <1>2, <1>3, KeysShrink

(* A rollback removes live rows and locks.                                 *)
LEMMA AbandonKeys ==
  ASSUME Base, Keys, NEW w \in Worker, Crash(w) \/ Abort(w)
  PROVE  Keys'
<1>1. \A t \in Task :
        rows'[t] = IF t \in locks[w] /\ rows[t].status = "uncommitted"
                   THEN Absent ELSE rows[t]
  BY DEF Crash, Abort, Abandon, RolledBack
<1>2. \A v \in Worker : /\ locks'[v] \subseteq locks[v]
                        /\ locks'[v] \cap locks[w] = {}
                        /\ locks[v] \subseteq Task
  BY DEF Crash, Abort, Abandon, Release, Base, TypeOK, ExclusiveRows
<1>3. \A t \in Task : rows'[t].status \in Live => rows'[t] = rows[t]
  BY <1>1, AbsentRow DEF Live, Active
<1>4. \A v \in Worker : \A t \in locks'[v] : rows'[t].key = rows[t].key
  BY <1>1, <1>2
<1>5. QED BY <1>2, <1>3, <1>4, KeysShrink

(* Both ends of a transaction are commits.                                 *)
LEMMA FinishKeys ==
  ASSUME Base, Keys, NEW w \in Worker, Finish(w)
  PROVE  Keys'
<1>1. CASE Succeed(w)
  <2> DEFINE r == rows[leased[w]]
             out == With(r, "succeeded", r.wait, r.retries)
  <2>1. Open(w) /\ r \in Row
    BY <1>1 DEF Succeed, Open, Base, TypeOK, TransactionsOK
  <2>2. out \in Row /\ out.key = r.key
    <3>1. "succeeded" \in Status
      BY DEF Status
    <3>2. QED BY <2>1, <3>1, RowFields, WithRow
  <2>3. rows' = Committed(w, out) /\ Release(w, "idle")
    BY <1>1 DEF Succeed
  <2> HIDE DEF out
  <2>4. QED BY <2>1, <2>2, <2>3, CommitKeys
<1>2. ASSUME NEW d \in 0..MaxDelay, Raise(w, d) PROVE Keys'
  <2> DEFINE r == rows[leased[w]]
             out == Retried(w, d)
  <2>1. Open(w)
    BY <1>2 DEF Raise, Open, Deadlocked, ConflictVanished, TableFull
  <2>2. leased[w] \in Task /\ r.retries \in 0..MaxRetries
    BY <2>1 DEF Base, TypeOK, TransactionsOK, Budget
  <2>3. out \in Row /\ out.key = r.key
    BY <2>2, RetriedRow DEF Base
  <2>4. rows' = Committed(w, out) /\ Release(w, "idle")
    BY <1>2 DEF Raise
  <2> HIDE DEF out
  <2>5. QED BY <2>1, <2>3, <2>4, CommitKeys
<1>3. QED BY <1>1, <1>2, AbandonKeys DEF Finish

(* A retry that is not refused found its keys free.                        *)
LEMMA RetryFailedKeys ==
  ASSUME Base, Keys, NEW S \in SUBSET Task, RetryFailed(S)
  PROVE  Keys'
<1>1. /\ locks' = locks
      /\ \A t \in Task : rows'[t].key = rows[t].key
      /\ \A t \in Task \ S : rows'[t].status = rows[t].status
  BY DEF RetryFailed, With
<1>2. \A s \in Task, t \in S : rows[s].status \in Live => rows[s].key # rows[t].key
  BY DEF RetryFailed, Selected, KeysFree, ActiveRows, Base, InsertsOwned, Live
<1>3. \A s, t \in S : rows[s].key = rows[t].key => s = t
  BY DEF RetryFailed, KeysFree
<1>4. ExclusiveKeys'
  BY <1>1 DEF Base, TypeOK, Keys, ExclusiveKeys
<1>5. UniqueActiveKey'
  BY <1>1, <1>2, <1>3 DEF Keys, UniqueActiveKey, Live, Active
<1>6. QED BY <1>4, <1>5 DEF Keys

(* Steps that leave every status and every key alone and lock nothing.     *)
LEMMA IdleKeys ==
  ASSUME Base, Keys, locks' = locks,
         \A t \in Task : rows'[t].status = rows[t].status /\ rows'[t].key = rows[t].key
  PROVE  Keys'
  BY KeysShrink DEF Base, TypeOK

(* A task without a collector leaves the live rows.                        *)
LEMMA FailUnhandledKeys ==
  ASSUME Base, Keys, NEW w \in Worker, NEW t \in Task, FailUnhandled(w, t)
  PROVE  Keys'
<1>1. /\ locks' = locks
      /\ \A s \in Task : rows'[s].key = rows[s].key
      /\ \A s \in Task \ {t} : rows'[s] = rows[s]
      /\ rows'[t].status = "failed"
  BY NothingExpired DEF FailUnhandled, With, Base
<1>2. QED BY <1>1, KeysShrink DEF Base, TypeOK, Live, Active

(* Every step keeps the keys exclusive and unique.                         *)
LEMMA NextKeys == Base /\ Keys /\ [Next]_vars => Keys'
<1> SUFFICES ASSUME Base, Keys, [Next]_vars PROVE Keys'
  OBVIOUS
<1>1. ASSUME NEW t \in Task, NEW k \in Key, NEW d \in 0..MaxDelay,
             Enqueue(t, k, d)
      PROVE  Keys'
  BY <1>1, EnqueueKeys
<1>2. ASSUME NEW t \in Task, CloseComponent(t) PROVE Keys'
  BY <1>2, IdleKeys DEF CloseComponent
<1>3. ASSUME NEW w \in Worker, Begin(w) PROVE Keys'
  <2>1. ASSUME NEW t \in Task, RejectStart(w, t) PROVE Keys'
    BY <2>1, IdleKeys DEF RejectStart
  <2>2. QED BY <1>3, <2>1, LeaseKeys, FailUnhandledKeys DEF Begin
<1>4. ASSUME NEW w \in Worker, Collect(w) PROVE Keys'
  <2>1. ASSUME NEW k \in Key, WaitForIndex(w, k) \/ WaitForRow(w, k)
        PROVE  Keys'
    BY <2>1, IdleKeys DEF WaitForIndex, WaitForRow
  <2>2. QED BY <1>4, <2>1, AbsorbKeys, InsertKeys DEF Collect
<1>5. ASSUME NEW w \in Worker, Finish(w) PROVE Keys'
  BY <1>5, FinishKeys
<1>6. ASSUME NEW w \in Worker, Crash(w) PROVE Keys'
  BY <1>6, AbandonKeys
<1>7. ASSUME NEW w \in Worker, Restart(w) PROVE Keys'
  BY <1>7, IdleKeys DEF Restart
<1>8. ASSUME NEW S \in SUBSET Task, RetryFailed(S) PROVE Keys'
  BY <1>8, RetryFailedKeys
<1>9. ASSUME NEW S \in SUBSET Task, RefuseRetry(S) PROVE Keys'
  BY <1>9, IdleKeys DEF RefuseRetry
<1>10. CASE Tick
  BY <1>10, IdleKeys DEF Tick
<1>11. CASE UNCHANGED vars
  BY <1>11, IdleKeys DEF vars
<1>12. QED
  BY <1>1, <1>2, <1>3, <1>4, <1>5, <1>6, <1>7, <1>8, <1>9, <1>10, <1>11 DEF Next

(* The two facts about keys hold of every behaviour.                       *)
THEOREM KeysInvariant == Spec => []Keys
<1>1. Init => Keys
  BY AbsentRow DEF Init, Keys, ExclusiveKeys, UniqueActiveKey, Active
<1>2. Base /\ Keys /\ [Next]_vars => Keys'
  BY NextKeys
<1>3. QED BY <1>1, <1>2, BaseInvariant, PTL DEF Spec

(* lease_next and enqueue never let two open transactions hold the same    *)
(* idempotency key.                                                        *)
THEOREM ExclusionTheorem == Spec => []ExclusiveKeys
<1>1. Keys => ExclusiveKeys
  BY DEF Keys
<1>2. QED BY <1>1, KeysInvariant, PTL

(* enqueue, run_once and retry_failed never make two active rows of one    *)
(* idempotency key.                                                        *)
THEOREM UniquenessTheorem == Spec => []UniqueActiveKey
<1>1. Keys => UniqueActiveKey
  BY DEF Keys
<1>2. QED BY <1>1, KeysInvariant, PTL

-----------------------------------------------------------------------------
(* The queue implements the life cycle of TaskLifecycle.                   *)

(* A leased task is locked, pending, and leased by one worker only.        *)
LEMMA LeasedOnce ==
  ASSUME Base, NEW w \in Worker, leased[w] \in Task
  PROVE  /\ leased[w] \in locks[w]
         /\ rows[leased[w]].status = "pending"
         /\ \A v \in Worker : leased[w] \in locks[v] => v = w
         /\ \A v \in Worker : leased[v] = leased[w] => v = w
<1>1. \A v \in Worker : leased[v] \in Task =>
        leased[v] \in locks[v] /\ rows[leased[v]].status = "pending"
  BY TaskAssumption DEF Base, TransactionsOK
<1>2. QED BY <1>1 DEF Base, ExclusiveRows

(* The steps of the life cycle, in the terms of the queue.                 *)
LEMMA MoveOf ==
  ASSUME NEW t \in Task,
         \/ /\ LifeOf(t) = "absent" /\ LifeOf(t)' = "pending"
            /\ rows'[t].retries = 0
         \/ /\ LifeOf(t) = "pending" /\ LifeOf(t)' \in {"running", "failed"}
            /\ rows'[t].retries = rows[t].retries
         \/ /\ LifeOf(t) = "running" /\ LifeOf(t)' \in {"pending", "succeeded"}
            /\ rows'[t].retries = rows[t].retries
         \/ /\ LifeOf(t) = "running" /\ rows'[t].retries = rows[t].retries + 1
            /\ \/ LifeOf(t)' = "pending" /\ rows[t].retries < MaxRetries
               \/ LifeOf(t)' = "failed" /\ rows[t].retries = MaxRetries
         \/ /\ LifeOf(t) = "failed" /\ LifeOf(t)' = "pending"
            /\ rows'[t].retries = 0
         \/ /\ LifeOf(t)' = LifeOf(t)
            /\ rows'[t].retries = rows[t].retries
  PROVE  Life!Move(t)
  BY DEF Life!Move, Life!Appear, Life!Start, Life!Recover, Life!Complete,
         Life!Postpone, Life!Exhaust, Life!Refuse, Life!Reset, Life!Stay,
         Life!Becomes

(* A task that nobody leases or gives back, and whose row seems the same,  *)
(* stays as it is.                                                         *)
LEMMA StayOf ==
  ASSUME NEW t \in Task,
         \A w \in Worker : leased'[w] = t <=> leased[w] = t,
         \/ rows'[t].status = rows[t].status
         \/ {rows'[t].status, rows[t].status} = {"absent", "uncommitted"},
         rows'[t].retries = rows[t].retries
  PROVE  Life!Move(t)
<1>1. LifeOf(t)' = LifeOf(t)
  BY DEF LifeOf
<1>2. QED BY <1>1, MoveOf

(* Nobody has leased any task.                                             *)
LEMMA InitLife == Init => Life!Init
<1> SUFFICES ASSUME Init PROVE Life!Init
  OBVIOUS
<1>1. \A t \in Task : LifeOf(t) = "absent" /\ rows[t].retries = 0
  BY AbsentRow, TaskAssumption DEF Init, LifeOf
<1>2. QED BY <1>1 DEF Life!Init

(* Actions that touch neither rows nor leases.                             *)
LEMMA IdleLife ==
  ASSUME UNCHANGED <<rows, leased>>
  PROVE  Life!Next
  BY StayOf DEF Life!Next

LEMMA EnqueueLife ==
  ASSUME Base, NEW t \in Task, NEW k \in Key, NEW d \in 0..MaxDelay,
         Enqueue(t, k, d)
  PROVE  Life!Next
<1> DEFINE q == NewRow(k, "pending", d)
<1>1. q.status = "pending" /\ q.retries = 0
  BY NewRowRow
<1>2. /\ rows'[t] = q
      /\ \A s \in Task \ {t} : rows'[s] = rows[s]
      /\ leased' = leased
      /\ rows[t].status = "absent"
  BY DEF Enqueue, Base, TypeOK
<1>3. \A w \in Worker : leased[w] # t
  BY <1>2, LeasedOnce
<1>4. LifeOf(t) = "absent" /\ LifeOf(t)' = "pending" /\ rows'[t].retries = 0
  BY <1>1, <1>2, <1>3 DEF LifeOf
<1> HIDE DEF q
<1>5. Life!Move(t)
  BY <1>4, MoveOf
<1>6. \A s \in Task \ {t} : Life!Move(s)
  BY <1>2, StayOf
<1>7. QED BY <1>5, <1>6 DEF Life!Next

LEMMA LeaseLife ==
  ASSUME Base, NEW w \in Worker, NEW t \in Task, Lease(w, t)
  PROVE  Life!Next
<1>1. /\ rows[t].status = "pending"
      /\ \A v \in Worker : t \notin locks[v]
  BY PickedTask DEF Lease
<1>2. /\ leased' = [leased EXCEPT ![w] = t]
      /\ rows' = rows
      /\ leased \in [Worker -> Task \cup {NoTask}]
      /\ leased[w] = NoTask
  BY DEF Lease, Base, TypeOK, TransactionsOK, Open
<1>3. \A v \in Worker : leased[v] # t
  BY <1>1, LeasedOnce
<1>4. LifeOf(t) = "pending" /\ LifeOf(t)' = "running"
  BY <1>1, <1>2, <1>3 DEF LifeOf
<1>5. Life!Move(t)
  BY <1>2, <1>4, MoveOf
<1>6. ASSUME NEW s \in Task \ {t} PROVE Life!Move(s)
  <2>1. \A v \in Worker : leased'[v] = s <=> leased[v] = s
    BY <1>2, TaskAssumption
  <2>2. QED BY <1>2, <2>1, StayOf
<1>7. QED BY <1>5, <1>6 DEF Life!Next

LEMMA FailUnhandledLife ==
  ASSUME Base, NEW w \in Worker, NEW t \in Task, FailUnhandled(w, t)
  PROVE  Life!Next
<1> DEFINE q == With(rows[t], "failed", 0, rows[t].retries)
<1>1. /\ rows[t] \in Row
      /\ rows[t].status = "pending"
      /\ \A v \in Worker : t \notin locks[v]
  BY PickedTask DEF Base, TypeOK, FailUnhandled
<1>2. q.status = "failed" /\ q.retries = rows[t].retries
  BY DEF With
<1>3. /\ rows' = [s \in Task |-> IF s = t THEN q ELSE rows[s]]
      /\ leased' = leased
  BY NothingExpired DEF Base, FailUnhandled
<1> HIDE DEF q
<1>4. \A v \in Worker : leased[v] # t
  BY <1>1, LeasedOnce
<1>5. LifeOf(t) = "pending" /\ LifeOf(t)' = "failed"
      /\ rows'[t].retries = rows[t].retries
  BY <1>1, <1>2, <1>3, <1>4 DEF LifeOf
<1>6. Life!Move(t)
  BY <1>5, MoveOf
<1>7. \A s \in Task \ {t} : Life!Move(s)
  BY <1>3, StayOf
<1>8. QED BY <1>6, <1>7 DEF Life!Next

(* An uncommitted insert cannot be seen from outside.                      *)
LEMMA InsertLife ==
  ASSUME Base, NEW w \in Worker, NEW k \in Key, NEW t \in Task,
         NEW d \in 0..MaxDelay, Insert(w, k, t, d)
  PROVE  Life!Next
<1> DEFINE q == NewRow(k, "uncommitted", d)
<1>1. q.status = "uncommitted" /\ q.retries = 0
  BY NewRowRow
<1>2. /\ rows'[t] = q
      /\ \A s \in Task \ {t} : rows'[s] = rows[s]
      /\ leased' = leased
      /\ rows[t].status = "absent" /\ rows[t].retries = 0
  BY DEF Insert, Base, TypeOK, Budget
<1> HIDE DEF q
<1>3. Life!Move(t)
  BY <1>1, <1>2, StayOf
<1>4. \A s \in Task \ {t} : Life!Move(s)
  BY <1>2, StayOf
<1>5. QED BY <1>3, <1>4 DEF Life!Next

(* A commit ends the leased task and makes the inserts appear.             *)
LEMMA CommitLife ==
  ASSUME Base, NEW w \in Worker, NEW t \in Task, NEW out \in Row,
         Open(w), t = leased[w],
         \/ out.status = "succeeded" /\ out.retries = rows[t].retries
         \/ /\ out.retries = rows[t].retries + 1
            /\ \/ out.status = "pending" /\ rows[t].retries < MaxRetries
               \/ out.status = "failed" /\ rows[t].retries = MaxRetries,
         rows' = Committed(w, out), Release(w, "idle")
  PROVE  Life!Next
<1>1. /\ leased' = [leased EXCEPT ![w] = NoTask]
      /\ leased \in [Worker -> Task \cup {NoTask}]
  BY DEF Release, Base, TypeOK
<1>2. \A v \in Worker : leased[v] = t => v = w
  BY LeasedOnce
<1>3. \A s \in Task : rows'[s] = Committed(w, out)[s]
  OBVIOUS
<1>4. Life!Move(t)
  <2>1. rows'[t] = out
    BY <1>3, CommittedRow
  <2>2. LifeOf(t) = "running" /\ LifeOf(t)' = out.status
    BY <1>1, <1>2, <2>1, TaskAssumption DEF LifeOf
  <2>3. QED BY <2>1, <2>2, MoveOf
<1>5. ASSUME NEW s \in Task \ {t} PROVE Life!Move(s)
  <2>1. \A v \in Worker : leased'[v] = s <=> leased[v] = s
    BY <1>1, TaskAssumption
  <2>2. /\ rows'[s].retries = rows[s].retries
        /\ rows'[s].status = IF s \in locks[w] /\ rows[s].status = "uncommitted"
                             THEN "pending" ELSE rows[s].status
    BY <1>3, CommittedRow
  <2>3. CASE s \in locks[w] /\ rows[s].status = "uncommitted"
    <3>1. \A v \in Worker : leased[v] # s
      BY <2>3, LeasedOnce
    <3>2. rows[s].retries = 0
      BY <2>3 DEF Base, Budget
    <3>3. LifeOf(s) = "absent" /\ LifeOf(s)' = "pending"
      BY <2>1, <2>2, <2>3, <3>1 DEF LifeOf
    <3>4. QED BY <2>2, <3>2, <3>3, MoveOf
  <2>4. CASE ~(s \in locks[w] /\ rows[s].status = "uncommitted")
    BY <2>1, <2>2, <2>4, StayOf
  <2>5. QED BY <2>3, <2>4
<1>6. QED BY <1>4, <1>5 DEF Life!Next

LEMMA SucceedLife ==
  ASSUME Base, NEW w \in Worker, Succeed(w)
  PROVE  Life!Next
<1> DEFINE t == leased[w]
           r == rows[t]
           out == With(r, "succeeded", r.wait, r.retries)
<1>1. Open(w) /\ t \in Task /\ r \in Row
  BY DEF Succeed, Open, Base, TypeOK, TransactionsOK
<1>2. out \in Row /\ out.status = "succeeded" /\ out.retries = r.retries
  <2>1. "succeeded" \in Status
    BY DEF Status
  <2>2. r.wait \in 0..MaxDelay /\ r.retries \in 0..(MaxRetries + 1)
    BY <1>1, RowFields
  <2>3. QED BY <1>1, <2>1, <2>2, WithRow
<1>3. rows' = Committed(w, out) /\ Release(w, "idle")
  BY DEF Succeed
<1> HIDE DEF t, out
<1>4. t = leased[w] /\ r = rows[t]
  BY DEF t
<1>5. QED BY <1>1, <1>2, <1>3, <1>4, CommitLife

LEMMA RaiseLife ==
  ASSUME Base, NEW w \in Worker, NEW d \in 0..MaxDelay, Raise(w, d)
  PROVE  Life!Next
<1> DEFINE t == leased[w]
           r == rows[t]
           out == Retried(w, d)
<1>1. Open(w) /\ t \in Task /\ r \in Row /\ r.retries \in 0..MaxRetries
  <2>1. Open(w)
    BY DEF Raise, Open, Deadlocked, ConflictVanished, TableFull
  <2>2. QED BY <2>1 DEF Base, TypeOK, TransactionsOK, Budget
<1>2. /\ out \in Row /\ out.retries = r.retries + 1
      /\ \/ out.status = "pending" /\ r.retries < MaxRetries
         \/ out.status = "failed" /\ r.retries = MaxRetries
  BY <1>1, RetriedRow DEF Base
<1>3. rows' = Committed(w, out) /\ Release(w, "idle")
  BY DEF Raise
<1> HIDE DEF t, out
<1>4. t = leased[w] /\ r = rows[t]
  BY DEF t
<1>5. QED BY <1>1, <1>2, <1>3, <1>4, CommitLife

(* After a rollback the leased task waits again as it was, and the inserts *)
(* were never there.                                                       *)
LEMMA AbandonLife ==
  ASSUME Base, NEW w \in Worker, Crash(w) \/ Abort(w)
  PROVE  Life!Next
<1>1. /\ leased' = [leased EXCEPT ![w] = NoTask]
      /\ leased \in [Worker -> Task \cup {NoTask}]
      /\ \A t \in Task :
           rows'[t] = IF t \in locks[w] /\ rows[t].status = "uncommitted"
                      THEN Absent ELSE rows[t]
  BY DEF Crash, Abort, Abandon, Release, RolledBack, Base, TypeOK
<1> SUFFICES ASSUME NEW t \in Task PROVE Life!Move(t)
  BY DEF Life!Next
<1>2. CASE t = leased[w]
  <2>1. rows[t].status = "pending" /\ rows'[t] = rows[t]
    BY <1>1, <1>2, LeasedOnce
  <2>2. \A v \in Worker : leased'[v] # t
    BY <1>1, <1>2, LeasedOnce, TaskAssumption
  <2>3. LifeOf(t) = "running" /\ LifeOf(t)' = "pending"
    BY <1>2, <2>1, <2>2 DEF LifeOf
  <2>4. QED BY <2>1, <2>3, MoveOf
<1>3. CASE t # leased[w]
  <2>1. \A v \in Worker : leased'[v] = t <=> leased[v] = t
    BY <1>1, <1>3, TaskAssumption
  <2>2. CASE t \in locks[w] /\ rows[t].status = "uncommitted"
    <3>1. rows'[t].status = "absent" /\ rows'[t].retries = rows[t].retries
      BY <1>1, <2>2, AbsentRow DEF Base, Budget
    <3>2. QED BY <2>1, <2>2, <3>1, StayOf
  <2>3. CASE ~(t \in locks[w] /\ rows[t].status = "uncommitted")
    BY <1>1, <2>1, <2>3, StayOf
  <2>4. QED BY <2>2, <2>3
<1>4. QED BY <1>2, <1>3

LEMMA RetryFailedLife ==
  ASSUME Base, NEW S \in SUBSET Task, RetryFailed(S)
  PROVE  Life!Next
<1>1. /\ leased' = leased
      /\ \A t \in Task : rows'[t] = IF t \in S THEN With(rows[t], "pending", 0, 0)
                                               ELSE rows[t]
      /\ \A t \in S : rows[t].status = "failed"
  BY DEF RetryFailed, Selected
<1> SUFFICES ASSUME NEW t \in Task PROVE Life!Move(t)
  BY DEF Life!Next
<1>2. CASE t \in S
  <2>1. rows'[t] = With(rows[t], "pending", 0, 0)
    BY <1>1, <1>2
  <2>2. rows'[t].status = "pending" /\ rows'[t].retries = 0
    BY <2>1 DEF With
  <2>3. \A w \in Worker : leased[w] # t
    BY <1>1, <1>2, LeasedOnce
  <2>4. LifeOf(t) = "failed" /\ LifeOf(t)' = "pending"
    BY <1>1, <1>2, <2>2, <2>3 DEF LifeOf
  <2>5. QED BY <2>2, <2>4, MoveOf
<1>3. CASE t \notin S
  BY <1>1, <1>3, StayOf
<1>4. QED BY <1>2, <1>3

LEMMA TickLife ==
  ASSUME Base, Tick
  PROVE  Life!Next
<1>1. /\ leased' = leased
      /\ \A t \in Task : /\ rows'[t].status = rows[t].status
                         /\ rows'[t].retries = rows[t].retries
  BY DEF Tick
<1>2. QED BY <1>1, StayOf DEF Life!Next

(* Every step of the queue is a step of the life cycle of each task.       *)
LEMMA NextLife == Base /\ [Next]_vars => Life!Next
<1> SUFFICES ASSUME Base, [Next]_vars PROVE Life!Next
  OBVIOUS
<1>1. CASE \E t \in Task, k \in Key, d \in 0..MaxDelay : Enqueue(t, k, d)
  BY <1>1, EnqueueLife
<1>2. CASE \E t \in Task : CloseComponent(t)
  BY <1>2, IdleLife DEF CloseComponent
<1>3. ASSUME NEW w \in Worker, Begin(w) PROVE Life!Next
  <2>1. PICK t \in Task : Lease(w, t) \/ FailUnhandled(w, t) \/ RejectStart(w, t)
    BY <1>3 DEF Begin
  <2>2. CASE Lease(w, t)
    BY <2>2, LeaseLife
  <2>3. CASE FailUnhandled(w, t)
    BY <2>3, FailUnhandledLife
  <2>4. CASE RejectStart(w, t)
    BY <2>4, IdleLife DEF RejectStart
  <2>5. QED BY <2>1, <2>2, <2>3, <2>4
<1>4. ASSUME NEW w \in Worker, Collect(w) PROVE Life!Next
  <2>1. CASE \E k \in Key, t \in Task : Absorb(w, k, t)
    BY <2>1, IdleLife DEF Absorb
  <2>2. CASE \E k \in Key, t \in Task, d \in 0..MaxDelay : Insert(w, k, t, d)
    BY <2>2, InsertLife
  <2>3. CASE \E k \in Key : WaitForIndex(w, k) \/ WaitForRow(w, k)
    BY <2>3, IdleLife DEF WaitForIndex, WaitForRow
  <2>4. QED BY <1>4, <2>1, <2>2, <2>3 DEF Collect
<1>5. ASSUME NEW w \in Worker, Finish(w) PROVE Life!Next
  BY <1>5, SucceedLife, AbandonLife, RaiseLife DEF Finish
<1>6. ASSUME NEW w \in Worker, Crash(w) PROVE Life!Next
  BY <1>6, AbandonLife
<1>7. ASSUME NEW w \in Worker, Restart(w) PROVE Life!Next
  BY <1>7, IdleLife DEF Restart
<1>8. CASE \E S \in SUBSET Task : RetryFailed(S)
  BY <1>8, RetryFailedLife
<1>9. CASE \E S \in SUBSET Task : RefuseRetry(S)
  BY <1>9, IdleLife DEF RefuseRetry
<1>10. CASE Tick
  BY <1>10, TickLife
<1>11. CASE UNCHANGED vars
  BY <1>11, IdleLife DEF vars
<1>12. QED
  BY <1>1, <1>2, <1>3, <1>4, <1>5, <1>6, <1>7, <1>8, <1>9, <1>10, <1>11 DEF Next

(* The queue implements the documented life cycle of its tasks: what an    *)
(* outside observer sees of a task moves along its edges only, whatever    *)
(* the workers, the enqueuers and the operator do at the same time         *)
(* (lease_next, enqueue, Worker.run_once, retry_failed).                   *)
THEOREM LifecycleTheorem == Spec => LifecycleRefined
<1>1. Base /\ [Next]_vars => [Life!Next]_(Life!vars)
  BY NextLife
<1>2. QED BY <1>1, InitLife, BaseInvariant, PTL
             DEF Spec, LifecycleRefined, Life!Spec
=============================================================================
