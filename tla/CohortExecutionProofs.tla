----------------------- MODULE CohortExecutionProofs -----------------------
(***************************************************************************)
(* One cohort between any number of workers and the planner: for every     *)
(* number of components, pages, retries and deaths, its status is the one  *)
(* of its components, each open component has one task waiting, the pages  *)
(* of a scan have no hole, and what has been written off stays so.         *)
(***************************************************************************)
EXTENDS CohortExecution, FiniteSetTheorems, TLAPS

(* The statuses that the components of this cohort can have.               *)
Lived == {"pending", "running", "complete", "partial", "failed", "corrupted",
          "missed_due_to_capacity"}

Lives == [status : Lived, started : BOOLEAN]

Phase == {"idle", "starting", "collecting", "closing", "down", "materializing",
          "finalizing"}

Shapes ==
  /\ comps \in [Component -> Lives]
  /\ scans \in [Hot -> Scan]
  /\ stored = [c \in Component |-> stored[c]]
  /\ tasks = [c \in Component |-> tasks[c]]
  /\ phase \in [Process -> Phase]
  /\ locks = [q \in Process |-> locks[q]]
  /\ todo = [q \in Process |-> todo[q]]
  /\ draft = [q \in Process |-> draft[q]]
  /\ phase[Planner] \in {"idle", "materializing", "finalizing"}
  /\ \A w \in Worker : phase[w] \notin {"materializing", "finalizing"}

(* A row is locked by one transaction.                                     *)
Disjoint == \A p, q \in Process : p # q => locks[p] \cap locks[q] = {}

(* The slices of a component: all but the last one are over, and the last
   one waits as long as the component can be started.  The scan has counted
   the slices that were tried.                                             *)
LastSlice(c, m) ==
  /\ tasks[c] \in [0..m -> Task]
  /\ \A n \in 0..(m - 1) : tasks[c][n].status # "pending" /\ tasks[c][n].tried
  /\ tasks[c][m].status = "pending" => tasks[c][m].retries <= MaxRetries
  /\ comps[c].status \in Startable => tasks[c][m].status = "pending"
  /\ comps[c].status \notin Startable \cup Missed => tasks[c][m].status # "pending"
  /\ c \in Hot =>
       /\ scans[c].slices = IF tasks[c][m].tried THEN m + 1 ELSE m
       /\ comps[c].status \in Startable =>
            (scans[c].status = "running" <=> tasks[c][m].tried)

Sliced == \A c \in Component : \E m \in Nat : LastSlice(c, m)

Kept(c) ==
  /\ c \notin Hot => stored[c] = {}
  /\ c \in Hot => /\ stored[c] = 1..(scans[c].next - 1)
                  /\ scans[c].outcome = "complete" => scans[c].next = Pages + 1

(* What an attempt is going to commit fits the rows it started from.       *)
Result(w) ==
  LET d == draft[w]
      c == d.comp
  IN  /\ d.goes \in Lived \ {"pending", "missed_due_to_capacity"}
      /\ d.failed \in BOOLEAN /\ d.follows \in BOOLEAN
      /\ d.failed => ~d.follows /\ (d.goes = "running" <=> Again(w))
      /\ ~d.failed => (d.goes = "running" <=> d.follows)
      /\ c \notin Hot => d.pages = {}
      /\ c \in Hot =>
           /\ d.scan \in Scan
           /\ scans[c].next <= d.scan.next
           /\ d.pages = scans[c].next .. (d.scan.next - 1)
           /\ d.scan.outcome = "complete" => d.scan.next = Pages + 1
           /\ d.scan.slices = IF scans[c].status = "running"
                               THEN scans[c].slices ELSE scans[c].slices + 1
           /\ d.goes = "running" => (d.scan.status = "running" <=> d.failed)

(* A worker holds its task; once it has started, its component, too.       *)
Hand(w) ==
  LET c == draft[w].comp
      n == draft[w].slice
  IN  /\ phase[w] \in {"starting", "collecting", "closing"} =>
           /\ c \in Component /\ n \in DOMAIN tasks[c]
           /\ tasks[c][n].status = "pending"
           /\ TaskRow(c, n) \in locks[w]
      /\ phase[w] = "starting" =>
           \/ todo[w] = <<CompRow(c), CohortRow>>
           \/ todo[w] \in {<<CohortRow>>, << >>} /\ CompRow(c) \in locks[w]
      /\ phase[w] \in {"collecting", "closing"} =>
           CompRow(c) \in locks[w] /\ comps[c].status \in Startable
      /\ phase[w] = "closing" => Result(w)

(* The planner has every component locked before it writes one off.  What
   it has read of the cohort may be old, but neither a write-off nor the
   end of all waiting is ever taken back.                                  *)
Reads ==
  phase[Planner] = "finalizing" =>
    /\ todo[Planner] \in Seq({CompRow(c) : c \in Component} \cup {CohortRow})
    /\ \A c \in Component :
         \/ CompRow(c) \in locks[Planner]
         \/ \E i \in DOMAIN todo[Planner] : todo[Planner][i] = CompRow(c)
    /\ draft[Planner] = "missed" => \E c \in Component : comps[c].status \in Missed
    /\ draft[Planner] = "partial" => \A c \in Component : comps[c].status # "pending"

Inv ==
  /\ Shapes /\ Disjoint /\ StatusTells /\ Sliced
  /\ \A c \in Component : Kept(c)
  /\ \A w \in Worker : Hand(w)
  /\ Reads

-----------------------------------------------------------------------------
(* What the statuses of components come to.                                *)
Started(x) == x.started \/ x.status \in {"running", "complete", "partial", "failed", "corrupted"}

Told(cs) ==
  IF \E c \in Component : cs[c].status = "corrupted" THEN "corrupted"
  ELSE IF \E c \in Component : cs[c].status = "running" THEN "running"
  ELSE IF \A c \in Component : cs[c].status = "pending" THEN "planned"
  ELSE IF \A c \in Component : ~Started(cs[c]) THEN "missed"
  ELSE IF \A c \in Component : cs[c].status = "complete" THEN "complete"
  ELSE IF \E c \in Component : cs[c].status = "pending" THEN "running"
  ELSE "partial"

LEMMA ToldIs ==
  ASSUME NEW cs \in [Component -> Lives]
  PROVE  Aggregate(Outcomes(cs)) = Told(cs)
<1> DEFINE parts == Outcomes(cs)
           required == {p \in parts : p.required}
           all == {p.status : p \in required}
           applicable == all \ {"not_applicable"}
           begun == \E p \in required : Begun(p)
<1>1. required = parts
  BY DEF Outcomes
<1>2. \A s : s \in all <=> \E c \in Component : cs[c].status = s
  <2>1. \A s : s \in all <=> \E p \in parts : p.status = s
    <3> HIDE DEF parts
    <3>1. \A s : s \in all <=> \E p \in required : p.status = s
      OBVIOUS
    <3> QED BY <1>1, <3>1
  <2>2. ASSUME NEW s
        PROVE  (\E p \in parts : p.status = s) <=> \E c \in Component : cs[c].status = s
    <3>1. ASSUME NEW c \in Component, cs[c].status = s PROVE \E p \in parts : p.status = s
      <4> DEFINE p == [required |-> TRUE, status |-> cs[c].status, started |-> cs[c].started]
      <4>1. p \in parts /\ p.status = s
        BY <3>1 DEF Outcomes
      <4> QED BY <4>1
    <3>2. ASSUME NEW p \in parts, p.status = s
          PROVE  \E c \in Component : cs[c].status = s
      BY <3>2 DEF Outcomes
    <3> QED BY <3>1, <3>2
  <2> QED BY <2>1, <2>2
<1>3. begun <=> \E c \in Component : Started(cs[c])
  <2>1. \A c \in Component :
          Begun([required |-> TRUE, status |-> cs[c].status, started |-> cs[c].started])
            <=> Started(cs[c])
    BY DEF Begun, Started, Active, Lives, Lived
  <2> QED BY <1>1, <2>1 DEF Outcomes
<1>4. all \subseteq Lived /\ all # {}
  <2> HIDE DEF all
  <2>1. \A c \in Component : cs[c].status \in Lived
    BY DEF Lives
  <2> QED BY <1>2, <2>1, ExecutionAssumption
<1>5. applicable = all
  BY <1>4 DEF Lived
<1>6. all \cap Active # {} <=> "running" \in all
  BY <1>4 DEF Active, Lived
<1>7. all = {"pending"} <=> \A c \in Component : cs[c].status = "pending"
  <2> HIDE DEF all
  <2>1. all = {"pending"} <=> \A s \in all : s = "pending"
    BY <1>4
  <2>2. (\A s \in all : s = "pending") <=> \A c \in Component : cs[c].status = "pending"
    BY <1>2
  <2> QED BY <2>1, <2>2
<1>8. all \subseteq {"complete", "not_applicable"} <=> \A c \in Component : cs[c].status = "complete"
  BY <1>2, <1>4 DEF Lived
<1>9. ~begun /\ all # {"pending"} => all \cap Missed # {}
  <2> SUFFICES ASSUME ~begun, all # {"pending"} PROVE all \cap Missed # {}
    OBVIOUS
  <2>1. \A s \in all : s \in {"pending", "missed_due_to_capacity"}
    BY <1>2, <1>3, <1>4 DEF Started, Lived
  <2> QED BY <2>1, <1>4 DEF Missed
<1>10. all # {"not_applicable"} /\ applicable # {"blocked"}
  BY <1>4, <1>5 DEF Lived
<1>11. Aggregate(parts) =
         IF "corrupted" \in all THEN "corrupted"
         ELSE IF "running" \in all THEN "running"
         ELSE IF all = {"pending"} THEN "planned"
         ELSE IF ~begun THEN "missed"
         ELSE IF all \subseteq {"complete", "not_applicable"} THEN "complete"
         ELSE IF "pending" \in all THEN "running"
         ELSE "partial"
  <2> HIDE DEF all, begun, applicable
  <2>1. Aggregate(parts) =
          IF "corrupted" \in all THEN "corrupted"
          ELSE IF all \cap Active # {} THEN "running"
          ELSE IF all = {"pending"} THEN "planned"
          ELSE IF all = {"not_applicable"} THEN "not_applicable"
          ELSE IF ~begun /\ applicable = {"blocked"} THEN "blocked"
          ELSE IF ~begun /\ applicable \cap Missed # {} THEN "missed"
          ELSE IF all \subseteq {"complete", "not_applicable"} THEN "complete"
          ELSE IF begun /\ "pending" \in all THEN "running"
          ELSE IF ~begun /\ applicable \subseteq {"pending", "blocked"} THEN "planned"
          ELSE "partial"
    BY DEF Aggregate, all, begun, applicable
  <2> QED BY <2>1, <1>5, <1>6, <1>9, <1>10
<1> HIDE DEF all, begun, applicable, required, parts
<1>12. ~begun <=> \A c \in Component : ~Started(cs[c])
  BY <1>3
<1>13. Aggregate(parts) = Told(cs)
  BY <1>2, <1>7, <1>8, <1>11, <1>12 DEF Told
<1> QED BY <1>13 DEF parts
-----------------------------------------------------------------------------
(* Steps of one process that commit nothing.                               *)
LEMMA DisjointKept ==
  ASSUME Shapes, Disjoint, NEW q \in Process, NEW S, locks' = [locks EXCEPT ![q] = S],
         \A r \in S : \A p \in Process \ {q} : r \notin locks[p]
  PROVE  Disjoint'
<1>1. locks'[q] = S /\ \A p \in Process \ {q} : locks'[p] = locks[p]
  BY DEF Shapes
<1> QED BY <1>1 DEF Disjoint

LEMMA ShapesKept ==
  ASSUME Shapes, UNCHANGED rows, NEW q \in Process,
         NEW s \in Phase, phase' = [phase EXCEPT ![q] = s],
         q \in Worker => s \notin {"materializing", "finalizing"},
         q = Planner => s \in {"idle", "materializing", "finalizing"},
         NEW S, locks' = locks \/ locks' = [locks EXCEPT ![q] = S],
         NEW U, todo' = todo \/ todo' = [todo EXCEPT ![q] = U],
         NEW D, draft' = draft \/ draft' = [draft EXCEPT ![q] = D]
  PROVE  Shapes'
<1>1. locks' = [p \in Process |-> locks'[p]]
  BY DEF Shapes
<1>2. todo' = [p \in Process |-> todo'[p]]
  BY DEF Shapes
<1>3. draft' = [p \in Process |-> draft'[p]]
  BY DEF Shapes
<1>4. /\ phase' \in [Process -> Phase]
      /\ phase'[Planner] \in {"idle", "materializing", "finalizing"}
      /\ \A w \in Worker : phase'[w] \notin {"materializing", "finalizing"}
  BY DEF Shapes, Process
<1> QED BY <1>1, <1>2, <1>3, <1>4 DEF Shapes, rows

LEMMA Private ==
  ASSUME Inv, NEW q \in Process, UNCHANGED rows, Shapes', Disjoint',
         \A p \in Process \ {q} :
           /\ phase'[p] = phase[p] /\ locks'[p] = locks[p]
           /\ todo'[p] = todo[p] /\ draft'[p] = draft[p],
         q \in Worker => Hand(q)', q = Planner => Reads'
  PROVE  Inv'
<1>1. StatusTells'
  BY DEF Inv, StatusTells, rows, Outcomes
<1>2. Sliced'
  BY DEF Inv, Sliced, LastSlice, rows
<1>3. \A c \in Component : Kept(c)'
  BY DEF Inv, Kept, rows
<1>4. ASSUME NEW w \in Worker, w # q PROVE Hand(w)'
  <2>1. w \in Process \ {q}
    BY <1>4 DEF Process
  <2>2. Hand(w)
    BY DEF Inv
  <2> QED BY <2>1, <2>2 DEF Hand, Result, Again, rows
<1>5. Reads'
  <2>1. CASE q = Planner
    BY <2>1
  <2>2. CASE q # Planner
    <3>1. Planner \in Process \ {q}
      BY <2>2 DEF Process
    <3> QED BY <3>1 DEF Inv, Reads, rows
  <2> QED BY <2>1, <2>2
<1> QED BY <1>1, <1>2, <1>3, <1>4, <1>5 DEF Inv

(* The end of a transaction without a commit.                              *)
LEMMA Undone ==
  ASSUME Inv, NEW q \in Process, UNCHANGED rows, Released(q),
         NEW s \in Phase, phase' = [phase EXCEPT ![q] = s],
         q \in Worker => s \in {"idle", "down"}, q = Planner => s = "idle"
  PROVE  Inv'
<1>1. Shapes'
  BY DEF Inv, Shapes, Released, rows, Process
<1>2. Disjoint'
  <2>1. locks'[q] = {} /\ \A p \in Process \ {q} : locks'[p] = locks[p]
    BY DEF Inv, Shapes, Released
  <2> QED BY <2>1 DEF Inv, Disjoint
<1>3. \A p \in Process \ {q} :
        /\ phase'[p] = phase[p] /\ locks'[p] = locks[p]
        /\ todo'[p] = todo[p] /\ draft'[p] = draft[p]
  BY DEF Inv, Shapes, Released
<1>4. phase'[q] = s
  BY DEF Inv, Shapes
<1>5. q \in Worker => Hand(q)'
  BY <1>4 DEF Hand
<1>6. q = Planner => Reads'
  BY <1>4 DEF Reads
<1> QED BY <1>1, <1>2, <1>3, <1>5, <1>6, Private

LEMMA AbortInv ==
  ASSUME Inv, NEW q \in Process, Abort(q)
  PROVE  Inv'
<1> DEFINE s == IF q \in Worker THEN "down" ELSE "idle"
<1>1. q = Planner => s = "idle"
  BY ExecutionAssumption
<1>2. s \in Phase
  BY DEF Phase
<1>3. UNCHANGED rows /\ Released(q) /\ phase' = [phase EXCEPT ![q] = s]
  BY DEF Abort, rows
<1> HIDE DEF s
<1>4. q \in Worker => s \in {"idle", "down"}
  BY DEF s
<1> QED BY <1>1, <1>2, <1>3, <1>4, Undone

LEMMA CrashInv ==
  ASSUME Inv, NEW w \in Worker, Crash(w)
  PROVE  Inv'
<1>1. w \in Process /\ w # Planner
  BY ExecutionAssumption DEF Process
<1>2. UNCHANGED rows /\ Released(w) /\ phase' = [phase EXCEPT ![w] = "down"]
  BY DEF Crash, rows
<1>3. "down" \in Phase
  BY DEF Phase
<1> QED BY <1>1, <1>2, <1>3, Undone

LEMMA MaterializeInv ==
  ASSUME Inv, Materialize
  PROVE  Inv'
<1>1. Planner \in Process /\ Planner \notin Worker
  BY ExecutionAssumption DEF Process
<1>2. UNCHANGED rows /\ Released(Planner) /\ phase' = [phase EXCEPT ![Planner] = "idle"]
  BY DEF Materialize, rows
<1>3. "idle" \in Phase
  BY DEF Phase
<1> QED BY <1>1, <1>2, <1>3, Undone

(* A transaction gets a row that nobody else has.                          *)
LEMMA LockInv ==
  ASSUME Inv, NEW q \in Process, Lock(q)
  PROVE  Inv'
<1> DEFINE r == Head(todo[q])
<1>1. /\ locks' = [locks EXCEPT ![q] = locks[q] \cup {r}]
      /\ todo' = [todo EXCEPT ![q] = Tail(todo[q])]
      /\ UNCHANGED <<rows, phase, draft>>
      /\ todo[q] # << >>
  BY DEF Lock
<1>2. \A p \in Process \ {q} : r \notin locks[p]
  BY DEF Lock, Waits, Holder
<1>3. Shapes'
  BY <1>1 DEF Inv, Shapes, rows
<1>4. /\ locks'[q] = locks[q] \cup {r} /\ todo'[q] = Tail(todo[q])
      /\ \A p \in Process \ {q} :
           /\ phase'[p] = phase[p] /\ locks'[p] = locks[p]
           /\ todo'[p] = todo[p] /\ draft'[p] = draft[p]
  BY <1>1 DEF Inv, Shapes
<1>5. Disjoint'
  <2>1. \A p \in Process \ {q} : locks[p] \cap locks[q] = {}
    BY DEF Inv, Disjoint
  <2> HIDE DEF r
  <2> QED BY <1>2, <1>4, <2>1 DEF Inv, Disjoint
<1>6. ASSUME q \in Worker PROVE Hand(q)'
  <2>1. Hand(q)
    BY <1>6 DEF Inv
  <2>2. phase[q] = "starting" =>
          \/ todo'[q] = <<CohortRow>> /\ CompRow(draft[q].comp) \in locks'[q]
          \/ todo'[q] = << >> /\ CompRow(draft[q].comp) \in locks'[q]
    <3> SUFFICES ASSUME phase[q] = "starting"
                 PROVE  /\ todo'[q] = <<CohortRow>> \/ todo'[q] = << >>
                        /\ CompRow(draft[q].comp) \in locks'[q]
      OBVIOUS
    <3>1. CASE todo[q] = <<CompRow(draft[q].comp), CohortRow>>
      <4>1. r = CompRow(draft[q].comp) /\ Tail(todo[q]) = <<CohortRow>>
        BY <3>1
      <4> QED BY <4>1, <1>4
    <3>2. CASE todo[q] = <<CohortRow>> /\ CompRow(draft[q].comp) \in locks[q]
      <4>1. Tail(todo[q]) = << >>
        BY <3>2
      <4> QED BY <4>1, <3>2, <1>4
    <3> QED BY <2>1, <3>1, <3>2, <1>1 DEF Hand
  <2> HIDE DEF r
  <2> QED BY <2>1, <2>2, <1>1, <1>4 DEF Hand, Result, Again, rows
<1>7. ASSUME q = Planner PROVE Reads'
  <2> SUFFICES ASSUME phase[Planner] = "finalizing" PROVE Reads'
    BY <1>1 DEF Reads
  <2> DEFINE Some == {CompRow(c) : c \in Component} \cup {CohortRow}
  <2>1. todo[q] \in Seq(Some) /\ todo[q] # << >>
    BY <1>1, <1>7 DEF Inv, Reads
  <2> HIDE DEF Some
  <2>2. /\ todo'[q] \in Seq(Some)
        /\ \A i \in DOMAIN todo[q] :
             \/ todo[q][i] = r
             \/ \E j \in DOMAIN todo'[q] : todo'[q][j] = todo[q][i]
    <3>1. Tail(todo[q]) \in Seq(Some) /\ r = todo[q][1]
      BY <2>1
    <3>2. ASSUME NEW i \in DOMAIN todo[q], i # 1
          PROVE  i - 1 \in DOMAIN Tail(todo[q]) /\ Tail(todo[q])[i - 1] = todo[q][i]
      BY <2>1, <3>2
    <3> QED BY <3>1, <3>2, <1>4
  <2>3. \A c \in Component :
          \/ CompRow(c) \in locks'[q]
          \/ \E i \in DOMAIN todo'[q] : todo'[q][i] = CompRow(c)
    <3> HIDE DEF r
    <3>1. \A c \in Component :
            \/ CompRow(c) \in locks[q]
            \/ \E i \in DOMAIN todo[q] : todo[q][i] = CompRow(c)
      BY <1>7 DEF Inv, Reads
    <3> QED BY <3>1, <2>2, <1>4
  <2> QED BY <1>7, <2>2, <2>3, <1>1 DEF Some, Inv, Reads, rows
<1> HIDE DEF r
<1> QED BY <1>1, <1>3, <1>4, <1>5, <1>6, <1>7, Private

LEMMA LeaseInv ==
  ASSUME Inv, NEW w \in Worker, NEW c \in Component, NEW n \in DOMAIN tasks[c], Lease(w, c, n)
  PROVE  Inv'
<1> DEFINE t == TaskRow(c, n)
           d == [comp |-> c, slice |-> n]
<1>1. w \in Process /\ w # Planner
  BY ExecutionAssumption DEF Process
<1>2. /\ locks' = [locks EXCEPT ![w] = {t}]
      /\ draft' = [draft EXCEPT ![w] = d]
      /\ todo' = [todo EXCEPT ![w] = <<CompRow(c), CohortRow>>]
      /\ phase' = [phase EXCEPT ![w] = "starting"]
      /\ UNCHANGED rows
  BY DEF Lease, rows
<1>3. /\ locks'[w] = {t} /\ draft'[w] = d
      /\ todo'[w] = <<CompRow(c), CohortRow>> /\ phase'[w] = "starting"
      /\ \A p \in Process \ {w} :
           /\ phase'[p] = phase[p] /\ locks'[p] = locks[p]
           /\ todo'[p] = todo[p] /\ draft'[p] = draft[p]
  BY <1>1, <1>2 DEF Inv, Shapes
<1>4. Shapes'
  <2> HIDE DEF t, d
  <2>1. "starting" \in Phase
    BY DEF Phase
  <2> QED BY <1>1, <1>2, <2>1, ShapesKept DEF Inv
<1>5. Disjoint'
  <2>1. \A p \in Process : t \notin locks[p]
    BY DEF Lease, Holder
  <2> HIDE DEF t
  <2> QED BY <2>1, <1>3 DEF Inv, Disjoint
<1>6. Hand(w)'
  <2>1. tasks[c][n].status = "pending" /\ tasks' = tasks
    BY <1>2 DEF Lease, rows
  <2> QED BY <2>1, <1>3 DEF Hand
<1> HIDE DEF t, d
<1> QED BY <1>1, <1>2, <1>3, <1>4, <1>5, <1>6, Private

LEMMA StartInv ==
  ASSUME Inv, NEW w \in Worker, Start(w)
  PROVE  Inv'
<1>1. w \in Process /\ w # Planner
  BY ExecutionAssumption DEF Process
<1>2. CASE /\ Executable(draft[w].comp)
           /\ phase' = [phase EXCEPT ![w] = "collecting"]
           /\ UNCHANGED <<locks, todo, draft>>
  <2>1. phase[w] = "starting" /\ todo[w] = << >> /\ UNCHANGED rows
    BY DEF Start, rows
  <2>2. phase'[w] = "collecting" /\ \A p \in Process \ {w} : phase'[p] = phase[p]
    BY <1>1, <1>2 DEF Inv, Shapes
  <2>3. Shapes' /\ Disjoint'
    BY <1>1, <1>2, <2>1 DEF Inv, Shapes, rows, Phase, Disjoint
  <2>4. Hand(w)
    BY DEF Inv
  <2>5. Hand(w)'
    BY <1>2, <2>1, <2>2, <2>4 DEF Hand, Executable, rows
  <2> QED BY <1>1, <1>2, <2>1, <2>2, <2>3, <2>5, Private
<1>3. CASE phase' = [phase EXCEPT ![w] = "down"] /\ Released(w)
  <2>1. UNCHANGED rows /\ "down" \in Phase
    BY DEF Start, rows, Phase
  <2> QED BY <1>1, <1>3, <2>1, Undone
<1> QED BY <1>2, <1>3 DEF Start

LEMMA RestartInv ==
  ASSUME Inv, NEW w \in Worker, Restart(w)
  PROVE  Inv'
<1>1. w \in Process /\ w # Planner
  BY ExecutionAssumption DEF Process
<1>2. phase' = [phase EXCEPT ![w] = "idle"] /\ UNCHANGED <<locks, todo, draft, rows>>
  BY DEF Restart, rows
<1>3. phase'[w] = "idle" /\ \A p \in Process \ {w} : phase'[p] = phase[p]
  BY <1>1, <1>2 DEF Inv, Shapes
<1>4. Shapes' /\ Disjoint'
  BY <1>1, <1>2 DEF Inv, Shapes, rows, Phase, Disjoint
<1>5. Hand(w)'
  BY <1>3 DEF Hand
<1> QED BY <1>1, <1>2, <1>3, <1>4, <1>5, Private

LEMMA PlanInv ==
  ASSUME Inv, Plan
  PROVE  Inv'
<1>1. Planner \in Process /\ Planner \notin Worker
  BY ExecutionAssumption DEF Process
<1>2. /\ todo' = [todo EXCEPT ![Planner] = PlanRows]
      /\ phase' = [phase EXCEPT ![Planner] = "materializing"]
      /\ UNCHANGED <<rows, locks, draft>>
  BY DEF Plan, rows
<1>3. /\ phase'[Planner] = "materializing"
      /\ \A p \in Process \ {Planner} :
           /\ phase'[p] = phase[p] /\ todo'[p] = todo[p]
           /\ locks'[p] = locks[p] /\ draft'[p] = draft[p]
  BY <1>1, <1>2 DEF Inv, Shapes
<1>4. Shapes' /\ Disjoint'
  <2>1. "materializing" \in Phase
    BY DEF Phase
  <2>2. Shapes'
    BY <1>1, <1>2, <2>1, ShapesKept DEF Inv
  <2> QED BY <2>2, <1>2 DEF Inv, Disjoint
<1>5. Reads'
  BY <1>3 DEF Reads
<1> QED BY <1>1, <1>2, <1>3, <1>4, <1>5, Private

(* The planner has read the cohort: what its status says of the components
   is still true when it has locked them.                                  *)
LEMMA ReadStatus ==
  ASSUME Shapes, StatusTells
  PROVE  /\ status = "missed" => \E c \in Component : comps[c].status \in Missed
         /\ status = "partial" => \A c \in Component : comps[c].status # "pending"
<1>1. status = Told(comps)
  BY ToldIs DEF Shapes, StatusTells
<1>2. \A c \in Component : comps[c].status \in Lived
  BY DEF Shapes, Lives
<1> QED BY <1>1, <1>2 DEF Told, Started, Lived, Missed

(* Any order of the components has all of them.                            *)
LEMMA OrderHasAll ==
  ASSUME NEW order \in SetToSeqs({CompRow(c) : c \in Component})
  PROVE  /\ order \in Seq({CompRow(c) : c \in Component})
         /\ \A c \in Component : \E i \in DOMAIN order : order[i] = CompRow(c)
<1> DEFINE S == {CompRow(c) : c \in Component}
           D == 1..Cardinality(S)
<1>1. IsFiniteSet(S)
  <2> DEFINE f == [c \in Component |-> CompRow(c)]
  <2>1. f \in Surjection(Component, S)
    BY DEF Surjection
  <2> HIDE DEF f, S
  <2> QED BY <2>1, FS_Surjection, ExecutionAssumption
<1>2. Cardinality(S) \in Nat
  BY <1>1, FS_CardinalityType
<1> HIDE DEF S
<1>3. order \in [D -> S] /\ \A i, j \in D : i # j => order[i] # order[j]
  BY DEF SetToSeqs, S
<1>4. order \in Injection(D, S)
  BY <1>3 DEF Injection, IsInjective
<1>5. IsFiniteSet(D) /\ Cardinality(D) = Cardinality(S)
  BY <1>2, FS_Interval
<1>6. order \in Surjection(D, S)
  BY <1>1, <1>4, <1>5, FS_Injection
<1>7. \A r \in S : \E i \in D : order[i] = r
  BY <1>6 DEF Surjection
<1>8. order \in Seq(S)
  BY <1>2, <1>3
<1> QED BY <1>3, <1>7, <1>8 DEF S

LEMMA PlanLateInv ==
  ASSUME Inv, PlanLate
  PROVE  Inv'
<1>1. Planner \in Process /\ Planner \notin Worker
  BY ExecutionAssumption DEF Process
<1> DEFINE S == {CompRow(c) : c \in Component}
<1>2. PICK order \in SetToSeqs(S) :
        /\ todo' = [todo EXCEPT ![Planner] = order \o <<CohortRow>>]
        /\ phase' = [phase EXCEPT ![Planner] = "finalizing"]
        /\ draft' = [draft EXCEPT ![Planner] = status]
        /\ UNCHANGED <<rows, locks>>
  BY DEF PlanLate, rows
<1>3. /\ phase'[Planner] = "finalizing"
      /\ todo'[Planner] = order \o <<CohortRow>>
      /\ draft'[Planner] = status
      /\ \A p \in Process \ {Planner} :
           /\ phase'[p] = phase[p] /\ todo'[p] = todo[p]
           /\ locks'[p] = locks[p] /\ draft'[p] = draft[p]
  BY <1>1, <1>2 DEF Inv, Shapes
<1>4. Shapes' /\ Disjoint'
  <2>1. "finalizing" \in Phase
    BY DEF Phase
  <2>2. Shapes'
    BY <1>1, <1>2, <2>1, ShapesKept DEF Inv
  <2> QED BY <2>2, <1>2 DEF Inv, Disjoint
<1>5. /\ order \in Seq(S)
      /\ \A c \in Component : \E i \in DOMAIN order : order[i] = CompRow(c)
  BY OrderHasAll
<1>6. Reads'
  <2> DEFINE all == order \o <<CohortRow>>
  <2>1. all \in Seq(S \cup {CohortRow})
    <3>1. order \in Seq(S \cup {CohortRow}) /\ <<CohortRow>> \in Seq(S \cup {CohortRow})
      BY <1>5
    <3> HIDE DEF S
    <3> QED BY <3>1
  <2>2. \A i \in DOMAIN order : i \in DOMAIN all /\ all[i] = order[i]
    <3> HIDE DEF S
    <3> QED BY <1>5
  <2>3. \A c \in Component : \E i \in DOMAIN all : all[i] = CompRow(c)
    BY <1>5, <2>2
  <2> HIDE DEF all
  <2>4. todo'[Planner] = all
    BY <1>3 DEF all
  <2> QED BY <2>1, <2>3, <2>4, <1>2, <1>3, ReadStatus DEF Inv, Reads, rows
<1> QED BY <1>1, <1>2, <1>3, <1>4, <1>6, Private

(* What a collector hands over.                                            *)
LEMMA CloseInv ==
  ASSUME Inv, NEW w \in Worker, phase[w] = "collecting",
         NEW goes, NEW failed, NEW scan, NEW pages, NEW follows,
         Close(w, goes, failed, scan, pages, follows),
         (draft'[w] = [comp |-> draft[w].comp, slice |-> draft[w].slice, goes |-> goes,
                       failed |-> failed, scan |-> scan, pages |-> pages,
                       follows |-> follows]) /\ UNCHANGED rows
           => Result(w)'
  PROVE  Inv'
<1> DEFINE d == [comp |-> draft[w].comp, slice |-> draft[w].slice, goes |-> goes,
                 failed |-> failed, scan |-> scan, pages |-> pages, follows |-> follows]
<1>1. w \in Process /\ w # Planner
  BY ExecutionAssumption DEF Process
<1>2. /\ phase' = [phase EXCEPT ![w] = "closing"]
      /\ todo' = [todo EXCEPT ![w] = Siblings]
      /\ draft' = [draft EXCEPT ![w] = d]
      /\ UNCHANGED <<rows, locks>>
  BY DEF Close, rows
<1>3. /\ phase'[w] = "closing" /\ draft'[w] = d
      /\ \A p \in Process \ {w} :
           /\ phase'[p] = phase[p] /\ todo'[p] = todo[p]
           /\ locks'[p] = locks[p] /\ draft'[p] = draft[p]
  BY <1>1, <1>2 DEF Inv, Shapes
<1>4. Result(w)'
  BY <1>2, <1>3
<1>5. draft'[w].comp = draft[w].comp /\ draft'[w].slice = draft[w].slice
  BY <1>3
<1> HIDE DEF d
<1>6. Shapes' /\ Disjoint'
  <2>1. "closing" \in Phase
    BY DEF Phase
  <2>2. Shapes'
    BY <1>1, <1>2, <2>1, ShapesKept DEF Inv
  <2> QED BY <2>2, <1>2 DEF Inv, Disjoint
<1>7. Hand(w)'
  <2>1. Hand(w)
    BY DEF Inv
  <2> QED BY <2>1, <1>2, <1>3, <1>4, <1>5 DEF Hand, rows
<1> QED BY <1>1, <1>2, <1>3, <1>6, <1>7, Private

LEMMA CollectOnceInv ==
  ASSUME Inv, NEW w \in Worker, NEW end \in {"complete", "partial", "failed"},
         CollectOnce(w, end)
  PROVE  Inv'
<1> DEFINE goes == IF end = "failed" THEN Failing(w) ELSE end
<1>1. /\ phase[w] = "collecting" /\ draft[w].comp \notin Hot
      /\ Close(w, goes, end = "failed", None, {}, FALSE)
  BY DEF CollectOnce
<1>2. ASSUME draft'[w] = [comp |-> draft[w].comp, slice |-> draft[w].slice, goes |-> goes,
                          failed |-> (end = "failed"), scan |-> None, pages |-> {},
                          follows |-> FALSE],
             UNCHANGED rows
      PROVE  Result(w)'
  <2>1. /\ draft'[w].comp = draft[w].comp /\ draft'[w].slice = draft[w].slice
        /\ draft'[w].goes = goes /\ draft'[w].failed = (end = "failed")
        /\ draft'[w].pages = {} /\ draft'[w].follows = FALSE
    BY <1>2
  <2>2. Again(w)' = Again(w)
    BY <2>1, <1>2 DEF Again, rows
  <2> QED BY <2>1, <2>2, <1>1 DEF Result, Failing, Lived
<1> HIDE DEF goes
<1> QED BY <1>1, <1>2, CloseInv

Slice(r, k, st, o) == [Paged(Running(r), k) EXCEPT !.status = st, !.outcome = o]

LEMMA SliceOf ==
  ASSUME NEW r \in Scan, NEW k \in Nat, NEW st, NEW o
  PROVE  LET n == IF r.status = "running" THEN r.slices ELSE r.slices + 1 IN
         /\ Slice(r, k, st, o)
              = [status |-> st, next |-> r.next + k, slices |-> n, outcome |-> o]
         /\ Paged(Running(r), k).outcome = r.outcome
<1> DEFINE n == IF r.status = "running" THEN r.slices ELSE r.slices + 1
           F == {"status", "next", "slices", "outcome"}
<1>1. r = [f \in F |-> r[f]]
  BY DEF Scan
<1> HIDE DEF n
<1>2. Running(r) = [f \in F |-> IF f = "status" THEN "running" ELSE IF f = "slices" THEN n ELSE r[f]]
  BY <1>1 DEF Running, n
<1>3. Paged(Running(r), k) =
        [f \in F |-> IF f = "status" THEN "running" ELSE IF f = "slices" THEN n
                      ELSE IF f = "next" THEN r.next + k ELSE r[f]]
  <2>1. Running(r).next = r.next
    BY <1>2
  <2> QED BY <1>2, <2>1 DEF Paged
<1>4. Paged(Running(r), k).outcome = r.outcome
  BY <1>3
<1>5. [Paged(Running(r), k) EXCEPT !.status = st, !.outcome = o]
        = [f \in F |-> IF f = "status" THEN st ELSE IF f = "slices" THEN n
                        ELSE IF f = "next" THEN r.next + k ELSE o]
  <2> DEFINE p == Paged(Running(r), k)
  <2>1. p = [f \in F |-> p[f]] /\ p.next = r.next + k /\ p.slices = n
    BY <1>3
  <2> HIDE DEF p
  <2> QED BY <2>1 DEF p
<1>6. [f \in F |-> IF f = "status" THEN st ELSE IF f = "slices" THEN n
                    ELSE IF f = "next" THEN r.next + k ELSE o]
        = [status |-> st, next |-> r.next + k, slices |-> n, outcome |-> o]
  OBVIOUS
<1> QED BY <1>4, <1>5, <1>6 DEF n, Slice

LEMMA CollectSliceInv ==
  ASSUME Inv, NEW w \in Worker, NEW k \in 0..SlicePages, NEW end \in SliceEnd,
         NEW parseError \in BOOLEAN, CollectSlice(w, k, end, parseError)
  PROVE  Inv'
<1> DEFINE c == draft[w].comp
           sc == scans[c]
           fails == end \in {"failed", "unresolved"}
           open == CASE end = "paused" -> "paused"
                     [] fails -> FailingScan(w, parseError)
                     [] OTHER -> "complete"
           goes == IF open \in Open THEN "running" ELSE open
           out == IF open \in {"complete", "paused"} THEN end ELSE sc.outcome
           slices == IF sc.status = "running" THEN sc.slices ELSE sc.slices + 1
           scan == [status |-> open, next |-> sc.next + k, slices |-> slices, outcome |-> out]
           pages == sc.next .. (sc.next + k - 1)
           follows == end = "paused"
<1>1. phase[w] = "collecting" /\ c \in Hot /\ end \in SliceEnds(sc, k)
  BY DEF CollectSlice
<1>2. sc \in Scan /\ k \in Nat
  BY <1>1, ExecutionAssumption DEF Inv, Shapes
<1>3. Close(w, goes, fails, scan, pages, follows)
  <2>1. Stumbled(Paged(Running(sc), k)) = Paged(Running(sc), k)
    BY DEF Stumbled
  <2>2. [Paged(Running(sc), k) EXCEPT !.status = open, !.outcome =
           IF open \in {"complete", "paused"} THEN end ELSE @] = scan
    <3> HIDE DEF open
    <3>1. Paged(Running(sc), k).outcome = sc.outcome
      BY <1>2, SliceOf
    <3>2. [Paged(Running(sc), k) EXCEPT !.status = open, !.outcome = out]
            = [status |-> open, next |-> sc.next + k, slices |-> slices, outcome |-> out]
      <4> HIDE DEF sc, out
      <4>1. Slice(sc, k, open, out)
              = [status |-> open, next |-> sc.next + k, slices |-> slices, outcome |-> out]
        BY <1>2, SliceOf
      <4> QED BY <4>1 DEF Slice
    <3> QED BY <3>1, <3>2
  <2> HIDE DEF scan, open
  <2>3. Close(w, goes, fails,
              [Paged(Running(sc), k) EXCEPT !.status = open, !.outcome =
                 IF open \in {"complete", "paused"} THEN end ELSE @],
              pages, follows)
    BY <2>1 DEF CollectSlice, Follows, open
  <2> QED BY <2>2, <2>3
<1>4. /\ fails \in BOOLEAN /\ follows \in BOOLEAN
      /\ open \in {"paused", "running", "corrupted", "failed", "complete"}
      /\ open = "paused" <=> follows
      /\ open = "running" <=> fails /\ Again(w)
      /\ open = "complete" <=> end \in {"complete", "ended"}
      /\ fails => ~follows
  BY DEF SliceEnd, FailingScan
<1> HIDE DEF open
<1>5. /\ goes \in Lived \ {"pending", "missed_due_to_capacity"}
      /\ fails => (goes = "running" <=> Again(w))
      /\ ~fails => (goes = "running" <=> follows)
      /\ goes = "running" => (open = "running" <=> fails)
  BY <1>4 DEF Lived, Open
<1>6. sc.next + k \in 1..(Pages + 1) /\ sc.next <= sc.next + k
  BY <1>1, <1>2, ExecutionAssumption DEF SliceEnds, Scan
<1>7. out = "complete" => sc.next + k = Pages + 1
  <2>1. CASE out = end
    BY <2>1, <1>1 DEF SliceEnds
  <2>2. CASE out = sc.outcome
    <3>1. c \in Component
      BY <1>1, ExecutionAssumption
    <3>2. sc.outcome = "complete" => sc.next = Pages + 1
      BY <1>1, <3>1 DEF Inv, Kept
    <3> QED BY <2>2, <3>2, <1>2, <1>6, ExecutionAssumption
  <2> QED BY <2>1, <2>2
<1>8. scan \in Scan
  <2>1. slices \in Nat
    BY <1>2 DEF Scan
  <2>2. out \in {None, "complete", "ended", "paused"}
    BY <1>2, <1>4 DEF Scan
  <2> QED BY <2>1, <2>2, <1>4, <1>6 DEF Scan, Open
<1>9. ASSUME draft'[w] = [comp |-> draft[w].comp, slice |-> draft[w].slice, goes |-> goes,
                          failed |-> fails, scan |-> scan, pages |-> pages,
                          follows |-> follows],
             UNCHANGED rows
      PROVE  Result(w)'
  <2>1. /\ draft'[w].comp = c /\ draft'[w].slice = draft[w].slice
        /\ draft'[w].goes = goes /\ draft'[w].failed = fails
        /\ draft'[w].pages = pages /\ draft'[w].follows = follows
        /\ draft'[w].scan = scan
    BY <1>9
  <2>2. Again(w)' = Again(w)
    BY <2>1, <1>9 DEF Again, rows
  <2>3. scans' = scans
    BY <1>9 DEF rows
  <2> HIDE DEF c, fails, goes, out, slices, pages, follows
  <2>4. /\ scan.status = open /\ scan.next = sc.next + k
        /\ scan.slices = slices /\ scan.outcome = out
    OBVIOUS
  <2> HIDE DEF scan
  <2>5. draft'[w].goes = "running" => (draft'[w].scan.status = "running" <=> draft'[w].failed)
    BY <2>1, <2>4, <1>5
  <2>6. pages = scans'[c].next .. (scan.next - 1)
    BY <2>3, <2>4, <1>2 DEF pages, Scan
  <2>7. scan.slices = IF scans'[c].status = "running" THEN scans'[c].slices ELSE scans'[c].slices + 1
    BY <2>3, <2>4 DEF slices
  <2>8. scans'[c].next <= scan.next
    BY <2>3, <2>4, <1>6
  <2>9. scan.outcome = "complete" => scan.next = Pages + 1
    BY <2>4, <1>7
  <2> HIDE DEF sc
  <2> QED BY <2>1, <2>2, <2>5, <2>6, <2>7, <2>8, <2>9, <1>1, <1>4, <1>5, <1>8 DEF Result
<1> HIDE DEF goes, fails, scan, pages, follows
<1> QED BY <1>1, <1>3, <1>9, CloseInv

-----------------------------------------------------------------------------
(* What an attempt commits.                                                *)
LEMMA TaskAfter ==
  ASSUME NEW t \in Task, t.status = "pending", t.retries <= MaxRetries
  PROVE  /\ Succeeded(t) \in Task /\ Succeeded(t).status = "succeeded" /\ Succeeded(t).tried
         /\ Retried(t) \in Task /\ Retried(t).tried
         /\ Retried(t).retries = t.retries + 1
         /\ t.retries < MaxRetries => Retried(t).status = "pending"
         /\ ~(t.retries < MaxRetries) => Retried(t).status = "failed"
<1>1. Succeeded(t) \in Task /\ Succeeded(t).status = "succeeded" /\ Succeeded(t).tried
  BY DEF Succeeded, Task
<1>2. t.retries \in Nat /\ t.retries + 1 \in 0..(MaxRetries + 1)
  BY ExecutionAssumption DEF Task
<1>3. Retried(t) \in Task
  BY <1>2 DEF Retried, Task
<1> QED BY <1>1, <1>3 DEF Retried

(* The transaction of a worker has its component and its task for itself,
   and the task is the component's last one.                               *)
LEMMA Sole ==
  ASSUME Inv, NEW w \in Worker, phase[w] = "closing", NEW m \in Nat, LastSlice(draft[w].comp, m)
  PROVE  /\ draft[w].comp \in Component /\ draft[w].slice = m
         /\ comps[draft[w].comp].status \in {"pending", "running"}
         /\ Result(w)
         /\ \A p \in Worker \ {w} :
              phase[p] \in {"starting", "collecting", "closing"} => draft[p].comp # draft[w].comp
         /\ CompRow(draft[w].comp) \in locks[w]
<1> DEFINE c == draft[w].comp
<1>1. Hand(w)
  BY DEF Inv
<1>2. /\ c \in Component /\ draft[w].slice \in DOMAIN tasks[c]
      /\ tasks[c][draft[w].slice].status = "pending"
      /\ TaskRow(c, draft[w].slice) \in locks[w] /\ CompRow(c) \in locks[w]
      /\ comps[c].status \in Startable /\ Result(w)
  BY <1>1 DEF Hand
<1>3. \A n \in DOMAIN tasks[c] : tasks[c][n].status = "pending" => n = m
  BY DEF LastSlice
<1>4. comps[c].status \in {"pending", "running"}
  <2>1. comps[c].status \in Lived
    BY <1>2 DEF Inv, Shapes, Lives
  <2> QED BY <2>1, <1>2 DEF Lived, Startable, Active
<1>5. ASSUME NEW p \in Worker \ {w}, phase[p] \in {"starting", "collecting", "closing"},
             draft[p].comp = c
      PROVE  FALSE
  <2>1. Hand(p)
    BY DEF Inv
  <2>2. /\ draft[p].slice \in DOMAIN tasks[c] /\ tasks[c][draft[p].slice].status = "pending"
        /\ TaskRow(c, draft[p].slice) \in locks[p]
    BY <1>5, <2>1 DEF Hand
  <2>3. draft[p].slice = draft[w].slice
    BY <1>2, <1>3, <2>2
  <2>4. locks[p] \cap locks[w] = {}
    BY DEF Inv, Disjoint, Process
  <2> QED BY <1>2, <2>2, <2>3, <2>4
<1> QED BY <1>2, <1>3, <1>4, <1>5

LEMMA CommitWrites ==
  ASSUME Inv, NEW w \in Worker, Commit(w), NEW m \in Nat, LastSlice(draft[w].comp, m)
  PROVE  LET d == draft[w]
             c == d.comp
             t == IF d.failed THEN Retried(tasks[c][m]) ELSE Succeeded(tasks[c][m])
         IN  /\ Shapes'
             /\ \A x \in Component \ {c} :
                  /\ comps'[x] = comps[x] /\ stored'[x] = stored[x] /\ tasks'[x] = tasks[x]
                  /\ x \in Hot => scans'[x] = scans[x]
             /\ comps'[c] = [status |-> d.goes, started |-> TRUE]
             /\ stored'[c] = stored[c] \cup d.pages
             /\ c \in Hot => scans'[c] = d.scan
             /\ d.follows =>
                  tasks'[c] = [n \in 0..(m + 1) |-> IF n = m + 1 THEN FirstSlice
                                                   ELSE IF n = m THEN t ELSE tasks[c][n]]
             /\ ~d.follows =>
                  tasks'[c] = [n \in 0..m |-> IF n = m THEN t ELSE tasks[c][n]]
             /\ phase'[w] = "idle" /\ locks'[w] = {}
             /\ \A p \in Process \ {w} :
                  /\ phase'[p] = phase[p] /\ locks'[p] = locks[p]
                  /\ todo'[p] = todo[p] /\ draft'[p] = draft[p]
<1> DEFINE d == draft[w]
           c == d.comp
           t == IF d.failed THEN Retried(tasks[c][m]) ELSE Succeeded(tasks[c][m])
           mine == [tasks[c] EXCEPT ![d.slice] =
                      IF d.failed THEN Retried(@) ELSE Succeeded(@)]
           more == IF d.follows THEN {d.slice + 1} \ DOMAIN mine ELSE {}
<1>1. w \in Process /\ w # Planner
  BY ExecutionAssumption DEF Process
<1>2. phase[w] = "closing"
  BY DEF Commit
<1>3. c \in Component /\ d.slice = m /\ Result(w)
  BY <1>2, Sole
<1>4. tasks[c] \in [0..m -> Task]
  BY DEF LastSlice
<1>5. /\ comps' = [comps EXCEPT ![c] = [status |-> d.goes, started |-> TRUE]]
      /\ scans' = IF c \in Hot THEN [scans EXCEPT ![c] = d.scan] ELSE scans
      /\ stored' = [stored EXCEPT ![c] = stored[c] \cup d.pages]
      /\ tasks' = [tasks EXCEPT ![c] =
           [n \in DOMAIN mine \cup more |-> IF n \in more THEN FirstSlice ELSE mine[n]]]
      /\ phase' = [phase EXCEPT ![w] = "idle"] /\ Released(w)
  BY DEF Commit
<1>6. mine = [n \in 0..m |-> IF n = m THEN t ELSE tasks[c][n]]
  <2>1. tasks[c] = [n \in 0..m |-> tasks[c][n]] /\ m \in 0..m
    BY <1>4
  <2> HIDE DEF c
  <2> QED BY <1>3, <2>1
<1>7. DOMAIN mine = 0..m
  BY <1>6
<1> HIDE DEF mine
<1>8. more = IF d.follows THEN {m + 1} ELSE {}
  <2>1. m + 1 \notin DOMAIN mine
    BY <1>7
  <2>2. d.slice = m
    BY <1>3
  <2> HIDE DEF d
  <2> QED BY <2>1, <2>2
<1> HIDE DEF more
<1> DEFINE after == [n \in DOMAIN mine \cup more |-> IF n \in more THEN FirstSlice ELSE mine[n]]
<1>9. d.follows => after = [n \in 0..(m + 1) |-> IF n = m + 1 THEN FirstSlice
                                                ELSE IF n = m THEN t ELSE tasks[c][n]]
  <2> HIDE DEF t, c
  <2> SUFFICES ASSUME d.follows
               PROVE  after = [n \in 0..(m + 1) |-> IF n = m + 1 THEN FirstSlice
                                                ELSE IF n = m THEN t ELSE tasks[c][n]]
    OBVIOUS
  <2>1. DOMAIN mine \cup more = 0..(m + 1)
    BY <1>7, <1>8
  <2>2. \A n \in 0..(m + 1) : n \in more <=> n = m + 1
    BY <1>8
  <2>3. \A n \in 0..m : mine[n] = IF n = m THEN t ELSE tasks[c][n]
    BY <1>6
  <2>4. \A n \in 0..(m + 1) : n # m + 1 => n \in 0..m
    OBVIOUS
  <2> QED BY <2>1, <2>2, <2>3, <2>4
<1>10. ~d.follows => after = [n \in 0..m |-> IF n = m THEN t ELSE tasks[c][n]]
  <2> HIDE DEF t, c
  <2> QED BY <1>6, <1>7, <1>8
<1>11. tasks'[c] = after /\ \A x \in Component \ {c} : tasks'[x] = tasks[x]
  <2> HIDE DEF c, after
  <2> QED BY <1>3, <1>5 DEF Inv, Shapes, after
<1>12. /\ comps' \in [Component -> Lives] /\ comps'[c] = [status |-> d.goes, started |-> TRUE]
       /\ \A x \in Component \ {c} : comps'[x] = comps[x]
  <2>1. [status |-> d.goes, started |-> TRUE] \in Lives
    BY <1>3 DEF Result, Lives
  <2> HIDE DEF c, d
  <2> QED BY <1>3, <1>5, <2>1 DEF Inv, Shapes
<1>13. /\ scans' \in [Hot -> Scan]
       /\ c \in Hot => scans'[c] = d.scan
       /\ \A x \in Hot \ {c} : scans'[x] = scans[x]
  <2>1. c \in Hot => d.scan \in Scan
    BY <1>3 DEF Result
  <2> HIDE DEF c, d
  <2> QED BY <1>3, <1>5, <2>1 DEF Inv, Shapes
<1>14. /\ stored'[c] = stored[c] \cup d.pages
       /\ \A x \in Component \ {c} : stored'[x] = stored[x]
  BY <1>3, <1>5 DEF Inv, Shapes
<1>15. /\ phase'[w] = "idle" /\ locks'[w] = {}
       /\ \A p \in Process \ {w} :
            /\ phase'[p] = phase[p] /\ locks'[p] = locks[p]
            /\ todo'[p] = todo[p] /\ draft'[p] = draft[p]
  BY <1>1, <1>5 DEF Inv, Shapes, Released
<1>16. Shapes'
  <2>1. stored' = [x \in Component |-> stored'[x]] /\ tasks' = [x \in Component |-> tasks'[x]]
    <3> HIDE DEF after, d, c
    <3> QED BY <1>5 DEF Inv, Shapes
  <2>2. /\ locks' = [q \in Process |-> locks'[q]] /\ todo' = [q \in Process |-> todo'[q]]
        /\ draft' = [q \in Process |-> draft'[q]]
    BY <1>5 DEF Inv, Shapes, Released
  <2>3. /\ phase' \in [Process -> Phase]
        /\ phase'[Planner] \in {"idle", "materializing", "finalizing"}
        /\ \A v \in Worker : phase'[v] \notin {"materializing", "finalizing"}
    <3>1. phase' = [phase EXCEPT ![w] = "idle"]
      BY <1>5
    <3> QED BY <1>1, <3>1 DEF Inv, Shapes, Process, Phase
  <2>4. comps' \in [Component -> Lives] /\ scans' \in [Hot -> Scan]
    BY <1>12, <1>13
  <2> HIDE DEF d, c, t, after
  <2> QED BY <2>1, <2>2, <2>3, <2>4 DEF Shapes
<1> HIDE DEF d, c, t, after
<1>17. \A x \in Component \ {c} :
         /\ comps'[x] = comps[x] /\ stored'[x] = stored[x] /\ tasks'[x] = tasks[x]
         /\ x \in Hot => scans'[x] = scans[x]
  BY <1>11, <1>12, <1>13, <1>14
<1>18. /\ d.follows => tasks'[c] = [n \in 0..(m + 1) |-> IF n = m + 1 THEN FirstSlice
                                                       ELSE IF n = m THEN t ELSE tasks[c][n]]
       /\ ~d.follows => tasks'[c] = [n \in 0..m |-> IF n = m THEN t ELSE tasks[c][n]]
  BY <1>9, <1>10, <1>11
<1> QED BY <1>12, <1>13, <1>14, <1>15, <1>16, <1>17, <1>18 DEF d, c, t

(* The slices of the component after an attempt has been committed.        *)
LEMMA CommitSlices ==
  ASSUME Inv, NEW w \in Worker, Commit(w), NEW c, c = draft[w].comp,
         NEW m \in Nat, LastSlice(c, m)
  PROVE  \E n \in Nat : LastSlice(c, n)'
<1> DEFINE d == draft[w]
           old == tasks[c][m]
           t == IF d.failed THEN Retried(old) ELSE Succeeded(old)
<1>1. phase[w] = "closing"
  BY DEF Commit
<1>2. c \in Component /\ d.slice = m /\ comps[c].status \in Startable /\ Result(w)
  BY <1>1, Sole DEF Startable, Active
<1>3. /\ comps'[c] = [status |-> d.goes, started |-> TRUE]
      /\ c \in Hot => scans'[c] = d.scan
      /\ d.follows =>
           tasks'[c] = [n \in 0..(m + 1) |-> IF n = m + 1 THEN FirstSlice
                                            ELSE IF n = m THEN t ELSE tasks[c][n]]
      /\ ~d.follows => tasks'[c] = [n \in 0..m |-> IF n = m THEN t ELSE tasks[c][n]]
  <2> DEFINE e == d.comp
             after == IF d.failed THEN Retried(tasks[e][m]) ELSE Succeeded(tasks[e][m])
  <2>1. LastSlice(e, m)
    OBVIOUS
  <2>2. /\ comps'[e] = [status |-> d.goes, started |-> TRUE]
        /\ e \in Hot => scans'[e] = d.scan
        /\ d.follows =>
             tasks'[e] = [n \in 0..(m + 1) |-> IF n = m + 1 THEN FirstSlice
                                              ELSE IF n = m THEN after ELSE tasks[e][n]]
        /\ ~d.follows => tasks'[e] = [n \in 0..m |-> IF n = m THEN after ELSE tasks[e][n]]
    BY <2>1, CommitWrites
  <2>3. c = e /\ after = t
    OBVIOUS
  <2> HIDE DEF d, e, t, after
  <2> QED BY <2>2, <2>3
<1>4. /\ tasks[c] \in [0..m -> Task] /\ old \in Task
      /\ old.status = "pending" /\ old.retries <= MaxRetries
      /\ \A n \in 0..(m - 1) : tasks[c][n].status # "pending" /\ tasks[c][n].tried
  BY <1>2 DEF LastSlice
<1>5. Again(w) <=> old.retries < MaxRetries
  BY <1>2 DEF Again
<1>6. /\ t \in Task /\ t.tried
      /\ ~d.failed => t.status = "succeeded"
      /\ d.failed => (t.status = "pending" <=> Again(w))
      /\ d.failed /\ Again(w) => t.retries <= MaxRetries
  <2>1. old.retries \in Nat /\ MaxRetries \in Nat
    BY <1>4, ExecutionAssumption DEF Task
  <2> HIDE DEF old
  <2> QED BY <1>4, <1>5, <2>1, TaskAfter
<1>7. /\ d.goes \in Lived \ {"pending", "missed_due_to_capacity"}
      /\ d.failed \in BOOLEAN /\ d.follows \in BOOLEAN
      /\ d.failed => ~d.follows
      /\ d.failed => (d.goes = "running" <=> Again(w))
      /\ ~d.failed => (d.goes = "running" <=> d.follows)
      /\ c \in Hot /\ d.goes = "running" => (d.scan.status = "running" <=> d.failed)
  BY <1>2 DEF Result
<1>8. ASSUME c \in Hot PROVE d.scan.slices = m + 1
  <2>1. d.scan.slices = IF scans[c].status = "running" THEN scans[c].slices
                                                     ELSE scans[c].slices + 1
    BY <1>2, <1>8 DEF Result
  <2>2. /\ scans[c].slices = IF old.tried THEN m + 1 ELSE m
        /\ scans[c].status = "running" <=> old.tried
    BY <1>2, <1>8 DEF LastSlice
  <2> QED BY <2>1, <2>2
<1>9. comps'[c].status = d.goes
  BY <1>3
<1>10. d.goes \in Startable <=> d.goes = "running"
  BY <1>7 DEF Lived, Startable, Active
<1>11. CASE d.follows
  <2>1. tasks'[c] = [n \in 0..(m + 1) |-> IF n = m + 1 THEN FirstSlice
                                        ELSE IF n = m THEN t ELSE tasks[c][n]]
    BY <1>3, <1>11
  <2>2. FirstSlice \in Task /\ FirstSlice.status = "pending" /\ FirstSlice.retries = 0
        /\ ~FirstSlice.tried
    BY ExecutionAssumption DEF FirstSlice, Task
  <2>3. ~d.failed /\ d.goes = "running"
    BY <1>7, <1>11
  <2> HIDE DEF old, t, d
  <2>4. tasks'[c] \in [0..(m + 1) -> Task]
    <3>1. \A n \in 0..(m + 1) : n # m + 1 /\ n # m => tasks[c][n] \in Task
      BY <1>4
    <3> QED BY <1>6, <2>1, <2>2, <3>1
  <2>5. tasks'[c][m + 1] = FirstSlice /\ tasks'[c][m] = t
    BY <2>1
  <2>6. \A n \in 0..(m + 1 - 1) : tasks'[c][n].status # "pending" /\ tasks'[c][n].tried
    <3>1. \A n \in 0..(m + 1 - 1) : n # m => n \in 0..(m - 1) /\ tasks'[c][n] = tasks[c][n]
      BY <2>1
    <3> QED BY <1>4, <1>6, <2>3, <2>5, <3>1
  <2>7. c \in Hot => /\ scans'[c].slices = IF tasks'[c][m + 1].tried THEN m + 1 + 1 ELSE m + 1
                     /\ scans'[c].status = "running" <=> tasks'[c][m + 1].tried
    BY <1>3, <1>7, <1>8, <2>2, <2>3, <2>5
  <2>8. tasks'[c][m + 1].status = "pending" /\ tasks'[c][m + 1].retries <= MaxRetries
    BY <2>2, <2>5, ExecutionAssumption
  <2>9. LastSlice(c, m + 1)'
    BY <1>9, <1>10, <2>3, <2>4, <2>6, <2>7, <2>8 DEF LastSlice
  <2> QED BY <2>9
<1>12. CASE ~d.follows
  <2>1. tasks'[c] = [n \in 0..m |-> IF n = m THEN t ELSE tasks[c][n]]
    BY <1>3, <1>12
  <2> HIDE DEF old, t, d
  <2>2. tasks'[c] \in [0..m -> Task] /\ tasks'[c][m] = t
    BY <1>4, <1>6, <2>1
  <2>3. \A n \in 0..(m - 1) : tasks'[c][n].status # "pending" /\ tasks'[c][n].tried
    <3>1. \A n \in 0..(m - 1) : tasks'[c][n] = tasks[c][n]
      BY <2>1
    <3> QED BY <1>4, <3>1
  <2>4. t.status = "pending" <=> d.goes = "running"
    BY <1>6, <1>7, <1>12
  <2>5. t.status = "pending" => d.failed /\ t.retries <= MaxRetries
    BY <1>6, <1>7
  <2>6. c \in Hot => /\ scans'[c].slices = IF tasks'[c][m].tried THEN m + 1 ELSE m
                     /\ d.goes = "running" =>
                          (scans'[c].status = "running" <=> tasks'[c][m].tried)
    BY <1>3, <1>6, <1>7, <1>8, <1>12, <2>2
  <2>7. LastSlice(c, m)'
    BY <1>9, <1>10, <2>2, <2>3, <2>4, <2>5, <2>6 DEF LastSlice
  <2> QED BY <2>7
<1> QED BY <1>7, <1>11, <1>12

LEMMA CommitInv ==
  ASSUME Inv, NEW w \in Worker, Commit(w)
  PROVE  Inv'
<1> PICK c : c = draft[w].comp
  OBVIOUS
<1> DEFINE d == draft[w]
<1>1. phase[w] = "closing" /\ w \in Process /\ w # Planner
  BY ExecutionAssumption DEF Commit, Process
<1>2. c \in Component
  BY <1>1 DEF Inv, Hand
<1>3. PICK m \in Nat : LastSlice(c, m)
  BY <1>2 DEF Inv, Sliced
<1>4. /\ comps[c].status \in {"pending", "running"} /\ Result(w)
      /\ \A p \in Worker \ {w} :
           phase[p] \in {"starting", "collecting", "closing"} => draft[p].comp # c
  BY <1>1, <1>3, Sole
<1>5. /\ Shapes'
      /\ \A x \in Component \ {c} :
           /\ comps'[x] = comps[x] /\ stored'[x] = stored[x] /\ tasks'[x] = tasks[x]
           /\ x \in Hot => scans'[x] = scans[x]
      /\ comps'[c] = [status |-> d.goes, started |-> TRUE]
      /\ stored'[c] = stored[c] \cup d.pages
      /\ c \in Hot => scans'[c] = d.scan
      /\ phase'[w] = "idle" /\ locks'[w] = {}
      /\ \A p \in Process \ {w} :
           /\ phase'[p] = phase[p] /\ locks'[p] = locks[p]
           /\ todo'[p] = todo[p] /\ draft'[p] = draft[p]
  BY <1>3, CommitWrites
<1>6. Disjoint'
  BY <1>5 DEF Inv, Disjoint
<1>7. StatusTells'
  BY DEF StatusTells, Commit, Recomputed, Outcomes
<1>8. Sliced'
  <2>1. ASSUME NEW x \in Component, x # c PROVE \E n \in Nat : LastSlice(x, n)'
    <3>1. PICK n \in Nat : LastSlice(x, n)
      BY DEF Inv, Sliced
    <3>2. LastSlice(x, n)'
      <4> HIDE DEF d
      <4> QED BY <1>5, <2>1, <3>1 DEF LastSlice
    <3> QED BY <3>2
  <2>2. \E n \in Nat : LastSlice(c, n)'
    BY <1>3, CommitSlices
  <2> QED BY <2>1, <2>2 DEF Sliced
<1>9. \A x \in Component : Kept(x)'
  <2>1. ASSUME NEW x \in Component, x # c PROVE Kept(x)'
    <3> HIDE DEF d
    <3> QED BY <1>5, <2>1 DEF Inv, Kept
  <2>2. ASSUME c \notin Hot PROVE Kept(c)'
    BY <1>2, <1>4, <1>5, <2>2 DEF Inv, Kept, Result
  <2>3. ASSUME c \in Hot PROVE Kept(c)'
    <3>1. /\ d.scan \in Scan /\ scans[c].next <= d.scan.next
          /\ d.pages = scans[c].next .. (d.scan.next - 1)
          /\ d.scan.outcome = "complete" => d.scan.next = Pages + 1
      BY <1>4, <2>3 DEF Result
    <3>2. stored[c] = 1..(scans[c].next - 1)
      BY <1>2, <2>3 DEF Inv, Kept
    <3>3. scans[c].next \in Nat \ {0} /\ d.scan.next \in Nat \ {0}
      <4>1. \A r \in Scan : r.next \in Nat \ {0}
        BY ExecutionAssumption DEF Scan
      <4>2. scans[c] \in Scan
        BY <2>3 DEF Inv, Shapes
      <4> QED BY <3>1, <4>1, <4>2
    <3> HIDE DEF d
    <3>4. stored'[c] = 1..(d.scan.next - 1)
      BY <1>5, <3>1, <3>2, <3>3
    <3> QED BY <1>5, <2>3, <3>1, <3>4 DEF Kept
  <2> QED BY <2>1, <2>2, <2>3
<1>10. ASSUME NEW p \in Worker PROVE Hand(p)'
  <2>1. CASE p = w
    BY <1>5, <2>1 DEF Hand
  <2>2. CASE phase[p] \notin {"starting", "collecting", "closing"}
    <3>1. p # w => phase'[p] = phase[p]
      BY <1>5 DEF Process
    <3> QED BY <1>5, <2>1, <2>2, <3>1 DEF Hand
  <2>3. CASE p # w /\ phase[p] \in {"starting", "collecting", "closing"}
    <3> DEFINE x == draft[p].comp
    <3>1. Hand(p) /\ x \in Component /\ x # c
      BY <1>4, <2>3 DEF Inv, Hand
    <3>2. /\ phase'[p] = phase[p] /\ locks'[p] = locks[p]
          /\ todo'[p] = todo[p] /\ draft'[p] = draft[p]
      BY <1>5, <2>3 DEF Process
    <3>3. /\ comps'[x] = comps[x] /\ tasks'[x] = tasks[x]
          /\ x \in Hot => scans'[x] = scans[x]
      BY <1>5, <3>1
    <3> HIDE DEF d
    <3> QED BY <3>1, <3>2, <3>3 DEF Hand, Result, Again
  <2> QED BY <2>1, <2>2, <2>3
<1>11. Reads'
  <2>1. /\ phase'[Planner] = phase[Planner] /\ locks'[Planner] = locks[Planner]
        /\ todo'[Planner] = todo[Planner] /\ draft'[Planner] = draft[Planner]
    BY <1>1, <1>5 DEF Process
  <2>2. d.goes # "pending" /\ comps'[c].status = d.goes
    BY <1>4, <1>5 DEF Result
  <2>3. comps[c].status \notin Missed
    BY <1>4 DEF Missed
  <2> HIDE DEF d
  <2>4. /\ \A x \in Component : comps[x].status \in Missed => comps'[x].status \in Missed
        /\ \A x \in Component : comps[x].status # "pending" => comps'[x].status # "pending"
    BY <1>5, <2>2, <2>3
  <2> QED BY <2>1, <2>4 DEF Inv, Reads
<1> QED BY <1>5, <1>6, <1>7, <1>8, <1>9, <1>10, <1>11 DEF Inv

-----------------------------------------------------------------------------
(* The write-off.  The planner leaves the status as it is when it is the
   one that it has read; it is then the right one.                         *)
LEMMA WrittenOffTold ==
  ASSUME Shapes, StatusTells, NEW read,
         read = "missed" => \E c \in Component : comps[c].status \in Missed,
         read = "partial" => \A c \in Component : comps[c].status # "pending",
         Told(WrittenOff) = read
  PROVE  status = read
<1>1. status = Told(comps)
  BY ToldIs DEF Shapes, StatusTells
<1>2. \A c \in Component : comps[c] \in Lives /\ comps[c].status \in Lived
  BY DEF Shapes, Lives
<1>3. \A c \in Component :
        /\ WrittenOff[c].status = IF comps[c].status = "pending" THEN "missed_due_to_capacity"
                                 ELSE comps[c].status
        /\ WrittenOff[c].started = comps[c].started
  BY <1>2 DEF WrittenOff, Lives
<1>4. \A c \in Component : Started(WrittenOff[c]) <=> Started(comps[c])
  BY <1>3 DEF Started
<1>5. CASE \E c \in Component : comps[c].status = "corrupted"
  BY <1>1, <1>3, <1>5 DEF Told
<1>6. CASE /\ ~\E c \in Component : comps[c].status = "corrupted"
           /\ \E c \in Component : comps[c].status = "running"
  BY <1>1, <1>3, <1>6 DEF Told
<1>7. CASE /\ ~\E c \in Component : comps[c].status \in {"corrupted", "running"}
           /\ \A c \in Component : comps[c].status # "pending"
  <2>1. \A c \in Component : WrittenOff[c].status = comps[c].status
    BY <1>3, <1>7
  <2> QED BY <1>1, <1>4, <2>1 DEF Told
<1>8. CASE /\ ~\E c \in Component : comps[c].status \in {"corrupted", "running"}
           /\ \E c \in Component : comps[c].status = "pending"
  <2>1. /\ ~\E c \in Component : WrittenOff[c].status \in {"corrupted", "running"}
        /\ ~\A c \in Component : WrittenOff[c].status = "pending"
        /\ ~\A c \in Component : WrittenOff[c].status = "complete"
        /\ ~\E c \in Component : WrittenOff[c].status = "pending"
    BY <1>3, <1>8
  <2>2. read = IF \A c \in Component : ~Started(comps[c]) THEN "missed" ELSE "partial"
    BY <1>4, <2>1 DEF Told
  <2>3. read = "missed"
    BY <1>8, <2>2
  <2>4. \E c \in Component : comps[c].status \in Missed
    BY <2>3
  <2>5. ~\A c \in Component : comps[c].status = "pending"
    BY <2>4 DEF Missed
  <2> QED BY <1>1, <1>8, <2>2, <2>3, <2>5 DEF Told
<1> QED BY <1>5, <1>6, <1>7, <1>8

LEMMA FinalizeInv ==
  ASSUME Inv, Finalize
  PROVE  Inv'
<1>1. Planner \in Process /\ Planner \notin Worker
  BY ExecutionAssumption DEF Process
<1>2. /\ phase[Planner] = "finalizing" /\ todo[Planner] = << >>
      /\ comps' = WrittenOff
      /\ status' = IF Recomputed(WrittenOff) # draft[Planner]
                   THEN Recomputed(WrittenOff) ELSE status
      /\ phase' = [phase EXCEPT ![Planner] = "idle"]
      /\ locks' = [locks EXCEPT ![Planner] = {}]
      /\ todo' = [todo EXCEPT ![Planner] = << >>]
      /\ draft' = [draft EXCEPT ![Planner] = None]
      /\ UNCHANGED <<scans, tasks, stored>>
  BY DEF Finalize, Released
<1>3. \A c \in Component : CompRow(c) \in locks[Planner]
  BY <1>2 DEF Inv, Reads
<1>4. ASSUME NEW w \in Worker
      PROVE  \A c \in Component : CompRow(c) \notin locks[w]
  <2>1. w \in Process /\ w # Planner
    BY <1>1 DEF Process
  <2>2. locks[w] \cap locks[Planner] = {}
    BY <1>1, <2>1 DEF Inv, Disjoint
  <2> QED BY <1>3, <2>2
<1>5. /\ phase'[Planner] = "idle" /\ locks'[Planner] = {}
      /\ \A p \in Process \ {Planner} :
           /\ phase'[p] = phase[p] /\ locks'[p] = locks[p]
           /\ todo'[p] = todo[p] /\ draft'[p] = draft[p]
  BY <1>1, <1>2 DEF Inv, Shapes
<1>6. /\ comps' \in [Component -> Lives]
      /\ \A c \in Component :
           comps'[c].status = IF comps[c].status = "pending" THEN "missed_due_to_capacity"
                              ELSE comps[c].status
  <2>1. comps \in [Component -> Lives]
    BY DEF Inv, Shapes
  <2> QED BY <1>2, <2>1 DEF WrittenOff, Lives, Lived
<1>7. Shapes'
  <2>1. /\ locks' = [q \in Process |-> locks'[q]] /\ todo' = [q \in Process |-> todo'[q]]
        /\ draft' = [q \in Process |-> draft'[q]]
    BY <1>2 DEF Inv, Shapes
  <2>2. /\ phase' \in [Process -> Phase]
        /\ phase'[Planner] \in {"idle", "materializing", "finalizing"}
        /\ \A v \in Worker : phase'[v] \notin {"materializing", "finalizing"}
    BY <1>1, <1>2 DEF Inv, Shapes, Process, Phase
  <2>3. /\ scans' \in [Hot -> Scan]
        /\ stored' = [c \in Component |-> stored'[c]]
        /\ tasks' = [c \in Component |-> tasks'[c]]
    BY <1>2 DEF Inv, Shapes
  <2> QED BY <1>6, <2>1, <2>2, <2>3 DEF Shapes
<1>8. Disjoint'
  BY <1>5 DEF Inv, Disjoint
<1>9. StatusTells'
  <2>1. comps' \in [Component -> Lives] /\ comps' = WrittenOff
    BY <1>2, <1>6
  <2>2. Recomputed(WrittenOff) = Aggregate(Outcomes(comps'))
    BY <2>1 DEF Recomputed
  <2>3. Aggregate(Outcomes(WrittenOff)) = Told(WrittenOff)
    BY <2>1, ToldIs
  <2>4. Told(WrittenOff) = draft[Planner] => status = draft[Planner]
    BY <1>2, WrittenOffTold DEF Inv, Reads
  <2>5. status' = Recomputed(WrittenOff)
    BY <1>2, <2>3, <2>4 DEF Recomputed
  <2>6. StatusTells' <=> status' = Aggregate(Outcomes(comps'))
    BY DEF StatusTells, Outcomes
  <2> QED BY <2>2, <2>5, <2>6
<1>10. Sliced'
  <2>1. ASSUME NEW c \in Component, NEW m \in Nat, LastSlice(c, m) PROVE LastSlice(c, m)'
    BY <1>2, <1>6, <2>1 DEF LastSlice, Startable, Active, Missed
  <2> QED BY <2>1 DEF Inv, Sliced
<1>11. \A c \in Component : Kept(c)'
  BY <1>2 DEF Inv, Kept
<1>12. ASSUME NEW w \in Worker PROVE Hand(w)'
  <2>1. Hand(w) /\ w \in Process \ {Planner}
    BY <1>1 DEF Inv, Process
  <2>2. phase[w] \notin {"collecting", "closing"}
    BY <1>4, <2>1 DEF Hand
  <2> QED BY <1>2, <1>5, <2>1, <2>2 DEF Hand
<1>13. Reads'
  BY <1>5 DEF Reads
<1> QED BY <1>7, <1>8, <1>9, <1>10, <1>11, <1>12, <1>13 DEF Inv

-----------------------------------------------------------------------------
(* The invariant of the specification.                                     *)
LEMMA InvInit == Init => Inv
<1> SUFFICES ASSUME Init PROVE Inv
  OBVIOUS
<1> USE DEF Init
<1>1. Shapes
  <2>1. [status |-> "pending", started |-> FALSE] \in Lives
    BY DEF Lives, Lived
  <2>2. [status |-> "planned", next |-> 1, slices |-> 0, outcome |-> None] \in Scan
    BY ExecutionAssumption DEF Scan, Open
  <2> QED BY <2>1, <2>2 DEF Shapes, Phase, Process
<1>2. Disjoint
  BY DEF Disjoint
<1>3. StatusTells
  <2>1. Told(comps) = "planned"
    BY ExecutionAssumption DEF Told
  <2> QED BY <1>1, <2>1, ToldIs DEF Shapes, StatusTells
<1>4. Sliced
  <2> SUFFICES ASSUME NEW c \in Component PROVE LastSlice(c, 0)
    BY DEF Sliced
  <2>1. tasks[c] = [n \in 0..0 |-> FirstSlice]
    BY DEF Init
  <2>2. FirstSlice \in Task /\ FirstSlice.status = "pending" /\ FirstSlice.retries = 0
        /\ FirstSlice.tried = FALSE
    BY ExecutionAssumption DEF FirstSlice, Task
  <2>3. tasks[c] \in [0..0 -> Task] /\ tasks[c][0] = FirstSlice
    BY <2>1, <2>2
  <2> QED BY <2>2, <2>3, ExecutionAssumption DEF LastSlice, Startable
<1>5. \A c \in Component : Kept(c)
  BY ExecutionAssumption DEF Kept
<1>6. \A w \in Worker : Hand(w)
  BY DEF Hand, Process
<1>7. Reads
  BY DEF Reads, Process
<1> QED BY <1>1, <1>2, <1>3, <1>4, <1>5, <1>6, <1>7 DEF Inv

LEMMA InvNext == Inv /\ [Next]_vars => Inv'
<1> SUFFICES ASSUME Inv, [Next]_vars PROVE Inv'
  OBVIOUS
<1>1. ASSUME NEW w \in Worker, Work(w) PROVE Inv'
  BY <1>1, LeaseInv, StartInv, CollectOnceInv, CollectSliceInv, CommitInv
     DEF Work, CollectSome
<1>2. ASSUME NEW w \in Worker, Crash(w) \/ Restart(w) PROVE Inv'
  BY <1>2, CrashInv, RestartInv
<1>3. ASSUME NEW q \in Process, Lock(q) \/ Abort(q) PROVE Inv'
  BY <1>3, LockInv, AbortInv
<1>4. CASE PlannerStep
  BY <1>4, PlanInv, PlanLateInv, MaterializeInv, FinalizeInv DEF PlannerStep
<1>5. CASE Expire \/ UNCHANGED vars
  <2>1. UNCHANGED <<rows, phase, locks, todo, draft>>
    BY <1>5 DEF Expire, vars, rows
  <2>2. Shapes' /\ Disjoint'
    BY <2>1 DEF Inv, Shapes, Disjoint, rows
  <2>3. Planner \in Process /\ Planner \notin Worker /\ Reads'
    BY <2>1, ExecutionAssumption DEF Inv, Reads, Process, rows
  <2> QED BY <2>1, <2>2, <2>3, Private
<1> QED BY <1>1, <1>2, <1>3, <1>4, <1>5 DEF Next

LEMMA Invariance == Spec => []Inv
BY InvInit, InvNext, PTL DEF Spec

(* Whatever is killed or rolled back, the rows hold what their columns may
   hold, the pages are pages of the list, and no row is locked twice
   (db/cohort_models.py, with_for_update).                                 *)
THEOREM ExecutionTypes == Spec => []TypeOK
<1>1. Inv => TypeOK
  <2> SUFFICES ASSUME Inv PROVE TypeOK
    OBVIOUS
  <2>1. comps \in [Component -> [status : ComponentStatus, started : BOOLEAN]]
    BY DEF Inv, Shapes, Lives, Lived, ComponentStatus, Missed, Active
  <2>2. status \in CohortStatus
    <3>1. status = Told(comps)
      BY ToldIs DEF Inv, Shapes, StatusTells
    <3> QED BY <3>1 DEF Told, CohortStatus
  <2>3. scans \in [Hot -> Scan]
    BY DEF Inv, Shapes
  <2>4. ASSUME NEW c \in Component, NEW n \in DOMAIN tasks[c] PROVE tasks[c][n] \in Task
    BY DEF Inv, Sliced, LastSlice
  <2>5. ASSUME NEW c \in Component PROVE stored[c] \subseteq 1..Pages
    <3>1. CASE c \notin Hot
      BY <3>1 DEF Inv, Kept
    <3>2. CASE c \in Hot
      <4>1. stored[c] = 1..(scans[c].next - 1) /\ scans[c].next \in 1..(Pages + 1)
        BY <2>3, <3>2 DEF Inv, Kept, Scan
      <4> QED BY <4>1, ExecutionAssumption
    <3> QED BY <3>1, <3>2
  <2>6. \A p, q \in Process : p # q => locks[p] \cap locks[q] = {}
    BY DEF Inv, Disjoint
  <2> QED BY <2>1, <2>2, <2>3, <2>4, <2>5, <2>6 DEF TypeOK
<1> QED BY <1>1, Invariance, PTL

(* The committed status of the cohort is the one of its components: the
   component rows a transaction locks (_recompute_cohort) are enough,
   although the planner compares with what it read before any lock.        *)
THEOREM StatusTheorem == Spec => []StatusTells
<1>1. Inv => StatusTells
  BY DEF Inv
<1> QED BY <1>1, Invariance, PTL

(* A component that can still be started has one task waiting, one that an
   attempt has closed has none (record_task_succeeded, record_task_failed,
   and the tasks that they add).                                           *)
THEOREM TaskTheorem == Spec => []OneTaskWaits
<1>1. ASSUME Inv, NEW c \in Component
      PROVE  LET waiting == {n \in DOMAIN tasks[c] : tasks[c][n].status = "pending"} IN
             /\ comps[c].status \in Startable => Cardinality(waiting) = 1
             /\ comps[c].status \notin Startable \cup Missed => waiting = {}
  <2> DEFINE waiting == {n \in DOMAIN tasks[c] : tasks[c][n].status = "pending"}
  <2>1. PICK m \in Nat : LastSlice(c, m)
    BY <1>1 DEF Inv, Sliced
  <2>2. \A n \in waiting : n = m
    BY <2>1 DEF LastSlice
  <2>3. CASE comps[c].status \in Startable
    <3>1. waiting = {m}
      BY <2>1, <2>2, <2>3 DEF LastSlice
    <3>2. Cardinality(waiting) = 1
      BY <3>1, FS_Singleton
    <3> QED BY <2>3, <3>2
  <2>4. CASE comps[c].status \notin Startable
    <3>1. comps[c].status \notin Missed => waiting = {}
      BY <2>1, <2>2, <2>4 DEF LastSlice
    <3> QED BY <2>4, <3>1
  <2> QED BY <2>3, <2>4
<1>2. Inv => OneTaskWaits
  BY <1>1 DEF OneTaskWaits
<1> QED BY <1>2, Invariance, PTL

(* The pages of a hot component are captured from the first one on without
   a hole, over any number of slices, failures and deaths
   (HotCommentCollector._collect_scan, record_page_succeeded).             *)
THEOREM PagesTheorem == Spec => []PagesWithoutHole
<1>1. ASSUME Inv, NEW c \in Hot
      PROVE  /\ stored[c] = 1..(scans[c].next - 1)
             /\ scans[c].outcome = "complete" => stored[c] = 1..Pages
  <2>1. Kept(c)
    BY <1>1, ExecutionAssumption DEF Inv
  <2>2. stored[c] = 1..(scans[c].next - 1)
    BY <2>1 DEF Kept
  <2>3. ASSUME scans[c].outcome = "complete" PROVE stored[c] = 1..Pages
    <3>1. scans[c].next = Pages + 1
      BY <2>1, <2>3 DEF Kept
    <3>2. scans[c].next - 1 = Pages
      BY <3>1, ExecutionAssumption
    <3> QED BY <2>2, <3>2
  <2> QED BY <2>2, <2>3
<1>2. Inv => PagesWithoutHole
  BY <1>1 DEF PagesWithoutHole
<1> QED BY <1>2, Invariance, PTL

(* slice_count is the number of slices that have been begun: a retry is
   not counted again (mark_running).                                       *)
THEOREM SlicesTheorem == Spec => []SlicesCounted
<1>1. ASSUME Inv, NEW c \in Hot
      PROVE  scans[c].slices = Cardinality({n \in DOMAIN tasks[c] : tasks[c][n].tried})
  <2> DEFINE tried == {n \in DOMAIN tasks[c] : tasks[c][n].tried}
  <2>1. PICK m \in Nat : LastSlice(c, m)
    <3>1. c \in Component
      BY ExecutionAssumption
    <3> QED BY <1>1, <3>1 DEF Inv, Sliced
  <2>2. /\ DOMAIN tasks[c] = 0..m
        /\ \A n \in 0..(m - 1) : tasks[c][n].tried
        /\ scans[c].slices = IF tasks[c][m].tried THEN m + 1 ELSE m
    BY <1>1, <2>1 DEF LastSlice
  <2>3. tried = IF tasks[c][m].tried THEN 0..m ELSE 0..(m - 1)
    BY <2>2
  <2> HIDE DEF tried
  <2>4. Cardinality(0..m) = m + 1 /\ Cardinality(0..(m - 1)) = m
    <3>1. Cardinality(0..m) = m + 1
      BY FS_Interval
    <3>2. Cardinality(0..(m - 1)) = IF 0 > m - 1 THEN 0 ELSE m - 1 - 0 + 1
      BY FS_Interval
    <3> QED BY <3>1, <3>2
  <2>5. scans[c].slices = Cardinality(tried)
    BY <2>2, <2>3, <2>4
  <2> QED BY <2>5 DEF tried
<1>2. Inv => SlicesCounted
  BY <1>1 DEF SlicesCounted
<1> QED BY <1>2, Invariance, PTL

(* A component that has been written off is never begun again, and nothing
   is collected for it any more, although its task is still in the queue
   (_finalize_expired_checkpoint, mark_task_started).                      *)
THEOREM WriteOffTheorem == Spec => WrittenOffRests
<1> DEFINE Rests ==
      \A c \in Component : comps[c].status \in Missed =>
        comps'[c] = comps[c] /\ stored'[c] = stored[c]
<1>1. ASSUME Inv, NEW w \in Worker, Commit(w) PROVE Rests
  <2>1. phase[w] = "closing" /\ draft[w].comp \in Component
    BY <1>1 DEF Commit, Inv, Hand
  <2>2. PICK m \in Nat : LastSlice(draft[w].comp, m)
    BY <1>1, <2>1 DEF Inv, Sliced
  <2>3. comps[draft[w].comp].status \notin Missed
    BY <1>1, <2>1, <2>2, Sole DEF Missed
  <2>4. \A x \in Component \ {draft[w].comp} :
          comps'[x] = comps[x] /\ stored'[x] = stored[x]
    BY <1>1, <2>2, CommitWrites
  <2> QED BY <2>3, <2>4
<1>2. ASSUME Inv, Finalize PROVE Rests
  BY <1>2 DEF Finalize, WrittenOff, Missed
<1>3. ASSUME UNCHANGED <<comps, stored>> PROVE Rests
  BY <1>3
<1>4. ASSUME Next, ~Finalize, \A w \in Worker : ~Commit(w)
      PROVE  UNCHANGED <<comps, stored>>
  <2>1. ASSUME NEW w \in Worker, Work(w) PROVE UNCHANGED <<comps, stored>>
    BY <1>4, <2>1 DEF Work, CollectSome, Lease, Start, CollectOnce, CollectSlice, Close, rows
  <2>2. ASSUME NEW w \in Worker, Crash(w) \/ Restart(w) PROVE UNCHANGED <<comps, stored>>
    BY <2>2 DEF Crash, Restart, rows
  <2>3. ASSUME NEW q \in Process, Lock(q) \/ Abort(q) PROVE UNCHANGED <<comps, stored>>
    BY <2>3 DEF Lock, Abort, rows
  <2>4. CASE PlannerStep \/ Expire
    BY <1>4, <2>4 DEF PlannerStep, Plan, PlanLate, Materialize, Expire, rows
  <2> QED BY <1>4, <2>1, <2>2, <2>3, <2>4 DEF Next
<1>5. Inv /\ [Next]_vars => [Rests]_vars
  <2>1. UNCHANGED vars => UNCHANGED <<comps, stored>>
    BY DEF vars, rows
  <2> HIDE DEF Rests
  <2> QED BY <1>1, <1>2, <1>3, <1>4, <2>1
<1> HIDE DEF Rests
<1>6. Spec => [][Rests]_vars
  BY <1>5, Invariance, PTL DEF Spec
<1> QED BY <1>6 DEF WrittenOffRests, Rests
=============================================================================
