------------------------- MODULE LatestScanProofs -------------------------
(***************************************************************************)
(* Theorems about LatestScan, for any components, windows and bounds.      *)
(*                                                                         *)
(* What is consistent (Consistent) is a set of rows: frontier, scans,      *)
(* slices and components.  The rows a slice works on are consistent at     *)
(* every step, not only when it commits, and so are the rows to which its  *)
(* death would lead back (Saved).  It is the only one with an open scan    *)
(* (InSlice).  So are the rows at every step of a plan, and those to which *)
(* it would be rolled back (InPlan).                                       *)
(***************************************************************************)
EXTENDS LatestScan, SequenceTheorems, WellFoundedInduction, TLAPS

(* Scan i, with slice t, under frontier f.                                 *)
Matches(f, scan, t) ==
  IF scan.status \in Open
  THEN /\ t.status = "pending"
       /\ t.version = f.version
       /\ scan.slices = t.no + (IF scan.status = "running" THEN 1 ELSE 0)
  ELSE t.status # "pending"

Consistent(st, f, sc, ta, co) ==
  /\ st \subseteq 1..posts
  /\ f \in Frontier
  /\ sc \in Seq(Scan) /\ Len(sc) <= MaxScans
  /\ ta \in Seq(Slice) /\ Len(ta) = Len(sc)
  /\ co \in [Component -> Consumer]
  /\ f.owner \in 0..Len(sc)
  /\ \A i \in 1..Len(sc) : sc[i].status \in Open <=> f.owner = i
  /\ \A i \in 1..Len(sc) : Matches(f, sc[i], ta[i])
  /\ \A i \in 1..Len(sc) :
       ta[i].status = "pending" => ta[i].retries <= MaxRetries

Rows == Consistent(stored, frontier, scans, tasks, comps)

Saved == Consistent(saved.stored, saved.frontier, saved.scans, saved.tasks,
                    saved.comps)

World ==
  /\ now \in 0..MaxTime
  /\ posts \in 0..MaxPosts
  /\ gone \subseteq 1..posts

InSlice ==
  /\ run \in [scan : 0..MaxScans, read : BOOLEAN,
              last : {"none", "more", "match", "end"}]
  /\ run.scan = None => run = NoRun
  /\ run.scan # None =>
       /\ run.scan \in 1..Len(scans)
       /\ scans[run.scan].status = "running"
       /\ Saved

InPlan ==
  /\ plan \in [repair : SUBSET Component, due : SUBSET Component]
  /\ \A c \in plan.repair : comps[c].status \in Executable
  /\ plan # NoPlan => run = NoRun /\ Saved

Inv == World /\ Rows /\ InSlice /\ InPlan

(* What is left of the comments up to hi that are newer than lo is stored. *)
Covered(st, lo, hi) == ((lo + 1)..hi) \ gone \subseteq st

(* The first comment that a scan has seen: where it is to lead down from.  *)
Origin(scan) == IF scan.mode = "tail" THEN scan.start ELSE scan.result

SeenBy(f, s) == IF f.of = s THEN f.seen ELSE {}

(* The open scan has stored what lies between its origin and its cursor,   *)
(* unless the platform has led it back to a page it had already read.      *)
Pursued(st, f, scan) ==
  /\ scan.mode = "incremental" =>
       f.baseline = "complete" /\ scan.start = f.anchor
  /\ scan.mode # "incremental" => f.baseline # "complete"
  /\ scan.mode = "head" => Covered(st, 0, scan.start)
  /\ scan.first # NoPage =>
       /\ Origin(scan) <= posts
       /\ \/ f.cursor \in SeenBy(f, f.owner) \ {Top}
          \/ Covered(st, f.cursor, Origin(scan))

Evidence(st, f, sc) ==
  /\ f.baseline # "complete" => f.anchor = None
  /\ f.baseline = "complete" => Covered(st, 0, f.anchor)
  /\ f.owner # None => Pursued(st, f, sc[f.owner])

(* The page just read has ended the scan, or has met where it began.       *)
PageRead ==
  LET scan == scans[run.scan] IN
  /\ run.last = "end" => scan.first # NoPage /\ frontier.cursor = Top
  /\ run.last = "match" =>
       /\ scan.mode # "tail" /\ scan.first # NoPage
       /\ Covered(stored, scan.start, scan.result)

Evident ==
  /\ Evidence(stored, frontier, scans)
  /\ run.scan # None \/ plan # NoPlan =>
       Evidence(saved.stored, saved.frontier, saved.scans)
  /\ run.scan # None => PageRead

(* A component waits for a scan that exists.  If it has missed its window, *)
(* the window is over, and was so before the scan captured a head.         *)
Settled(sc, co) ==
  \A c \in Component :
    /\ co[c].status \in Executable => co[c].scan \in 1..Len(sc)
    /\ co[c].status = "partial" =>
         /\ co[c].scan \in 1..Len(sc) /\ Deadline[c] <= now
         /\ ~Captured(c, sc[co[c].scan].head)

Windows ==
  /\ Settled(scans, comps)
  /\ run.scan # None \/ plan # NoPlan => Settled(saved.scans, saved.comps)

-----------------------------------------------------------------------------
(* The least and the greatest member of a set of numbers.                  *)
LEMMA HasLeast ==
  ASSUME NEW S \in SUBSET Nat, S # {}
  PROVE  \E x \in S : \A y \in S : x <= y
<1> DEFINE R == OpToRel(<, Nat)
<1>1. IsWellFoundedOn(R, Nat)
  BY NatLessThanWellFounded
<1>2. \A x, y \in Nat : <<y, x>> \in R <=> y < x
  BY DEF OpToRel
<1> HIDE DEF R
<1>3. PICK x \in S : \A y \in S : ~(<<y, x>> \in R)
  BY <1>1, WFMin
<1>4. \A y \in S : ~(y < x)
  BY <1>2, <1>3
<1>5. \A y \in S : x <= y
  BY <1>4
<1> QED BY <1>3, <1>5

LEMMA MinIn ==
  ASSUME NEW S \in SUBSET Nat, S # {}
  PROVE  Min(S) \in S
BY HasLeast DEF Min

LEMMA MaxIn ==
  ASSUME NEW n \in Nat, NEW S \in SUBSET (0..n), S # {}
  PROVE  Max(S) \in S /\ \A j \in S : j <= Max(S)
<1> DEFINE T == {n - i : i \in S}
<1>1. T \in SUBSET Nat /\ T # {}
  <2>1. \A i \in S : n - i \in Nat
    OBVIOUS
  <2> QED BY <2>1
<1>2. PICK x \in T : \A y \in T : x <= y
  <2> HIDE DEF T
  <2> QED BY <1>1, HasLeast
<1>3. PICK i \in S : x = n - i
  BY <1>2
<1>4. \A j \in S : n - j \in T
  OBVIOUS
<1>5. \A j \in S : n - i <= n - j
  BY <1>2, <1>3, <1>4
<1>6. \A j \in S : i >= j
  BY <1>5
<1> QED BY <1>6 DEF Max

-----------------------------------------------------------------------------
(* Records.                                                                *)
LEMMA Constants ==
  /\ MaxRetries \in Nat /\ MaxTime \in Nat /\ MaxPosts \in Nat
  /\ MaxScans \in Nat /\ MaxSlices \in Nat
  /\ PageAttempts \in Nat \ {0}
BY Bounds

LEMMA NewScanTyped ==
  ASSUME NEW mode \in Mode, NEW parent \in 0..MaxScans, NEW start \in Cursor
  PROVE  /\ NewScan(mode, parent, start) \in Scan
         /\ NewScan(mode, parent, start).status = "planned"
         /\ NewScan(mode, parent, start).slices = 0
BY Constants DEF NewScan, Scan, None, Never, NoPage, Open, Cursor

LEMMA NewSliceTyped ==
  ASSUME NEW no \in 0..MaxSlices, NEW c \in Component \cup {None},
         NEW version \in Nat
  PROVE  /\ NewSlice(no, c, version) \in Slice
         /\ NewSlice(no, c, version).status = "pending"
         /\ NewSlice(no, c, version).version = version
         /\ NewSlice(no, c, version).no = no
         /\ NewSlice(no, c, version).retries <= MaxRetries
BY Constants DEF NewSlice, Slice

(* What a consistent frontier says of its progress.                        *)
LEMMA ProgressOf ==
  ASSUME frontier \in Frontier, NEW s
  PROVE  /\ Seen(s) \in SUBSET Cursor
         /\ Failures(s) \in 0..PageAttempts
BY Constants DEF Frontier, Seen, Failures

LEMMA ProgressTyped ==
  ASSUME frontier \in Frontier, NEW s \in 0..MaxScans, NEW cursor \in Cursor,
         NEW seen \in SUBSET Cursor, NEW failures \in 0..PageAttempts
  PROVE  /\ Progress(s, cursor, seen, failures) \in Frontier
         /\ Progress(s, cursor, seen, failures).owner = frontier.owner
         /\ Progress(s, cursor, seen, failures).version = frontier.version + 1
         /\ Progress(s, cursor, seen, failures).cursor = cursor
<1> DEFINE f == Progress(s, cursor, seen, failures)
<1>1. frontier.version + 1 \in Nat
  BY DEF Frontier
<1>2. f = [frontier EXCEPT !.version = frontier.version + 1,
             !.cursor = cursor, !.of = s, !.seen = seen,
             !.failures = failures]
  BY DEF Progress
<1>3. f \in Frontier
  BY <1>1, <1>2 DEF Frontier
<1>4. /\ f.owner = frontier.owner /\ f.version = frontier.version + 1
      /\ f.cursor = cursor
  BY <1>2 DEF Frontier
<1> QED BY <1>3, <1>4

LEMMA ReleaseTyped ==
  ASSUME NEW f \in Frontier, NEW cursor \in Cursor
  PROVE  Release(f, cursor) \in Frontier /\ Release(f, cursor).owner = None
<1>1. 0 \in 0..MaxScans /\ f.version + 1 \in Nat
  BY Constants DEF Frontier
<1> QED BY <1>1 DEF Frontier, Release, None

(* The comments on a page.                                                 *)
LEMMA NewestTyped ==
  ASSUME World, NEW S \in SUBSET (1..posts)
  PROVE  /\ Newest(S) \in Cursor
         /\ Newest(S) # None => Newest(S) \in S
         /\ \A i \in S : i <= Newest(S) /\ Newest(S) # None
<1>1. CASE S = {}
  BY <1>1, Constants DEF Newest, Cursor, None
<1>2. CASE S # {}
  <2>1. S \in SUBSET (0..posts) /\ posts \in Nat
    BY DEF World
  <2>2. Max(S) \in S /\ \A i \in S : i <= Max(S)
    BY <1>2, <2>1, MaxIn
  <2>3. 1..posts \subseteq Cursor
    BY Constants DEF World, Cursor
  <2>4. Newest(S) = Max(S)
    BY <1>2 DEF Newest
  <2>5. Newest(S) \in S /\ Newest(S) # 0
    <3>1. \A i \in 1..posts : i # 0
      BY <2>1
    <3> QED BY <2>2, <2>4, <3>1
  <2>6. \A i \in S : i <= Newest(S)
    BY <2>2, <2>4
  <2> QED BY <2>3, <2>5, <2>6 DEF None
<1> QED BY <1>1, <1>2

LEMMA PageTyped ==
  ASSUME World, NEW c
  PROVE  /\ Item(c) \in Cursor
         /\ Item(c) # None => Item(c) \in 1..posts
         /\ After(c) \in Cursor
BY NewestTyped DEF Item, After, Listed

-----------------------------------------------------------------------------
(* A step on the last slice of the open scan s: either the scan stays open *)
(* and its slice is queued under the new version of the frontier, or both  *)
(* are closed and the frontier is free.                                    *)
LEMMA SliceStep ==
  ASSUME NEW st, NEW f, NEW sc, NEW ta, NEW co, Consistent(st, f, sc, ta, co),
         NEW s \in 1..Len(sc), f.owner = s,
         NEW st2 \in SUBSET (1..posts), NEW f2 \in Frontier, NEW scan \in Scan,
         NEW t \in Slice, NEW co2 \in [Component -> Consumer],
         Matches(f2, scan, t),
         t.status = "pending" => t.retries <= MaxRetries,
         f2.owner = IF scan.status \in Open THEN s ELSE None
  PROVE  Consistent(st2, f2, [sc EXCEPT ![s] = scan], [ta EXCEPT ![s] = t], co2)
<1> DEFINE sc2 == [sc EXCEPT ![s] = scan]
           ta2 == [ta EXCEPT ![s] = t]
<1>1. /\ sc \in Seq(Scan) /\ ta \in Seq(Slice) /\ Len(ta) = Len(sc)
      /\ Len(sc) <= MaxScans /\ Len(sc) \in Nat
      /\ \A i \in 1..Len(sc) : sc[i].status \in Open <=> f.owner = i
      /\ \A i \in 1..Len(sc) : Matches(f, sc[i], ta[i])
      /\ \A i \in 1..Len(sc) :
           ta[i].status = "pending" => ta[i].retries <= MaxRetries
  BY LenProperties DEF Consistent
<1>2. /\ sc2 \in Seq(Scan) /\ Len(sc2) = Len(sc)
      /\ \A i \in 1..Len(sc) : sc2[i] = IF i = s THEN scan ELSE sc[i]
  BY <1>1, ExceptSeq
<1>3. /\ ta2 \in Seq(Slice) /\ Len(ta2) = Len(sc)
      /\ \A i \in 1..Len(sc) : ta2[i] = IF i = s THEN t ELSE ta[i]
  BY <1>1, ExceptSeq
<1> HIDE DEF sc2, ta2
<1>4. f2.owner \in 0..Len(sc2)
  BY <1>1, <1>2 DEF None
<1>5. ASSUME NEW i \in 1..Len(sc2)
      PROVE  sc2[i].status \in Open <=> f2.owner = i
  BY <1>1, <1>2 DEF None
<1>6. ASSUME NEW i \in 1..Len(sc2)
      PROVE  /\ Matches(f2, sc2[i], ta2[i])
             /\ ta2[i].status = "pending" => ta2[i].retries <= MaxRetries
  <2>1. CASE i = s
    BY <2>1, <1>2, <1>3
  <2>2. CASE i # s
    <3>1. sc2[i] = sc[i] /\ ta2[i] = ta[i] /\ i \in 1..Len(sc)
      BY <2>2, <1>2, <1>3
    <3>2. sc[i].status \notin Open
      BY <2>2, <3>1, <1>1
    <3> QED BY <3>1, <3>2, <1>1 DEF Matches
  <2> QED BY <2>1, <2>2
<1>7. Consistent(st2, f2, sc2, ta2, co2)
  BY <1>1, <1>2, <1>3, <1>4, <1>5, <1>6 DEF Consistent
<1> QED BY <1>7 DEF sc2, ta2

(* A new scan with its first slice, where no scan is open.                 *)
LEMMA ScanAppended ==
  ASSUME NEW st, NEW f, NEW sc, NEW ta, NEW co, Consistent(st, f, sc, ta, co),
         f.owner = None, Len(sc) < MaxScans,
         NEW f2 \in Frontier, NEW scan \in Scan,
         NEW t \in Slice, NEW co2 \in [Component -> Consumer],
         scan.status \in Open, Matches(f2, scan, t), t.retries <= MaxRetries,
         f2.owner = Len(sc) + 1
  PROVE  Consistent(st, f2, Append(sc, scan), Append(ta, t), co2)
<1> DEFINE sc2 == Append(sc, scan)
           ta2 == Append(ta, t)
           n == Len(sc) + 1
<1>1. /\ sc \in Seq(Scan) /\ ta \in Seq(Slice) /\ Len(ta) = Len(sc)
      /\ Len(sc) <= MaxScans /\ Len(sc) \in Nat /\ st \subseteq 1..posts
      /\ \A i \in 1..Len(sc) : sc[i].status \in Open <=> f.owner = i
      /\ \A i \in 1..Len(sc) : Matches(f, sc[i], ta[i])
  BY LenProperties DEF Consistent
<1>2. /\ sc2 \in Seq(Scan) /\ Len(sc2) = n /\ sc2[n] = scan
      /\ \A i \in 1..Len(sc) : sc2[i] = sc[i]
  BY <1>1, AppendProperties
<1>3. /\ ta2 \in Seq(Slice) /\ Len(ta2) = n /\ ta2[n] = t
      /\ \A i \in 1..Len(sc) : ta2[i] = ta[i]
  BY <1>1, AppendProperties
<1>4. \A i \in 1..Len(sc) : sc[i].status \notin Open
  BY <1>1 DEF None
<1> HIDE DEF sc2, ta2
<1>5. ASSUME NEW i \in 1..Len(sc2)
      PROVE  /\ sc2[i].status \in Open <=> f2.owner = i
             /\ Matches(f2, sc2[i], ta2[i])
             /\ ta2[i].status = "pending" => ta2[i].retries <= MaxRetries
  <2>1. CASE i = n
    BY <2>1, <1>2, <1>3
  <2>2. CASE i # n
    <3>1. i \in 1..Len(sc) /\ sc2[i] = sc[i] /\ ta2[i] = ta[i]
      BY <2>2, <1>1, <1>2, <1>3
    <3> QED BY <2>2, <3>1, <1>1, <1>4 DEF Matches
  <2> QED BY <2>1, <2>2
<1>6. f2.owner \in 0..Len(sc2) /\ Len(sc2) <= MaxScans
  BY <1>1, <1>2, Constants
<1>7. Consistent(st, f2, sc2, ta2, co2)
  BY <1>1, <1>2, <1>3, <1>5, <1>6 DEF Consistent
<1> QED BY <1>7 DEF sc2, ta2

-----------------------------------------------------------------------------
(* Components.                                                             *)
LEMMA ScanIndices ==
  ASSUME NEW sc \in Seq(Scan), Len(sc) <= MaxScans
  PROVE  DOMAIN sc = 1..Len(sc) /\ Len(sc) \in Nat /\ 1..Len(sc) \subseteq 0..MaxScans
BY LenProperties, Constants

LEMMA EffectiveTyped ==
  ASSUME NEW sc \in Seq(Scan), Len(sc) <= MaxScans, NEW s \in 0..MaxScans
  PROVE  Effective(sc, s) \in 0..MaxScans
<1> DEFINE children == {k \in DOMAIN sc : sc[k].parent = s}
<1>1. children \in SUBSET (0..MaxScans) /\ children \in SUBSET Nat
  BY ScanIndices
<1>2. children # {} => Min(children) \in children
  <2> HIDE DEF children
  <2> QED BY <1>1, MinIn
<1>3. Effective(sc, s) = s \/ (children # {} /\ Effective(sc, s) = Min(children))
  BY DEF Effective
<1> HIDE DEF children
<1> QED BY <1>1, <1>2, <1>3

LEMMA ConsumerTyped ==
  ASSUME NEW e \in 0..MaxScans, NEW status,
         status \in {"unplanned", "partial", "complete", "failed",
                     "corrupted"} \cup Executable
  PROVE  [status |-> status, scan |-> e] \in Consumer
BY DEF Consumer

LEMMA SyncTyped ==
  ASSUME NEW sc \in Seq(Scan), Len(sc) <= MaxScans,
         NEW co \in [Component -> Consumer], NEW s \in 0..MaxScans
  PROVE  Sync(sc, co, s) \in [Component -> Consumer]
<1> DEFINE e == Effective(sc, s)
           W == Waiting(co, {s, e, sc[e].parent} \ {None})
<1>1. e \in 0..MaxScans
  BY EffectiveTyped
<1>2. Sync(sc, co, s) =
        [c \in Component |-> IF c \in W
                             THEN [status |-> Outcome(c, sc[e]), scan |-> e]
                             ELSE co[c]]
  BY DEF Sync
<1> HIDE DEF e, W
<1>3. \A c \in Component : Outcome(c, sc[e]) \in
        {"complete", "failed", "corrupted", "joined"}
  BY DEF Outcome
<1>4. \A c \in Component : [status |-> Outcome(c, sc[e]), scan |-> e] \in Consumer
  BY <1>1, <1>3, ConsumerTyped DEF Executable
<1> QED BY <1>2, <1>4

-----------------------------------------------------------------------------
(* Planning and joining.                                                   *)
LEMMA RowsFacts ==
  ASSUME Rows
  PROVE  /\ frontier \in Frontier /\ frontier.version \in Nat
         /\ frontier.anchor \in Cursor /\ frontier.cursor \in Cursor
         /\ scans \in Seq(Scan) /\ Len(scans) \in Nat /\ Len(scans) <= MaxScans
         /\ DOMAIN scans = 1..Len(scans)
         /\ tasks \in Seq(Slice) /\ Len(tasks) = Len(scans)
         /\ DOMAIN tasks = 1..Len(scans)
         /\ comps \in [Component -> Consumer]
         /\ stored \in SUBSET (1..posts)
         /\ frontier.owner \in 0..Len(scans)
         /\ OpenScans = {frontier.owner} \ {None}
<1>1. /\ frontier \in Frontier
      /\ scans \in Seq(Scan) /\ Len(scans) <= MaxScans
      /\ tasks \in Seq(Slice) /\ Len(tasks) = Len(scans)
      /\ comps \in [Component -> Consumer]
      /\ stored \in SUBSET (1..posts)
      /\ frontier.owner \in 0..Len(scans)
      /\ \A i \in 1..Len(scans) :
           scans[i].status \in Open <=> frontier.owner = i
  BY DEF Rows, Consistent
<1>2. /\ Len(scans) \in Nat /\ DOMAIN scans = 1..Len(scans)
      /\ DOMAIN tasks = 1..Len(scans)
  BY <1>1, LenProperties
<1>3. frontier.version \in Nat /\ frontier.anchor \in Cursor
      /\ frontier.cursor \in Cursor
  BY <1>1 DEF Frontier
<1>4. OpenScans = {frontier.owner} \ {None}
  BY <1>1, <1>2 DEF OpenScans, None
<1> QED BY <1>1, <1>2, <1>3, <1>4

LEMMA ScanFacts ==
  ASSUME Rows, NEW s \in 1..Len(scans)
  PROVE  /\ scans[s] \in Scan /\ tasks[s] \in Slice
         /\ scans[s].slices \in Nat /\ tasks[s].no \in 0..MaxSlices
         /\ tasks[s].retries \in 0..(MaxRetries + 1)
         /\ scans[s].start \in Cursor /\ scans[s].result \in Cursor
         /\ scans[s].status \in Open <=> frontier.owner = s
         /\ Matches(frontier, scans[s], tasks[s])
         /\ tasks[s].status = "pending" => tasks[s].retries <= MaxRetries
<1>1. scans[s] \in Scan /\ tasks[s] \in Slice
  BY RowsFacts, ElementOfSeq
<1>2. /\ scans[s].status \in Open <=> frontier.owner = s
      /\ Matches(frontier, scans[s], tasks[s])
      /\ tasks[s].status = "pending" => tasks[s].retries <= MaxRetries
  BY DEF Rows, Consistent
<1>3. /\ scans[s].slices \in Nat /\ scans[s].start \in Cursor
      /\ scans[s].result \in Cursor
  BY <1>1, Constants DEF Scan
<1>4. tasks[s].no \in 0..MaxSlices /\ tasks[s].retries \in 0..(MaxRetries + 1)
  BY <1>1 DEF Slice
<1> QED BY <1>1, <1>2, <1>3, <1>4

LEMMA JoinKeeps ==
  ASSUME Rows, NEW s, Join(s)
  PROVE  /\ frontier.owner = s /\ s \in 1..Len(scans)
         /\ UNCHANGED <<frontier, scans>>
<1>1. s \in OpenScans
  BY DEF Join, Joinable
<1>2. frontier.owner = s /\ s # None
  BY <1>1, RowsFacts
<1> QED BY <1>2, RowsFacts DEF Join, None

LEMMA PlanKeeps ==
  ASSUME Rows, Plan, NEW c \in Component, NEW co \in [Component -> Consumer],
         NEW t, t = NewSlice(0, c, frontier'.version)
  PROVE  /\ Consistent(stored, frontier', scans', Append(tasks, t), co)
         /\ scans'[Len(scans) + 1].status = "planned"
         /\ frontier.owner = None
<1> DEFINE n == Len(scans) + 1
<1>1. Joinable = {} /\ Len(scans) < MaxScans
      /\ scans' = Append(scans, Planned) /\ frontier' = OwnedBy(n)
  BY DEF Plan
<1>2. OpenScans = {} /\ frontier.owner = None
  BY <1>1, RowsFacts DEF Joinable
<1>3. frontier' = [frontier EXCEPT !.owner = n, !.version = frontier.version + 1]
  BY <1>1, <1>2 DEF OwnedBy
<1>4. n \in 1..MaxScans /\ n \in Nat /\ frontier.version + 1 \in Nat
  BY <1>1, RowsFacts, Constants
<1>5. /\ frontier' \in Frontier /\ frontier'.owner = n
      /\ frontier'.version = frontier.version + 1
  <2>1. n \in 0..MaxScans
    BY <1>4
  <2> HIDE DEF n
  <2> QED BY <1>3, <1>4, <2>1, RowsFacts DEF Frontier
<1>6. PlanMode \in Mode /\ 0 \in Cursor /\ 0 \in 0..MaxScans
  BY Constants DEF PlanMode, Mode, Cursor
<1>7. Planned \in Scan /\ Planned.status = "planned" /\ Planned.slices = 0
  <2>1. (IF PlanMode = "tail" THEN None ELSE frontier.anchor) \in Cursor
    BY <1>6, RowsFacts DEF None
  <2> QED BY <1>6, <2>1, NewScanTyped DEF Planned, None
<1>8. /\ t \in Slice /\ t.status = "pending" /\ t.version = frontier'.version
      /\ t.no = 0 /\ t.retries <= MaxRetries
  BY <1>4, <1>5, Constants, NewSliceTyped
<1>9. Matches(frontier', Planned, t)
  BY <1>7, <1>8 DEF Matches, Open
<1>10. Consistent(stored, frontier', Append(scans, Planned),
                  Append(tasks, t), co)
  <2>1. Planned.status \in Open
    BY <1>7 DEF Open
  <2>2. Consistent(stored, frontier, scans, tasks, comps)
    BY DEF Rows
  <2> QED BY <1>1, <1>2, <1>5, <1>7, <1>8, <1>9, <2>1, <2>2, ScanAppended
<1>11. scans'[n] = Planned
  BY <1>1, RowsFacts, AppendProperties
<1> QED BY <1>1, <1>2, <1>7, <1>10, <1>11

-----------------------------------------------------------------------------
(* Steps outside of slices.                                                *)
LEMMA NoPlanIs ==
  /\ NoPlan \in [repair : SUBSET Component, due : SUBSET Component]
  /\ NoPlan.repair = {} /\ NoPlan.due = {}
BY DEF NoPlan

LEMMA WithoutPlan ==
  ASSUME plan = NoPlan, plan' = plan
  PROVE  InPlan'
BY NoPlanIs DEF InPlan

LEMMA InitInv == Init => Inv
<1> SUFFICES ASSUME Init PROVE Inv
  OBVIOUS
<1>1. World
  BY Constants DEF Init, World
<1>2. Rows
  <2>1. stored \in SUBSET (1..posts)
    BY DEF Init
  <2>2. frontier \in Frontier /\ frontier.owner = 0
    BY Constants DEF Init, Frontier, None, Top, Cursor
  <2>3. scans \in Seq(Scan) /\ tasks \in Seq(Slice)
        /\ Len(scans) = 0 /\ Len(tasks) = 0
    BY EmptySeq DEF Init
  <2>4. comps \in [Component -> Consumer]
    BY Constants DEF Init, Consumer, None
  <2> QED BY <2>1, <2>2, <2>3, <2>4, Constants DEF Rows, Consistent
<1>3. InSlice
  BY Constants DEF Init, InSlice, NoRun, None
<1>4. InPlan
  BY NoPlanIs DEF Init, InPlan
<1> QED BY <1>1, <1>2, <1>3, <1>4 DEF Inv

(* Posts, deletions and the clock.                                         *)
LEMMA OutsideInv ==
  ASSUME Inv,
         Post \/ Tick \/ (\E i \in (1..posts) \ gone : Delete(i))
  PROVE  Inv'
<1>1. /\ UNCHANGED <<stored, frontier, scans, tasks, comps, run, plan, saved>>
      /\ plan = NoPlan
      /\ now' \in 0..MaxTime
      /\ posts' \in 0..MaxPosts /\ 1..posts \subseteq 1..posts'
      /\ gone' \subseteq 1..posts'
  <2>1. CASE Post
    BY <2>1, Constants DEF Post, Inv, World
  <2>2. CASE Tick
    BY <2>2, Constants DEF Tick, Inv, World
  <2>3. CASE \E i \in (1..posts) \ gone : Delete(i)
    BY <2>3 DEF Delete, Inv, World
  <2> QED BY <2>1, <2>2, <2>3
<1>2. World'
  BY <1>1 DEF World
<1>3. Rows'
  BY <1>1 DEF Inv, Rows, Consistent
<1>4. Saved => Saved'
  BY <1>1 DEF Saved, Consistent
<1>5. InSlice'
  BY <1>1, <1>4 DEF Inv, InSlice
<1>6. InPlan'
  BY <1>1, WithoutPlan
<1> QED BY <1>2, <1>3, <1>5, <1>6 DEF Inv

(* A plan begins, goes on and is rolled back.                              *)
LEMMA PlanBeginsInv ==
  ASSUME Inv, NEW S \in SUBSET Plannable, PlanBegins(S)
  PROVE  Inv'
<1>1. /\ run = NoRun /\ saved' = Snapshot
      /\ plan' = [repair |-> InState(Executable), due |-> S \cup PlannedAgain]
      /\ UNCHANGED <<now, posts, gone, stored, frontier, scans, tasks, comps, run>>
  BY DEF PlanBegins
<1>2. World' /\ Rows'
  BY <1>1 DEF Inv, World, Rows, Consistent
<1>3. InSlice'
  BY <1>1, Constants DEF InSlice, NoRun, None
<1>4. Saved'
  BY <1>1 DEF Inv, Rows, Saved, Consistent, Snapshot
<1>5. /\ InState(Executable) \in SUBSET Component
      /\ \A c \in InState(Executable) : comps[c].status \in Executable
      /\ S \cup PlannedAgain \in SUBSET Component
  BY DEF InState, Plannable, PlannedAgain
<1>6. InPlan'
  BY <1>1, <1>4, <1>5 DEF InPlan
<1> QED BY <1>2, <1>3, <1>6 DEF Inv

LEMMA PlanGoesOn ==
  ASSUME Inv, plan # NoPlan,
         NEW repair \in SUBSET Component, NEW due \in SUBSET Component,
         Done(repair, due),
         Consistent(stored', frontier', scans', tasks', comps')
  PROVE  Inv'
<1>1. /\ plan' = [repair |-> {c \in repair : comps'[c].status \in Executable},
                  due |-> due]
      /\ saved' = IF plan' = NoPlan THEN <<>> ELSE saved
      /\ UNCHANGED <<now, posts, gone, stored, run>>
      /\ run = NoRun /\ Saved
  BY DEF Done, Inv, InPlan
<1>2. World' /\ Rows'
  BY <1>1 DEF Inv, World, Rows, Consistent
<1>3. InSlice'
  BY <1>1, Constants DEF InSlice, NoRun, None
<1>4. plan' # NoPlan => Saved'
  BY <1>1 DEF Saved, Consistent
<1>5. InPlan'
  BY <1>1, <1>4 DEF InPlan
<1> QED BY <1>2, <1>3, <1>5 DEF Inv

LEMMA RolledBackRows ==
  ASSUME Inv, Saved, RollBack
  PROVE  World' /\ Rows'
BY DEF RollBack, Inv, World, Rows, Saved, Consistent

LEMMA PlanRaisesInv ==
  ASSUME Inv, PlanRaises
  PROVE  Inv'
<1>1. RollBack /\ plan' = NoPlan /\ run' = run /\ plan # NoPlan
  BY NoPlanIs DEF PlanRaises
<1>2. run = NoRun /\ Saved
  BY <1>1 DEF Inv, InPlan
<1>3. InSlice'
  BY <1>1, <1>2, Constants DEF InSlice, NoRun, None
<1>4. InPlan'
  BY <1>1, NoPlanIs DEF InPlan
<1> QED BY <1>1, <1>2, <1>3, <1>4, RolledBackRows DEF Inv

LEMMA MaterializeInv ==
  ASSUME Inv, NEW c \in Component, Materialize(c)
  PROVE  Inv'
<1>1. /\ plan # NoPlan /\ Done({}, plan.due \ {c}) /\ stored' = stored
      /\ {} \in SUBSET Component /\ plan.due \ {c} \in SUBSET Component
      /\ MaterializeKept(c) \/ MaterializePlanned(c)
         \/ \E s \in ScanId : MaterializeJoined(c, s)
  BY NoPlanIs DEF Materialize, Done, Inv, InPlan
<1>2. Rows
  BY DEF Inv
<1>3. CASE MaterializePlanned(c)
  <2>1. /\ Plan
        /\ tasks' = Append(tasks, NewSlice(0, c, frontier'.version))
        /\ comps' = [comps EXCEPT ![c] = [status |-> "pending",
                                          scan |-> Len(scans) + 1]]
    BY <1>3 DEF MaterializePlanned
  <2>2. Len(scans) + 1 \in 0..MaxScans
    BY <2>1, <1>2, RowsFacts, Constants DEF Plan
  <2>3. comps' \in [Component -> Consumer]
    BY <2>1, <2>2, <1>2, RowsFacts, ConsumerTyped DEF Executable
  <2>4. Consistent(stored', frontier', scans', tasks', comps')
    BY <2>1, <2>3, <1>1, <1>2, PlanKeeps
  <2> QED BY <1>1, <2>4, PlanGoesOn
<1>4. ASSUME NEW s \in ScanId, MaterializeJoined(c, s)
      PROVE  Inv'
  <2>1. /\ Join(s) /\ UNCHANGED tasks
        /\ comps' = [comps EXCEPT ![c] = [status |-> "joined", scan |-> s]]
    BY <1>4 DEF MaterializeJoined
  <2>2. UNCHANGED <<frontier, scans>>
    BY <2>1, <1>2, JoinKeeps
  <2>3. comps' \in [Component -> Consumer]
    <3>1. s \in 0..MaxScans
      BY Constants DEF ScanId
    <3> QED BY <2>1, <3>1, <1>2, RowsFacts, ConsumerTyped DEF Executable
  <2>4. Consistent(stored', frontier', scans', tasks', comps')
    BY <1>1, <1>2, <2>1, <2>2, <2>3 DEF Rows, Consistent
  <2> QED BY <1>1, <2>4, PlanGoesOn
<1>5. CASE MaterializeKept(c)
  <2>1. Consistent(stored', frontier', scans', tasks', comps')
    BY <1>1, <1>2, <1>5 DEF MaterializeKept, Rows, Consistent
  <2> QED BY <1>1, <2>1, PlanGoesOn
<1> QED BY <1>1, <1>3, <1>4, <1>5

(* The repair finds the slice of an open scan in the queue.                *)
LEMMA NothingToReissue ==
  ASSUME Rows, UNCHANGED <<frontier, scans>>, NEW s \in 1..Len(scans),
         frontier.owner = s, NEW c
  PROVE  Reissued(s, c) = tasks
<1>1. scans[s].status \in Open
  BY ScanFacts
<1>2. scans[s].status # "running" => scans[s].slices = tasks[s].no
  BY <1>1, ScanFacts DEF Matches
<1>3. scans[s].status \in {"planned", "paused"} =>
        ~(tasks[s].no < SliceNo(scans[s]))
  BY <1>2, ScanFacts DEF SliceNo
<1>4. s \in DOMAIN tasks
  BY RowsFacts
<1>5. NewSlice(SliceNo(scans'[s]), c, frontier'.version).no = SliceNo(scans'[s])
  BY DEF NewSlice
<1> QED BY <1>3, <1>4, <1>5 DEF Reissued

LEMMA RepairInv ==
  ASSUME Inv, NEW c \in Component, Repair(c)
  PROVE  Inv'
<1>1. /\ plan # NoPlan /\ Done(plan.repair \ {c}, plan.due)
      /\ plan.repair \ {c} \in SUBSET Component
      /\ plan.due \in SUBSET Component
      /\ RepairSettled(c) \/ RepairExpired(c) \/ RepairActive(c)
      /\ stored' = stored
  BY NoPlanIs DEF Repair, Done, Inv, InPlan
<1>2. Rows
  BY DEF Inv
<1>3. Resynced(c) \in [Component -> Consumer]
  <2>1. comps[c].scan \in 0..MaxScans
    BY <1>2, RowsFacts DEF Consumer
  <2> QED BY <2>1, <1>2, RowsFacts, SyncTyped DEF Resynced
<1>4. CASE RepairSettled(c) \/ RepairExpired(c)
  <2>1. UNCHANGED <<frontier, scans, tasks>>
    BY <1>4 DEF RepairSettled, RepairExpired
  <2>2. comps' \in [Component -> Consumer]
    BY <1>3, <1>4 DEF RepairSettled, RepairExpired, Consumer
  <2>3. Consistent(stored', frontier', scans', tasks', comps')
    BY <1>1, <1>2, <2>1, <2>2 DEF Rows, Consistent
  <2> QED BY <1>1, <2>3, PlanGoesOn
<1>5. CASE RepairActive(c)
  <2>1. PICK s \in ScanId :
          /\ Reclaim(c, s)
          /\ comps' = [Resynced(c) EXCEPT ![c] = [status |-> "joined",
                                                  scan |-> s]]
          /\ tasks' = Reissued(s, c)
    BY <1>5 DEF RepairActive
  <2>2. comps' \in [Component -> Consumer]
    <3>1. s \in 0..MaxScans
      BY Constants DEF ScanId
    <3> QED BY <2>1, <3>1, <1>3, ConsumerTyped DEF Executable
  <2>3. CASE frontier.owner = s /\ UNCHANGED <<frontier, scans>>
    <3>1. s \in 1..Len(scans)
      BY <2>3, <1>2, RowsFacts DEF ScanId
    <3>2. tasks' = tasks
      BY <2>1, <2>3, <3>1, <1>2, NothingToReissue
    <3>3. Consistent(stored', frontier', scans', tasks', comps')
      BY <1>1, <1>2, <2>2, <2>3, <3>2 DEF Rows, Consistent
    <3> QED BY <1>1, <3>3, PlanGoesOn
  <2>4. CASE Plan /\ s = Len(scans) + 1
    <3>1. s \notin DOMAIN tasks
      BY <2>4, <1>2, RowsFacts
    <3>2. scans'[s].status = "planned"
      BY <2>2, <2>4, <1>2, PlanKeeps
    <3>3. tasks' = Append(tasks, NewSlice(0, c, frontier'.version))
      BY <2>1, <3>1, <3>2 DEF Reissued, SliceNo
    <3>4. Consistent(stored', frontier', scans', tasks', comps')
      BY <1>1, <1>2, <2>2, <2>4, <3>3, PlanKeeps
    <3> QED BY <1>1, <3>4, PlanGoesOn
  <2>5. CASE Join(s)
    BY <2>3, <2>5, <1>2, JoinKeeps
  <2> QED BY <2>1, <2>3, <2>4, <2>5 DEF Reclaim
<1> QED BY <1>1, <1>4, <1>5

-----------------------------------------------------------------------------
(* Slices.  A slice in the queue is never refused.                         *)
LEMMA PendingIsValid ==
  ASSUME Rows, NEW s \in DOMAIN scans, tasks[s].status = "pending"
  PROVE  /\ Valid(s) /\ s \in 1..Len(scans)
         /\ scans[s].status \in Open /\ frontier.owner = s
         /\ tasks[s].version = frontier.version
         /\ tasks[s].retries <= MaxRetries
         /\ scans[s].slices = tasks[s].no +
                              (IF scans[s].status = "running" THEN 1 ELSE 0)
<1>1. s \in 1..Len(scans)
  BY RowsFacts
<1>2. scans[s].status \in Open
  BY <1>1, ScanFacts DEF Matches
<1> QED BY <1>1, <1>2, ScanFacts DEF Matches, Valid

LEMMA StartInv ==
  ASSUME Inv, NEW s \in DOMAIN scans, Start(s)
  PROVE  Inv'
<1> DEFINE scan == [scans[s] EXCEPT !.status = "running",
                      !.slices = IF scans[s].status = "running"
                                 THEN scans[s].slices ELSE scans[s].slices + 1]
<1>1. Rows /\ tasks[s].status = "pending"
  BY DEF Inv, Start
<1>2. /\ Valid(s) /\ s \in 1..Len(scans)
      /\ scans[s].status \in Open /\ frontier.owner = s
      /\ tasks[s].version = frontier.version /\ tasks[s].retries <= MaxRetries
      /\ scans[s].slices = tasks[s].no +
                           (IF scans[s].status = "running" THEN 1 ELSE 0)
  BY <1>1, PendingIsValid
<1>3. /\ scans' = [scans EXCEPT ![s] = scan]
      /\ comps' = [comps EXCEPT ![tasks[s].comp].status = "running"]
      /\ run' = [NoRun EXCEPT !.scan = s, !.last = "none"]
      /\ saved' = Snapshot
      /\ UNCHANGED <<now, posts, gone, stored, frontier, tasks, plan>>
      /\ plan = NoPlan /\ tasks[s].comp \in Component
  BY <1>2 DEF Start, MarkRunning, Executes
<1>4. tasks[s] \in Slice /\ tasks[s].no \in 0..MaxSlices /\ scans[s] \in Scan
  BY <1>1, <1>2, ScanFacts
<1>5. /\ scan \in Scan /\ scan.status = "running"
      /\ scan.slices = tasks[s].no + 1
  <2> DEFINE slices == IF scans[s].status = "running"
                       THEN scans[s].slices ELSE scans[s].slices + 1
  <2>1. slices = tasks[s].no + 1 /\ slices \in 0..(MaxSlices + 1)
    BY <1>2, <1>4, Constants
  <2>2. scan = [scans[s] EXCEPT !.status = "running", !.slices = slices]
    OBVIOUS
  <2> HIDE DEF slices, scan
  <2> QED BY <1>4, <2>1, <2>2 DEF Scan, Open
<1> HIDE DEF scan
<1>6. comps' \in [Component -> Consumer]
  BY <1>1, <1>3, RowsFacts DEF Consumer, Executable
<1>7. Matches(frontier, scan, tasks[s]) /\ scan.status \in Open
  BY <1>1, <1>2, <1>5 DEF Matches, Open
<1>8. tasks = [tasks EXCEPT ![s] = tasks[s]]
  BY <1>1, RowsFacts
<1>9. Consistent(stored, frontier, scans', tasks, comps')
  <2>1. Consistent(stored, frontier, scans, tasks, comps)
    BY <1>1 DEF Rows
  <2>2. stored \in SUBSET (1..posts) /\ frontier \in Frontier
    BY <1>1, RowsFacts
  <2>3. frontier.owner = IF scan.status \in Open THEN s ELSE None
    BY <1>2, <1>7
  <2>4. Consistent(stored, frontier, [scans EXCEPT ![s] = scan],
                   [tasks EXCEPT ![s] = tasks[s]], comps')
    BY <1>2, <1>4, <1>5, <1>6, <1>7, <2>1, <2>2, <2>3, SliceStep
  <2> QED BY <1>3, <1>8, <2>4
<1>10. World' /\ Rows'
  BY <1>3, <1>9 DEF Inv, World, Rows, Consistent
<1>11. Saved'
  BY <1>1, <1>3 DEF Rows, Saved, Consistent, Snapshot
<1>12. InSlice'
  <2>1. Len(scans') = Len(scans) /\ scans'[s] = scan
    BY <1>1, <1>2, <1>3, <1>5, RowsFacts, ExceptSeq
  <2>2. s \in 1..MaxScans
    BY <1>1, <1>2, RowsFacts, Constants
  <2>3. run' = [scan |-> s, read |-> FALSE, last |-> "none"]
    BY <1>3 DEF NoRun
  <2>4. s # None /\ s \in 0..MaxScans
    BY <2>2, Constants DEF None
  <2> QED BY <1>2, <1>5, <1>11, <2>1, <2>3, <2>4 DEF InSlice
<1>13. InPlan'
  BY <1>3, WithoutPlan
<1> QED BY <1>10, <1>12, <1>13 DEF Inv

(* What holds while a slice of s is at work.                               *)
LEMMA AtWork ==
  ASSUME Inv, NEW s \in DOMAIN scans, run.scan = s
  PROVE  /\ s \in 1..Len(scans) /\ s \in 0..MaxScans /\ s # None
         /\ Rows /\ Saved
         /\ scans[s] \in Scan /\ scans[s].status = "running"
         /\ scans[s].start \in Cursor /\ scans[s].result \in Cursor
         /\ tasks[s] \in Slice /\ tasks[s].status = "pending"
         /\ tasks[s].no \in 0..MaxSlices
         /\ tasks[s].version = frontier.version
         /\ tasks[s].retries \in 0..MaxRetries
         /\ scans[s].slices = tasks[s].no + 1
         /\ frontier.owner = s
         /\ run.last \in {"none", "more", "match", "end"}
         /\ plan = NoPlan
<1>1. Rows /\ s \in 1..Len(scans) /\ s # None /\ s \in 0..MaxScans
  <2>1. Rows
    BY DEF Inv
  <2>2. s \in 1..Len(scans) /\ Len(scans) \in Nat /\ Len(scans) <= MaxScans
    BY <2>1, RowsFacts
  <2> QED BY <2>1, <2>2, Constants DEF None
<1>2. scans[s].status = "running" /\ Saved
      /\ run.last \in {"none", "more", "match", "end"}
      /\ plan = NoPlan
  BY <1>1 DEF Inv, InSlice, InPlan, NoRun
<1>3. /\ scans[s] \in Scan /\ tasks[s] \in Slice
      /\ tasks[s].no \in 0..MaxSlices
      /\ tasks[s].retries \in 0..(MaxRetries + 1)
      /\ scans[s].start \in Cursor /\ scans[s].result \in Cursor
      /\ scans[s].status \in Open <=> frontier.owner = s
      /\ Matches(frontier, scans[s], tasks[s])
      /\ tasks[s].status = "pending" => tasks[s].retries <= MaxRetries
  BY <1>1, ScanFacts
<1>4. /\ frontier.owner = s /\ tasks[s].status = "pending"
      /\ tasks[s].version = frontier.version
      /\ scans[s].slices = tasks[s].no + 1
  BY <1>2, <1>3 DEF Matches, Open
<1> QED BY <1>1, <1>2, <1>3, <1>4, Constants

(* It goes on: a compare-and-swap of the frontier, with the scan and the   *)
(* slice stamped accordingly.                                              *)
LEMMA SliceGoesOn ==
  ASSUME Inv, NEW s \in DOMAIN scans, run.scan = s,
         NEW scan \in Scan, scan.status = "running",
         scan.slices = scans[s].slices, scans' = [scans EXCEPT ![s] = scan],
         frontier' \in Frontier, frontier'.owner = s,
         tasks' = Stamped(s, frontier'.version),
         stored' \in SUBSET (1..posts),
         run' = run \/ (\E last \in {"more", "match", "end"} :
           run' = [run EXCEPT !.read = TRUE, !.last = last]),
         UNCHANGED <<now, posts, gone, comps, plan, saved>>
  PROVE  Inv'
<1> DEFINE t == [tasks[s] EXCEPT !.version = frontier'.version]
<1>1. /\ s \in 1..Len(scans) /\ s # None /\ Rows /\ Saved
      /\ tasks[s] \in Slice /\ tasks[s].status = "pending"
      /\ tasks[s].retries \in 0..MaxRetries
      /\ scans[s].slices = tasks[s].no + 1 /\ frontier.owner = s
  BY AtWork
<1>2. tasks' = [tasks EXCEPT ![s] = t]
  BY DEF Stamped
<1>3. /\ t \in Slice /\ t.status = "pending" /\ t.version = frontier'.version
      /\ t.no = tasks[s].no /\ t.retries <= MaxRetries
  <2>1. frontier'.version \in Nat
    BY DEF Frontier
  <2>2. t \in Slice
    BY <1>1, <2>1 DEF Slice
  <2>3. /\ t.status = tasks[s].status /\ t.version = frontier'.version
        /\ t.no = tasks[s].no /\ t.retries = tasks[s].retries
    BY <1>1 DEF Slice
  <2> QED BY <1>1, <2>2, <2>3, Constants
<1> HIDE DEF t
<1>4. Matches(frontier', scan, t) /\ scan.status \in Open
  BY <1>1, <1>3 DEF Matches, Open
<1>5. Consistent(stored', frontier', scans', tasks', comps)
  <2>1. Consistent(stored, frontier, scans, tasks, comps)
    BY <1>1 DEF Rows
  <2>2. comps \in [Component -> Consumer]
    BY <1>1, RowsFacts
  <2>3. frontier'.owner = IF scan.status \in Open THEN s ELSE None
    BY <1>4
  <2>4. Consistent(stored', frontier', [scans EXCEPT ![s] = scan],
                   [tasks EXCEPT ![s] = t], comps)
    BY <1>1, <1>3, <1>4, <2>1, <2>2, <2>3, SliceStep
  <2> QED BY <1>2, <2>4
<1>6. World' /\ Rows' /\ Saved'
  BY <1>1, <1>5 DEF Inv, World, Rows, Saved, Consistent
<1>7. Len(scans') = Len(scans) /\ scans'[s] = scan
  BY <1>1, RowsFacts, ExceptSeq
<1>8. /\ run' \in [scan : 0..MaxScans, read : BOOLEAN,
                   last : {"none", "more", "match", "end"}]
      /\ run'.scan = s
  BY DEF Inv, InSlice
<1>9. InSlice'
  BY <1>1, <1>6, <1>7, <1>8 DEF InSlice
<1>10. InPlan'
  BY AtWork, WithoutPlan
<1> QED BY <1>6, <1>9, <1>10 DEF Inv

LEMMA ReadInv ==
  ASSUME Inv, NEW s \in DOMAIN scans, NEW next \in Cursor, Read(s, next)
  PROVE  Inv'
<1> DEFINE item == Item(frontier.cursor)
<1>1. /\ run.scan = s /\ stored' = stored \cup ({item} \ {None})
      /\ scans' = Witnessed(s, item)
      /\ frontier' = Progress(s, next, Seen(s) \cup {frontier.cursor}, 0)
      /\ tasks' = Stamped(s, frontier'.version)
      /\ run' = [run EXCEPT !.read = TRUE, !.last = Verdict(s, item, next)]
      /\ UNCHANGED <<now, posts, gone, comps, plan, saved>>
  BY DEF Read, Fetching, Reading
<1>2. World /\ Rows /\ s \in 1..Len(scans) /\ s \in 0..MaxScans
      /\ scans[s] \in Scan /\ scans[s].status = "running"
      /\ frontier.owner = s
  BY <1>1, AtWork DEF Inv
<1>3. frontier \in Frontier /\ frontier.cursor \in Cursor
      /\ stored \in SUBSET (1..posts) /\ DOMAIN scans = 1..Len(scans)
  BY <1>2, RowsFacts
<1>4. item \in Cursor /\ (item # None => item \in 1..posts)
  BY <1>2, PageTyped
<1> HIDE DEF item
<1>5. frontier' \in Frontier /\ frontier'.owner = s
  <2>1. Seen(s) \cup {frontier.cursor} \in SUBSET Cursor
    BY <1>3, ProgressOf
  <2>2. 0 \in 0..PageAttempts
    BY Constants
  <2> QED BY <1>1, <1>2, <1>3, <2>1, <2>2, ProgressTyped
<1>6. PICK scan \in Scan : /\ scan.status = "running"
                           /\ scan.slices = scans[s].slices
                           /\ scans' = [scans EXCEPT ![s] = scan]
  <2>1. frontier.cursor \in 0..NoPage /\ now \in 0..Never
    BY <1>2, <1>3, Constants DEF Cursor, NoPage, Never, World
  <2>2. CASE scans[s].first # NoPage
    <3>1. scans' = [scans EXCEPT ![s] = scans[s]]
      BY <1>1, <1>2, <1>3, <2>2, RowsFacts DEF Witnessed
    <3> QED BY <1>2, <3>1
  <2>3. CASE scans[s].first = NoPage /\ scans[s].mode = "tail"
    <3> DEFINE scan == [scans[s] EXCEPT !.start = item,
                                        !.first = frontier.cursor]
    <3>1. scans' = [scans EXCEPT ![s] = scan]
      BY <1>1, <2>3 DEF Witnessed
    <3>2. scan \in Scan /\ scan.status = "running"
          /\ scan.slices = scans[s].slices
      BY <1>2, <1>4, <2>1 DEF Scan
    <3> QED BY <3>1, <3>2
  <2>4. CASE scans[s].first = NoPage /\ scans[s].mode # "tail"
    <3> DEFINE scan == [scans[s] EXCEPT !.result = item, !.head = now,
                                        !.first = frontier.cursor]
    <3>1. scans' = [scans EXCEPT ![s] = scan]
      BY <1>1, <2>4 DEF Witnessed
    <3>2. scan \in Scan /\ scan.status = "running"
          /\ scan.slices = scans[s].slices
      BY <1>2, <1>4, <2>1 DEF Scan
    <3> QED BY <3>1, <3>2
  <2> QED BY <2>2, <2>3, <2>4
<1>7. Verdict(s, item, next) \in {"more", "match", "end"}
  BY DEF Verdict
<1>8. stored' \in SUBSET (1..posts)
  BY <1>1, <1>3, <1>4
<1> QED BY <1>1, <1>5, <1>6, <1>7, <1>8, SliceGoesOn

LEMMA FetchFailsInv ==
  ASSUME Inv, NEW s \in DOMAIN scans, FetchFails(s)
  PROVE  Inv'
<1>1. /\ run.scan = s /\ Failures(s) + 1 < PageAttempts
      /\ frontier' = Progress(s, frontier.cursor, Seen(s), Failures(s) + 1)
      /\ tasks' = Stamped(s, frontier'.version)
      /\ UNCHANGED <<now, posts, gone, stored, scans, comps, run, plan, saved>>
  BY DEF FetchFails, Fetching, Reading
<1>2. Rows /\ s \in 1..Len(scans) /\ s \in 0..MaxScans
      /\ scans[s] \in Scan /\ scans[s].status = "running"
      /\ frontier.owner = s
  BY <1>1, AtWork
<1>3. frontier \in Frontier /\ frontier.cursor \in Cursor
      /\ stored \in SUBSET (1..posts)
      /\ Seen(s) \in SUBSET Cursor /\ Failures(s) \in 0..PageAttempts
  BY <1>2, RowsFacts, ProgressOf
<1>4. frontier' \in Frontier /\ frontier'.owner = s
  <2>1. Failures(s) + 1 \in 0..PageAttempts
    BY <1>1, <1>3, Constants
  <2> QED BY <1>1, <1>2, <1>3, <2>1, ProgressTyped
<1>5. scans' = [scans EXCEPT ![s] = scans[s]]
  BY <1>1, <1>2, RowsFacts
<1> QED BY <1>1, <1>2, <1>3, <1>4, <1>5, SliceGoesOn

-----------------------------------------------------------------------------
(* The ends of a slice.                                                    *)
(* It commits the rows of its scan and of its slice.                       *)
LEMMA SliceEnds ==
  ASSUME Inv, NEW s \in DOMAIN scans, run.scan = s,
         NEW scan \in Scan, scans' = [scans EXCEPT ![s] = scan],
         NEW t \in Slice, tasks' = [tasks EXCEPT ![s] = t],
         frontier' \in Frontier, Matches(frontier', scan, t),
         t.status = "pending" => t.retries <= MaxRetries,
         frontier'.owner = IF scan.status \in Open THEN s ELSE None,
         Commit(s)
  PROVE  Inv'
<1>1. /\ comps' = Sync(scans', comps, s) /\ run' = NoRun
      /\ UNCHANGED <<now, posts, gone, stored, plan>>
  BY DEF Commit
<1>2. /\ s \in 1..Len(scans) /\ s \in 0..MaxScans /\ Rows
      /\ frontier.owner = s
  BY AtWork
<1>3. /\ scans \in Seq(Scan) /\ Len(scans) <= MaxScans
      /\ comps \in [Component -> Consumer] /\ stored \in SUBSET (1..posts)
  BY <1>2, RowsFacts
<1>4. scans' \in Seq(Scan) /\ Len(scans') <= MaxScans
  BY <1>2, <1>3, ExceptSeq
<1>5. comps' \in [Component -> Consumer]
  BY <1>1, <1>2, <1>3, <1>4, SyncTyped
<1>6. Consistent(stored, frontier, scans, tasks, comps)
  BY <1>2 DEF Rows
<1>7. Consistent(stored, frontier', scans', tasks', comps')
  BY <1>2, <1>3, <1>5, <1>6, SliceStep
<1>8. World' /\ Rows'
  BY <1>1, <1>7 DEF Inv, World, Rows, Consistent
<1>9. InSlice'
  BY <1>1, Constants DEF InSlice, NoRun, None
<1>10. InPlan'
  BY <1>1, AtWork, WithoutPlan
<1> QED BY <1>8, <1>9, <1>10 DEF Inv

(* It closes its scan, has succeeded and gives the frontier free.          *)
LEMMA ScanCloses ==
  ASSUME Inv, NEW s \in DOMAIN scans, run.scan = s,
         NEW status \in Closed, scans' = CloseScan(s, status),
         frontier' \in Frontier, frontier'.owner = None,
         tasks' = Succeeded(s), Commit(s)
  PROVE  Inv'
<1> DEFINE scan == [scans[s] EXCEPT !.status = status]
           t == [tasks[s] EXCEPT !.status = "succeeded"]
<1>1. scans[s] \in Scan /\ tasks[s] \in Slice
  BY AtWork
<1>2. scan \in Scan /\ scan.status = status
  BY <1>1 DEF Scan
<1>3. t \in Slice /\ t.status = "succeeded"
  BY <1>1 DEF Slice
<1>4. scans' = [scans EXCEPT ![s] = scan] /\ tasks' = [tasks EXCEPT ![s] = t]
  BY DEF CloseScan, Succeeded
<1>5. status \notin Open
  BY DEF Open, Closed
<1> HIDE DEF scan, t
<1>6. Matches(frontier', scan, t)
  BY <1>2, <1>3, <1>5 DEF Matches
<1>7. frontier'.owner = IF scan.status \in Open THEN s ELSE None
  BY <1>2, <1>5
<1>8. t.status = "pending" => t.retries <= MaxRetries
  BY <1>3
<1> QED BY <1>2, <1>3, <1>4, <1>6, <1>7, <1>8, SliceEnds

LEMMA CursorLoopInv ==
  ASSUME Inv, NEW s \in DOMAIN scans, CursorLoop(s)
  PROVE  Inv'
<1>1. /\ run.scan = s /\ scans' = CloseScan(s, "corrupted")
      /\ frontier' = [Release(frontier, frontier.cursor)
                        EXCEPT !.baseline = Baseline(s)]
      /\ tasks' = Succeeded(s) /\ Commit(s)
  BY DEF CursorLoop, Reading
<1>2. frontier \in Frontier /\ frontier.cursor \in Cursor
  BY <1>1, AtWork, RowsFacts
<1>3. Baseline(s) \in {"none", "tail_complete", "complete", "corrupted"}
  BY <1>2 DEF Baseline, Frontier
<1>4. frontier' \in Frontier /\ frontier'.owner = None
  BY <1>1, <1>2, <1>3, ReleaseTyped DEF Frontier
<1> QED BY <1>1, <1>4, ScanCloses DEF Closed

LEMMA RetryExhaustedInv ==
  ASSUME Inv, NEW s \in DOMAIN scans, RetryExhausted(s)
  PROVE  Inv'
<1> DEFINE f == Progress(s, frontier.cursor, Seen(s), PageAttempts)
<1>1. /\ run.scan = s /\ scans' = CloseScan(s, "corrupted")
      /\ frontier' = Release(f, frontier.cursor)
      /\ tasks' = Succeeded(s) /\ Commit(s)
  BY DEF RetryExhausted, Fetching, Reading
<1>2. /\ frontier \in Frontier /\ frontier.cursor \in Cursor
      /\ s \in 0..MaxScans
  BY <1>1, AtWork, RowsFacts
<1>3. Seen(s) \in SUBSET Cursor /\ PageAttempts \in 0..PageAttempts
  BY <1>2, ProgressOf, Constants
<1>4. f \in Frontier
  BY <1>2, <1>3, ProgressTyped
<1>5. frontier' \in Frontier /\ frontier'.owner = None
  BY <1>1, <1>2, <1>4, ReleaseTyped
<1> QED BY <1>1, <1>5, ScanCloses DEF Closed

LEMMA CompleteEmptyInv ==
  ASSUME Inv, NEW s \in DOMAIN scans, CompleteEmpty(s)
  PROVE  Inv'
<1>1. /\ run.scan = s /\ scans' = CloseScan(s, "complete")
      /\ frontier' = [Release(frontier, Top) EXCEPT !.baseline = "complete",
                                                     !.anchor = None]
      /\ tasks' = Succeeded(s) /\ Commit(s)
  BY DEF CompleteEmpty
<1>2. frontier \in Frontier
  BY <1>1, AtWork, RowsFacts
<1>3. Top \in Cursor /\ None \in Cursor
  BY Constants DEF Top, None, Cursor
<1>4. frontier' \in Frontier /\ frontier'.owner = None
  BY <1>1, <1>2, <1>3, ReleaseTyped DEF Frontier
<1> QED BY <1>1, <1>4, ScanCloses DEF Closed

LEMMA StartAnchorMissingInv ==
  ASSUME Inv, NEW s \in DOMAIN scans, StartAnchorMissing(s)
  PROVE  Inv'
<1>1. /\ run.scan = s /\ scans' = CloseScan(s, "corrupted")
      /\ frontier' = [Release(frontier, Top) EXCEPT !.baseline = "corrupted"]
      /\ tasks' = Succeeded(s) /\ Commit(s)
  BY DEF StartAnchorMissing
<1>2. frontier \in Frontier
  BY <1>1, AtWork, RowsFacts
<1>3. Top \in Cursor
  BY Constants DEF Top, Cursor
<1>4. frontier' \in Frontier /\ frontier'.owner = None
  BY <1>1, <1>2, <1>3, ReleaseTyped DEF Frontier
<1> QED BY <1>1, <1>4, ScanCloses DEF Closed

LEMMA PromoteTyped ==
  ASSUME frontier \in Frontier, NEW s, scans[s].result \in Cursor
  PROVE  Promote(s) \in Frontier /\ Promote(s).owner = None
<1>1. Top \in Cursor
  BY Constants DEF Top, Cursor
<1>2. Release(frontier, Top) \in Frontier
      /\ Release(frontier, Top).owner = None
  BY <1>1, ReleaseTyped
<1> QED BY <1>2 DEF Promote, Frontier

LEMMA CompleteHeadInv ==
  ASSUME Inv, NEW s \in DOMAIN scans, CompleteHead(s)
  PROVE  Inv'
<1>1. /\ run.scan = s /\ scans' = CloseScan(s, "complete")
      /\ frontier' = Promote(s) /\ tasks' = Succeeded(s) /\ Commit(s)
  BY DEF CompleteHead
<1>2. frontier' \in Frontier /\ frontier'.owner = None
  BY <1>1, AtWork, RowsFacts, PromoteTyped
<1> QED BY <1>1, <1>2, ScanCloses DEF Closed

LEMMA CompleteIncrementalInv ==
  ASSUME Inv, NEW s \in DOMAIN scans, CompleteIncremental(s)
  PROVE  Inv'
<1>1. /\ run.scan = s
      /\ \E status \in {"partial", "complete"} : scans' = CloseScan(s, status)
      /\ frontier' = Promote(s) /\ tasks' = Succeeded(s) /\ Commit(s)
  BY DEF CompleteIncremental
<1>2. frontier' \in Frontier /\ frontier'.owner = None
  BY <1>1, AtWork, RowsFacts, PromoteTyped
<1> QED BY <1>1, <1>2, ScanCloses DEF Closed

LEMMA PauseInv ==
  ASSUME Inv, NEW s \in DOMAIN scans, Pause(s)
  PROVE  Inv'
<1> DEFINE scan == [scans[s] EXCEPT !.status = "paused"]
           t == NewSlice(tasks[s].no + 1, tasks[s].comp, frontier'.version)
<1>1. /\ run.scan = s /\ tasks[s].no < MaxSlices
      /\ scans' = [scans EXCEPT ![s] = scan]
      /\ frontier' = Progress(s, frontier.cursor, Seen(s), Failures(s))
      /\ tasks' = NextSlice(s, frontier'.version) /\ Commit(s)
  BY DEF Pause, Reading, CloseScan
<1>2. /\ s \in 1..Len(scans) /\ s \in 0..MaxScans /\ Rows
      /\ scans[s] \in Scan /\ tasks[s] \in Slice
      /\ tasks[s].no \in 0..MaxSlices
      /\ scans[s].slices = tasks[s].no + 1 /\ frontier.owner = s
  BY <1>1, AtWork
<1>3. frontier \in Frontier /\ frontier.cursor \in Cursor
      /\ Seen(s) \in SUBSET Cursor /\ Failures(s) \in 0..PageAttempts
      /\ DOMAIN tasks = 1..Len(scans)
  BY <1>2, RowsFacts, ProgressOf
<1>4. frontier' \in Frontier /\ frontier'.owner = s
  BY <1>1, <1>2, <1>3, ProgressTyped
<1>5. tasks' = [tasks EXCEPT ![s] = t]
  BY <1>1, <1>2, <1>3 DEF NextSlice
<1>6. /\ t \in Slice /\ t.status = "pending" /\ t.version = frontier'.version
      /\ t.no = tasks[s].no + 1 /\ t.retries <= MaxRetries
  <2>1. tasks[s].no + 1 \in 0..MaxSlices
    BY <1>1, <1>2, Constants
  <2>2. tasks[s].comp \in Component \cup {None}
    BY <1>2 DEF Slice
  <2>3. frontier'.version \in Nat
    BY <1>4 DEF Frontier
  <2> QED BY <2>1, <2>2, <2>3, NewSliceTyped
<1>7. /\ scan \in Scan /\ scan.status = "paused"
      /\ scan.slices = scans[s].slices
  BY <1>2 DEF Scan, Open
<1> HIDE DEF scan, t
<1>8. Matches(frontier', scan, t) /\ scan.status \in Open
  BY <1>2, <1>6, <1>7 DEF Matches, Open
<1> QED BY <1>1, <1>4, <1>5, <1>6, <1>7, <1>8, SliceEnds

(* An attempt that is left leaves the scan as it is; the last one closes   *)
(* it, since the frontier has not moved on from the slice.                 *)
LEMMA FailInv ==
  ASSUME Inv, NEW s \in DOMAIN scans,
         NEW status \in {"failed", "corrupted"}, Fail(s, status)
  PROVE  Inv'
<1> DEFINE t == [tasks[s] EXCEPT !.retries = tasks[s].retries + 1,
                   !.status = IF tasks[s].retries < MaxRetries THEN "pending"
                              ELSE "failed"]
<1>1. run.scan = s /\ Commit(s) /\ tasks' = [tasks EXCEPT ![s] = t]
  BY DEF Fail
<1>2. /\ s \in 1..Len(scans) /\ Rows
      /\ scans[s] \in Scan /\ scans[s].status = "running"
      /\ tasks[s] \in Slice /\ tasks[s].retries \in 0..MaxRetries
      /\ tasks[s].version = frontier.version
      /\ scans[s].slices = tasks[s].no + 1 /\ frontier.owner = s
  BY <1>1, AtWork
<1>3. frontier \in Frontier /\ DOMAIN scans = 1..Len(scans)
  BY <1>2, RowsFacts
<1>4. /\ t \in Slice /\ t.no = tasks[s].no /\ t.version = frontier.version
      /\ t.retries = tasks[s].retries + 1
      /\ t.status = IF tasks[s].retries < MaxRetries THEN "pending" ELSE "failed"
  <2>1. tasks[s].retries + 1 \in 0..(MaxRetries + 1)
    BY <1>2, Constants
  <2> QED BY <1>2, <2>1 DEF Slice
<1>5. CASE tasks[s].retries < MaxRetries
  <2>1. t.status = "pending" /\ t.retries <= MaxRetries
    BY <1>2, <1>4, <1>5, Constants
  <2>2. scans' = scans /\ frontier' = frontier
    BY <1>5 DEF Fail
  <2>3. scans' = [scans EXCEPT ![s] = scans[s]]
    BY <1>2, <2>2, RowsFacts
  <2>4. Matches(frontier', scans[s], t) /\ scans[s].status \in Open
    BY <1>2, <1>4, <2>1, <2>2 DEF Matches, Open
  <2> HIDE DEF t
  <2> QED BY <1>1, <1>2, <1>3, <1>4, <2>1, <2>2, <2>3, <2>4, SliceEnds
<1>6. CASE ~(tasks[s].retries < MaxRetries)
  <2> DEFINE scan == [scans[s] EXCEPT !.status = status]
  <2>1. t.status = "failed"
    BY <1>4, <1>6
  <2>2. scans' = CloseScan(s, status) /\ frontier' = Release(frontier, Top)
    BY <1>2, <1>4, <1>6 DEF Fail, Open
  <2>3. scans' = [scans EXCEPT ![s] = scan]
    BY <2>2 DEF CloseScan
  <2>4. scan \in Scan /\ scan.status = status
    BY <1>2 DEF Scan, Closed
  <2>5. frontier' \in Frontier /\ frontier'.owner = None
    <3>1. Top \in Cursor
      BY Constants DEF Top, Cursor
    <3> QED BY <1>3, <2>2, <3>1, ReleaseTyped
  <2> HIDE DEF t, scan
  <2>6. Matches(frontier', scan, t) /\ scan.status \notin Open
    BY <2>1, <2>4 DEF Matches, Open
  <2>7. t.status = "pending" => t.retries <= MaxRetries
    BY <2>1
  <2> QED BY <1>1, <1>4, <2>3, <2>4, <2>5, <2>6, <2>7, SliceEnds
<1> QED BY <1>5, <1>6

LEMMA DieInv ==
  ASSUME Inv, NEW s \in DOMAIN scans, Die(s)
  PROVE  Inv'
<1>1. run.scan = s /\ RollBack /\ run' = NoRun /\ plan' = plan
  BY DEF Die
<1>2. World' /\ Rows'
  BY <1>1, AtWork, RolledBackRows
<1>3. InSlice'
  BY <1>1, Constants DEF InSlice, NoRun, None
<1>4. InPlan'
  BY <1>1, AtWork, WithoutPlan
<1> QED BY <1>2, <1>3, <1>4 DEF Inv

(* The tail is closed, and then the head sweep is appended.                *)
LEMMA HandOverInv ==
  ASSUME Inv, NEW s \in DOMAIN scans, HandOver(s)
  PROVE  Inv'
<1> DEFINE child == Len(scans) + 1
           W == Waiting(comps, {s})
           c == tasks[s].comp
           moved == [k \in Component |->
                       IF k \in W THEN [status |-> "joined", scan |-> child]
                       ELSE comps[k]]
           owner == IF c \in W \/ W = {} THEN {c} \cap W ELSE W
           closed == [scans[s] EXCEPT !.status = "complete"]
           done == [tasks[s] EXCEPT !.status = "succeeded"]
           head == NewScan("head", s, scans[s].start)
           f == [frontier EXCEPT !.owner = None]
<1>1. /\ run.scan = s /\ Len(scans) < MaxScans /\ run' = NoRun
      /\ scans' = Append(CloseScan(s, "complete"), head)
      /\ frontier' = [frontier EXCEPT
                        !.owner = child, !.version = @ + 1, !.cursor = Top,
                        !.baseline = "tail_complete",
                        !.of = child, !.seen = {}, !.failures = 0]
      /\ \E k \in IF owner = {} THEN {None} ELSE owner :
           tasks' = Append(Succeeded(s), NewSlice(0, k, frontier'.version))
      /\ comps' = Sync(scans', moved, s)
      /\ UNCHANGED <<now, posts, gone, stored, plan>>
  BY DEF HandOver
<1>2. PICK k \in IF owner = {} THEN {None} ELSE owner :
        tasks' = Append(Succeeded(s), NewSlice(0, k, frontier'.version))
  BY <1>1
<1>3. k \in Component \cup {None}
  BY DEF Waiting
<1>4. /\ s \in 1..Len(scans) /\ s \in 0..MaxScans /\ Rows
      /\ scans[s] \in Scan /\ scans[s].start \in Cursor
      /\ tasks[s] \in Slice /\ frontier.owner = s
  BY <1>1, AtWork
<1>5. /\ frontier \in Frontier /\ scans \in Seq(Scan) /\ Len(scans) \in Nat
      /\ comps \in [Component -> Consumer] /\ stored \in SUBSET (1..posts)
      /\ frontier.version + 1 \in Nat
  BY <1>4, RowsFacts
<1>6. child \in 0..MaxScans /\ child \in Nat
  BY <1>1, <1>5, Constants
<1>7. moved \in [Component -> Consumer]
  <2>1. [status |-> "joined", scan |-> child] \in Consumer
    BY <1>6, ConsumerTyped DEF Executable
  <2> HIDE DEF child, W
  <2> QED BY <1>5, <2>1
<1>8. /\ closed \in Scan /\ closed.status = "complete"
      /\ done \in Slice /\ done.status = "succeeded"
  BY <1>4 DEF Scan, Slice, Closed
<1>9. f \in Frontier /\ f.owner = None
  <2>1. None \in 0..MaxScans
    BY Constants DEF None
  <2> QED BY <1>5, <2>1 DEF Frontier
<1>10. /\ frontier' \in Frontier /\ frontier'.owner = child
       /\ frontier'.version \in Nat
  <2>1. Top \in Cursor /\ 0 \in 0..PageAttempts
    BY Constants DEF Top, Cursor
  <2>2. frontier' = [frontier EXCEPT
                       !.owner = child, !.version = frontier.version + 1,
                       !.cursor = Top, !.baseline = "tail_complete",
                       !.of = child, !.seen = {}, !.failures = 0]
    BY <1>1
  <2> HIDE DEF child
  <2> QED BY <1>5, <1>6, <2>1, <2>2 DEF Frontier
<1>11. /\ head \in Scan /\ head.status = "planned" /\ head.slices = 0
  BY <1>4, NewScanTyped DEF Mode
<1> DEFINE slice == NewSlice(0, k, frontier'.version)
<1>12. /\ slice \in Slice /\ slice.status = "pending"
       /\ slice.version = frontier'.version /\ slice.no = 0
       /\ slice.retries <= MaxRetries
  <2>1. 0 \in 0..MaxSlices
    BY Constants
  <2> QED BY <1>3, <1>10, <2>1, NewSliceTyped
<1>13. /\ CloseScan(s, "complete") = [scans EXCEPT ![s] = closed]
       /\ Succeeded(s) = [tasks EXCEPT ![s] = done]
  BY DEF CloseScan, Succeeded
<1> HIDE DEF child, W, c, moved, owner, closed, done, head, f, slice
<1>14. Consistent(stored, f, CloseScan(s, "complete"), Succeeded(s), comps)
  <2>1. Consistent(stored, frontier, scans, tasks, comps)
    BY <1>4 DEF Rows
  <2>2. Matches(f, closed, done) /\ closed.status \notin Open
    BY <1>8 DEF Matches, Open
  <2>3. f.owner = IF closed.status \in Open THEN s ELSE None
    BY <1>9, <2>2
  <2>4. done.status = "pending" => done.retries <= MaxRetries
    BY <1>8
  <2>5. Consistent(stored, f, [scans EXCEPT ![s] = closed],
                   [tasks EXCEPT ![s] = done], comps)
    BY <1>4, <1>5, <1>8, <1>9, <2>1, <2>2, <2>3, <2>4, SliceStep
  <2> QED BY <1>13, <2>5
<1>15. Len(CloseScan(s, "complete")) = Len(scans)
  BY <1>4, <1>5, <1>8, <1>13, ExceptSeq
<1>16. scans' \in Seq(Scan) /\ Len(scans') <= MaxScans
  <2>1. CloseScan(s, "complete") \in Seq(Scan)
    BY <1>4, <1>5, <1>8, <1>13, ExceptSeq
  <2>2. scans' \in Seq(Scan) /\ Len(scans') = Len(scans) + 1
    BY <1>1, <1>11, <1>15, <2>1, AppendProperties
  <2> QED BY <1>1, <1>5, <2>2, Constants
<1>17. comps' \in [Component -> Consumer]
  BY <1>1, <1>4, <1>7, <1>16, SyncTyped
<1>18. Consistent(stored, frontier', scans', tasks', comps')
  <2>1. Matches(frontier', head, slice) /\ head.status \in Open
    BY <1>11, <1>12 DEF Matches, Open
  <2>2. /\ frontier'.owner = Len(CloseScan(s, "complete")) + 1
        /\ Len(CloseScan(s, "complete")) < MaxScans
    BY <1>1, <1>10, <1>15 DEF child
  <2>3. Consistent(stored, frontier', Append(CloseScan(s, "complete"), head),
                   Append(Succeeded(s), slice), comps')
    BY <1>9, <1>10, <1>11, <1>12, <1>14, <1>17, <2>1, <2>2, ScanAppended
  <2>4. tasks' = Append(Succeeded(s), slice)
    BY <1>2 DEF slice
  <2> QED BY <1>1, <2>3, <2>4
<1>19. World' /\ Rows'
  BY <1>1, <1>18 DEF Inv, World, Rows, Consistent
<1>20. InSlice'
  BY <1>1, Constants DEF InSlice, NoRun, None
<1>21. InPlan'
  BY <1>1, AtWork, WithoutPlan
<1> QED BY <1>19, <1>20, <1>21 DEF Inv

-----------------------------------------------------------------------------
LEMMA WorkInv ==
  ASSUME Inv, NEW s \in DOMAIN scans, Work(s)
  PROVE  Inv'
<1>1. CASE \E next \in Cursor : Read(s, next)
  BY <1>1, ReadInv
<1>2. CASE FetchFails(s)
  BY <1>2, FetchFailsInv
<1>3. CASE Pause(s)
  BY <1>3, PauseInv
<1>4. CASE CursorLoop(s)
  BY <1>4, CursorLoopInv
<1>5. CASE RetryExhausted(s)
  BY <1>5, RetryExhaustedInv
<1>6. CASE CompleteEmpty(s)
  BY <1>6, CompleteEmptyInv
<1>7. CASE HandOver(s)
  BY <1>7, HandOverInv
<1>8. CASE CompleteHead(s)
  BY <1>8, CompleteHeadInv
<1>9. CASE StartAnchorMissing(s)
  BY <1>9, StartAnchorMissingInv
<1>10. CASE CompleteIncremental(s)
  BY <1>10, CompleteIncrementalInv
<1>11. CASE \E status \in {"failed", "corrupted"} : Fail(s, status)
  BY <1>11, FailInv
<1>12. CASE Die(s)
  BY <1>12, DieInv
<1> QED BY <1>1, <1>2, <1>3, <1>4, <1>5, <1>6, <1>7, <1>8, <1>9, <1>10, <1>11,
           <1>12 DEF Work

LEMMA NextInv == Inv /\ [Next]_vars => Inv'
<1> SUFFICES ASSUME Inv, [Next]_vars PROVE Inv'
  OBVIOUS
<1>1. CASE Post \/ Tick \/ \E i \in (1..posts) \ gone : Delete(i)
  BY <1>1, OutsideInv
<1>2. CASE (\E S \in SUBSET Plannable : PlanBegins(S)) \/ Planning
  BY <1>2, PlanBeginsInv, MaterializeInv, RepairInv, PlanRaisesInv DEF Planning
<1>3. CASE \E s \in DOMAIN scans : Start(s) \/ Work(s)
  BY <1>3, StartInv, WorkInv
<1>4. CASE UNCHANGED vars
  BY <1>4 DEF vars, Inv, World, Rows, InSlice, InPlan, Saved, Consistent
<1> QED BY <1>1, <1>2, <1>3, <1>4 DEF Next

(* What the runs check follows from it.                                    *)
LEMMA InvTypes == Inv => TypeOK
<1> SUFFICES ASSUME Inv PROVE TypeOK
  OBVIOUS
<1>1. World /\ Rows /\ InSlice /\ InPlan
  BY DEF Inv
<1> QED BY <1>1, RowsFacts DEF TypeOK, World, InSlice, InPlan

LEMMA InvOwnership == Inv => OwnershipExact
BY RowsFacts DEF Inv, OwnershipExact

LEMMA InvSlices == Inv => SliceMatchesScan
<1> SUFFICES ASSUME Inv, NEW s \in DOMAIN scans
             PROVE  IF scans[s].status \in Open
                    THEN /\ tasks[s].status = "pending"
                         /\ tasks[s].version = frontier.version
                         /\ scans[s].slices = tasks[s].no +
                              (IF scans[s].status = "running" THEN 1 ELSE 0)
                    ELSE tasks[s].status # "pending"
  BY DEF SliceMatchesScan
<1>1. Rows /\ s \in 1..Len(scans)
  BY RowsFacts DEF Inv
<1> QED BY <1>1, ScanFacts DEF Matches

-----------------------------------------------------------------------------
(* Evidence.  It is a matter of the open scan, and of where the frontier   *)
(* stands.                                                                 *)
SameScan(scan, scan2) ==
  /\ scan2.mode = scan.mode /\ scan2.start = scan.start
  /\ scan2.result = scan.result /\ scan2.first = scan.first

SameProgress(f, f2) ==
  /\ f2.baseline = f.baseline /\ f2.anchor = f.anchor /\ f2.owner = f.owner
  /\ f2.cursor = f.cursor /\ SeenBy(f2, f2.owner) = SeenBy(f, f.owner)

LEMMA EvidenceKept ==
  ASSUME NEW st, NEW f, NEW sc, Evidence(st, f, sc),
         NEW st2, st \subseteq st2, NEW f2, SameProgress(f, f2),
         NEW sc2, f.owner # None => SameScan(sc[f.owner], sc2[f.owner])
  PROVE  Evidence(st2, f2, sc2)
BY DEF Evidence, Pursued, Covered, Origin, SameScan, SameProgress

(* A frontier that is free has only its anchor to answer for.              *)
LEMMA EvidenceFree ==
  ASSUME NEW st, NEW f, NEW sc, f.owner = None,
         IF f.baseline = "complete" THEN Covered(st, 0, f.anchor)
                                    ELSE f.anchor = None
  PROVE  Evidence(st, f, sc)
BY DEF Evidence

LEMMA OwnScan ==
  ASSUME NEW st, NEW f, NEW sc, NEW ta, NEW co, Consistent(st, f, sc, ta, co),
         f.owner # None
  PROVE  sc[f.owner] \in Scan /\ Origin(sc[f.owner]) \in Cursor
<1>1. f.owner \in 1..Len(sc) /\ sc \in Seq(Scan)
  BY DEF Consistent, None
<1>2. sc[f.owner] \in Scan
  BY <1>1, ElementOfSeq
<1> QED BY <1>2 DEF Scan, Origin

(* Posts, deletions and the clock: no new comment is as old as an origin.  *)
LEMMA OutsideEvident ==
  ASSUME Inv, Inv', Evident,
         Post \/ Tick \/ (\E i \in (1..posts) \ gone : Delete(i))
  PROVE  Evident'
<1>1. /\ UNCHANGED <<stored, frontier, scans, tasks, comps, run, plan, saved>>
      /\ plan = NoPlan /\ gone \subseteq gone' /\ posts <= posts'
  BY DEF Post, Tick, Delete, Inv, World
<1>2. posts \in Nat /\ posts' \in Nat
  BY DEF Inv, World
<1>3. Evidence(stored, frontier, scans)'
  <2>1. frontier.owner # None => Origin(scans[frontier.owner]) \in Cursor
    BY OwnScan DEF Inv, Rows
  <2>2. Evidence(stored, frontier, scans)
    BY DEF Evident
  <2> QED BY <1>1, <1>2, <2>1, <2>2, Constants
          DEF Evidence, Pursued, Covered, Origin, SeenBy, Cursor
<1>4. ASSUME run.scan # None
      PROVE  Evidence(saved.stored, saved.frontier, saved.scans)' /\ PageRead'
  <2>1. saved.frontier.owner # None =>
          Origin(saved.scans[saved.frontier.owner]) \in Cursor
    BY <1>4, OwnScan DEF Inv, InSlice, Saved
  <2>2. Evidence(saved.stored, saved.frontier, saved.scans) /\ PageRead
    BY <1>4 DEF Evident
  <2>3. Evidence(saved.stored, saved.frontier, saved.scans)'
    BY <1>1, <1>2, <2>1, <2>2, Constants
       DEF Evidence, Pursued, Covered, Origin, SeenBy, Cursor
  <2>4. PageRead'
    BY <1>1, <2>2 DEF PageRead, Covered
  <2> QED BY <2>3, <2>4
<1> QED BY <1>1, <1>3, <1>4 DEF Evident

(* A plan begins, goes on and is rolled back.                              *)
LEMMA PlanBeginsEvident ==
  ASSUME Inv, Evident, NEW S \in SUBSET Plannable, PlanBegins(S)
  PROVE  Evident'
<1>1. /\ run' = NoRun /\ saved' = Snapshot /\ Evidence(stored, frontier, scans)
      /\ UNCHANGED <<posts, gone, stored, frontier, scans>>
  BY DEF PlanBegins, Evident
<1>2. Evidence(stored, frontier, scans)'
  BY <1>1 DEF Evidence, Pursued, Covered, Origin, SeenBy
<1>3. Evidence(saved.stored, saved.frontier, saved.scans)'
  BY <1>1 DEF Evidence, Pursued, Covered, Origin, SeenBy, Snapshot
<1>4. run'.scan = None
  BY <1>1 DEF NoRun
<1> QED BY <1>2, <1>3, <1>4 DEF Evident

LEMMA PlanEvident ==
  ASSUME Inv, Evident, plan # NoPlan, NEW repair, NEW due, Done(repair, due),
         Evidence(stored', frontier', scans')
  PROVE  Evident'
<1>1. /\ saved' = IF plan' = NoPlan THEN <<>> ELSE saved
      /\ UNCHANGED <<posts, gone, run>> /\ run.scan = None
      /\ Evidence(saved.stored, saved.frontier, saved.scans)
  BY DEF Done, Inv, InPlan, NoRun, Evident
<1>2. Evidence(stored, frontier, scans)'
  BY <1>1 DEF Evidence, Pursued, Covered, Origin, SeenBy
<1>3. plan' # NoPlan => Evidence(saved.stored, saved.frontier, saved.scans)'
  BY <1>1 DEF Evidence, Pursued, Covered, Origin, SeenBy
<1> QED BY <1>1, <1>2, <1>3 DEF Evident

LEMMA UntouchedEvidence ==
  ASSUME Evidence(stored, frontier, scans), UNCHANGED <<stored, frontier, scans>>
  PROVE  Evidence(stored', frontier', scans')
OBVIOUS

(* A new scan goes on from the anchor of the frontier.                     *)
LEMMA PlanEvidence ==
  ASSUME Rows, Evidence(stored, frontier, scans), Plan, stored' = stored
  PROVE  Evidence(stored', frontier', scans')
<1> DEFINE n == Len(scans) + 1
<1>1. Joinable = {} /\ Len(scans) < MaxScans
      /\ scans' = Append(scans, Planned) /\ frontier' = OwnedBy(n)
  BY DEF Plan
<1>2. OpenScans = {} /\ frontier.owner = None
  BY <1>1, RowsFacts DEF Joinable
<1>3. /\ frontier'.owner = n
      /\ frontier'.baseline = frontier.baseline
      /\ frontier'.anchor = frontier.anchor
  BY <1>1, RowsFacts DEF OwnedBy, Frontier
<1>4. scans'[n] = Planned
  BY <1>1, RowsFacts, AppendProperties
<1>5. /\ Planned.mode = PlanMode /\ Planned.first = NoPage
      /\ PlanMode # "tail" => Planned.start = frontier.anchor
  BY DEF Planned, NewScan
<1>6. Pursued(stored, frontier', Planned)
  BY <1>3, <1>5 DEF Pursued, PlanMode, Evidence, Covered, None
<1> HIDE DEF n
<1> QED BY <1>3, <1>4, <1>6 DEF Evidence

LEMMA MaterializeEvident ==
  ASSUME Inv, Evident, NEW c \in Component, Materialize(c)
  PROVE  Evident'
<1>1. /\ plan # NoPlan /\ Done({}, plan.due \ {c})
      /\ Rows /\ Evidence(stored, frontier, scans) /\ stored' = stored
      /\ Plan \/ (\E s \in ScanId : Join(s)) \/ UNCHANGED <<frontier, scans>>
  BY NoPlanIs DEF Materialize, MaterializeKept, MaterializePlanned,
     MaterializeJoined, Done, Inv, Evident
<1>2. Evidence(stored', frontier', scans')
  BY <1>1, PlanEvidence, JoinKeeps, UntouchedEvidence
<1> QED BY <1>1, <1>2, PlanEvident

LEMMA RepairEvident ==
  ASSUME Inv, Evident, NEW c \in Component, Repair(c)
  PROVE  Evident'
<1>1. /\ plan # NoPlan /\ Done(plan.repair \ {c}, plan.due)
      /\ Rows /\ Evidence(stored, frontier, scans) /\ stored' = stored
      /\ Plan \/ (\E s \in ScanId : Join(s)) \/ UNCHANGED <<frontier, scans>>
  BY NoPlanIs DEF Repair, RepairSettled, RepairExpired, RepairActive, Reclaim,
     Done, Inv, Evident
<1>2. Evidence(stored', frontier', scans')
  BY <1>1, PlanEvidence, JoinKeeps, UntouchedEvidence
<1> QED BY <1>1, <1>2, PlanEvident

(* A slice that goes on, and one that ends.                                *)
LEMMA EvidentInSlice ==
  ASSUME Inv, Evident, NEW s \in DOMAIN scans, run.scan = s, run'.scan = s,
         UNCHANGED <<gone, posts, saved>>,
         Evidence(stored', frontier', scans'), PageRead'
  PROVE  Evident'
<1>1. Evidence(stored, frontier, scans)'
  BY DEF Evidence, Pursued, Covered, Origin, SeenBy
<1>2. Evidence(saved.stored, saved.frontier, saved.scans)
  BY AtWork DEF Evident
<1>3. Evidence(saved.stored, saved.frontier, saved.scans)'
  BY <1>2 DEF Evidence, Pursued, Covered, Origin, SeenBy
<1> QED BY <1>1, <1>3 DEF Evident

LEMMA EvidentAtEnd ==
  ASSUME run' = NoRun, plan' = NoPlan, UNCHANGED <<gone, posts>>,
         Evidence(stored', frontier', scans')
  PROVE  Evident'
<1>1. Evidence(stored, frontier, scans)'
  BY DEF Evidence, Pursued, Covered, Origin, SeenBy
<1> QED BY <1>1 DEF Evident, NoRun

LEMMA RolledBackEvident ==
  ASSUME Evidence(saved.stored, saved.frontier, saved.scans), RollBack,
         run' = NoRun, plan' = NoPlan
  PROVE  Evident'
<1>1. /\ stored' = saved.stored /\ frontier' = saved.frontier
      /\ scans' = saved.scans /\ UNCHANGED <<posts, gone>>
  BY DEF RollBack
<1>2. Evidence(stored', frontier', scans')
  BY <1>1
<1> QED BY <1>1, <1>2, EvidentAtEnd

LEMMA PlanRaisesEvident ==
  ASSUME Inv, Evident, PlanRaises
  PROVE  Evident'
<1>1. plan # NoPlan /\ RollBack /\ run' = run /\ plan' = NoPlan
  BY NoPlanIs DEF PlanRaises
<1>2. run = NoRun /\ Evidence(saved.stored, saved.frontier, saved.scans)
  BY <1>1 DEF Inv, InPlan, Evident
<1> QED BY <1>1, <1>2, RolledBackEvident

LEMMA StartEvident ==
  ASSUME Inv, Evident, NEW s \in DOMAIN scans, Start(s)
  PROVE  Evident'
<1>1. /\ Rows /\ tasks[s].status = "pending" /\ Evidence(stored, frontier, scans)
      /\ saved' = Snapshot
      /\ UNCHANGED <<now, posts, gone, stored, frontier, tasks>>
  BY DEF Start, Inv, Evident
<1>2. Valid(s) /\ s \in 1..Len(scans) /\ frontier.owner = s
  BY <1>1, PendingIsValid
<1>3. /\ scans' = MarkRunning(s)
      /\ run' = [scan |-> s, read |-> FALSE, last |-> "none"]
  BY <1>2 DEF Start, NoRun
<1>4. SameScan(scans[s], scans'[s])
  BY <1>1, <1>2, <1>3, RowsFacts, ScanFacts DEF MarkRunning, SameScan, Scan
<1>5. Evidence(stored', frontier', scans')
  BY <1>1, <1>2, <1>4, EvidenceKept DEF SameProgress
<1>6. Evidence(stored, frontier, scans)'
  BY <1>1, <1>5 DEF Evidence, Pursued, Covered, Origin, SeenBy
<1>7. Evidence(saved.stored, saved.frontier, saved.scans)'
  BY <1>1 DEF Evidence, Pursued, Covered, Origin, SeenBy, Snapshot
<1>8. PageRead'
  BY <1>3 DEF PageRead
<1> QED BY <1>6, <1>7, <1>8 DEF Evident

(* The page at cursor c holds the newest of the comments that are left     *)
(* there; there is none between it and the one after.                      *)
LEMMA PageCovers ==
  ASSUME World, NEW c \in Cursor
  PROVE  /\ Item(c) # None => Item(c) <= posts /\ (c = Top \/ Item(c) <= c)
         /\ \A x \in (1..posts) \ gone : c = Top \/ x <= c =>
              /\ x <= Item(c) /\ Item(c) # None
              /\ x # Item(c) => x <= After(c)
<1>1. /\ Listed(c) \in SUBSET (1..posts)
      /\ \A x : x \in Listed(c) <=>
                  x \in (1..posts) \ gone /\ (c = Top \/ x <= c)
  BY DEF Listed
<1>2. /\ Item(c) # None => Item(c) \in Listed(c)
      /\ \A x \in Listed(c) : x <= Item(c) /\ Item(c) # None
  BY <1>1, NewestTyped DEF Item
<1>3. \A x \in Listed(c) \ {Item(c)} : x <= After(c)
  BY <1>1, NewestTyped DEF After
<1> QED BY <1>1, <1>2, <1>3 DEF World

(* What a page adds to the evidence of its scan.                           *)
LEMMA ReadEvident ==
  ASSUME Inv, Inv', Evident, NEW s \in DOMAIN scans, NEW next \in Cursor,
         Read(s, next)
  PROVE  Evident'
<1> DEFINE c == frontier.cursor
           item == Item(c)
           old == scans[s]
           new == scans'[s]
<1>1. /\ run.scan = s /\ c \notin Seen(s) /\ run.last \in {"none", "more"}
      /\ next \in NextCursors(s, c)
      /\ stored' = stored \cup ({item} \ {None})
      /\ scans' = Witnessed(s, item)
      /\ frontier' = Progress(s, next, Seen(s) \cup {c}, 0)
      /\ run' = [run EXCEPT !.read = TRUE, !.last = Verdict(s, item, next)]
      /\ UNCHANGED <<now, posts, gone, comps, plan, saved>>
  BY DEF Read, Fetching, Reading
<1>2. /\ World /\ Rows /\ s \in 1..Len(scans) /\ s # None /\ old \in Scan
      /\ frontier.owner = s /\ frontier \in Frontier /\ c \in Cursor
      /\ scans \in Seq(Scan)
  BY <1>1, AtWork, RowsFacts DEF Inv
<1>3. /\ frontier'.baseline = frontier.baseline
      /\ frontier'.anchor = frontier.anchor /\ frontier'.owner = s
      /\ frontier'.cursor = next /\ SeenBy(frontier', s) = Seen(s) \cup {c}
      /\ SeenBy(frontier, s) = Seen(s)
  BY <1>1, <1>2 DEF Progress, Frontier, SeenBy, Seen
<1>4. /\ run'.scan = s /\ run'.last = Verdict(s, item, next)
  BY <1>1 DEF Inv, InSlice
<1>5. new = IF old.first # NoPage THEN old
            ELSE IF old.mode = "tail"
            THEN [old EXCEPT !.start = item, !.first = c]
            ELSE [old EXCEPT !.result = item, !.head = now, !.first = c]
  BY <1>1, <1>2, RowsFacts DEF Witnessed
<1>6. /\ new.mode = old.mode /\ new.first # NoPage
      /\ new.mode # "tail" => new.start = old.start
      /\ Origin(new) = IF old.first # NoPage THEN Origin(old) ELSE item
      /\ old.first # NoPage => Origin(old) \in Cursor /\ old.result \in Cursor
  <2>1. c # NoPage
    BY <1>2, Constants DEF NoPage, Cursor
  <2>2. CASE old.first # NoPage
    BY <2>2, <1>2, <1>5 DEF Scan, Origin
  <2>3. CASE old.first = NoPage /\ old.mode = "tail"
    BY <2>1, <2>3, <1>2, <1>5 DEF Scan, Origin
  <2>4. CASE old.first = NoPage /\ old.mode # "tail"
    BY <2>1, <2>4, <1>2, <1>5 DEF Scan, Origin
  <2> QED BY <2>2, <2>3, <2>4
<1>7. Pursued(stored, frontier, old)
  BY <1>2 DEF Evident, Evidence
<1> HIDE DEF new, old, item
<1>8. old.first # NoPage =>
        Origin(old) <= posts /\ Covered(stored, c, Origin(old))
  BY <1>1, <1>2, <1>3, <1>7 DEF Pursued
<1> DEFINE after == After(c)
<1>9. /\ c \in Nat /\ next \in Nat /\ item \in Nat /\ after \in Nat
      /\ posts \in Nat /\ Origin(new) \in Nat /\ Origin(new) <= posts
      /\ item # None => c = Top \/ item <= c
      /\ \A x \in (1..posts) \ gone : c = Top \/ x <= c =>
           x <= item /\ (x # item => x <= after)
  <2>1. Cursor \subseteq Nat /\ posts \in Nat
    BY <1>2, Constants DEF Cursor, World
  <2>2. item \in Cursor /\ after \in Cursor
    BY <1>2, PageTyped DEF item
  <2>3. /\ item # None => item <= posts /\ (c = Top \/ item <= c)
        /\ \A x \in (1..posts) \ gone : c = Top \/ x <= c =>
             x <= item /\ (x # item => x <= after)
    BY <1>2, PageCovers DEF item
  <2> HIDE DEF c, after
  <2>4. Origin(new) \in Nat /\ Origin(new) <= posts
    <3>1. CASE old.first # NoPage
      BY <3>1, <1>6, <1>8, <2>1
    <3>2. CASE old.first = NoPage
      <4>1. Origin(new) = item
        BY <3>2, <1>6
      <4>2. item \in Nat /\ item <= posts
        BY <2>1, <2>2, <2>3 DEF None
      <4> QED BY <4>1, <4>2
    <3> QED BY <3>1, <3>2
  <2> QED BY <1>2, <2>1, <2>2, <2>3, <2>4
<1>10. next = after \/ next \in (Seen(s) \cup {c}) \ {Top}
  BY <1>1 DEF NextCursors
<1> HIDE DEF c, after
<1>11. next \in SeenBy(frontier', s) \ {Top} \/ Covered(stored', next, Origin(new))
  <2>2. CASE next = after
    <3> SUFFICES ASSUME NEW x \in (next + 1)..Origin(new), x \notin gone
                 PROVE  x \in stored'
      BY DEF Covered
    <3>1. x \in 1..posts /\ next < x
      BY <1>9
    <3>2. CASE c = Top \/ x <= c
      <4>1. x = item
        BY <3>1, <3>2, <1>9, <2>2
      <4> QED BY <3>1, <4>1, <1>1 DEF None
    <3>3. CASE c # Top /\ c < x
      <4>1. old.first # NoPage
        BY <1>6, <1>9, <3>1, <3>3 DEF None, Top
      <4>2. x \in (c + 1)..Origin(old)
        BY <1>6, <1>9, <3>1, <3>3, <4>1
      <4> QED BY <1>1, <1>8, <4>1, <4>2 DEF Covered
    <3> QED BY <3>2, <3>3, <3>1, <1>9
  <2> QED BY <1>3, <1>10, <2>2
<1>12. Pursued(stored', frontier', new)
  <2>1. new.mode = "head" => Covered(stored', 0, new.start)
    BY <1>1, <1>6, <1>7 DEF Pursued, Covered
  <2> QED BY <1>3, <1>6, <1>7, <1>9, <1>11, <2>1 DEF Pursued
<1>13. Evidence(stored', frontier', scans')
  BY <1>1, <1>2, <1>3, <1>12 DEF new, Evident, Evidence, Covered
<1>14. PageRead'
  <2>1. ASSUME run'.last = "end"
        PROVE  new.first # NoPage /\ frontier'.cursor = Top
    BY <2>1, <1>3, <1>4, <1>6 DEF Verdict
  <2>2. ASSUME run'.last = "match"
        PROVE  /\ new.mode # "tail" /\ new.first # NoPage
               /\ Covered(stored', new.start, new.result)
    <3>1. old.mode # "tail" /\ item # None /\ item = old.start
      BY <2>2, <1>4 DEF Verdict, old, item
    <3>2. Origin(new) = new.result /\ new.start = item
      BY <1>6, <3>1 DEF Origin
    <3> SUFFICES ASSUME NEW x \in (item + 1)..Origin(new), x \notin gone
                 PROVE  x \in stored'
      BY <1>6, <3>1, <3>2 DEF Covered
    <3>3. x \in 1..posts /\ item < x /\ item \in Nat
      BY <1>9
    <3>4. old.first # NoPage /\ ~(c = Top \/ x <= c)
      BY <1>6, <1>9, <3>3
    <3>5. x \in (c + 1)..Origin(old)
      BY <1>6, <1>9, <3>3, <3>4
    <3> QED BY <1>1, <1>8, <3>4, <3>5 DEF Covered
  <2> QED BY <1>1, <1>4, <2>1, <2>2 DEF PageRead, Covered, new
<1> QED BY <1>1, <1>4, <1>13, <1>14, EvidentInSlice

(* A failed request and a pause leave the cursor where it is.              *)
LEMMA ProgressKept ==
  ASSUME frontier \in Frontier, NEW s, frontier.owner = s, NEW failures,
         NEW f, f = Progress(s, frontier.cursor, Seen(s), failures)
  PROVE  SameProgress(frontier, f)
BY DEF Progress, Frontier, SameProgress, SeenBy, Seen

LEMMA FetchFailsEvident ==
  ASSUME Inv, Evident, NEW s \in DOMAIN scans, FetchFails(s)
  PROVE  Evident'
<1>1. /\ run.scan = s /\ run.last \in {"none", "more"}
      /\ frontier' = Progress(s, frontier.cursor, Seen(s), Failures(s) + 1)
      /\ UNCHANGED <<now, posts, gone, stored, scans, comps, run, plan, saved>>
  BY DEF FetchFails, Fetching, Reading
<1>2. frontier \in Frontier /\ frontier.owner = s
  BY <1>1, AtWork, RowsFacts
<1>3. Evidence(stored', frontier', scans')
  BY <1>1, <1>2, ProgressKept, EvidenceKept DEF Evident, SameScan
<1>4. PageRead'
  BY <1>1 DEF PageRead
<1> QED BY <1>1, <1>3, <1>4, EvidentInSlice

LEMMA PauseEvident ==
  ASSUME Inv, Evident, NEW s \in DOMAIN scans, Pause(s)
  PROVE  Evident'
<1>1. /\ run.scan = s /\ run' = NoRun /\ plan' = NoPlan
      /\ frontier' = Progress(s, frontier.cursor, Seen(s), Failures(s))
      /\ scans' = CloseScan(s, "paused")
      /\ UNCHANGED <<posts, gone, stored>>
  BY AtWork DEF Pause, Reading, Commit
<1>2. /\ frontier \in Frontier /\ frontier.owner = s /\ scans[s] \in Scan
  BY <1>1, AtWork, RowsFacts
<1>3. SameScan(scans[s], scans'[s])
  BY <1>1, <1>2 DEF CloseScan, SameScan, Scan
<1>4. Evidence(stored', frontier', scans')
  BY <1>1, <1>2, <1>3, ProgressKept, EvidenceKept DEF Evident
<1> QED BY <1>1, <1>4, EvidentAtEnd

(* A scan that is closed without success leaves the anchor alone, unless   *)
(* it was to lay the baseline and there is none yet.                       *)
LEMMA FreeEvident ==
  ASSUME Evident, run' = NoRun, plan' = NoPlan,
         UNCHANGED <<gone, posts, stored>>,
         frontier'.owner = None, frontier'.anchor = frontier.anchor,
         \/ frontier'.baseline = frontier.baseline
         \/ frontier'.baseline # "complete" /\ frontier.baseline # "complete"
  PROVE  Evident'
<1>1. IF frontier'.baseline = "complete" THEN Covered(stored', 0, frontier'.anchor)
                                         ELSE frontier'.anchor = None
  BY DEF Evident, Evidence
<1>2. Evidence(stored', frontier', scans')
  BY <1>1, EvidenceFree
<1> QED BY <1>2, EvidentAtEnd

(* While a head sweep is under way the baseline is not complete.           *)
LEMMA PursuedAtWork ==
  ASSUME Inv, Evident, NEW s \in DOMAIN scans, run.scan = s
  PROVE  Pursued(stored, frontier, scans[s])
BY AtWork DEF Evident, Evidence

LEMMA ReleaseKeeps ==
  ASSUME NEW f \in Frontier, NEW cursor
  PROVE  /\ Release(f, cursor).owner = None
         /\ Release(f, cursor).anchor = f.anchor
         /\ Release(f, cursor).baseline = f.baseline
         /\ DOMAIN Release(f, cursor) = DOMAIN f
         /\ DOMAIN f = {"owner", "version", "cursor", "anchor", "baseline",
                        "of", "seen", "failures"}
BY DEF Release, Frontier

LEMMA CursorLoopEvident ==
  ASSUME Inv, Evident, NEW s \in DOMAIN scans, CursorLoop(s)
  PROVE  Evident'
<1>1. /\ run.scan = s /\ run' = NoRun /\ plan' = NoPlan
      /\ UNCHANGED <<posts, gone, stored>>
      /\ frontier' = [Release(frontier, frontier.cursor)
                        EXCEPT !.baseline = Baseline(s)]
  BY AtWork DEF CursorLoop, Reading, Commit
<1>2. frontier \in Frontier /\ Pursued(stored, frontier, scans[s])
  BY <1>1, AtWork, RowsFacts, PursuedAtWork
<1>3. /\ frontier'.owner = None /\ frontier'.anchor = frontier.anchor
      /\ frontier'.baseline = Baseline(s)
  BY <1>1, <1>2, ReleaseKeeps
<1>4. \/ Baseline(s) = frontier.baseline
      \/ Baseline(s) # "complete" /\ frontier.baseline # "complete"
  BY <1>2 DEF Baseline, Pursued
<1> QED BY <1>1, <1>3, <1>4, FreeEvident

LEMMA RetryExhaustedEvident ==
  ASSUME Inv, Evident, NEW s \in DOMAIN scans, RetryExhausted(s)
  PROVE  Evident'
<1> DEFINE f == Progress(s, frontier.cursor, Seen(s), PageAttempts)
<1>1. /\ run.scan = s /\ run' = NoRun /\ plan' = NoPlan
      /\ UNCHANGED <<posts, gone, stored>>
      /\ frontier' = Release(f, frontier.cursor)
  BY AtWork DEF RetryExhausted, Fetching, Reading, Commit
<1>2. /\ frontier \in Frontier /\ frontier.cursor \in Cursor
      /\ s \in 0..MaxScans
  BY <1>1, AtWork, RowsFacts
<1>3. f \in Frontier
  BY <1>2, ProgressOf, ProgressTyped, Constants
<1>4. f.anchor = frontier.anchor /\ f.baseline = frontier.baseline
  BY <1>2 DEF Progress, Frontier
<1> HIDE DEF f
<1> QED BY <1>1, <1>3, <1>4, ReleaseKeeps, FreeEvident

LEMMA StartAnchorMissingEvident ==
  ASSUME Inv, Evident, NEW s \in DOMAIN scans, StartAnchorMissing(s)
  PROVE  Evident'
<1>1. /\ run.scan = s /\ run' = NoRun /\ plan' = NoPlan
      /\ UNCHANGED <<posts, gone, stored>>
      /\ frontier' = [Release(frontier, Top) EXCEPT !.baseline = "corrupted"]
      /\ scans[s].mode = "head"
  BY AtWork DEF StartAnchorMissing, Commit
<1>2. frontier \in Frontier /\ Pursued(stored, frontier, scans[s])
  BY <1>1, AtWork, RowsFacts, PursuedAtWork
<1>3. /\ frontier'.owner = None /\ frontier'.anchor = frontier.anchor
      /\ frontier'.baseline = "corrupted"
  BY <1>1, <1>2, ReleaseKeeps
<1> QED BY <1>1, <1>2, <1>3, FreeEvident DEF Pursued

LEMMA CompleteEmptyEvident ==
  ASSUME Inv, Evident, NEW s \in DOMAIN scans, CompleteEmpty(s)
  PROVE  Evident'
<1>1. /\ run.scan = s /\ run' = NoRun /\ plan' = NoPlan
      /\ UNCHANGED <<posts, gone, stored>>
      /\ frontier' = [Release(frontier, Top) EXCEPT !.baseline = "complete",
                                                     !.anchor = None]
  BY AtWork DEF CompleteEmpty, Commit
<1>2. frontier \in Frontier
  BY <1>1, AtWork, RowsFacts
<1>3. /\ frontier'.owner = None /\ frontier'.anchor = None
      /\ frontier'.baseline = "complete"
  BY <1>1, <1>2, ReleaseKeeps
<1>4. Covered(stored', 0, frontier'.anchor)
  BY <1>3 DEF Covered, None
<1>5. Evidence(stored', frontier', scans')
  BY <1>3, <1>4, EvidenceFree
<1> QED BY <1>1, <1>5, EvidentAtEnd

(* What a scan has read down to where it began, or to the end of the list, *)
(* joins what was stored below that.                                       *)
LEMMA PromoteEvident ==
  ASSUME Inv, Evident, NEW s \in DOMAIN scans, run.scan = s,
         frontier' = Promote(s), run' = NoRun, plan' = NoPlan,
         scans[s].mode # "tail",
         run.last \in {"match", "end"}, UNCHANGED <<gone, posts, stored>>
  PROVE  Evident'
<1> DEFINE start == scans[s].start
           result == scans[s].result
<1>1. /\ frontier \in Frontier /\ s # None
      /\ Pursued(stored, frontier, scans[s]) /\ scans[s] \in Scan
      /\ start \in Cursor /\ result \in Cursor
  BY AtWork, RowsFacts, PursuedAtWork
<1>2. /\ frontier'.owner = None /\ frontier'.anchor = result
      /\ frontier'.baseline = "complete"
  BY <1>1, ReleaseKeeps DEF Promote
<1>3. PageRead /\ Evidence(stored, frontier, scans)
  BY <1>1 DEF Evident
<1>4. Covered(stored, 0, result)
  <2>1. CASE run.last = "end"
    <3>1. scans[s].first # NoPage /\ frontier.cursor = Top
      BY <2>1, <1>3 DEF PageRead
    <3> QED BY <3>1, <1>1 DEF Pursued, Origin, Top
  <2>2. CASE run.last = "match"
    <3>1. Covered(stored, start, result)
      BY <2>2, <1>3 DEF PageRead
    <3>2. Covered(stored, 0, start)
      BY <1>1, <1>3 DEF Pursued, Evidence, Scan, Mode
    <3> SUFFICES ASSUME NEW x \in 1..result, x \notin gone
                 PROVE  x \in stored
      BY DEF Covered
    <3>3. start \in Nat /\ result \in Nat
      BY <1>1, Constants DEF Cursor
    <3> HIDE DEF start, result
    <3>4. x \in 1..start \/ x \in (start + 1)..result
      BY <3>3
    <3> QED BY <3>1, <3>2, <3>4 DEF Covered
  <2> QED BY <2>1, <2>2
<1>5. Evidence(stored', frontier', scans')
  BY <1>2, <1>4, EvidenceFree DEF Covered
<1> QED BY <1>5, EvidentAtEnd

LEMMA CompleteEvident ==
  ASSUME Inv, Evident, NEW s \in DOMAIN scans,
         CompleteHead(s) \/ CompleteIncremental(s)
  PROVE  Evident'
<1>1. /\ run.scan = s /\ run' = NoRun /\ plan' = NoPlan
      /\ UNCHANGED <<posts, gone, stored>>
      /\ frontier' = Promote(s) /\ run.last \in {"match", "end"}
      /\ scans[s].mode # "tail"
  BY AtWork DEF CompleteHead, CompleteIncremental, Commit
<1> QED BY <1>1, PromoteEvident

(* The tail has read down to the end from where it began, and that is      *)
(* where the head sweep is to lead down to.                                *)
LEMMA HandOverEvident ==
  ASSUME Inv, Evident, NEW s \in DOMAIN scans, HandOver(s)
  PROVE  Evident'
<1> DEFINE child == Len(scans) + 1
           head == NewScan("head", s, scans[s].start)
<1>1. /\ run.scan = s /\ run' = NoRun /\ plan' = NoPlan
      /\ run.last = "end"
      /\ scans[s].mode = "tail"
      /\ scans' = Append(CloseScan(s, "complete"), head)
      /\ frontier' = [frontier EXCEPT
                        !.owner = child, !.version = @ + 1, !.cursor = Top,
                        !.baseline = "tail_complete",
                        !.of = child, !.seen = {}, !.failures = 0]
      /\ UNCHANGED <<posts, gone, stored>>
  BY AtWork DEF HandOver
<1>2. /\ frontier \in Frontier /\ Rows /\ s # None
      /\ Pursued(stored, frontier, scans[s])
      /\ Evidence(stored, frontier, scans) /\ PageRead
  BY <1>1, AtWork, RowsFacts, PursuedAtWork DEF Evident
<1>3. /\ frontier'.owner = child /\ frontier'.anchor = frontier.anchor
      /\ frontier'.baseline = "tail_complete"
  BY <1>1, <1>2 DEF Frontier
<1>4. scans'[child] = head
  <2>1. s \in 1..Len(scans) /\ scans \in Seq(Scan) /\ scans[s] \in Scan
    BY <1>1, AtWork, RowsFacts
  <2>2. [scans[s] EXCEPT !.status = "complete"] \in Scan
    BY <2>1 DEF Scan, Closed
  <2>3. /\ CloseScan(s, "complete") \in Seq(Scan)
        /\ Len(CloseScan(s, "complete")) = Len(scans)
    BY <2>1, <2>2, ExceptSeq DEF CloseScan
  <2> QED BY <1>1, <2>3, AppendProperties
<1>5. /\ head.mode = "head" /\ head.start = scans[s].start
      /\ head.first = NoPage
  BY DEF NewScan
<1>6. frontier.anchor = None
  BY <1>1, <1>2 DEF Pursued, Evidence
<1>7. Covered(stored, 0, head.start)
  <2>1. scans[s].first # NoPage /\ frontier.cursor = Top
    BY <1>1, <1>2 DEF PageRead
  <2> QED BY <2>1, <1>1, <1>2, <1>5 DEF Pursued, Origin, Top
<1> HIDE DEF child, head
<1>8. Pursued(stored', frontier', head)
  BY <1>1, <1>3, <1>5, <1>7 DEF Pursued, Covered
<1>9. Evidence(stored', frontier', scans')
  BY <1>3, <1>4, <1>6, <1>8 DEF Evidence
<1> QED BY <1>1, <1>9, EvidentAtEnd

LEMMA FailEvident ==
  ASSUME Inv, Evident, NEW s \in DOMAIN scans,
         NEW status \in {"failed", "corrupted"}, Fail(s, status)
  PROVE  Evident'
<1>1. /\ run.scan = s /\ run' = NoRun /\ plan' = NoPlan
      /\ UNCHANGED <<posts, gone, stored>>
      /\ \/ UNCHANGED <<frontier, scans>>
         \/ frontier' = Release(frontier, Top)
  <2>1. /\ scans[s].status = "running" /\ frontier.owner = s
        /\ plan = NoPlan
    BY AtWork DEF Fail
  <2> QED BY <2>1 DEF Fail, Commit, Open
<1>2. frontier \in Frontier
  BY <1>1, AtWork, RowsFacts
<1>3. CASE UNCHANGED <<frontier, scans>>
  BY <1>1, <1>3, EvidentAtEnd DEF Evident
<1>4. CASE frontier' = Release(frontier, Top)
  BY <1>1, <1>2, <1>4, ReleaseKeeps, FreeEvident
<1> QED BY <1>1, <1>3, <1>4

LEMMA DieEvident ==
  ASSUME Inv, Evident, NEW s \in DOMAIN scans, Die(s)
  PROVE  Evident'
<1>1. run.scan = s /\ run' = NoRun /\ RollBack /\ plan' = plan
  BY DEF Die
<1>2. Evidence(saved.stored, saved.frontier, saved.scans) /\ plan = NoPlan
  BY <1>1, AtWork DEF Evident
<1> QED BY <1>1, <1>2, RolledBackEvident

LEMMA WorkEvident ==
  ASSUME Inv, Inv', Evident, NEW s \in DOMAIN scans, Work(s)
  PROVE  Evident'
<1>1. CASE \E next \in Cursor : Read(s, next)
  BY <1>1, ReadEvident
<1>2. CASE FetchFails(s) \/ Pause(s) \/ CursorLoop(s) \/ RetryExhausted(s)
  BY <1>2, FetchFailsEvident, PauseEvident, CursorLoopEvident,
     RetryExhaustedEvident
<1>3. CASE CompleteEmpty(s) \/ HandOver(s) \/ StartAnchorMissing(s)
  BY <1>3, CompleteEmptyEvident, HandOverEvident, StartAnchorMissingEvident
<1>4. CASE CompleteHead(s) \/ CompleteIncremental(s)
  BY <1>4, CompleteEvident
<1>5. CASE \E status \in {"failed", "corrupted"} : Fail(s, status)
  BY <1>5, FailEvident
<1>6. CASE Die(s)
  BY <1>6, DieEvident
<1> QED BY <1>1, <1>2, <1>3, <1>4, <1>5, <1>6 DEF Work

LEMMA NextEvident == Inv /\ Inv' /\ Evident /\ [Next]_vars => Evident'
<1> SUFFICES ASSUME Inv, Inv', Evident, [Next]_vars PROVE Evident'
  OBVIOUS
<1>1. CASE Post \/ Tick \/ \E i \in (1..posts) \ gone : Delete(i)
  BY <1>1, OutsideEvident
<1>2. CASE (\E S \in SUBSET Plannable : PlanBegins(S)) \/ Planning
  BY <1>2, PlanBeginsEvident, MaterializeEvident, RepairEvident, PlanRaisesEvident DEF Planning
<1>3. CASE \E s \in DOMAIN scans : Start(s) \/ Work(s)
  BY <1>3, StartEvident, WorkEvident
<1>4. CASE UNCHANGED vars
  BY <1>4 DEF vars, Evident, Evidence, Pursued, PageRead, Covered, Origin, SeenBy
<1> QED BY <1>1, <1>2, <1>3, <1>4 DEF Next

LEMMA InitEvident == Init => Evident
BY DEF Init, Evident, Evidence, NoRun

LEMMA EvidentNoGap == Evident => NoGap
<1> SUFFICES ASSUME Evident, frontier.baseline = "complete"
             PROVE  (1..frontier.anchor) \ gone \subseteq stored
  BY DEF NoGap
<1>1. Covered(stored, 0, frontier.anchor)
  BY DEF Evident, Evidence
<1> QED BY <1>1 DEF Covered

-----------------------------------------------------------------------------
(* Windows.                                                                *)
LEMMA EffectiveExists ==
  ASSUME NEW sc \in Seq(Scan), Len(sc) <= MaxScans, NEW s \in 1..Len(sc)
  PROVE  Effective(sc, s) \in 1..Len(sc)
<1> DEFINE children == {k \in DOMAIN sc : sc[k].parent = s}
<1>1. children \in SUBSET (1..Len(sc)) /\ children \in SUBSET Nat
  BY ScanIndices
<1>2. children # {} => Min(children) \in children
  <2> HIDE DEF children
  <2> QED BY <1>1, MinIn
<1>3. Effective(sc, s) = s \/ (children # {} /\ Effective(sc, s) = Min(children))
  BY DEF Effective
<1> HIDE DEF children
<1> QED BY <1>1, <1>2, <1>3

(* A component that waits for s takes over what its scan has come to, and  *)
(* no component becomes partial by it.                                     *)
LEMMA SyncOutcome ==
  ASSUME NEW sc \in Seq(Scan), Len(sc) <= MaxScans, NEW s \in 1..Len(sc),
         NEW co, NEW c \in Component
  PROVE  LET e == Effective(sc, s)
             synced == [status |-> Outcome(c, sc[e]), scan |-> e]
         IN /\ e \in 1..Len(sc) /\ synced.status # "partial"
            /\ Sync(sc, co, s)[c] \in {co[c], synced}
            /\ co[c].status \in Executable /\ co[c].scan = s =>
                 Sync(sc, co, s)[c] = synced
<1> DEFINE e == Effective(sc, s)
           synced == [status |-> Outcome(c, sc[e]), scan |-> e]
           W == Waiting(co, {s, e, sc[e].parent} \ {None})
<1>1. e \in 1..Len(sc)
  BY EffectiveExists
<1>2. Sync(sc, co, s)[c] = IF c \in W THEN synced ELSE co[c]
  BY DEF Sync
<1>3. synced.status # "partial"
  BY DEF Outcome
<1>4. co[c].status \in Executable /\ co[c].scan = s => c \in W
  BY DEF Waiting, None
<1> QED BY <1>1, <1>2, <1>3, <1>4

LEMMA SyncSettles ==
  ASSUME NEW sc \in Seq(Scan), Len(sc) <= MaxScans, NEW s \in 1..Len(sc),
         NEW co, Settled(sc, co)
  PROVE  Settled(sc, Sync(sc, co, s))
<1> SUFFICES ASSUME NEW c \in Component
             PROVE  LET k == Sync(sc, co, s)[c] IN
                    /\ k.status \in Executable => k.scan \in 1..Len(sc)
                    /\ k.status = "partial" =>
                         /\ k.scan \in 1..Len(sc) /\ Deadline[c] <= now
                         /\ ~Captured(c, sc[k.scan].head)
  BY DEF Settled
<1> DEFINE e == Effective(sc, s)
           synced == [status |-> Outcome(c, sc[e]), scan |-> e]
           k == Sync(sc, co, s)[c]
<1>1. e \in 1..Len(sc) /\ synced.status # "partial" /\ k \in {co[c], synced}
  BY SyncOutcome
<1>2. synced.scan = e
  OBVIOUS
<1> HIDE DEF e, synced, k
<1>3. /\ k.status \in Executable => k.scan \in 1..Len(sc)
      /\ k.status = "partial" =>
           /\ k.scan \in 1..Len(sc) /\ Deadline[c] <= now
           /\ ~Captured(c, sc[k.scan].head)
  BY <1>1, <1>2 DEF Settled
<1> QED BY <1>3 DEF k

(* A head that is captured now is too late for whoever has missed his      *)
(* window.                                                                 *)
LEMMA SettledKept ==
  ASSUME Inv, NEW sc, NEW co, Settled(sc, co), Len(sc) \in Nat,
         NEW sc2, Len(sc2) \in Nat, Len(sc) <= Len(sc2),
         \A i \in 1..Len(sc) : sc2[i].head \in {sc[i].head, now}
  PROVE  Settled(sc2, co)
<1> SUFFICES ASSUME NEW c \in Component
             PROVE  /\ co[c].status \in Executable => co[c].scan \in 1..Len(sc2)
                    /\ co[c].status = "partial" =>
                         /\ co[c].scan \in 1..Len(sc2) /\ Deadline[c] <= now
                         /\ ~Captured(c, sc2[co[c].scan].head)
  BY DEF Settled
<1>1. now \in Nat /\ Deadline[c] \in Nat
  BY Bounds DEF Inv, World
<1>2. Deadline[c] <= now => ~Captured(c, now)
  BY <1>1 DEF Captured
<1> QED BY <1>2 DEF Settled

(* A component that waits for a scan that exists.                          *)
LEMMA SettledExcept ==
  ASSUME NEW sc, NEW co \in [Component -> Consumer], Settled(sc, co),
         NEW c, NEW status \in Executable, NEW s \in 1..Len(sc)
  PROVE  Settled(sc, [co EXCEPT ![c] = [status |-> status, scan |-> s]])
BY DEF Settled, Executable

LEMMA PlanBeginsWindows ==
  ASSUME Inv, Windows, NEW S \in SUBSET Plannable, PlanBegins(S)
  PROVE  Windows'
BY DEF PlanBegins, Windows, Settled, Snapshot

LEMMA PlanSettles ==
  ASSUME Windows, plan # NoPlan, NEW repair, NEW due, Done(repair, due),
         run = NoRun, Settled(scans', comps')
  PROVE  Windows'
BY DEF Done, Windows, Settled, NoRun

LEMMA SettledAtEnd ==
  ASSUME run' = NoRun, plan' = NoPlan, UNCHANGED now, Settled(scans', comps')
  PROVE  Windows'
BY DEF Windows, Settled, NoRun

LEMMA RolledBackWindows ==
  ASSUME Settled(saved.scans, saved.comps), RollBack,
         run' = NoRun, plan' = NoPlan
  PROVE  Windows'
<1>1. scans' = saved.scans /\ comps' = saved.comps /\ UNCHANGED now
  BY DEF RollBack
<1>2. Settled(scans', comps')
  BY <1>1
<1> QED BY <1>1, <1>2, SettledAtEnd

LEMMA PlanRaisesWindows ==
  ASSUME Inv, Windows, PlanRaises
  PROVE  Windows'
<1>1. plan # NoPlan /\ RollBack /\ run' = run /\ plan' = NoPlan
  BY NoPlanIs DEF PlanRaises
<1>2. run = NoRun /\ Settled(saved.scans, saved.comps)
  BY <1>1 DEF Inv, InPlan, Windows
<1> QED BY <1>1, <1>2, RolledBackWindows

LEMMA OutsideWindows ==
  ASSUME Inv, Windows,
         Post \/ Tick \/ (\E i \in (1..posts) \ gone : Delete(i))
  PROVE  Windows'
<1>1. /\ UNCHANGED <<scans, comps, run, plan, saved>> /\ plan = NoPlan
      /\ now \in Nat /\ now' \in Nat /\ now <= now'
  BY DEF Post, Tick, Delete, Inv, World
<1>2. ASSUME NEW sc, NEW co, Settled(sc, co)
      PROVE  \A c \in Component :
               /\ co[c].status \in Executable => co[c].scan \in 1..Len(sc)
               /\ co[c].status = "partial" =>
                    /\ co[c].scan \in 1..Len(sc) /\ Deadline[c] <= now'
                    /\ ~Captured(c, sc[co[c].scan].head)
  BY <1>1, <1>2, Bounds DEF Settled
<1>3. Settled(scans, comps)'
  BY <1>1, <1>2 DEF Windows, Settled
<1>4. run.scan # None => Settled(saved.scans, saved.comps)'
  BY <1>1, <1>2 DEF Windows, Settled
<1> QED BY <1>1, <1>3, <1>4 DEF Windows

(* A planned scan comes after those that are there.                        *)
LEMMA PlanWindows ==
  ASSUME Inv, Plan, NEW co, Settled(scans, co)
  PROVE  Settled(scans', co) /\ Len(scans) + 1 \in 1..Len(scans')
<1>1. Rows /\ scans' = Append(scans, Planned)
  BY DEF Inv, Plan
<1>2. /\ Len(scans') = Len(scans) + 1 /\ Len(scans) \in Nat
      /\ \A i \in 1..Len(scans) : scans'[i] = scans[i]
  BY <1>1, RowsFacts, AppendProperties
<1> QED BY <1>2, SettledKept

LEMMA MaterializeWindows ==
  ASSUME Inv, Windows, NEW c \in Component, Materialize(c)
  PROVE  Windows'
<1>1. /\ plan # NoPlan /\ Done({}, plan.due \ {c}) /\ run = NoRun
      /\ Rows /\ Settled(scans, comps) /\ comps \in [Component -> Consumer]
  BY RowsFacts, NoPlanIs DEF Materialize, Inv, InPlan, Windows
<1>2. CASE MaterializePlanned(c)
  <2>1. /\ Plan
        /\ comps' = [comps EXCEPT ![c] = [status |-> "pending",
                                          scan |-> Len(scans) + 1]]
    BY <1>2 DEF MaterializePlanned
  <2>2. Settled(scans', comps')
    BY <1>1, <2>1, PlanWindows, SettledExcept DEF Executable
  <2> QED BY <1>1, <2>2, PlanSettles
<1>3. ASSUME NEW s \in ScanId, MaterializeJoined(c, s)
      PROVE  Windows'
  <2>1. /\ UNCHANGED scans /\ s \in 1..Len(scans)
        /\ comps' = [comps EXCEPT ![c] = [status |-> "joined", scan |-> s]]
    BY <1>1, <1>3, JoinKeeps DEF MaterializeJoined
  <2>2. Settled(scans', comps')
    BY <1>1, <2>1, SettledExcept DEF Executable
  <2> QED BY <1>1, <2>2, PlanSettles
<1>4. CASE MaterializeKept(c)
  <2>1. Settled(scans', comps')
    BY <1>1, <1>4 DEF MaterializeKept
  <2> QED BY <1>1, <2>1, PlanSettles
<1> QED BY <1>2, <1>3, <1>4 DEF Materialize

(* The repair looks at the deadline of a component after it has looked at  *)
(* what its scan has come to.                                              *)
LEMMA RepairWindows ==
  ASSUME Inv, Windows, NEW c \in Component, Repair(c)
  PROVE  Windows'
<1> DEFINE co == Resynced(c)
<1>1. /\ plan # NoPlan /\ Done(plan.repair \ {c}, plan.due) /\ run = NoRun
      /\ Rows /\ Settled(scans, comps) /\ comps \in [Component -> Consumer]
      /\ scans \in Seq(Scan) /\ Len(scans) <= MaxScans
      /\ comps[c].status \in Executable
  BY RowsFacts, NoPlanIs DEF Repair, Inv, InPlan, Windows
<1>2. comps[c].scan \in 1..Len(scans) /\ comps[c].scan \in 0..MaxScans
  BY <1>1 DEF Settled, Consumer
<1>3. /\ Settled(scans, co) /\ co \in [Component -> Consumer]
      /\ co[c].scan \in 1..Len(scans)
      /\ co[c].status = Outcome(c, scans[co[c].scan])
  <2> DEFINE s == comps[c].scan
             e == Effective(scans, s)
  <2>1. co = Sync(scans, comps, s)
    BY DEF Resynced
  <2>2. Settled(scans, co)
    BY <1>1, <1>2, <2>1, SyncSettles
  <2>3. co \in [Component -> Consumer]
    BY <1>1, <1>2, <2>1, SyncTyped
  <2>4. e \in 1..Len(scans) /\
        co[c] = [status |-> Outcome(c, scans[e]), scan |-> e]
    <3>1. s \in 1..Len(scans)
      BY <1>2
    <3>2. /\ e \in 1..Len(scans)
          /\ Sync(scans, comps, s)[c] =
               [status |-> Outcome(c, scans[e]), scan |-> e]
      <4> HIDE DEF co
      <4> QED BY <1>1, <3>1, SyncOutcome
    <3> HIDE DEF e, co
    <3> QED BY <2>1, <3>2
  <2> HIDE DEF co, e
  <2> QED BY <2>2, <2>3, <2>4
<1> HIDE DEF co
<1>4. CASE RepairSettled(c)
  <2>1. Settled(scans', comps')
    BY <1>3, <1>4 DEF RepairSettled, co
  <2> QED BY <1>1, <2>1, PlanSettles
<1>5. CASE RepairExpired(c)
  <2>1. /\ co[c].status \in Executable /\ Deadline[c] <= now
        /\ comps' = [co EXCEPT ![c].status = "partial"] /\ UNCHANGED scans
    BY <1>5, Bounds DEF RepairExpired, Inv, World, co
  <2>2. ~Captured(c, scans[co[c].scan].head)
    BY <1>3, <2>1 DEF Outcome, Executable
  <2>3. /\ comps'[c].status = "partial" /\ comps'[c].scan = co[c].scan
        /\ \A k \in Component \ {c} : comps'[k] = co[k]
    BY <1>3, <2>1 DEF Consumer
  <2>4. Settled(scans', comps')
    BY <1>3, <2>1, <2>2, <2>3 DEF Settled, Executable
  <2> QED BY <1>1, <2>4, PlanSettles
<1>6. CASE RepairActive(c)
  <2>1. PICK s \in ScanId :
          /\ Reclaim(c, s)
          /\ comps' = [co EXCEPT ![c] = [status |-> "joined", scan |-> s]]
    BY <1>6 DEF RepairActive, co
  <2>2. CASE frontier.owner = s /\ UNCHANGED <<frontier, scans>>
    <3>1. s \in 1..Len(scans)
      BY <2>2, <1>1, RowsFacts DEF ScanId
    <3>2. Settled(scans', comps')
      BY <1>3, <2>1, <2>2, <3>1, SettledExcept DEF Executable
    <3> QED BY <1>1, <3>2, PlanSettles
  <2>3. CASE Plan /\ s = Len(scans) + 1
    <3>1. Settled(scans', co) /\ s \in 1..Len(scans')
      BY <1>3, <2>3, PlanWindows
    <3>2. Settled(scans', comps')
      BY <1>3, <2>1, <3>1, SettledExcept DEF Executable
    <3> QED BY <1>1, <3>2, PlanSettles
  <2>4. CASE Join(s)
    BY <1>1, <2>2, <2>4, JoinKeeps
  <2> QED BY <2>1, <2>2, <2>3, <2>4 DEF Reclaim
<1> QED BY <1>4, <1>5, <1>6 DEF Repair

(* The scans of a slice change one at a time.                              *)
LEMMA HeadsKept ==
  ASSUME Rows, NEW s \in 1..Len(scans), NEW scan,
         NEW sc, sc = [scans EXCEPT ![s] = scan],
         scan.head \in {scans[s].head, now}
  PROVE  /\ Len(sc) = Len(scans) /\ Len(scans) \in Nat
         /\ \A i \in 1..Len(scans) : sc[i].head \in {scans[i].head, now}
<1> DEFINE Row == Scan \cup {scan}
<1>1. /\ scans \in Seq(Scan) /\ Len(scans) \in Nat
  BY RowsFacts
<1>2. scans \in Seq(Row) /\ scan \in Row
  BY <1>1
<1> HIDE DEF Row
<1>3. /\ Len(sc) = Len(scans)
      /\ \A i \in 1..Len(scans) : sc[i] = IF i = s THEN scan ELSE scans[i]
  BY <1>2, ExceptSeq
<1> QED BY <1>1, <1>3

LEMMA StartWindows ==
  ASSUME Inv, Windows, NEW s \in DOMAIN scans, Start(s)
  PROVE  Windows'
<1> DEFINE k == tasks[s].comp
<1>1. /\ Rows /\ tasks[s].status = "pending" /\ Settled(scans, comps)
      /\ comps' = [comps EXCEPT ![k].status = "running"]
      /\ k \in Component /\ comps[k].status \in Executable
      /\ saved' = Snapshot /\ now' = now
  BY DEF Start, Executes, Inv, Windows
<1>2. /\ s \in 1..Len(scans) /\ scans' = MarkRunning(s)
      /\ comps \in [Component -> Consumer]
  BY <1>1, PendingIsValid, RowsFacts DEF Start
<1>3. /\ Len(scans') = Len(scans) /\ Len(scans) \in Nat
      /\ \A i \in 1..Len(scans) : scans'[i].head \in {scans[i].head, now}
  <2> DEFINE slices == IF scans[s].status = "running"
                       THEN scans[s].slices ELSE scans[s].slices + 1
             next == [scans[s] EXCEPT !.status = "running", !.slices = slices]
  <2>1. scans' = [scans EXCEPT ![s] = next]
    BY <1>2 DEF MarkRunning
  <2>2. scans[s] \in Scan
    BY <1>1, <1>2, ScanFacts
  <2>3. next.head = scans[s].head
    BY <2>2 DEF Scan
  <2> HIDE DEF next
  <2> QED BY <1>1, <1>2, <2>1, <2>3, HeadsKept
<1>4. Settled(scans', comps)
  BY <1>1, <1>3, SettledKept
<1>5. comps' = [comps EXCEPT ![k] = [status |-> "running",
                                     scan |-> comps[k].scan]]
  <2>1. comps[k] \in Consumer
    BY <1>1, <1>2
  <2>2. [comps[k] EXCEPT !.status = "running"] =
          [status |-> "running", scan |-> comps[k].scan]
    BY <2>1 DEF Consumer
  <2> HIDE DEF k
  <2> QED BY <1>1, <2>2
<1>6. Settled(scans', comps')
  <2>1. comps[k].scan \in 1..Len(scans')
    BY <1>1, <1>4 DEF Settled
  <2> HIDE DEF k
  <2> QED BY <1>2, <1>4, <1>5, <2>1, SettledExcept DEF Executable
<1>7. Settled(scans, comps)' /\ Settled(saved.scans, saved.comps)'
  BY <1>1, <1>6 DEF Settled, Snapshot
<1> QED BY <1>7 DEF Windows

LEMMA SettledInSlice ==
  ASSUME Inv, Windows, NEW s \in DOMAIN scans, run.scan = s,
         UNCHANGED <<now, comps, saved>>, Settled(scans', comps)
  PROVE  Windows'
<1>1. Settled(scans, comps)'
  BY DEF Settled
<1>2. Settled(saved.scans, saved.comps)'
  BY AtWork DEF Windows, Settled
<1> QED BY <1>1, <1>2 DEF Windows

LEMMA ReadWindows ==
  ASSUME Inv, Windows, NEW s \in DOMAIN scans, NEW next \in Cursor,
         Read(s, next)
  PROVE  Windows'
<1> DEFINE item == Item(frontier.cursor)
<1>1. /\ run.scan = s /\ scans' = Witnessed(s, item)
      /\ UNCHANGED <<now, comps, saved>>
  BY DEF Read, Fetching, Reading
<1>2. /\ Rows /\ s \in 1..Len(scans) /\ scans[s] \in Scan
      /\ scans \in Seq(Scan) /\ Len(scans) \in Nat
  BY <1>1, AtWork, RowsFacts
<1> HIDE DEF item
<1>3. /\ Len(scans') = Len(scans)
      /\ \A i \in 1..Len(scans) : scans'[i].head \in {scans[i].head, now}
  <2>1. CASE scans[s].first # NoPage
    BY <1>1, <1>2, <2>1 DEF Witnessed
  <2>2. CASE scans[s].first = NoPage /\ scans[s].mode = "tail"
    <3> DEFINE scan == [scans[s] EXCEPT !.start = item,
                                        !.first = frontier.cursor]
    <3>1. scans' = [scans EXCEPT ![s] = scan] /\ scan.head = scans[s].head
      BY <1>1, <1>2, <2>2 DEF Witnessed, Scan
    <3> HIDE DEF scan
    <3> QED BY <1>2, <3>1, HeadsKept
  <2>3. CASE scans[s].first = NoPage /\ scans[s].mode # "tail"
    <3> DEFINE scan == [scans[s] EXCEPT !.result = item, !.head = now,
                                        !.first = frontier.cursor]
    <3>1. scans' = [scans EXCEPT ![s] = scan] /\ scan.head = now
      BY <1>1, <1>2, <2>3 DEF Witnessed, Scan
    <3> HIDE DEF scan
    <3> QED BY <1>2, <3>1, HeadsKept
  <2> QED BY <2>1, <2>2, <2>3
<1>4. Settled(scans', comps)
  BY <1>2, <1>3, SettledKept DEF Windows
<1> QED BY <1>1, <1>4, SettledInSlice

LEMMA FetchFailsWindows ==
  ASSUME Inv, Windows, NEW s \in DOMAIN scans, FetchFails(s)
  PROVE  Windows'
<1>1. run.scan = s /\ UNCHANGED <<now, scans, comps, saved>>
  BY DEF FetchFails, Fetching, Reading
<1>2. Settled(scans', comps)
  BY <1>1 DEF Windows
<1> QED BY <1>1, <1>2, SettledInSlice

(* The ends of a slice that give its scan a status, or leave it.           *)
LEMMA CommitWindows ==
  ASSUME Inv, Windows, NEW s \in DOMAIN scans, run.scan = s, Commit(s),
         scans' = scans \/ \E status \in Open \cup Closed :
                             scans' = CloseScan(s, status)
  PROVE  Windows'
<1>1. /\ comps' = Sync(scans', comps, s) /\ run' = NoRun /\ plan' = NoPlan
      /\ UNCHANGED now /\ Settled(scans, comps)
  BY AtWork DEF Commit, Windows
<1>2. /\ Rows /\ s \in 1..Len(scans) /\ scans[s] \in Scan
      /\ scans \in Seq(Scan) /\ Len(scans) \in Nat /\ Len(scans) <= MaxScans
  BY AtWork, RowsFacts
<1>3. /\ scans' \in Seq(Scan) /\ Len(scans') = Len(scans)
      /\ \A i \in 1..Len(scans) : scans'[i].head \in {scans[i].head, now}
  <2>1. CASE scans' = scans
    BY <1>2, <2>1
  <2>2. ASSUME NEW status \in Open \cup Closed, scans' = CloseScan(s, status)
        PROVE  /\ scans' \in Seq(Scan) /\ Len(scans') = Len(scans)
               /\ \A i \in 1..Len(scans) :
                    scans'[i].head \in {scans[i].head, now}
    <3> DEFINE scan == [scans[s] EXCEPT !.status = status]
    <3>1. scan \in Scan /\ scan.head = scans[s].head
      BY <1>2 DEF Scan
    <3>2. scans' = [scans EXCEPT ![s] = scan]
      BY <2>2 DEF CloseScan
    <3> HIDE DEF scan
    <3>3. scans' \in Seq(Scan)
      BY <1>2, <3>1, <3>2, ExceptSeq
    <3> QED BY <1>2, <3>1, <3>2, <3>3, HeadsKept
  <2> QED BY <2>1, <2>2
<1>4. Settled(scans', comps)
  BY <1>1, <1>2, <1>3, SettledKept
<1>5. Settled(scans', comps')
  BY <1>1, <1>2, <1>3, <1>4, SyncSettles
<1> QED BY <1>1, <1>5, SettledAtEnd

LEMMA HandOverWindows ==
  ASSUME Inv, Windows, NEW s \in DOMAIN scans, HandOver(s)
  PROVE  Windows'
<1> DEFINE child == Len(scans) + 1
           W == Waiting(comps, {s})
           moved == [k \in Component |->
                       IF k \in W THEN [status |-> "joined", scan |-> child]
                       ELSE comps[k]]
           closed == [scans[s] EXCEPT !.status = "complete"]
           head == NewScan("head", s, scans[s].start)
<1>1. /\ run.scan = s /\ Len(scans) < MaxScans
      /\ run' = NoRun /\ plan' = NoPlan
      /\ scans' = Append(CloseScan(s, "complete"), head)
      /\ comps' = Sync(scans', moved, s)
      /\ now' = now
  BY AtWork DEF HandOver
<1>2. /\ Rows /\ s \in 1..Len(scans) /\ scans[s] \in Scan /\ s \in 0..MaxScans
      /\ scans \in Seq(Scan) /\ Len(scans) \in Nat
      /\ scans[s].start \in Cursor /\ Settled(scans, comps)
  BY <1>1, AtWork, RowsFacts DEF Windows
<1>3. /\ closed \in Scan /\ closed.head = scans[s].head /\ head \in Scan
  BY <1>2, NewScanTyped DEF Scan, Closed, Mode
<1>4. /\ CloseScan(s, "complete") \in Seq(Scan)
      /\ Len(CloseScan(s, "complete")) = Len(scans)
      /\ \A i \in 1..Len(scans) :
           CloseScan(s, "complete")[i].head \in {scans[i].head, now}
  <2>1. CloseScan(s, "complete") = [scans EXCEPT ![s] = closed]
    BY DEF CloseScan
  <2> HIDE DEF closed
  <2>2. CloseScan(s, "complete") \in Seq(Scan)
    BY <1>2, <1>3, <2>1, ExceptSeq
  <2> QED BY <1>2, <1>3, <2>1, <2>2, HeadsKept
<1>5. /\ scans' \in Seq(Scan) /\ Len(scans') = child
      /\ \A i \in 1..Len(scans) : scans'[i].head \in {scans[i].head, now}
  <2> HIDE DEF head
  <2> QED BY <1>1, <1>3, <1>4, AppendProperties
<1>6. Settled(scans', comps)
  BY <1>2, <1>5, SettledKept
<1>7. Settled(scans', moved)
  <2>1. child \in 1..Len(scans')
    BY <1>2, <1>5
  <2> HIDE DEF child, W
  <2> QED BY <1>6, <2>1 DEF Settled, Executable
<1>8. Settled(scans', comps')
  <2>1. s \in 1..Len(scans') /\ Len(scans') <= MaxScans
    BY <1>1, <1>2, <1>5, Constants
  <2> HIDE DEF moved
  <2> QED BY <1>1, <1>5, <1>7, <2>1, SyncSettles
<1> QED BY <1>1, <1>8, SettledAtEnd

LEMMA DieWindows ==
  ASSUME Inv, Windows, NEW s \in DOMAIN scans, Die(s)
  PROVE  Windows'
<1>1. run.scan = s /\ run' = NoRun /\ RollBack /\ plan' = plan
  BY DEF Die
<1>2. Settled(saved.scans, saved.comps) /\ plan = NoPlan
  BY <1>1, AtWork DEF Windows
<1> QED BY <1>1, <1>2, RolledBackWindows

LEMMA WorkWindows ==
  ASSUME Inv, Windows, NEW s \in DOMAIN scans, Work(s)
  PROVE  Windows'
<1>1. CASE \E next \in Cursor : Read(s, next)
  BY <1>1, ReadWindows
<1>2. CASE FetchFails(s)
  BY <1>2, FetchFailsWindows
<1>3. CASE Pause(s) \/ CursorLoop(s) \/ RetryExhausted(s)
  <2>1. /\ run.scan = s /\ Commit(s)
        /\ \E status \in Open \cup Closed : scans' = CloseScan(s, status)
    BY <1>3 DEF Pause, CursorLoop, RetryExhausted, Fetching, Reading, Open, Closed
  <2> QED BY <2>1, CommitWindows
<1>4. CASE CompleteEmpty(s) \/ CompleteHead(s) \/ StartAnchorMissing(s)
           \/ CompleteIncremental(s)
  <2>1. /\ run.scan = s /\ Commit(s)
        /\ \E status \in Open \cup Closed : scans' = CloseScan(s, status)
    BY <1>4 DEF CompleteEmpty, CompleteHead, StartAnchorMissing,
                CompleteIncremental, Closed
  <2> QED BY <2>1, CommitWindows
<1>5. CASE HandOver(s)
  BY <1>5, HandOverWindows
<1>6. ASSUME NEW status \in {"failed", "corrupted"}, Fail(s, status)
      PROVE  Windows'
  <2>1. /\ run.scan = s /\ Commit(s)
        /\ scans' = scans \/ scans' = CloseScan(s, status)
    BY <1>6 DEF Fail
  <2>2. status \in Open \cup Closed
    BY DEF Closed
  <2> QED BY <2>1, <2>2, CommitWindows
<1>7. CASE Die(s)
  BY <1>7, DieWindows
<1> QED BY <1>1, <1>2, <1>3, <1>4, <1>5, <1>6, <1>7 DEF Work

LEMMA NextWindows == Inv /\ Windows /\ [Next]_vars => Windows'
<1> SUFFICES ASSUME Inv, Windows, [Next]_vars PROVE Windows'
  OBVIOUS
<1>1. CASE Post \/ Tick \/ \E i \in (1..posts) \ gone : Delete(i)
  BY <1>1, OutsideWindows
<1>2. CASE (\E S \in SUBSET Plannable : PlanBegins(S)) \/ Planning
  BY <1>2, PlanBeginsWindows, MaterializeWindows, RepairWindows, PlanRaisesWindows DEF Planning
<1>3. CASE \E s \in DOMAIN scans : Start(s) \/ Work(s)
  BY <1>3, StartWindows, WorkWindows
<1>4. CASE UNCHANGED vars
  BY <1>4 DEF vars, Windows, Settled
<1> QED BY <1>1, <1>2, <1>3, <1>4 DEF Next

LEMMA InitWindows == Init => Windows
BY DEF Init, Windows, Settled, NoRun, Executable

LEMMA WindowsPartial == Windows => PartialMeansNoCapture
BY DEF Windows, Settled, PartialMeansNoCapture

-----------------------------------------------------------------------------
LEMMA Invariance == Spec => []Inv
BY InitInv, NextInv, PTL DEF Spec

(* Whatever interrupts the slices, the rows keep their types.              *)
THEOREM LatestTypes == Spec => []TypeOK
BY Invariance, InvTypes, PTL

(* A video has at most one open scan, and the frontier points to it, over  *)
(* joins, repairs, the hand-over from tail to head sweep, failures and     *)
(* deaths (claim_or_join, complete_tail_and_create_head).                  *)
THEOREM OwnershipTheorem == Spec => []OwnershipExact
BY Invariance, InvOwnership, PTL

(* An open scan has its next slice in the queue, with the number of        *)
(* slice_count and under the version of the frontier, so no attempt of it  *)
(* is refused; a closed scan has none (_validate_task, mark_running,       *)
(* _enqueue_next_slice).                                                   *)
THEOREM SliceTheorem == Spec => []SliceMatchesScan
BY Invariance, InvSlices, PTL

(* Once the baseline is complete, every comment that still exists and is   *)
(* not newer than the official frontier is in the archive, over pauses,    *)
(* failed and corrupted scans, deaths, deletions and a platform that leads *)
(* back to a page it has shown (_persist_page, _complete_head_sweep,       *)
(* _complete_incremental, complete_tail_and_create_head).                  *)
THEOREM GapTheorem == Spec => []NoGap
<1>1. Inv /\ Inv' /\ Evident /\ [Next]_vars => Evident'
  BY NextEvident
<1> QED BY <1>1, Invariance, InitEvident, EvidentNoGap, PTL DEF Spec

(* A component ends partial only if its window is over, and the scan it    *)
(* waits for has captured no head in it, however slices, repairs and       *)
(* deadline race, and although a scan goes on and is handed over after the *)
(* component was given up (sync_latest_scan_consumers,                     *)
(* repair_latest_consumers, _head_capture_satisfies).                      *)
THEOREM CaptureTheorem == Spec => []PartialMeansNoCapture
BY Invariance, InitWindows, NextWindows, WindowsPartial, PTL DEF Spec
=============================================================================
