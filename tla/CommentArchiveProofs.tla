------------------------ MODULE CommentArchiveProofs ------------------------
(***************************************************************************)
(* What overlapping pages leave in the archive, for any number of workers, *)
(* comments and runs.                                                      *)
(***************************************************************************)
EXTENDS CommentArchive, FiniteSetTheorems, WellFoundedInduction, TLAPS

(* Numbers that are bounded have a greatest one among them.                *)
LEMMA Greatest ==
  ASSUME NEW n \in Nat, NEW S, S \subseteq 0..n, S # {}
  PROVE  \E m \in S : \A k \in S : k <= m
<1> DEFINE T == {n - k : k \in S}
<1>1. T \subseteq Nat /\ T # {}
  <2>1. \A k \in S : n - k \in Nat
    OBVIOUS
  <2> QED BY <2>1
<1>2. PICK x \in T : \A y \in T : ~ (<<y, x>> \in OpToRel(<, Nat))
  BY <1>1, WFMin, NatLessThanWellFounded
<1>3. \A y \in T : ~(y < x)
  BY <1>1, <1>2 DEF OpToRel
<1>4. PICK m \in S : x = n - m
  OBVIOUS
<1>5. ASSUME NEW k \in S PROVE k <= m
  <2>1. ~(n - k < n - m)
    BY <1>3, <1>4
  <2> QED BY <2>1
<1> QED BY <1>5

(* Latest finds the latest of some rows.                                   *)
LEMMA LatestIsLatest ==
  ASSUME NEW n \in Nat, NEW S, S # {}, \A r \in S : r.at \in 0..n
  PROVE  /\ Latest(S) \in S
         /\ \A q \in S : q.at <= Latest(S).at
<1> DEFINE A == {r.at : r \in S}
<1>1. PICK m \in A : \A k \in A : k <= m
  <2>1. A \subseteq 0..n /\ A # {}
    OBVIOUS
  <2> HIDE DEF A
  <2> QED BY <2>1, Greatest
<1>2. \E r \in S : \A q \in S : q.at <= r.at
  BY <1>1
<1> QED BY <1>2 DEF Latest

-----------------------------------------------------------------------------
(* Types, and what holds of a run by itself.  Only one scan is under way,  *)
(* and it marks a comment as gone only if there are anchors.               *)
OneScan ==
  \A p, q \in Worker : run[p].kind = "scan" /\ run[q].kind = "scan" => p = q

Shape(r) ==
  /\ r.missed => r.kind = "scan" /\ frontier # {}
  /\ r.stage = "write" => r.page # <<>>
  /\ r.stage = "watch" => r.top \in Comment
  /\ r.stage = "asked" => r.at = 0 /\ r.obs = {} /\ r.vis = {} /\ r.asks = {}

(* Nothing is later than the clock, and an answer is not at its origin.    *)
InTime(r) ==
  /\ r.since <= clock /\ r.at <= clock
  /\ r.stage \in {"page", "write", "watch"} => 1 <= r.at
  /\ \A o \in r.obs : o.at = r.at /\ 1 <= r.at
  /\ \A e \in r.vis : e.at <= clock

ArchiveInTime ==
  /\ \A o \in obs : 1 <= o.at /\ o.at <= clock
  /\ \A e \in vis : e.at <= e.known /\ e.known <= clock
  /\ \A c \in Comment : watch[c] <= clock

Typed ==
  /\ TypeOK /\ OneScan /\ ArchiveInTime
  /\ \A p \in Worker : Busy(p) => Shape(run[p]) /\ InTime(run[p])

LEMMA BusyRun ==
  ASSUME TypeOK, NEW p \in Worker
  PROVE  /\ Busy(p) <=> run[p] \in Runs
         /\ ~Busy(p) <=> run[p] = Idle
<1>1. Idle \notin Runs
  BY DEF Idle, Runs
<1>2. run[p] \in Runs \cup {Idle}
  BY DEF TypeOK
<1>3. run[p] \in Runs => run[p].kind # "none"
  BY DEF Runs
<1>4. Idle.kind = "none"
  BY DEF Idle
<1> QED BY <1>1, <1>2, <1>3, <1>4 DEF Busy

(* What Upd writes.                                                        *)
LEMMA Updated ==
  ASSUME TypeOK, NEW p \in Worker, NEW r \in Runs \cup {Idle}, Upd(p, r)
  PROVE  /\ run' \in [Worker -> Runs \cup {Idle}]
         /\ run'[p] = r
         /\ \A q \in Worker \ {p} : run'[q] = run[q]
BY DEF TypeOK, Upd

LEMMA BeginEffect ==
  ASSUME Typed, NEW p \in Worker, NEW c \in Comment \cup {NoComment},
         NEW kind \in {"hot", "scan", "reply"}, Begin(p, kind, c)
  PROVE  /\ ~Busy(p)
         /\ run'[p] = [kind |-> kind, of |-> c,
                       since |-> IF kind = "reply" THEN clock ELSE 0,
                       stage |-> "asked", at |-> 0, page |-> <<>>, new |-> FALSE,
                       top |-> NoComment, missed |-> FALSE,
                       obs |-> {}, vis |-> {}, asks |-> {}]
         /\ run'[p] \in Runs
         /\ run' \in [Worker -> Runs \cup {Idle}]
         /\ \A q \in Worker \ {p} : run'[q] = run[q]
         /\ counts' \in [runs : Nat, changes : Nat]
         /\ UNCHANGED <<shown, clock, archive>>
<1> DEFINE r == [kind |-> kind, of |-> c,
                 since |-> IF kind = "reply" THEN clock ELSE 0,
                 stage |-> "asked", at |-> 0, page |-> <<>>, new |-> FALSE,
                 top |-> NoComment, missed |-> FALSE,
                 obs |-> {}, vis |-> {}, asks |-> {}]
<1>1. r \in Runs
  <2>1. (IF kind = "reply" THEN clock ELSE 0) \in Nat
    BY DEF Typed, TypeOK
  <2> QED BY <2>1 DEF Runs
<1>2. ~Busy(p) /\ run' = [run EXCEPT ![p] = r]
  BY DEF Begin
<1>3. counts' \in [runs : Nat, changes : Nat]
  <2>1. counts \in [runs : Nat, changes : Nat]
    BY DEF Typed, TypeOK
  <2>2. counts' = [counts EXCEPT !.runs = @ + 1]
    BY DEF Begin
  <2> QED BY <2>1, <2>2
<1>4. UNCHANGED <<shown, clock, archive>>
  BY DEF Begin
<1> QED BY <1>1, <1>2, <1>3, <1>4 DEF Typed, TypeOK

(* Pages in an order that SetToSeqs gives name each comment once.          *)
LEMMA OrderIsPage ==
  ASSUME Typed, NEW p \in Worker, Busy(p), NEW order \in Orders(p)
  PROVE  /\ order \in Seq(UpOnPlatform)
         /\ \A i, j \in DOMAIN order : i # j => order[i] # order[j]
<1>1. IsFiniteSet(UpOnPlatform) /\ UpOnPlatform \subseteq Comment
  BY FS_Subset, CommentArchiveAssumption DEF UpOnPlatform
<1>2. Cardinality(UpOnPlatform) \in Nat
  BY <1>1, FS_CardinalityType
<1>3. \A o \in SetToSeqs(UpOnPlatform) :
        /\ o \in Seq(UpOnPlatform)
        /\ \A i, j \in DOMAIN o : i # j => o[i] # o[j]
  BY <1>2 DEF SetToSeqs
<1>4. order \in {<<>>} \/ order \in SetToSeqs(UpOnPlatform)
  BY DEF Orders
<1>5. CASE order \in SetToSeqs(UpOnPlatform)
  BY <1>3, <1>5
<1>6. CASE order = <<>>
  <2>1. <<>> \in Seq(UpOnPlatform) /\ DOMAIN <<>> = {}
    OBVIOUS
  <2> QED BY <2>1, <1>6
<1> QED BY <1>4, <1>5, <1>6

(* The parts of a run.                                                     *)
LEMMA RunParts ==
  ASSUME NEW r \in Runs
  PROVE  /\ r.kind \in {"hot", "scan", "reply"}
         /\ r.of \in Comment \cup {NoComment}
         /\ r.since \in Nat
         /\ r.stage \in {"asked", "page", "write", "watch", "failed"}
         /\ r.at \in Nat
         /\ r.page \in Seq([rpid : Comment, visibility : {"visible", "folded"}])
         /\ r.new \in BOOLEAN
         /\ r.top \in Comment \cup {NoComment}
         /\ r.missed \in BOOLEAN
         /\ r.obs \subseteq Observations
         /\ r.vis \subseteq Events
         /\ r.asks \subseteq Comment
BY DEF Runs

LEMMA RunDomain ==
  ASSUME NEW r \in Runs
  PROVE  DOMAIN r = {"kind", "of", "since", "stage", "at", "page", "new", "top",
                     "missed", "obs", "vis", "asks"}
BY DEF Runs

-----------------------------------------------------------------------------
(* What each action does to the run of its worker.                         *)
PageOnce(r) ==
  \A i, j \in DOMAIN r.page : i # j => r.page[i].rpid # r.page[j].rpid

(* Nothing but the run of p changes, among the runs.                       *)
Step(p) ==
  /\ run[p] \in Runs
  /\ run' \in [Worker -> Runs \cup {Idle}]
  /\ \A q \in Worker \ {p} : run'[q] = run[q]

LEMMA AnswerEffect ==
  ASSUME Typed, NEW p \in Worker, Answer(p)
  PROVE  /\ Step(p) /\ run'[p] \in Runs
         /\ run[p].stage = "asked" /\ run'[p].stage = "page"
         /\ clock' = clock + 1 /\ run'[p].at = clock'
         /\ run'[p].kind = run[p].kind /\ run'[p].of = run[p].of
         /\ run'[p].since = run[p].since /\ run'[p].new = run[p].new
         /\ run'[p].obs = run[p].obs /\ run'[p].vis = run[p].vis
         /\ run'[p].asks = run[p].asks
         /\ PageOnce(run'[p])
         /\ run'[p].missed => run[p].kind = "scan" /\ frontier # {}
         /\ UNCHANGED <<shown, archive, reply, counts>>
<1>1. PICK order \in Orders(p) : 
        /\ At(p, "asked")
        /\ clock' = clock + 1
        /\ Upd(p, [run[p] EXCEPT !.stage = "page", !.at = clock',
             !.page = [i \in DOMAIN order |->
                         [rpid |-> order[i], visibility |-> shown[order[i]]]],
             !.top = IF run[p].kind = "hot" /\ order # <<>> THEN Head(order) ELSE @,
             !.missed = /\ run[p].kind = "scan" /\ frontier # {}
                        /\ frontier \cap UpOnPlatform = {}])
        /\ UNCHANGED <<shown, archive, reply, counts>>
  BY DEF Answer
<1> DEFINE page == [i \in DOMAIN order |->
                     [rpid |-> order[i], visibility |-> shown[order[i]]]]
           top == IF run[p].kind = "hot" /\ order # <<>> THEN Head(order)
                  ELSE run[p].top
           missed == /\ run[p].kind = "scan" /\ frontier # {}
                     /\ frontier \cap UpOnPlatform = {}
           r == [run[p] EXCEPT !.stage = "page", !.at = clock', !.page = page,
                               !.top = top, !.missed = missed]
<1>2. run[p] \in Runs /\ run[p].stage = "asked" /\ Busy(p) /\ TypeOK
  BY <1>1, BusyRun DEF At, Typed
<1>3. /\ order \in Seq(UpOnPlatform)
      /\ \A i, j \in DOMAIN order : i # j => order[i] # order[j]
  BY <1>2, OrderIsPage
<1>4. \A c \in UpOnPlatform : c \in Comment /\ shown[c] \in {"visible", "folded"}
  BY DEF UpOnPlatform
<1>5. page \in Seq([rpid : Comment, visibility : {"visible", "folded"}])
  <2>1. \A i \in DOMAIN order : order[i] \in UpOnPlatform
    BY <1>3
  <2>2. \A i \in DOMAIN order :
          page[i] \in [rpid : Comment, visibility : {"visible", "folded"}]
    BY <2>1, <1>4
  <2>3. DOMAIN order = 1..Len(order) /\ Len(order) \in Nat
    BY <1>3
  <2> QED BY <2>2, <2>3
<1>6. top \in Comment \cup {NoComment}
  <2>1. order # <<>> => Head(order) \in UpOnPlatform
    BY <1>3
  <2> QED BY <2>1, <1>4, <1>2, RunParts
<1>7. clock' \in Nat /\ missed \in BOOLEAN
  BY <1>1, <1>2 DEF TypeOK
<1>8. r \in Runs
  <2> HIDE DEF page, top, missed
  <2> QED BY <1>2, <1>5, <1>6, <1>7 DEF Runs
<1>9. Upd(p, r)
  BY <1>1, <1>2, RunDomain
<1>10. /\ r.stage = "page" /\ r.at = clock' /\ r.page = page /\ r.missed = missed
       /\ r.kind = run[p].kind /\ r.of = run[p].of /\ r.since = run[p].since
       /\ r.new = run[p].new /\ r.obs = run[p].obs /\ r.vis = run[p].vis
       /\ r.asks = run[p].asks
  BY <1>2, RunDomain
<1>11. \A i, j \in DOMAIN page : i # j => page[i].rpid # page[j].rpid
  BY <1>3
<1>12. run'[p] = r /\ Step(p)
  <2> HIDE DEF r
  <2> QED BY <1>2, <1>8, <1>9, Updated DEF Step
<1> HIDE DEF r, page
<1> QED BY <1>1, <1>2, <1>8, <1>10, <1>11, <1>12 DEF PageOnce

LEMMA GiveUpEffect ==
  ASSUME Typed, NEW p \in Worker, GiveUp(p)
  PROVE  /\ Step(p) /\ run'[p] \in Runs
         /\ run'[p].stage = "failed" /\ run'[p].at = run[p].at
         /\ run[p].stage = "asked" \/ run[p].stage = "page"
         /\ run'[p].kind = run[p].kind /\ run'[p].of = run[p].of
         /\ run'[p].since = run[p].since /\ run'[p].new = run[p].new
         /\ run'[p].obs = run[p].obs /\ run'[p].vis = run[p].vis
         /\ run'[p].asks = run[p].asks /\ run'[p].page = run[p].page
         /\ ~run'[p].missed
         /\ UNCHANGED <<shown, clock, archive, reply, counts>>
<1> DEFINE r == [run[p] EXCEPT !.stage = "failed", !.top = NoComment,
                               !.missed = FALSE]
<1>1. Upd(p, r) /\ UNCHANGED <<shown, clock, archive, reply, counts>>
  BY DEF GiveUp
<1>2. run[p] \in Runs /\ TypeOK /\ (run[p].stage = "asked" \/ run[p].stage = "page")
  BY BusyRun DEF GiveUp, At, Read, Typed
<1>3. r \in Runs
  BY <1>2 DEF Runs
<1>4. /\ r.stage = "failed" /\ r.at = run[p].at
      /\ r.kind = run[p].kind /\ r.of = run[p].of /\ r.since = run[p].since
      /\ r.new = run[p].new /\ r.obs = run[p].obs /\ r.vis = run[p].vis
      /\ r.asks = run[p].asks /\ r.page = run[p].page /\ ~r.missed
  BY <1>2, RunDomain
<1>5. run'[p] = r /\ Step(p)
  <2> HIDE DEF r
  <2> QED BY <1>1, <1>2, <1>3, Updated DEF Step
<1> HIDE DEF r
<1> QED BY <1>1, <1>2, <1>3, <1>4, <1>5

LEMMA LookEffect ==
  ASSUME Typed, NEW p \in Worker, Look(p)
  PROVE  /\ Step(p) /\ run'[p] \in Runs
         /\ run[p].stage = "page" /\ run'[p].stage = "write"
         /\ run[p].page # <<>> /\ run'[p].new = ~Entity(Current(p))
         /\ run'[p].kind = run[p].kind /\ run'[p].of = run[p].of
         /\ run'[p].since = run[p].since /\ run'[p].at = run[p].at
         /\ run'[p].obs = run[p].obs /\ run'[p].vis = run[p].vis
         /\ run'[p].asks = run[p].asks /\ run'[p].page = run[p].page
         /\ run'[p].missed = run[p].missed
         /\ UNCHANGED <<shown, clock, archive, reply, counts>>
<1> DEFINE new == ~Entity(Current(p))
           r == [run[p] EXCEPT !.stage = "write", !.new = new]
<1>1. Upd(p, r) /\ UNCHANGED <<shown, clock, archive, reply, counts>>
  BY DEF Look
<1>2. run[p] \in Runs /\ TypeOK /\ run[p].stage = "page" /\ run[p].page # <<>>
  BY BusyRun DEF Look, At, Typed
<1>3. new \in BOOLEAN
  OBVIOUS
<1> HIDE DEF new
<1>4. r \in Runs
  BY <1>2, <1>3 DEF Runs
<1>5. /\ r.stage = "write" /\ r.at = run[p].at /\ r.new = new
      /\ r.kind = run[p].kind /\ r.of = run[p].of /\ r.since = run[p].since
      /\ r.obs = run[p].obs /\ r.vis = run[p].vis
      /\ r.asks = run[p].asks /\ r.page = run[p].page /\ r.missed = run[p].missed
  BY <1>2, RunDomain
<1>6. run'[p] = r /\ Step(p)
  <2> HIDE DEF r
  <2> QED BY <1>1, <1>2, <1>4, Updated DEF Step
<1> HIDE DEF r
<1> QED BY <1>1, <1>2, <1>4, <1>5, <1>6 DEF new

LEMMA WatchEffect ==
  ASSUME Typed, NEW p \in Worker, Watch(p)
  PROVE  /\ Step(p) /\ run'[p] \in Runs
         /\ run[p].stage = "watch" /\ run'[p].stage = "page"
         /\ run'[p].kind = run[p].kind /\ run'[p].of = run[p].of
         /\ run'[p].since = run[p].since /\ run'[p].at = run[p].at
         /\ run'[p].obs = run[p].obs /\ run'[p].vis = run[p].vis
         /\ run'[p].asks = {run[p].top} /\ run'[p].page = run[p].page
         /\ run[p].top \in Comment /\ ~Awaited(run[p].top)
         /\ run'[p].missed = run[p].missed /\ run'[p].new = run[p].new
         /\ UNCHANGED <<shown, clock, archive, reply, counts>>
<1> DEFINE r == [run[p] EXCEPT !.stage = "page", !.asks = {run[p].top},
                               !.top = NoComment]
<1>1. Upd(p, r) /\ UNCHANGED <<shown, clock, archive, reply, counts>>
  BY DEF Watch
<1>2. run[p] \in Runs /\ TypeOK /\ run[p].stage = "watch" /\ ~Awaited(run[p].top)
  BY BusyRun DEF Watch, At, Typed
<1>3. run[p].top \in Comment
  BY <1>2 DEF Typed, Shape, Watch, At
<1>4. r \in Runs
  BY <1>2, <1>3 DEF Runs
<1>5. /\ r.stage = "page" /\ r.at = run[p].at /\ r.new = run[p].new
      /\ r.kind = run[p].kind /\ r.of = run[p].of /\ r.since = run[p].since
      /\ r.obs = run[p].obs /\ r.vis = run[p].vis
      /\ r.asks = {run[p].top} /\ r.page = run[p].page /\ r.missed = run[p].missed
  BY <1>2, RunDomain
<1>6. run'[p] = r /\ Step(p)
  <2> HIDE DEF r
  <2> QED BY <1>1, <1>2, <1>4, Updated DEF Step
<1> HIDE DEF r
<1> QED BY <1>1, <1>2, <1>3, <1>4, <1>5, <1>6

(* What Write leaves of the run, when it writes about the current comment. *)
Known(p) == IF run[p].new THEN {} ELSE ObsOf(p, Current(p))
Prev(p) == IF Known(p) = {} THEN 0 ELSE Latest(Known(p)).at

Written(p) ==
  /\ \E seen \in {"visible", "folded"} :
       run'[p].obs = run[p].obs \cup {Observation(Current(p), run[p].at, seen, Prev(p))}
  /\ \E types \in SUBSET {"reappeared", "folded", "unfolded"} :
       /\ run'[p].vis =
            run[p].vis \cup {Event(Current(p), t, run[p].at) : t \in types}
       /\ LooksGone(p, Current(p)) => "reappeared" \in types

LEMMA WriteEffect ==
  ASSUME Typed, NEW p \in Worker, Write(p)
  PROVE  /\ Step(p) /\ run'[p] \in Runs /\ Current(p) \in Comment
         /\ run[p].stage = "write" /\ run'[p].stage \in {"page", "watch"}
         /\ run'[p].stage = "watch" => run'[p].top \in Comment
         /\ run'[p].kind = run[p].kind /\ run'[p].of = run[p].of
         /\ run'[p].since = run[p].since /\ run'[p].at = run[p].at
         /\ run'[p].asks = run[p].asks /\ run'[p].page = Tail(run[p].page)
         /\ run'[p].missed = run[p].missed
         /\ run[p].page # <<>> /\ Free(p, Current(p)) /\ ~Conflict(p)
         /\ Written(p)
         /\ UNCHANGED <<shown, clock, archive, reply, counts>>
<1> DEFINE c == Current(p)
           seen == Head(run[p].page).visibility
           types == Reappeared(p, c) \cup
                    IF Known(p) = {} THEN {}
                    ELSE Folding(Latest(Known(p)).visibility, seen)
           o == Observation(c, run[p].at, seen, Prev(p))
           es == {Event(c, t, run[p].at) : t \in types}
           stage == IF c = run[p].top THEN "watch" ELSE "page"
           r == [run[p] EXCEPT !.stage = stage, !.page = Tail(run[p].page), !.new = FALSE,
                               !.obs = run[p].obs \cup {o}, !.vis = run[p].vis \cup es]
<1>1. run[p] \in Runs /\ TypeOK /\ run[p].stage = "write" /\ Free(p, c) /\ ~Conflict(p)
  BY BusyRun DEF Write, At, Typed
<1>2. /\ run[p].page # <<>>
      /\ run[p].page \in Seq([rpid : Comment, visibility : {"visible", "folded"}])
  BY <1>1, RunParts DEF Typed, Shape, Write, At
<1>3. c \in Comment /\ seen \in {"visible", "folded"}
  <2>1. Head(run[p].page) \in [rpid : Comment, visibility : {"visible", "folded"}]
    <3> DEFINE S == [rpid : Comment, visibility : {"visible", "folded"}]
    <3> HIDE DEF S
    <3>1. run[p].page \in Seq(S) /\ run[p].page # <<>> => Head(run[p].page) \in S
      OBVIOUS
    <3> QED BY <1>2, <3>1 DEF S
  <2> QED BY <2>1 DEF Current
<1>4. types \subseteq {"reappeared", "folded", "unfolded"}
  BY DEF Reappeared, Folding
<1>5. LooksGone(p, c) => "reappeared" \in types
  BY DEF Reappeared
<1>6. Upd(p, r) /\ UNCHANGED <<shown, clock, archive, reply, counts>>
  <2>1. Upd(p, [run[p] EXCEPT
              !.stage = IF c = run[p].top THEN "watch" ELSE "page",
              !.page = Tail(@), !.new = FALSE,
              !.obs = @ \cup {o}, !.vis = @ \cup es])
    BY DEF Write, Known, Prev
  <2>2. UNCHANGED <<shown, clock, archive, reply, counts>>
    BY DEF Write
  <2> HIDE DEF o, es
  <2> QED BY <1>1, <2>1, <2>2, RunDomain
<1>7. Prev(p) \in Nat
  <2>1. Known(p) \subseteq Observations /\ \A k \in Known(p) : k.at \in 0..clock
    <3>1. obs \subseteq Observations /\ run[p].obs \subseteq Observations /\ clock \in Nat
      BY <1>1, RunParts DEF TypeOK
    <3>2. \A k \in Observations : k.at \in Nat
      BY DEF Observations
    <3>3. \A k \in obs \cup run[p].obs : k.at <= clock
      BY <1>1, BusyRun DEF Typed, ArchiveInTime, InTime
    <3>4. Known(p) \subseteq obs \cup run[p].obs
      BY DEF Known, ObsOf
    <3> QED BY <3>1, <3>2, <3>3, <3>4
  <2>2. Known(p) # {} => Latest(Known(p)) \in Known(p)
    <3>1. clock \in Nat
      BY <1>1 DEF TypeOK
    <3> QED BY <2>1, <3>1, LatestIsLatest
  <2>3. \A k \in Observations : k.at \in Nat
    BY DEF Observations
  <2> QED BY <2>1, <2>2, <2>3 DEF Prev
<1>8. o \in Observations
  <2> HIDE DEF seen
  <2> QED BY <1>1, <1>3, <1>7, RunParts DEF Observation, Observations
<1>9. es \subseteq Events
  <2>1. run[p].at \in Nat
    BY <1>1, RunParts
  <2> HIDE DEF types
  <2> QED BY <1>3, <1>4, <2>1 DEF Event, Events
<1>10. Tail(run[p].page) \in Seq([rpid : Comment, visibility : {"visible", "folded"}])
  BY <1>2
<1>11. stage \in {"page", "watch"} /\ (stage = "watch" => run[p].top \in Comment)
  BY <1>3
<1>12. r \in Runs
  <2>1. run[p].obs \cup {o} \subseteq Observations /\ run[p].vis \cup es \subseteq Events
    BY <1>1, <1>8, <1>9, RunParts
  <2> HIDE DEF o, es, stage
  <2> QED BY <1>1, <1>10, <1>11, <2>1 DEF Runs
<1>13. /\ r.stage = stage /\ r.at = run[p].at /\ r.top = run[p].top
       /\ r.kind = run[p].kind /\ r.of = run[p].of /\ r.since = run[p].since
       /\ r.obs = run[p].obs \cup {o} /\ r.vis = run[p].vis \cup es
       /\ r.asks = run[p].asks /\ r.page = Tail(run[p].page)
       /\ r.missed = run[p].missed
  <2> HIDE DEF o, es, stage
  <2> QED BY <1>1, RunDomain
<1>14. run'[p] = r /\ Step(p)
  <2> HIDE DEF r
  <2> QED BY <1>1, <1>6, <1>12, Updated DEF Step
<1>15. /\ run'[p] \in Runs /\ run'[p].stage = stage /\ run'[p].at = run[p].at
       /\ run'[p].top = run[p].top
       /\ run'[p].kind = run[p].kind /\ run'[p].of = run[p].of
       /\ run'[p].since = run[p].since
       /\ run'[p].obs = run[p].obs \cup {o} /\ run'[p].vis = run[p].vis \cup es
       /\ run'[p].asks = run[p].asks /\ run'[p].page = Tail(run[p].page)
       /\ run'[p].missed = run[p].missed
  <2> HIDE DEF r, o, es, stage
  <2> QED BY <1>12, <1>13, <1>14
<1>16. Written(p)
  <2> HIDE DEF seen, types
  <2> QED BY <1>3, <1>4, <1>5, <1>15 DEF Written
<1> HIDE DEF r, o, es, types
<1> QED BY <1>1, <1>2, <1>3, <1>6, <1>11, <1>14, <1>15, <1>16

LEMMA MarkEffect ==
  ASSUME Typed, NEW p \in Worker, Mark(p)
  PROVE  /\ Step(p) /\ run'[p] \in Runs
         /\ run[p].stage = "page" /\ run'[p].stage = "page"
         /\ clock' = clock + 1 /\ ~run'[p].missed
         /\ run'[p].kind = run[p].kind /\ run'[p].of = run[p].of
         /\ run'[p].since = run[p].since /\ run'[p].at = run[p].at
         /\ run'[p].obs = run[p].obs /\ run'[p].page = run[p].page
         /\ run'[p].asks = run[p].asks /\ run'[p].new = run[p].new
         /\ run'[p].vis \in {run[p].vis,
              run[p].vis \cup {Event(Max(frontier), "disappeared", clock')}}
         /\ UNCHANGED <<shown, archive, reply, counts>>
<1> DEFINE e == Event(Max(frontier), "disappeared", clock')
           v == IF LooksGone(p, Max(frontier)) THEN run[p].vis ELSE run[p].vis \cup {e}
           r == [run[p] EXCEPT !.missed = FALSE, !.vis = v]
<1>1. run[p] \in Runs /\ TypeOK /\ run[p].stage = "page" /\ run[p].missed /\ Busy(p)
  BY BusyRun DEF Mark, Read, At, Typed
<1>2. clock' = clock + 1 /\ UNCHANGED <<shown, archive, reply, counts>>
  BY DEF Mark
<1>3. Upd(p, r)
  <2>1. Upd(p, [run[p] EXCEPT !.missed = FALSE,
           !.vis = IF LooksGone(p, Max(frontier)) THEN @ ELSE @ \cup {e}])
    BY DEF Mark
  <2> HIDE DEF e
  <2> QED BY <1>1, <2>1, RunDomain
<1>4. e \in Events
  <2>1. frontier \in (SUBSET Comment) \ {{}}
    <3>1. frontier \subseteq Comment
      BY <1>1 DEF TypeOK
    <3>2. Shape(run[p])
      BY <1>1 DEF Typed
    <3> QED BY <1>1, <3>1, <3>2 DEF Shape
  <2>2. clock' \in Nat
    BY <1>1, <1>2 DEF TypeOK
  <2> QED BY <2>1, <2>2 DEF Event, Events
<1>5. v \subseteq Events /\ v \in {run[p].vis, run[p].vis \cup {e}}
  BY <1>1, <1>4, RunParts
<1>6. r \in Runs
  <2> HIDE DEF v
  <2> QED BY <1>1, <1>5 DEF Runs
<1>7. /\ r.stage = "page" /\ r.at = run[p].at /\ r.new = run[p].new
      /\ r.kind = run[p].kind /\ r.of = run[p].of /\ r.since = run[p].since
      /\ r.obs = run[p].obs /\ r.vis = v /\ ~r.missed
      /\ r.asks = run[p].asks /\ r.page = run[p].page
  <2> HIDE DEF v
  <2> QED BY <1>1, RunDomain
<1>8. run'[p] = r /\ Step(p)
  <2> HIDE DEF r
  <2> QED BY <1>1, <1>3, <1>6, Updated DEF Step
<1> HIDE DEF r, v
<1> QED BY <1>1, <1>2, <1>5, <1>6, <1>7, <1>8

LEMMA CommitEffect ==
  ASSUME Typed, NEW p \in Worker, NEW again \in BOOLEAN, Commit(p, again)
  PROVE  /\ Step(p) /\ run'[p] = Idle /\ Busy(p)
         /\ UNCHANGED <<shown, clock, counts>>
<1>1. Busy(p) /\ Upd(p, Idle) /\ UNCHANGED <<shown, clock, counts>>
  BY DEF Commit, Over, Read, At
<1> QED BY <1>1, BusyRun, Updated DEF Step, Typed

LEMMA RolledBackEffect ==
  ASSUME Typed, NEW p \in Worker, Busy(p), RolledBack(p)
  PROVE  /\ Step(p) /\ run'[p] = Idle
         /\ reply' = [c \in Comment |->
              IF c = run[p].of /\ run[p].kind = "reply" THEN "pending" ELSE reply[c]]
         /\ UNCHANGED <<shown, clock, archive, counts>>
<1>1. Upd(p, Idle) /\ UNCHANGED <<shown, clock, archive, counts>>
  BY DEF RolledBack
<1>2. reply' = [c \in Comment |->
        IF c = run[p].of /\ run[p].kind = "reply" THEN "pending" ELSE reply[c]]
  BY DEF RolledBack
<1> QED BY <1>1, <1>2, BusyRun, Updated DEF Step, Typed

(* A scan that the database fails goes on without its page.                *)
ScanFails(p) ==
  /\ Step(p) /\ run'[p] \in Runs
  /\ run[p].kind = "scan" /\ run'[p].kind = "scan"
  /\ run'[p].stage = "failed" /\ run'[p].page = <<>>
  /\ run'[p].of = run[p].of /\ run'[p].since = run[p].since
  /\ run'[p].at = run[p].at /\ run'[p].asks = run[p].asks
  /\ run'[p].obs = {} /\ run'[p].vis = {} /\ ~run'[p].missed
  /\ UNCHANGED <<shown, clock, archive, reply, counts>>

LEMMA FallEffect ==
  ASSUME Typed, NEW p \in Worker, Busy(p), Fall(p)
  PROVE  RolledBack(p) \/ ScanFails(p)
<1>1. CASE run[p].kind # "scan"
  BY <1>1 DEF Fall
<1>2. CASE run[p].kind = "scan"
  <2> DEFINE r == [run[p] EXCEPT !.stage = "failed", !.page = <<>>,
                     !.new = FALSE, !.missed = FALSE, !.obs = {}, !.vis = {}]
  <2>1. run[p] \in Runs /\ TypeOK
    BY BusyRun DEF Typed
  <2>2. Upd(p, r) /\ UNCHANGED <<shown, clock, archive, reply, counts>>
    BY <1>2 DEF Fall
  <2>3. r \in Runs
    <3>1. <<>> \in Seq([rpid : Comment, visibility : {"visible", "folded"}])
      OBVIOUS
    <3>2. {} \in SUBSET Observations /\ {} \in SUBSET Events
      OBVIOUS
    <3> QED BY <2>1, <3>1, <3>2 DEF Runs
  <2>4. /\ r.kind = "scan" /\ r.stage = "failed" /\ r.page = <<>>
        /\ r.of = run[p].of /\ r.since = run[p].since
        /\ r.at = run[p].at /\ r.asks = run[p].asks
        /\ r.obs = {} /\ r.vis = {} /\ ~r.missed
    BY <1>2, <2>1, RunDomain
  <2>5. run'[p] = r /\ Step(p)
    <3> HIDE DEF r
    <3> QED BY <2>1, <2>2, <2>3, Updated DEF Step
  <2> HIDE DEF r
  <2> QED BY <1>2, <2>2, <2>3, <2>4, <2>5 DEF ScanFails
<1> QED BY <1>1, <1>2

LEMMA VictimIsBusy ==
  ASSUME NEW p \in Worker, Die(p) \/ Deadlock(p)
  PROVE  Busy(p) /\ Fall(p)
<1>1. CASE Die(p)
  BY <1>1 DEF Die, At
<1>2. CASE Deadlock(p)
  <2>1. Fall(p) /\ WaitsFor(p) # {}
    BY <1>2 DEF Deadlock, Deadlocked
  <2> QED BY <2>1 DEF WaitsFor, At
<1> QED BY <1>1, <1>2

(* The ways a step can go.                                                 *)
LEMMA Steps ==
  ASSUME Typed, [Next]_vars
  PROVE  \/ UNCHANGED vars
         \/ \E c \in Comment, to \in {"visible", "folded", "gone"} : Change(c, to)
         \/ \E p \in Worker :
              \/ BeginHot(p) \/ BeginScan(p) \/ Answer(p) \/ Look(p) \/ Write(p)
              \/ Watch(p) \/ Mark(p) \/ GiveUp(p)
              \/ \E again \in BOOLEAN : Commit(p, again)
              \/ Busy(p) /\ RolledBack(p)
              \/ ScanFails(p)
              \/ \E c \in Comment : BeginReply(p, c)
<1>1. ASSUME NEW p \in Worker, Die(p) \/ Deadlock(p)
      PROVE  (Busy(p) /\ RolledBack(p)) \/ ScanFails(p)
  BY <1>1, VictimIsBusy, FallEffect
<1> QED BY <1>1 DEF Next, GoOn, Crash

-----------------------------------------------------------------------------
LEMMA OthersKeepShape ==
  ASSUME Typed, NEW p \in Worker, NEW q \in Worker \ {p}, run'[q] = run[q],
         clock' \in Nat, clock <= clock',
         frontier' = frontier \/ run[p].kind = "scan",
         Busy(q)'
  PROVE  Busy(q) /\ (Shape(run[q]) /\ InTime(run[q]))'
<1>1. Busy(q) /\ Shape(run[q]) /\ InTime(run[q])
  BY DEF Typed, Busy
<1>2. run[q] \in Runs /\ clock \in Nat
  BY <1>1, BusyRun DEF Typed, TypeOK
<1>3. Shape(run[q])'
  <2>1. run[q].missed => frontier' = frontier
    BY <1>1 DEF Shape, Typed, OneScan
  <2> QED BY <1>1, <2>1 DEF Shape
<1>4. InTime(run[q])'
  <2>1. \A e \in Events : e.at \in Nat
    BY DEF Events
  <2>2. \A e \in run[q].vis : e.at \in Nat
    BY <1>2, <2>1, RunParts
  <2>3. run[q].since \in Nat /\ run[q].at \in Nat
    BY <1>2, RunParts
  <2> QED BY <1>1, <1>2, <2>2, <2>3 DEF InTime
<1> QED BY <1>1, <1>3, <1>4

(* A step of p on its own run keeps everything else well-formed.           *)
LEMMA OwnStep ==
  ASSUME Typed, NEW p \in Worker,
         run' \in [Worker -> Runs \cup {Idle}],
         \A q \in Worker \ {p} : run'[q] = run[q],
         run'[p].kind = "scan" => \A q \in Worker \ {p} : run[q].kind # "scan",
         clock' \in Nat, clock <= clock',
         frontier' = frontier \/ run[p].kind = "scan",
         Busy(p)' => (Shape(run[p]) /\ InTime(run[p]))'
  PROVE  /\ OneScan'
         /\ \A q \in Worker : Busy(q)' => (Shape(run[q]) /\ InTime(run[q]))'
<1>1. OneScan'
  BY DEF Typed, OneScan
<1>2. ASSUME NEW q \in Worker, Busy(q)'
      PROVE  (Shape(run[q]) /\ InTime(run[q]))'
  <2>1. CASE q = p
    BY <1>2, <2>1
  <2>2. CASE q # p
    BY <1>2, <2>2, OthersKeepShape
  <2> QED BY <2>1, <2>2
<1> QED BY <1>1, <1>2

(* Events, too, are rows with instants.                                    *)
LEMMA Rows ==
  /\ \A o \in Observations : o.rpid \in Comment /\ o.at \in Nat /\ o.prev \in Nat
  /\ \A e \in Events : e.at \in Nat /\ e.known \in Nat
BY DEF Observations, Events

(* A run goes on in another stage, and only the run and the clock change.  *)
LEMMA GoesOn ==
  ASSUME Typed, NEW p \in Worker, Step(p), run'[p] \in Runs,
         run'[p].kind = run[p].kind,
         clock' \in Nat, clock <= clock',
         UNCHANGED <<shown, archive, reply, counts>>,
         (Shape(run[p]) /\ InTime(run[p]))'
  PROVE  Typed'
<1>1. TypeOK'
  BY DEF Typed, TypeOK, Step, archive
<1>2. ArchiveInTime'
  <2>1. clock \in Nat /\ obs \subseteq Observations /\ vis \subseteq Events
        /\ watch \in [Comment -> Nat]
    BY DEF Typed, TypeOK
  <2>2. \A o \in obs : o.at \in Nat
    BY <2>1, Rows
  <2>3. \A e \in vis : e.known \in Nat
    BY <2>1, Rows
  <2>4. obs' = obs /\ vis' = vis /\ watch' = watch
    BY DEF archive
  <2> QED BY <2>1, <2>2, <2>3, <2>4 DEF Typed, ArchiveInTime
<1>3. \A q \in Worker \ {p} : run[p].kind = "scan" => run[q].kind # "scan"
  BY DEF Typed, OneScan
<1>4. frontier' = frontier
  BY DEF archive
<1> QED BY <1>1, <1>2, <1>3, <1>4, OwnStep DEF Typed, Step

LEMMA BeginTyped ==
  ASSUME Typed, NEW p \in Worker, NEW c \in Comment \cup {NoComment},
         NEW kind \in {"hot", "scan", "reply"}, Begin(p, kind, c),
         kind = "scan" => \A q \in Worker : run[q].kind # "scan",
         reply' \in [Comment -> {"none", "pending", "running"}]
  PROVE  Typed'
<1>1. /\ run'[p].kind = kind /\ run'[p].stage = "asked" /\ run'[p].at = 0
      /\ run'[p].since = IF kind = "reply" THEN clock ELSE 0
      /\ ~run'[p].missed
      /\ run'[p].obs = {} /\ run'[p].vis = {} /\ run'[p].asks = {}
      /\ run' \in [Worker -> Runs \cup {Idle}]
      /\ \A q \in Worker \ {p} : run'[q] = run[q]
      /\ counts' \in [runs : Nat, changes : Nat]
      /\ UNCHANGED <<shown, clock, archive>>
  <2>1. run'[p] = [kind |-> kind, of |-> c,
                   since |-> IF kind = "reply" THEN clock ELSE 0,
                   stage |-> "asked", at |-> 0, page |-> <<>>, new |-> FALSE,
                   top |-> NoComment, missed |-> FALSE,
                   obs |-> {}, vis |-> {}, asks |-> {}]
    BY BeginEffect
  <2>2. /\ run' \in [Worker -> Runs \cup {Idle}]
        /\ \A q \in Worker \ {p} : run'[q] = run[q]
        /\ counts' \in [runs : Nat, changes : Nat]
        /\ UNCHANGED <<shown, clock, archive>>
    BY BeginEffect
  <2> QED BY <2>1, <2>2
<1>2. clock \in Nat /\ clock' = clock /\ frontier' = frontier
  BY <1>1 DEF Typed, TypeOK, archive
<1>3. TypeOK'
  BY <1>1 DEF Typed, TypeOK, archive
<1>4. ArchiveInTime'
  BY <1>1 DEF Typed, ArchiveInTime, archive
<1>5. (Shape(run[p]) /\ InTime(run[p]))'
  BY <1>1, <1>2 DEF Shape, InTime
<1>6. run'[p].kind = "scan" => \A q \in Worker \ {p} : run[q].kind # "scan"
  BY <1>1
<1>7. clock' \in Nat /\ clock <= clock'
  BY <1>2
<1>8. /\ OneScan'
      /\ \A q \in Worker : Busy(q)' => (Shape(run[q]) /\ InTime(run[q]))'
  BY <1>1, <1>2, <1>5, <1>6, <1>7, OwnStep
<1> QED BY <1>3, <1>4, <1>8 DEF Typed

LEMMA AnswerTyped ==
  ASSUME Typed, NEW p \in Worker, Answer(p)
  PROVE  Typed'
<1>1. /\ Step(p) /\ run'[p] \in Runs
      /\ run[p].stage = "asked" /\ run'[p].stage = "page"
      /\ clock' = clock + 1 /\ run'[p].at = clock'
      /\ run'[p].kind = run[p].kind /\ run'[p].since = run[p].since
      /\ run'[p].obs = run[p].obs /\ run'[p].vis = run[p].vis
      /\ run'[p].missed => run[p].kind = "scan" /\ frontier # {}
      /\ UNCHANGED <<shown, archive, reply, counts>>
  BY AnswerEffect
<1>2. clock \in Nat /\ frontier' = frontier
  BY <1>1 DEF Typed, TypeOK, archive
<1>3. Busy(p) /\ Shape(run[p]) /\ InTime(run[p]) /\ run[p].since \in Nat
  BY <1>1, BusyRun, RunParts DEF Typed, Step
<1>4. run[p].obs = {} /\ run[p].vis = {}
  BY <1>1, <1>3 DEF Shape
<1>5. (Shape(run[p]) /\ InTime(run[p]))'
  BY <1>1, <1>2, <1>3, <1>4 DEF Shape, InTime
<1>6. clock' \in Nat /\ clock <= clock'
  BY <1>1, <1>2
<1> QED BY <1>1, <1>5, <1>6, GoesOn

LEMMA GiveUpTyped ==
  ASSUME Typed, NEW p \in Worker, GiveUp(p)
  PROVE  Typed'
<1>1. /\ Step(p) /\ run'[p] \in Runs
      /\ run'[p].stage = "failed" /\ run'[p].at = run[p].at
      /\ run'[p].kind = run[p].kind /\ run'[p].since = run[p].since
      /\ run'[p].obs = run[p].obs /\ run'[p].vis = run[p].vis
      /\ ~run'[p].missed
      /\ UNCHANGED <<shown, clock, archive, reply, counts>>
  BY GiveUpEffect
<1>2. clock' \in Nat /\ clock <= clock' /\ clock' = clock
  BY <1>1 DEF Typed, TypeOK
<1>3. Shape(run[p]) /\ InTime(run[p])
  BY <1>1, BusyRun DEF Typed, Step
<1>4. (Shape(run[p]) /\ InTime(run[p]))'
  BY <1>1, <1>2, <1>3 DEF Shape, InTime
<1> QED BY <1>1, <1>2, <1>4, GoesOn

LEMMA LookTyped ==
  ASSUME Typed, NEW p \in Worker, Look(p)
  PROVE  Typed'
<1>1. /\ Step(p) /\ run'[p] \in Runs
      /\ run[p].stage = "page" /\ run'[p].stage = "write"
      /\ run[p].page # <<>> /\ run'[p].page = run[p].page
      /\ run'[p].kind = run[p].kind /\ run'[p].since = run[p].since
      /\ run'[p].at = run[p].at /\ run'[p].missed = run[p].missed
      /\ run'[p].obs = run[p].obs /\ run'[p].vis = run[p].vis
      /\ UNCHANGED <<shown, clock, archive, reply, counts>>
  BY LookEffect
<1>2. clock' \in Nat /\ clock <= clock' /\ clock' = clock /\ frontier' = frontier
  BY <1>1 DEF Typed, TypeOK, archive
<1>3. Shape(run[p]) /\ InTime(run[p])
  BY <1>1, BusyRun DEF Typed, Step
<1>4. (Shape(run[p]) /\ InTime(run[p]))'
  BY <1>1, <1>2, <1>3 DEF Shape, InTime
<1> QED BY <1>1, <1>2, <1>4, GoesOn

LEMMA WatchTyped ==
  ASSUME Typed, NEW p \in Worker, Watch(p)
  PROVE  Typed'
<1>1. /\ Step(p) /\ run'[p] \in Runs
      /\ run[p].stage = "watch" /\ run'[p].stage = "page"
      /\ run'[p].kind = run[p].kind /\ run'[p].since = run[p].since
      /\ run'[p].at = run[p].at /\ run'[p].missed = run[p].missed
      /\ run'[p].obs = run[p].obs /\ run'[p].vis = run[p].vis
      /\ UNCHANGED <<shown, clock, archive, reply, counts>>
  BY WatchEffect
<1>2. clock' \in Nat /\ clock <= clock' /\ clock' = clock /\ frontier' = frontier
  BY <1>1 DEF Typed, TypeOK, archive
<1>3. Shape(run[p]) /\ InTime(run[p])
  BY <1>1, BusyRun DEF Typed, Step
<1>4. (Shape(run[p]) /\ InTime(run[p]))'
  BY <1>1, <1>2, <1>3 DEF Shape, InTime
<1> QED BY <1>1, <1>2, <1>4, GoesOn

LEMMA MarkTyped ==
  ASSUME Typed, NEW p \in Worker, Mark(p)
  PROVE  Typed'
<1>1. /\ Step(p) /\ run'[p] \in Runs
      /\ run[p].stage = "page" /\ run'[p].stage = "page"
      /\ clock' = clock + 1 /\ ~run'[p].missed
      /\ run'[p].kind = run[p].kind /\ run'[p].since = run[p].since
      /\ run'[p].at = run[p].at /\ run'[p].obs = run[p].obs
      /\ run'[p].vis \in {run[p].vis,
           run[p].vis \cup {Event(Max(frontier), "disappeared", clock')}}
      /\ UNCHANGED <<shown, archive, reply, counts>>
  BY MarkEffect
<1>2. clock \in Nat /\ run[p] \in Runs
  BY <1>1 DEF Typed, TypeOK, Step
<1>3. Shape(run[p]) /\ InTime(run[p])
  BY <1>1, BusyRun DEF Typed, Step
<1>4. /\ \A e \in run[p].vis : e.at \in Nat
      /\ run[p].since \in Nat /\ run[p].at \in Nat
  BY <1>2, RunParts, Rows
<1>5. \A e \in run'[p].vis : e.at <= clock'
  <2>1. \A e \in run[p].vis : e.at <= clock'
    BY <1>1, <1>2, <1>3, <1>4 DEF InTime
  <2>2. Event(Max(frontier), "disappeared", clock').at <= clock'
    BY <1>1, <1>2 DEF Event
  <2> QED BY <1>1, <2>1, <2>2
<1>6. (Shape(run[p]) /\ InTime(run[p]))'
  BY <1>1, <1>2, <1>3, <1>4, <1>5 DEF Shape, InTime
<1>7. clock' \in Nat /\ clock <= clock'
  BY <1>1, <1>2
<1> QED BY <1>1, <1>6, <1>7, GoesOn

LEMMA WriteTyped ==
  ASSUME Typed, NEW p \in Worker, Write(p)
  PROVE  Typed'
<1>1. /\ Step(p) /\ run'[p] \in Runs
      /\ run[p].stage = "write" /\ run'[p].stage \in {"page", "watch"}
      /\ run'[p].stage = "watch" => run'[p].top \in Comment
      /\ run'[p].kind = run[p].kind /\ run'[p].since = run[p].since
      /\ run'[p].at = run[p].at /\ run'[p].missed = run[p].missed
      /\ Written(p)
      /\ UNCHANGED <<shown, clock, archive, reply, counts>>
  BY WriteEffect
<1>2. clock' \in Nat /\ clock <= clock' /\ clock' = clock /\ frontier' = frontier
  BY <1>1 DEF Typed, TypeOK, archive
<1>3. Shape(run[p]) /\ InTime(run[p])
  BY <1>1, BusyRun DEF Typed, Step
<1>4. /\ \A e \in run'[p].vis : e.at <= clock'
      /\ \A o \in run'[p].obs : o.at = run[p].at /\ 1 <= run[p].at
  <2>1. \A t : Event(Current(p), t, run[p].at).at = run[p].at
    BY DEF Event
  <2>2. \A seen : Observation(Current(p), run[p].at, seen, Prev(p)).at = run[p].at
    BY DEF Observation
  <2> QED BY <1>1, <1>2, <1>3, <2>1, <2>2 DEF InTime, Written
<1>5. (Shape(run[p]) /\ InTime(run[p]))'
  BY <1>1, <1>2, <1>3, <1>4 DEF Shape, InTime
<1> QED BY <1>1, <1>2, <1>5, GoesOn

(* What a commit leaves.                                                   *)
LEMMA Committed ==
  ASSUME Typed, NEW p \in Worker, NEW again \in BOOLEAN, Commit(p, again)
  PROVE  /\ obs' = obs \cup run[p].obs
         /\ vis' = vis \cup {[e EXCEPT !.known = clock] : e \in run[p].vis}
         /\ frontier' = IF run[p].kind = "scan" /\ run[p].stage = "page"
                        THEN {o.rpid : o \in run[p].obs} ELSE frontier
         /\ watch' = [c \in Comment |->
              IF c \in run[p].asks THEN run[p].at ELSE watch[c]]
         /\ asked' = [c \in Comment |->
              IF c = run[p].of /\ run[p].kind = "reply" /\ ~again
              THEN run[p].since ELSE asked[c]]
         /\ reply' = [c \in Comment |->
              IF c \in run[p].asks THEN "pending"
              ELSE IF c = run[p].of /\ run[p].kind = "reply"
                   THEN IF again THEN "pending" ELSE "none"
              ELSE reply[c]]
BY DEF Commit

LEMMA CommitTyped ==
  ASSUME Typed, NEW p \in Worker, NEW again \in BOOLEAN, Commit(p, again)
  PROVE  Typed'
<1>1. Step(p) /\ run'[p] = Idle /\ Busy(p) /\ UNCHANGED <<shown, clock, counts>>
  BY CommitEffect
<1>2. TypeOK /\ run[p] \in Runs /\ InTime(run[p]) /\ clock \in Nat
  BY <1>1 DEF Typed, TypeOK, Step
<1>3. /\ run[p].obs \subseteq Observations /\ run[p].vis \subseteq Events
      /\ run[p].asks \subseteq Comment /\ run[p].at \in Nat /\ run[p].since \in Nat
  BY <1>2, RunParts
<1>4. obs' \subseteq Observations /\ \A o \in obs' : 1 <= o.at /\ o.at <= clock'
  <2>1. obs' = obs \cup run[p].obs
    BY Committed
  <2>2. \A o \in run[p].obs : 1 <= o.at /\ o.at <= clock
    BY <1>2, <1>3 DEF InTime
  <2>3. \A o \in obs : 1 <= o.at /\ o.at <= clock
    BY DEF Typed, ArchiveInTime
  <2>4. obs \subseteq Observations
    BY <1>2 DEF TypeOK
  <2> QED BY <1>1, <1>3, <2>1, <2>2, <2>3, <2>4
<1>5. vis' \subseteq Events /\ \A e \in vis' : e.at <= e.known /\ e.known <= clock'
  <2>1. vis' = vis \cup {[e EXCEPT !.known = clock] : e \in run[p].vis}
    BY Committed
  <2>2. \A e \in Events : /\ [e EXCEPT !.known = clock] \in Events
                          /\ [e EXCEPT !.known = clock].at = e.at
                          /\ [e EXCEPT !.known = clock].known = clock
    BY <1>2 DEF Events
  <2>3. \A e \in run[p].vis : e.at <= clock
    BY <1>2 DEF InTime
  <2>4. vis \subseteq Events /\ \A e \in vis : e.at <= e.known /\ e.known <= clock
    BY <1>2 DEF TypeOK, Typed, ArchiveInTime
  <2> SUFFICES ASSUME NEW e \in vis'
               PROVE  e \in Events /\ e.at <= e.known /\ e.known <= clock
    BY <1>1
  <2>5. CASE e \in vis
    BY <2>4, <2>5
  <2>6. CASE e \notin vis
    <3>1. PICK d \in run[p].vis : e = [d EXCEPT !.known = clock]
      BY <2>1, <2>6
    <3>2. e \in Events /\ e.at = d.at /\ e.known = clock
      BY <1>3, <2>2, <3>1
    <3> QED BY <1>2, <2>3, <3>2
  <2> QED BY <2>5, <2>6
<1>6. frontier' \subseteq Comment
  <2>1. \A o \in run[p].obs : o.rpid \in Comment
    BY <1>3, Rows
  <2>2. frontier \subseteq Comment
    BY <1>2 DEF TypeOK
  <2> QED BY <2>1, <2>2, Committed
<1>7. /\ watch' \in [Comment -> Nat] /\ asked' \in [Comment -> Nat]
      /\ \A c \in Comment : watch'[c] <= clock'
  <2>1. /\ watch \in [Comment -> Nat] /\ asked \in [Comment -> Nat]
        /\ \A c \in Comment : watch[c] <= clock
    BY <1>2 DEF TypeOK, Typed, ArchiveInTime
  <2>2. run[p].at <= clock
    BY <1>2 DEF InTime
  <2>3. watch' = [c \in Comment |->
          IF c \in run[p].asks THEN run[p].at ELSE watch[c]]
    BY Committed
  <2>4. asked' = [c \in Comment |->
          IF c = run[p].of /\ run[p].kind = "reply" /\ ~again
          THEN run[p].since ELSE asked[c]]
    BY Committed
  <2>5. asked' \in [Comment -> Nat]
    BY <1>3, <2>1, <2>4
  <2> QED BY <1>1, <1>3, <2>1, <2>2, <2>3, <2>5
<1>8. reply' \in [Comment -> {"none", "pending", "running"}]
  <2>1. reply \in [Comment -> {"none", "pending", "running"}]
    BY <1>2 DEF TypeOK
  <2> QED BY <2>1, Committed
<1>9. TypeOK'
  BY <1>1, <1>2, <1>4, <1>5, <1>6, <1>7, <1>8 DEF TypeOK, Step
<1>10. ArchiveInTime'
  BY <1>4, <1>5, <1>7 DEF ArchiveInTime
<1>11. Idle.kind = "none"
  BY DEF Idle
<1>12. ~Busy(p)' /\ run'[p].kind # "scan"
  BY <1>1, <1>11 DEF Busy
<1>13. frontier' = frontier \/ run[p].kind = "scan"
  BY Committed
<1>14. clock' \in Nat /\ clock <= clock'
  BY <1>1, <1>2
<1>15. /\ OneScan'
       /\ \A q \in Worker : Busy(q)' => (Shape(run[q]) /\ InTime(run[q]))'
  BY <1>1, <1>12, <1>13, <1>14, OwnStep DEF Step
<1> QED BY <1>9, <1>10, <1>15 DEF Typed

LEMMA RolledBackTyped ==
  ASSUME Typed, NEW p \in Worker, Busy(p), RolledBack(p)
  PROVE  Typed'
<1>1. Step(p) /\ run'[p] = Idle /\ UNCHANGED <<shown, clock, archive, counts>>
  BY RolledBackEffect
<1>2. reply' = [c \in Comment |->
        IF c = run[p].of /\ run[p].kind = "reply" THEN "pending" ELSE reply[c]]
  BY RolledBackEffect
<1>3. reply' \in [Comment -> {"none", "pending", "running"}]
  BY <1>2 DEF Typed, TypeOK
<1>4. TypeOK'
  BY <1>1, <1>3 DEF Typed, TypeOK, Step, archive
<1>5. ArchiveInTime'
  BY <1>1 DEF Typed, ArchiveInTime, archive
<1>6. Idle.kind = "none"
  BY DEF Idle
<1>7. ~Busy(p)' /\ run'[p].kind # "scan"
  BY <1>1, <1>6 DEF Busy
<1>8. clock' \in Nat /\ clock <= clock' /\ frontier' = frontier
  BY <1>1 DEF Typed, TypeOK, archive
<1>9. /\ OneScan'
      /\ \A q \in Worker : Busy(q)' => (Shape(run[q]) /\ InTime(run[q]))'
  BY <1>1, <1>7, <1>8, OwnStep DEF Step
<1> QED BY <1>4, <1>5, <1>9 DEF Typed

LEMMA ScanFailsTyped ==
  ASSUME Typed, NEW p \in Worker, ScanFails(p)
  PROVE  Typed'
<1>1. /\ Step(p) /\ run'[p] \in Runs
      /\ run'[p].kind = run[p].kind
      /\ run'[p].stage = "failed"
      /\ run'[p].since = run[p].since /\ run'[p].at = run[p].at
      /\ run'[p].obs = {} /\ run'[p].vis = {} /\ ~run'[p].missed
      /\ UNCHANGED <<shown, clock, archive, reply, counts>>
  BY DEF ScanFails
<1>2. clock' \in Nat /\ clock <= clock' /\ clock' = clock
  BY <1>1 DEF Typed, TypeOK
<1>3. InTime(run[p])
  BY <1>1, BusyRun DEF Typed, Step
<1>4. (Shape(run[p]) /\ InTime(run[p]))'
  BY <1>1, <1>2, <1>3 DEF Shape, InTime
<1> QED BY <1>1, <1>2, <1>4, GoesOn

LEMMA ChangeTyped ==
  ASSUME Typed, NEW c \in Comment, NEW to \in {"visible", "folded", "gone"},
         Change(c, to)
  PROVE  Typed'
<1>1. UNCHANGED <<clock, archive, reply, run>>
  BY DEF Change
<1>2. shown' \in [Comment -> {"unborn", "visible", "folded", "gone"}]
  BY DEF Change, Typed, TypeOK
<1>3. counts' \in [runs : Nat, changes : Nat]
  <2>1. counts \in [runs : Nat, changes : Nat]
    BY DEF Typed, TypeOK
  <2>2. counts' = [counts EXCEPT !.changes = @ + 1]
    BY DEF Change
  <2> QED BY <2>1, <2>2
<1>4. TypeOK'
  BY <1>1, <1>2, <1>3 DEF Typed, TypeOK, archive
<1> QED BY <1>1, <1>4 DEF Typed, ArchiveInTime, OneScan, Busy, Shape, InTime, archive

LEMMA StutterTyped ==
  ASSUME Typed, UNCHANGED vars
  PROVE  Typed'
<1>1. TypeOK'
  BY DEF Typed, TypeOK, vars
<1> QED BY <1>1 DEF Typed, ArchiveInTime, OneScan, Busy, Shape, InTime, vars

LEMMA TypedInit == Init => Typed
<1> SUFFICES ASSUME Init PROVE Typed
  OBVIOUS
<1>1. /\ shown = [c \in Comment |-> "unborn"] /\ clock = 0
      /\ obs = {} /\ vis = {} /\ frontier = {}
      /\ watch = [c \in Comment |-> 0] /\ reply = [c \in Comment |-> "none"]
      /\ asked = [c \in Comment |-> 0] /\ run = [p \in Worker |-> Idle]
      /\ counts = [runs |-> 0, changes |-> 0]
  BY DEF Init
<1>2. TypeOK
  BY <1>1 DEF TypeOK
<1>3. \A p \in Worker : ~Busy(p) /\ run[p].kind # "scan"
  BY <1>1 DEF Busy, Idle
<1>4. ArchiveInTime
  BY <1>1 DEF ArchiveInTime
<1> QED BY <1>2, <1>3, <1>4 DEF Typed, OneScan

LEMMA TypedStep == Typed /\ [Next]_vars => Typed'
<1> SUFFICES ASSUME Typed, [Next]_vars PROVE Typed'
  OBVIOUS
<1>1. CASE UNCHANGED vars
  BY <1>1, StutterTyped
<1>2. CASE \E c \in Comment, to \in {"visible", "folded", "gone"} : Change(c, to)
  BY <1>2, ChangeTyped
<1>3. ASSUME NEW p \in Worker, BeginHot(p) PROVE Typed'
  <2>1. Begin(p, "hot", NoComment) /\ reply' = reply
    BY <1>3 DEF BeginHot
  <2>2. reply' \in [Comment -> {"none", "pending", "running"}]
    BY <2>1 DEF Typed, TypeOK
  <2> QED BY <2>1, <2>2, BeginTyped
<1>4. ASSUME NEW p \in Worker, BeginScan(p) PROVE Typed'
  <2>1. /\ Begin(p, "scan", NoComment) /\ reply' = reply
        /\ \A q \in Worker : run[q].kind # "scan"
    BY <1>4 DEF BeginScan
  <2>2. reply' \in [Comment -> {"none", "pending", "running"}]
    BY <2>1 DEF Typed, TypeOK
  <2> QED BY <2>1, <2>2, BeginTyped
<1>5. ASSUME NEW p \in Worker, NEW c \in Comment, BeginReply(p, c) PROVE Typed'
  <2>1. Begin(p, "reply", c) /\ reply' = [reply EXCEPT ![c] = "running"]
    BY <1>5 DEF BeginReply
  <2>2. reply' \in [Comment -> {"none", "pending", "running"}]
    BY <2>1 DEF Typed, TypeOK
  <2> QED BY <2>1, <2>2, BeginTyped
<1> QED BY <1>1, <1>2, <1>3, <1>4, <1>5, Steps, AnswerTyped, LookTyped, WriteTyped,
          WatchTyped, MarkTyped, GiveUpTyped, CommitTyped, RolledBackTyped,
          ScanFailsTyped

(* What the tables and the transactions hold has the types of TypeOK, and  *)
(* nothing is later than the clock.                                        *)
THEOREM ArchiveTypes == Spec => []TypeOK
<1>1. Typed => TypeOK
  BY DEF Typed
<1> QED BY <1>1, TypedInit, TypedStep, PTL DEF Spec

-----------------------------------------------------------------------------
(* The reply tasks.  A run that reads the replies of a comment has the     *)
(* comment's task for itself, the comment was last watched before the run  *)
(* began, and nobody watches a comment whose task is running.              *)
Reading(p) == Busy(p) /\ run[p].kind = "reply"

Asking ==
  /\ \A p \in Worker : Reading(p) =>
       /\ run[p].of \in Comment /\ reply[run[p].of] = "running"
       /\ watch[run[p].of] <= run[p].since
  /\ \A p, q \in Worker : Reading(p) /\ Reading(q) /\ run[p].of = run[q].of => p = q
  /\ \A p \in Worker : Busy(p) => \A c \in run[p].asks : reply[c] # "running"

Replies == Typed /\ Asking /\ RepliesFollow

(* A step that asks for nothing and leaves the tasks alone.                *)
LEMMA AsksNothing ==
  ASSUME Replies, NEW p \in Worker, Step(p), run'[p] \in Runs,
         run'[p].kind = run[p].kind, run'[p].of = run[p].of,
         run'[p].since = run[p].since,
         \A c \in run'[p].asks : c \in run[p].asks \/ reply[c] # "running",
         UNCHANGED <<archive, reply>>
  PROVE  Asking' /\ RepliesFollow'
<1>1. RepliesFollow'
  BY DEF Replies, RepliesFollow, archive
<1>2. Busy(p)
  BY BusyRun DEF Step, Replies, Typed
<1>3. \A q \in Worker : Busy(q)' => Busy(q)
  BY <1>2 DEF Step, Busy
<1>4. \A q \in Worker : Reading(q)' =>
        /\ Reading(q) /\ run'[q].of = run[q].of /\ run'[q].since = run[q].since
  BY <1>3 DEF Step, Reading
<1>5. \A q \in Worker : Busy(q)' => \A c \in run'[q].asks : reply[c] # "running"
  BY <1>2, <1>3 DEF Step, Replies, Asking
<1>6. reply' = reply /\ watch' = watch
  BY DEF archive
<1> QED BY <1>1, <1>4, <1>5, <1>6 DEF Asking, Replies

LEMMA BeginAsks ==
  ASSUME Replies, NEW p \in Worker, NEW kind \in {"hot", "scan"},
         Begin(p, kind, NoComment), reply' = reply
  PROVE  Asking' /\ RepliesFollow'
<1>1. run'[p] = [kind |-> kind, of |-> NoComment,
                 since |-> IF kind = "reply" THEN clock ELSE 0,
                 stage |-> "asked", at |-> 0, page |-> <<>>, new |-> FALSE,
                 top |-> NoComment, missed |-> FALSE,
                 obs |-> {}, vis |-> {}, asks |-> {}]
  BY BeginEffect DEF Replies
<1>2. /\ \A q \in Worker \ {p} : run'[q] = run[q]
      /\ UNCHANGED archive
  BY BeginEffect DEF Replies
<1>3. ~Reading(p)' /\ run'[p].asks = {}
  BY <1>1 DEF Reading
<1>4. RepliesFollow' /\ watch' = watch
  BY <1>2 DEF Replies, RepliesFollow, archive
<1>5. \A q \in Worker : Reading(q)' => Reading(q) /\ run'[q] = run[q]
  BY <1>2, <1>3 DEF Reading, Busy
<1>6. \A q \in Worker : Busy(q)' => \A c \in run'[q].asks : reply[c] # "running"
  BY <1>2, <1>3 DEF Busy, Replies, Asking
<1> QED BY <1>4, <1>5, <1>6 DEF Asking, Replies

LEMMA BeginReplyAsks ==
  ASSUME Replies, NEW p \in Worker, NEW c \in Comment, BeginReply(p, c)
  PROVE  Asking' /\ RepliesFollow'
<1>1. /\ Begin(p, "reply", c) /\ reply[c] = "pending" /\ ~Locked(c)
      /\ reply' = [reply EXCEPT ![c] = "running"]
  BY DEF BeginReply
<1>2. run'[p] = [kind |-> "reply", of |-> c,
                 since |-> IF "reply" = "reply" THEN clock ELSE 0,
                 stage |-> "asked", at |-> 0, page |-> <<>>, new |-> FALSE,
                 top |-> NoComment, missed |-> FALSE,
                 obs |-> {}, vis |-> {}, asks |-> {}]
  BY <1>1, BeginEffect DEF Replies
<1>3. /\ \A q \in Worker \ {p} : run'[q] = run[q]
      /\ UNCHANGED archive
  BY <1>1, BeginEffect DEF Replies
<1>4. run'[p].of = c /\ run'[p].since = clock /\ run'[p].asks = {}
  BY <1>2
<1>5. watch' = watch /\ asked' = asked
  BY <1>3 DEF archive
<1>6. reply \in [Comment -> {"none", "pending", "running"}] /\ watch[c] <= clock
  BY DEF Replies, Typed, TypeOK, ArchiveInTime
<1>7. reply'[c] = "running" /\ \A d \in Comment \ {c} : reply'[d] = reply[d]
  BY <1>1, <1>6
<1>8. RepliesFollow'
  BY <1>5, <1>7 DEF Replies, RepliesFollow
<1>9. ASSUME NEW q \in Worker \ {p}, Reading(q)'
      PROVE  /\ Reading(q) /\ run'[q] = run[q]
             /\ run[q].of \in Comment \ {c} /\ reply'[run[q].of] = "running"
             /\ watch[run[q].of] <= run[q].since
  <2>1. Reading(q) /\ run'[q] = run[q]
    BY <1>3, <1>9 DEF Reading, Busy
  <2>2. /\ run[q].of \in Comment /\ reply[run[q].of] = "running"
        /\ watch[run[q].of] <= run[q].since
    BY <2>1 DEF Replies, Asking
  <2> QED BY <1>1, <1>7, <2>1, <2>2
<1>10. ASSUME NEW q \in Worker, Busy(q)', NEW d \in run'[q].asks
       PROVE  reply'[d] # "running"
  <2>1. q # p /\ Busy(q) /\ d \in run[q].asks
    BY <1>3, <1>4, <1>10 DEF Busy
  <2>2. d # c /\ reply[d] # "running"
    BY <1>1, <2>1 DEF Locked, Replies, Asking
  <2>3. run[q] \in Runs
    BY <2>1, BusyRun DEF Replies, Typed
  <2>4. d \in Comment
    BY <2>1, <2>3, RunParts
  <2> QED BY <1>7, <2>2, <2>4
<1>11. \A q \in Worker : Reading(q)' =>
         /\ run'[q].of \in Comment /\ reply'[run'[q].of] = "running"
         /\ watch'[run'[q].of] <= run'[q].since
  BY <1>4, <1>5, <1>6, <1>7, <1>9
<1>12. \A q, r \in Worker :
         Reading(q)' /\ Reading(r)' /\ run'[q].of = run'[r].of => q = r
  <2>1. \A q, r \in Worker \ {p} :
          Reading(q)' /\ Reading(r)' /\ run'[q].of = run'[r].of => q = r
    BY <1>9 DEF Replies, Asking
  <2>2. \A q \in Worker \ {p} : Reading(q)' => run'[q].of # c
    BY <1>9
  <2> QED BY <1>4, <2>1, <2>2
<1> QED BY <1>8, <1>10, <1>11, <1>12 DEF Asking

(* The end of a run, by a commit or otherwise.                             *)
LEMMA EndAsks ==
  ASSUME Replies, NEW p \in Worker, Step(p), run'[p] = Idle,
         \A c \in Comment \ run[p].asks : watch'[c] = watch[c],
         \A c \in Comment : reply'[c] = reply[c] \/ reply'[c] # "running",
         \A c \in Comment \ run[p].asks :
           reply'[c] = reply[c] \/ (c = run[p].of /\ run[p].kind = "reply")
  PROVE  Asking'
<1>1. Idle.kind = "none"
  BY DEF Idle
<1>2. ~Busy(p)' /\ Busy(p)
  BY <1>1, BusyRun DEF Busy, Step, Replies, Typed
<1>3. \A q \in Worker : Busy(q)' => q # p /\ Busy(q) /\ run'[q] = run[q]
  BY <1>2 DEF Step, Busy
<1>4. ASSUME NEW q \in Worker, Reading(q)'
      PROVE  /\ Reading(q) /\ run'[q] = run[q]
             /\ run[q].of \in Comment /\ reply'[run[q].of] = "running"
             /\ watch'[run[q].of] <= run[q].since
  <2>1. Reading(q) /\ run'[q] = run[q] /\ q # p
    BY <1>3, <1>4 DEF Reading
  <2>2. /\ run[q].of \in Comment /\ reply[run[q].of] = "running"
        /\ watch[run[q].of] <= run[q].since
    BY <2>1 DEF Replies, Asking
  <2>3. run[q].of \notin run[p].asks
    BY <1>2, <2>2 DEF Replies, Asking
  <2>4. ~(run[q].of = run[p].of /\ run[p].kind = "reply")
    BY <1>2, <2>1 DEF Reading, Replies, Asking
  <2> QED BY <2>1, <2>2, <2>3, <2>4
<1>5. ASSUME NEW q \in Worker, Busy(q)', NEW d \in run'[q].asks
      PROVE  reply'[d] # "running"
  <2>1. Busy(q) /\ d \in run[q].asks /\ run[q] \in Runs
    BY <1>3, <1>5, BusyRun DEF Replies, Typed
  <2>2. d \in Comment /\ reply[d] # "running"
    BY <2>1, RunParts DEF Replies, Asking
  <2> QED BY <2>2
<1>6. \A q, r \in Worker :
        Reading(q)' /\ Reading(r)' /\ run'[q].of = run'[r].of => q = r
  BY <1>4 DEF Replies, Asking
<1> QED BY <1>4, <1>5, <1>6 DEF Asking

LEMMA CommitAsks ==
  ASSUME Replies, NEW p \in Worker, NEW again \in BOOLEAN, Commit(p, again)
  PROVE  Asking' /\ RepliesFollow'
<1>1. Step(p) /\ run'[p] = Idle /\ Busy(p) /\ run[p] \in Runs
  BY CommitEffect DEF Replies, Step
<1>2. /\ watch' = [c \in Comment |->
           IF c \in run[p].asks THEN run[p].at ELSE watch[c]]
      /\ asked' = [c \in Comment |->
           IF c = run[p].of /\ run[p].kind = "reply" /\ ~again
           THEN run[p].since ELSE asked[c]]
      /\ reply' = [c \in Comment |->
           IF c \in run[p].asks THEN "pending"
           ELSE IF c = run[p].of /\ run[p].kind = "reply"
                THEN IF again THEN "pending" ELSE "none"
           ELSE reply[c]]
  BY Committed DEF Replies
<1>3. Asking'
  <2>1. \A c \in Comment \ run[p].asks : watch'[c] = watch[c]
    BY <1>2
  <2>2. \A c \in Comment : reply'[c] = reply[c] \/ reply'[c] # "running"
    BY <1>2
  <2>3. \A c \in Comment \ run[p].asks :
          reply'[c] = reply[c] \/ (c = run[p].of /\ run[p].kind = "reply")
    BY <1>2
  <2> QED BY <1>1, <2>1, <2>2, <2>3, EndAsks
<1>4. ASSUME NEW c \in Comment, watch'[c] # 0
      PROVE  reply'[c] # "none" \/ asked'[c] >= watch'[c]
  <2>1. CASE c \in run[p].asks
    BY <1>2, <2>1
  <2>2. CASE c \notin run[p].asks /\ c = run[p].of /\ run[p].kind = "reply"
    <3>1. watch'[c] = watch[c] /\ watch[c] <= run[p].since
      BY <1>1, <1>2, <2>2 DEF Replies, Asking, Reading
    <3>2. watch[c] \in Nat /\ run[p].since \in Nat
      BY <1>1, RunParts DEF Replies, Typed, TypeOK
    <3> QED BY <1>2, <2>2, <3>1, <3>2
  <2>3. CASE c \notin run[p].asks /\ ~(c = run[p].of /\ run[p].kind = "reply")
    BY <1>2, <1>4, <2>3 DEF Replies, RepliesFollow
  <2> QED BY <2>1, <2>2, <2>3
<1> QED BY <1>3, <1>4 DEF RepliesFollow

LEMMA RolledBackAsks ==
  ASSUME Replies, NEW p \in Worker, Busy(p), RolledBack(p)
  PROVE  Asking' /\ RepliesFollow'
<1>1. Step(p) /\ run'[p] = Idle /\ UNCHANGED archive
  BY RolledBackEffect DEF Replies
<1>2. reply' = [c \in Comment |->
        IF c = run[p].of /\ run[p].kind = "reply" THEN "pending" ELSE reply[c]]
  BY RolledBackEffect DEF Replies
<1>3. Asking'
  <2>1. \A c \in Comment \ run[p].asks : watch'[c] = watch[c]
    BY <1>1 DEF archive
  <2>2. \A c \in Comment : reply'[c] = reply[c] \/ reply'[c] # "running"
    BY <1>2
  <2>3. \A c \in Comment \ run[p].asks :
          reply'[c] = reply[c] \/ (c = run[p].of /\ run[p].kind = "reply")
    BY <1>2
  <2> QED BY <1>1, <2>1, <2>2, <2>3, EndAsks
<1> QED BY <1>1, <1>2, <1>3 DEF RepliesFollow, Replies, archive

LEMMA RepliesStep == Replies /\ [Next]_vars => Replies'
<1> SUFFICES ASSUME Replies, [Next]_vars PROVE Asking' /\ RepliesFollow'
  BY TypedStep DEF Replies
<1>1. CASE UNCHANGED vars
  BY <1>1 DEF Replies, Asking, RepliesFollow, Reading, Busy, vars
<1>2. ASSUME NEW c \in Comment, NEW to \in {"visible", "folded", "gone"},
             Change(c, to)
      PROVE  Asking' /\ RepliesFollow'
  <2>1. UNCHANGED <<archive, reply, run>>
    BY <1>2 DEF Change
  <2> QED BY <2>1 DEF Replies, Asking, RepliesFollow, Reading, Busy, archive
<1>3. ASSUME NEW p \in Worker,
             Answer(p) \/ Look(p) \/ Write(p) \/ Mark(p) \/ GiveUp(p) \/ ScanFails(p)
      PROVE  Asking' /\ RepliesFollow'
  <2>1. /\ Step(p) /\ run'[p] \in Runs
        /\ run'[p].kind = run[p].kind /\ run'[p].of = run[p].of
        /\ run'[p].since = run[p].since /\ run'[p].asks = run[p].asks
        /\ UNCHANGED <<archive, reply>>
    BY <1>3, AnswerEffect, LookEffect, WriteEffect, MarkEffect, GiveUpEffect
       DEF Replies, ScanFails
  <2> QED BY <2>1, AsksNothing
<1>4. ASSUME NEW p \in Worker, Watch(p) PROVE Asking' /\ RepliesFollow'
  <2>1. /\ Step(p) /\ run'[p] \in Runs
        /\ run'[p].kind = run[p].kind /\ run'[p].of = run[p].of
        /\ run'[p].since = run[p].since /\ run'[p].asks = {run[p].top}
        /\ ~Awaited(run[p].top)
        /\ UNCHANGED <<archive, reply>>
    BY <1>4, WatchEffect DEF Replies
  <2> QED BY <2>1, AsksNothing DEF Awaited
<1>5. ASSUME NEW p \in Worker, BeginHot(p) \/ BeginScan(p)
      PROVE  Asking' /\ RepliesFollow'
  BY <1>5, BeginAsks DEF BeginHot, BeginScan
<1> QED BY <1>1, <1>2, <1>3, <1>4, <1>5, Steps, BeginReplyAsks, CommitAsks,
          RolledBackAsks DEF Replies

(* Wherever a comment is watched, its replies are read by a run of its     *)
(* task that begins afterwards, or the task is still there                 *)
(* (_upsert_watchlist_item, CollectionTaskRepository.enqueue).             *)
THEOREM RepliesTheorem == Spec => []RepliesFollow
<1>1. Init => Replies
  <2>1. ASSUME Init PROVE Asking /\ RepliesFollow
    <3>1. \A p \in Worker : ~Busy(p)
      BY <2>1 DEF Init, Busy, Idle
    <3>2. \A c \in Comment : watch[c] = 0
      BY <2>1 DEF Init
    <3> QED BY <3>1, <3>2 DEF Asking, RepliesFollow, Reading
  <2> QED BY <2>1, TypedInit DEF Replies
<1>2. Replies => RepliesFollow
  BY DEF Replies
<1> QED BY <1>1, <1>2, RepliesStep, PTL DEF Spec

-----------------------------------------------------------------------------
(* Disappearances.  What SeenAgain says of the committed observations holds *)
(* of those that a run is about to commit, too, with the events that it     *)
(* will commit along with them.                                             *)
Answered(O, V) ==
  \A e \in vis, o \in O :
    e.type = "disappeared" /\ o.rpid = e.rpid /\ e.known < o.at
    => \E f \in V : f.rpid = e.rpid /\ e.at < f.at

Seen ==
  /\ Typed /\ SeenAgain
  /\ \A p \in Worker : Busy(p) => Answered(run[p].obs, vis \cup run[p].vis)

LEMMA SeenAgainIs == SeenAgain <=> Answered(obs, vis)
BY DEF SeenAgain, Answered

(* A step that writes no observation and forgets no event.                 *)
LEMMA KeepsSeen ==
  ASSUME Seen, NEW p \in Worker,
         \A q \in Worker \ {p} : run'[q] = run[q],
         obs' = obs, vis' = vis,
         Busy(p)' => (run'[p].obs = {} \/
           (Busy(p) /\ run'[p].obs = run[p].obs /\ run[p].vis \subseteq run'[p].vis))
  PROVE  SeenAgain' /\ \A q \in Worker : Busy(q)' =>
                          Answered(run[q].obs, vis \cup run[q].vis)'
<1>1. SeenAgain'
  BY DEF Seen, SeenAgain
<1>2. ASSUME NEW q \in Worker, Busy(q)'
      PROVE  Answered(run[q].obs, vis \cup run[q].vis)'
  <2>1. CASE q # p
    <3>1. Busy(q) /\ run'[q] = run[q]
      BY <1>2, <2>1 DEF Busy
    <3> QED BY <3>1 DEF Seen, Answered
  <2>2. CASE q = p /\ run'[p].obs = {}
    BY <2>2 DEF Answered
  <2>3. CASE q = p /\ Busy(p) /\ run'[p].obs = run[p].obs
               /\ run[p].vis \subseteq run'[p].vis
    <3>1. Answered(run[p].obs, vis \cup run[p].vis)
      BY <2>3 DEF Seen
    <3> QED BY <2>3, <3>1 DEF Answered
  <2> QED BY <1>2, <2>1, <2>2, <2>3
<1> QED BY <1>1, <1>2

LEMMA WriteSeen ==
  ASSUME Seen, NEW p \in Worker, Write(p)
  PROVE  Seen'
<1>1. /\ Step(p) /\ run'[p] \in Runs /\ Written(p) /\ run[p].stage = "write"
      /\ UNCHANGED <<shown, clock, archive, reply, counts>>
  BY WriteEffect DEF Seen
<1> DEFINE c == Current(p)
<1>2. PICK seen : run'[p].obs = run[p].obs \cup {Observation(c, run[p].at, seen, Prev(p))}
  BY <1>1 DEF Written
<1>3. PICK types : /\ run'[p].vis =
                        run[p].vis \cup {Event(c, t, run[p].at) : t \in types}
                   /\ LooksGone(p, c) => "reappeared" \in types
  BY <1>1 DEF Written
<1>4. obs' = obs /\ vis' = vis
  BY <1>1 DEF archive
<1>5. Busy(p) /\ run[p] \in Runs /\ run[p].at \in Nat
  BY <1>1, BusyRun, RunParts DEF Seen, Typed, Step
<1> HIDE DEF c
<1>6. ASSUME NEW e \in vis, e.type = "disappeared", e.rpid = c, e.known < run[p].at
      PROVE  \E f \in vis \cup run'[p].vis : f.rpid = c /\ e.at < f.at
  <2>1. e.at <= e.known /\ e.at \in Nat /\ e.known \in Nat
    BY Rows DEF Seen, Typed, TypeOK, ArchiveInTime
  <2>2. CASE LooksGone(p, c)
    <3>1. Event(c, "reappeared", run[p].at) \in run'[p].vis
      BY <1>3, <2>2
    <3>2. /\ Event(c, "reappeared", run[p].at).rpid = c
          /\ Event(c, "reappeared", run[p].at).at = run[p].at
      BY DEF Event
    <3> QED BY <1>5, <1>6, <2>1, <3>1, <3>2
  <2>3. CASE ~LooksGone(p, c)
    <3>1. e \in VisOf(p, c)
      BY <1>6 DEF VisOf
    <3>2. PICK f \in VisOf(p, c) : ~(f.at <= e.at)
      BY <1>6, <2>3, <3>1 DEF LooksGone
    <3>3. f \in vis \cup run[p].vis /\ f.rpid = c
      BY <3>2 DEF VisOf
    <3>4. f.at \in Nat
      BY <1>5, <3>3, Rows, RunParts DEF Seen, Typed, TypeOK
    <3> QED BY <1>3, <2>1, <3>2, <3>3, <3>4
  <2> QED BY <2>2, <2>3
<1>7. Answered(run[p].obs, vis \cup run[p].vis)
  BY <1>5 DEF Seen
<1>8. ASSUME NEW e \in vis, NEW o \in run'[p].obs,
             e.type = "disappeared", o.rpid = e.rpid, e.known < o.at
      PROVE  \E f \in vis \cup run'[p].vis : f.rpid = e.rpid /\ e.at < f.at
  <2>1. CASE o \in run[p].obs
    BY <1>3, <1>7, <1>8, <2>1 DEF Answered
  <2>2. CASE o \notin run[p].obs
    <3>1. o.rpid = c /\ o.at = run[p].at
      BY <1>2, <2>2 DEF Observation
    <3> QED BY <1>6, <1>8, <3>1
  <2> QED BY <2>1, <2>2
<1>9. ASSUME NEW q \in Worker, Busy(q)'
      PROVE  Answered(run[q].obs, vis \cup run[q].vis)'
  <2>1. CASE q = p
    BY <1>4, <1>8, <2>1 DEF Answered
  <2>2. CASE q # p
    <3>1. Busy(q) /\ run'[q] = run[q]
      BY <1>1, <1>9, <2>2 DEF Step, Busy
    <3> QED BY <1>4, <3>1 DEF Seen, Answered
  <2> QED BY <2>1, <2>2
<1>10. SeenAgain'
  BY <1>4 DEF Seen, SeenAgain
<1>11. Typed'
  BY WriteTyped DEF Seen
<1> QED BY <1>9, <1>10, <1>11 DEF Seen

LEMMA CommitSeen ==
  ASSUME Seen, NEW p \in Worker, NEW again \in BOOLEAN, Commit(p, again)
  PROVE  Seen'
<1>1. Step(p) /\ run'[p] = Idle /\ Busy(p) /\ clock' = clock
  BY CommitEffect DEF Seen
<1>2. /\ obs' = obs \cup run[p].obs
      /\ vis' = vis \cup {[e EXCEPT !.known = clock] : e \in run[p].vis}
  BY Committed DEF Seen
<1>3. run[p] \in Runs /\ run[p].vis \subseteq Events /\ clock \in Nat
  BY <1>1, RunParts DEF Seen, Typed, TypeOK, Step
<1>4. \A e \in run[p].vis : /\ [e EXCEPT !.known = clock] \in vis'
                            /\ [e EXCEPT !.known = clock].rpid = e.rpid
                            /\ [e EXCEPT !.known = clock].at = e.at
                            /\ [e EXCEPT !.known = clock].known = clock
  BY <1>2, <1>3 DEF Events
<1> DEFINE After(O) ==
             \A e \in vis', o \in O :
               e.type = "disappeared" /\ o.rpid = e.rpid /\ e.known < o.at
               => \E f \in vis' : f.rpid = e.rpid /\ e.at < f.at
(* An observation that anybody has is not later than the clock, and the    *)
(* events that are committed now are known from now on.                    *)
<1>5. ASSUME NEW O, NEW V, Answered(O, V), V \subseteq vis \cup run[p].vis,
             \A o \in O : o.at <= clock /\ o.at \in Nat
      PROVE  After(O)
  <2> SUFFICES ASSUME NEW e \in vis', NEW o \in O, e.type = "disappeared",
                      o.rpid = e.rpid, e.known < o.at
               PROVE  \E f \in vis' : f.rpid = e.rpid /\ e.at < f.at
    OBVIOUS
  <2>1. e \in vis
    <3>1. CASE e \notin vis
      <4>1. e.known = clock
        BY <1>2, <1>4, <3>1
      <4> QED BY <1>3, <1>5, <4>1
    <3> QED BY <3>1
  <2>2. PICK f \in V : f.rpid = e.rpid /\ e.at < f.at
    BY <1>5, <2>1 DEF Answered
  <2>3. CASE f \in vis
    BY <1>2, <2>2, <2>3
  <2>4. CASE f \in run[p].vis
    BY <1>4, <2>2, <2>4
  <2> QED BY <1>5, <2>2, <2>3, <2>4
<1>6. \A o \in obs \cup run[p].obs : o.at <= clock /\ o.at \in Nat
  <2>1. \A o \in obs : o.at <= clock /\ o.at \in Nat
    BY Rows DEF Seen, Typed, TypeOK, ArchiveInTime
  <2>2. \A o \in run[p].obs : o.at <= clock /\ o.at \in Nat
    BY <1>1, <1>3, RunParts DEF Seen, Typed, InTime
  <2> QED BY <2>1, <2>2
<1>7. SeenAgain'
  <2>1. Answered(obs, vis) /\ Answered(run[p].obs, vis \cup run[p].vis)
    BY <1>1, SeenAgainIs DEF Seen
  <2> HIDE DEF After
  <2>2. After(obs) /\ After(run[p].obs)
    BY <1>5, <1>6, <2>1
  <2> QED BY <1>2, <2>2 DEF SeenAgain, After
<1>8. ASSUME NEW q \in Worker, Busy(q)'
      PROVE  Answered(run[q].obs, vis \cup run[q].vis)'
  <2>1. q # p /\ Busy(q) /\ run'[q] = run[q]
    BY <1>1, <1>8 DEF Step, Busy, Idle
  <2>2. Answered(run[q].obs, vis \cup run[q].vis)
    BY <2>1 DEF Seen
  <2>3. \A o \in run[q].obs : o.at <= clock /\ o.at \in Nat
    BY <2>1, BusyRun, RunParts DEF Seen, Typed, InTime
  <2> SUFFICES ASSUME NEW e \in vis', NEW o \in run[q].obs, e.type = "disappeared",
                      o.rpid = e.rpid, e.known < o.at
               PROVE  \E f \in vis' \cup run[q].vis : f.rpid = e.rpid /\ e.at < f.at
    BY <2>1 DEF Answered
  <2>4. e \in vis
    <3>1. CASE e \notin vis
      <4>1. e.known = clock
        BY <1>2, <1>4, <3>1
      <4> QED BY <1>3, <2>3, <4>1
    <3> QED BY <3>1
  <2> QED BY <1>2, <2>2, <2>4 DEF Answered
<1>9. Typed'
  BY CommitTyped DEF Seen
<1> QED BY <1>7, <1>8, <1>9 DEF Seen

LEMMA SeenStep == Seen /\ [Next]_vars => Seen'
<1> SUFFICES ASSUME Seen, [Next]_vars PROVE Seen'
  OBVIOUS
<1>1. CASE UNCHANGED vars
  BY <1>1, StutterTyped DEF Seen, SeenAgain, Answered, Busy, vars
<1>2. ASSUME NEW c \in Comment, NEW to \in {"visible", "folded", "gone"},
             Change(c, to)
      PROVE  Seen'
  <2>1. UNCHANGED <<obs, vis, run>>
    BY <1>2 DEF Change, archive
  <2> QED BY <1>2, <2>1, ChangeTyped DEF Seen, SeenAgain, Answered, Busy
<1>3. ASSUME NEW p \in Worker,
             Answer(p) \/ Look(p) \/ Watch(p) \/ Mark(p) \/ GiveUp(p) \/ ScanFails(p)
      PROVE  Seen'
  <2>1. /\ Step(p) /\ UNCHANGED archive
        /\ run'[p].obs = {} \/
             (run'[p].obs = run[p].obs /\ run[p].vis \subseteq run'[p].vis)
    BY <1>3, AnswerEffect, LookEffect, WatchEffect, MarkEffect, GiveUpEffect
       DEF Seen, ScanFails
  <2>2. Busy(p) /\ obs' = obs /\ vis' = vis
    BY <2>1, BusyRun DEF Seen, Typed, Step, archive
  <2>3. Typed'
    BY TypedStep DEF Seen
  <2> QED BY <2>1, <2>2, <2>3, KeepsSeen DEF Seen, Step
<1>4. ASSUME NEW p \in Worker, Busy(p), RolledBack(p) PROVE Seen'
  <2>1. Step(p) /\ run'[p] = Idle /\ UNCHANGED archive
    BY <1>4, RolledBackEffect DEF Seen
  <2>2. ~Busy(p)' /\ obs' = obs /\ vis' = vis
    BY <2>1 DEF Busy, Idle, archive
  <2>3. Typed'
    BY TypedStep DEF Seen
  <2> QED BY <2>1, <2>2, <2>3, KeepsSeen DEF Seen, Step
<1>5. ASSUME NEW p \in Worker, NEW c \in Comment \cup {NoComment},
             NEW kind \in {"hot", "scan", "reply"}, Begin(p, kind, c)
      PROVE  Seen'
  <2>1. run'[p] = [kind |-> kind, of |-> c,
                   since |-> IF kind = "reply" THEN clock ELSE 0,
                   stage |-> "asked", at |-> 0, page |-> <<>>, new |-> FALSE,
                   top |-> NoComment, missed |-> FALSE,
                   obs |-> {}, vis |-> {}, asks |-> {}]
    BY <1>5, BeginEffect DEF Seen
  <2>2. /\ \A q \in Worker \ {p} : run'[q] = run[q]
        /\ obs' = obs /\ vis' = vis
    BY <1>5, BeginEffect DEF Seen, archive
  <2>3. run'[p].obs = {}
    BY <2>1
  <2>4. Typed'
    BY TypedStep DEF Seen
  <2> QED BY <2>2, <2>3, <2>4, KeepsSeen DEF Seen
<1>6. ASSUME NEW p \in Worker,
             BeginHot(p) \/ BeginScan(p) \/ \E c \in Comment : BeginReply(p, c)
      PROVE  Seen'
  BY <1>5, <1>6 DEF BeginHot, BeginScan, BeginReply
<1> QED BY <1>1, <1>2, <1>3, <1>4, <1>6, Steps, WriteSeen, CommitSeen DEF Seen

(* A comment that is recorded as gone, and seen after that, has a later    *)
(* event (_add_reappeared_event_if_needed, mark_disappeared).              *)
THEOREM SeenAgainTheorem == Spec => []SeenAgain
<1>1. Init => Seen
  <2>1. ASSUME Init PROVE SeenAgain /\ \A p \in Worker : ~Busy(p)
    BY <2>1 DEF Init, SeenAgain, Busy, Idle
  <2> QED BY <2>1, TypedInit DEF Seen
<1>2. Seen => SeenAgain
  BY DEF Seen
<1> QED BY <1>1, <1>2, SeenStep, PTL DEF Spec

-----------------------------------------------------------------------------
(* Histories.  A comment is in the hands of one run at a time: the rows it *)
(* has written stay its own until it ends, and it meets each comment once. *)
ForkFree(O) ==
  \A o, q \in O :
    o # q /\ o.rpid = q.rpid /\ o.prev = q.prev => (o.at < o.prev \/ q.at < q.prev)

Moves(O) == \A o \in O : o.at # o.prev

Apart(r, s) ==
  /\ \A o \in r.obs, q \in s.obs : o.rpid # q.rpid
  /\ r.at # 0 => r.at # s.at

ChainRun(r) ==
  /\ PageOnce(r)
  /\ \A o \in r.obs : \A i \in DOMAIN r.page : o.rpid # r.page[i].rpid
  /\ r.at # 0 => \A o \in obs : o.at # r.at
  /\ r.stage = "write" /\ ~r.new => Entity(Head(r.page).rpid)
  /\ ForkFree(obs \cup r.obs) /\ Moves(r.obs)

Chain ==
  /\ Typed /\ ForkFree(obs) /\ Moves(obs)
  /\ \A p \in Worker : Busy(p) => ChainRun(run[p])
  /\ \A p, q \in Worker : Busy(p) /\ Busy(q) /\ p # q => Apart(run[p], run[q])

(* A step that commits nothing, of a run that keeps to itself.             *)
LEMMA ChainOwn ==
  ASSUME Chain, Typed', NEW p \in Worker, obs' = obs,
         \A q \in Worker \ {p} : run'[q] = run[q],
         Busy(p)' => ChainRun(run[p])',
         Busy(p)' => \A q \in Worker \ {p} : Busy(q) =>
                       Apart(run'[p], run[q]) /\ Apart(run[q], run'[p])
  PROVE  Chain'
<1>1. \A q \in Worker \ {p} : Busy(q)' => Busy(q) /\ run'[q] = run[q]
  BY DEF Busy
<1>2. ForkFree(obs)' /\ Moves(obs)'
  BY DEF Chain, ForkFree, Moves
<1>3. ASSUME NEW q \in Worker, Busy(q)' PROVE ChainRun(run[q])'
  <2>1. CASE q = p
    BY <1>3, <2>1
  <2>2. CASE q # p
    <3>1. ChainRun(run[q]) /\ run'[q] = run[q]
      BY <1>1, <1>3, <2>2 DEF Chain
    <3> QED BY <3>1 DEF ChainRun, PageOnce, ForkFree, Moves, Entity
  <2> QED BY <2>1, <2>2
<1>4. ASSUME NEW q \in Worker, NEW s \in Worker, Busy(q)', Busy(s)', q # s
      PROVE  Apart(run[q], run[s])'
  <2>1. CASE q # p /\ s # p
    <3>1. Apart(run[q], run[s]) /\ run'[q] = run[q] /\ run'[s] = run[s]
      BY <1>1, <1>4, <2>1 DEF Chain
    <3> QED BY <3>1 DEF Apart
  <2>2. CASE q = p
    <3>1. Apart(run'[p], run[s]) /\ run'[s] = run[s]
      BY <1>1, <1>4, <2>2
    <3> QED BY <2>2, <3>1 DEF Apart
  <2>3. CASE s = p
    <3>1. Apart(run[q], run'[p]) /\ run'[q] = run[q]
      BY <1>1, <1>4, <2>3
    <3> QED BY <2>3, <3>1 DEF Apart
  <2> QED BY <2>1, <2>2, <2>3
<1> QED BY <1>2, <1>3, <1>4 DEF Chain

(* A run that writes nothing and keeps or drops its page.                  *)
LEMMA ChainQuiet ==
  ASSUME Chain, NEW p \in Worker, Step(p), Typed', obs' = obs,
         run'[p].obs \subseteq run[p].obs, run'[p].at = run[p].at,
         run'[p].page \in {run[p].page, <<>>},
         run'[p].stage = "write" /\ ~run'[p].new => Entity(Head(run'[p].page).rpid)
  PROVE  Chain'
<1>1. Busy(p) /\ ChainRun(run[p])
  BY BusyRun DEF Chain, Typed, Step
<1>2. ChainRun(run[p])'
  <2>1. PageOnce(run'[p])
    BY <1>1 DEF ChainRun, PageOnce
  <2>2. \A o \in run'[p].obs : \A i \in DOMAIN run'[p].page :
          o.rpid # run'[p].page[i].rpid
    BY <1>1 DEF ChainRun
  <2>3. ForkFree(obs \cup run'[p].obs) /\ Moves(run'[p].obs)
    BY <1>1 DEF ChainRun, ForkFree, Moves
  <2> QED BY <1>1, <2>1, <2>2, <2>3 DEF ChainRun, PageOnce, ForkFree, Moves, Entity
<1>3. \A q \in Worker \ {p} : Busy(q) =>
        Apart(run'[p], run[q]) /\ Apart(run[q], run'[p])
  <2>1. \A q \in Worker \ {p} : Busy(q) =>
          Apart(run[p], run[q]) /\ Apart(run[q], run[p])
    BY <1>1 DEF Chain
  <2> QED BY <2>1 DEF Apart
<1> QED BY <1>2, <1>3, ChainOwn DEF Step

LEMMA AnswerChain ==
  ASSUME Chain, NEW p \in Worker, Answer(p)
  PROVE  Chain'
<1>1. /\ Step(p) /\ run'[p] \in Runs
      /\ run[p].stage = "asked" /\ run'[p].stage = "page"
      /\ clock' = clock + 1 /\ run'[p].at = clock'
      /\ run'[p].obs = run[p].obs /\ PageOnce(run'[p])
      /\ UNCHANGED <<shown, archive, reply, counts>>
  BY AnswerEffect DEF Chain
<1>2. Busy(p) /\ run[p].obs = {} /\ clock \in Nat /\ obs' = obs
  BY <1>1, BusyRun DEF Chain, Typed, TypeOK, Shape, Step, archive
<1>3. \A o \in obs : o.at \in Nat /\ o.at <= clock
  BY Rows DEF Chain, Typed, TypeOK, ArchiveInTime
<1>4. ChainRun(run[p])'
  <2>1. ForkFree(obs \cup run'[p].obs) /\ Moves(run'[p].obs)
    BY <1>1, <1>2 DEF Chain, ForkFree, Moves
  <2>2. \A o \in obs : o.at # run'[p].at
    BY <1>1, <1>2, <1>3
  <2> QED BY <1>1, <1>2, <2>1, <2>2 DEF ChainRun, PageOnce, ForkFree, Moves
<1>5. \A q \in Worker \ {p} : Busy(q) =>
        Apart(run'[p], run[q]) /\ Apart(run[q], run'[p])
  <2>1. \A q \in Worker : Busy(q) => run[q].at \in Nat /\ run[q].at <= clock
    BY BusyRun, RunParts DEF Chain, Typed, InTime
  <2> QED BY <1>1, <1>2, <2>1 DEF Apart
<1>6. Typed'
  BY AnswerTyped DEF Chain
<1> QED BY <1>1, <1>2, <1>4, <1>5, <1>6, ChainOwn DEF Step

LEMMA WriteChain ==
  ASSUME Chain, NEW p \in Worker, Write(p)
  PROVE  Chain'
<1> DEFINE c == Current(p)
<1>1. /\ Step(p) /\ run'[p] \in Runs /\ Current(p) \in Comment
      /\ run[p].stage = "write" /\ run'[p].stage \in {"page", "watch"}
      /\ run'[p].at = run[p].at /\ run'[p].page = Tail(run[p].page)
      /\ run[p].page # <<>> /\ Free(p, c) /\ ~Conflict(p)
      /\ Written(p)
      /\ UNCHANGED <<shown, clock, archive, reply, counts>>
  BY WriteEffect DEF Chain
<1>2. /\ Busy(p) /\ ChainRun(run[p]) /\ run[p] \in Runs
      /\ 1 <= run[p].at /\ run[p].at \in Nat /\ obs' = obs /\ clock \in Nat
  BY <1>1, BusyRun, RunParts DEF Chain, Typed, TypeOK, InTime, Step, archive
<1>3. PICK seen : run'[p].obs = run[p].obs \cup {Observation(c, run[p].at, seen, Prev(p))}
  BY <1>1 DEF Written
<1> DEFINE n == Observation(c, run[p].at, seen, Prev(p))
<1>4. n.rpid = c /\ n.at = run[p].at /\ n.prev = Prev(p)
  BY DEF Observation
<1>5. /\ run[p].page \in Seq([rpid : Comment, visibility : {"visible", "folded"}])
      /\ Len(run[p].page) \in Nat /\ DOMAIN run[p].page = 1..Len(run[p].page)
      /\ 1 \in DOMAIN run[p].page /\ c = run[p].page[1].rpid
  <2>1. run[p].page \in Seq([rpid : Comment, visibility : {"visible", "folded"}])
    BY <1>2, RunParts
  <2>2. \A S : \A s \in Seq(S) : s # <<>> =>
          /\ Len(s) \in Nat /\ DOMAIN s = 1..Len(s)
          /\ 1 \in DOMAIN s /\ Head(s) = s[1]
    OBVIOUS
  <2> QED BY <1>1, <2>1, <2>2 DEF Current
<1>6. \A i \in DOMAIN run'[p].page :
        i + 1 \in DOMAIN run[p].page /\ i + 1 # 1 /\ run'[p].page[i] = run[p].page[i + 1]
  <2>1. \A S : \A s \in Seq(S) : s # <<>> =>
          \A i \in DOMAIN Tail(s) :
            i \in Nat \ {0} /\ i + 1 \in DOMAIN s /\ Tail(s)[i] = s[i + 1]
    OBVIOUS
  <2> QED BY <1>1, <1>5, <2>1
<1> HIDE DEF c
<1>7. \A o \in run[p].obs : o.rpid # c
  BY <1>2, <1>5 DEF ChainRun
<1>8. \A o \in obs : o.at # run[p].at /\ o.at \in Nat /\ o.at <= clock
  BY <1>2, Rows DEF ChainRun, Chain, Typed, TypeOK, ArchiveInTime
(* What the new observation is compared with.                              *)
<1>9. IF Entity(c)
      THEN /\ Prev(p) \in {o.at : o \in obs}
           /\ \A o \in obs : o.rpid = c => o.at <= Prev(p)
      ELSE Prev(p) = 0
  <2>1. CASE run[p].new
    BY <1>1, <2>1 DEF Conflict, Prev, Known, c
  <2>2. CASE ~run[p].new
    <3>1. Entity(c)
      BY <1>1, <1>2, <2>2 DEF ChainRun, c, Current
    <3>2. Known(p) = {o \in obs : o.rpid = c}
      BY <1>7, <2>2 DEF Known, ObsOf, c
    <3>3. Known(p) # {} /\ \A r \in Known(p) : r.at \in 0..clock
      BY <1>2, <1>8, <3>1, <3>2 DEF Entity
    <3>4. /\ Latest(Known(p)) \in Known(p)
          /\ \A q \in Known(p) : q.at <= Latest(Known(p)).at
      BY <1>2, <3>3, LatestIsLatest
    <3>5. Prev(p) = Latest(Known(p)).at
      BY <3>3 DEF Prev
    <3> QED BY <3>1, <3>2, <3>4, <3>5
  <2> QED BY <2>1, <2>2
<1>10. n.at # n.prev
  BY <1>2, <1>4, <1>8, <1>9
<1> HIDE DEF n
<1>11. ASSUME NEW q \in obs \cup run[p].obs, q.rpid = c, q.prev = n.prev
       PROVE  q.at < q.prev
  <2>1. q \in obs
    BY <1>7, <1>11
  <2>2. Entity(c)
    BY <1>11, <2>1 DEF Entity
  <2>3. q.at <= q.prev /\ q.prev \in Nat /\ q.at \in Nat
    BY <1>4, <1>8, <1>9, <1>11, <2>1, <2>2
  <2>4. q.at # q.prev
    BY <2>1 DEF Chain, Moves
  <2> QED BY <2>3, <2>4
<1>12. ForkFree(obs \cup run'[p].obs) /\ Moves(run'[p].obs)
  <2>1. ForkFree(obs \cup run[p].obs) /\ Moves(run[p].obs)
    BY <1>2 DEF ChainRun
  <2>2. run'[p].obs = run[p].obs \cup {n}
    BY <1>3 DEF n
  <2>3. Moves(run'[p].obs)
    BY <1>10, <2>1, <2>2 DEF Moves
  <2>4. ASSUME NEW o \in obs \cup run'[p].obs, NEW q \in obs \cup run'[p].obs,
               o # q, o.rpid = q.rpid, o.prev = q.prev
        PROVE  o.at < o.prev \/ q.at < q.prev
    <3>1. CASE o \in obs \cup run[p].obs /\ q \in obs \cup run[p].obs
      BY <2>1, <2>4, <3>1 DEF ForkFree
    <3>2. CASE o = n /\ q \in obs \cup run[p].obs
      BY <1>4, <1>11, <2>4, <3>2
    <3>3. CASE q = n /\ o \in obs \cup run[p].obs
      BY <1>4, <1>11, <2>4, <3>3
    <3> QED BY <2>2, <2>4, <3>1, <3>2, <3>3
  <2> QED BY <2>3, <2>4 DEF ForkFree
<1>13. ChainRun(run[p])'
  <2>1. PageOnce(run'[p])
    <3> SUFFICES ASSUME NEW i \in DOMAIN run'[p].page, NEW j \in DOMAIN run'[p].page,
                        i # j
                 PROVE  run'[p].page[i].rpid # run'[p].page[j].rpid
      BY DEF PageOnce
    <3>1. i \in Nat /\ j \in Nat
      BY <1>1, <1>5
    <3>2. i + 1 # j + 1
      BY <3>1
    <3> QED BY <1>2, <1>6, <3>2 DEF ChainRun, PageOnce
  <2>2. \A o \in run'[p].obs : \A i \in DOMAIN run'[p].page :
          o.rpid # run'[p].page[i].rpid
    <3>1. \A i \in DOMAIN run'[p].page : run'[p].page[i].rpid # c
      BY <1>2, <1>5, <1>6 DEF ChainRun, PageOnce
    <3>2. \A o \in run[p].obs : \A i \in DOMAIN run'[p].page :
            o.rpid # run'[p].page[i].rpid
      BY <1>2, <1>6 DEF ChainRun
    <3> QED BY <1>3, <1>4, <3>1, <3>2 DEF n
  <2> QED BY <1>1, <1>2, <1>8, <1>12, <2>1, <2>2
          DEF ChainRun, PageOnce, ForkFree, Moves
<1>14. \A q \in Worker \ {p} : Busy(q) =>
         Apart(run'[p], run[q]) /\ Apart(run[q], run'[p])
  <2>1. \A q \in Worker \ {p} : Busy(q) =>
          Apart(run[p], run[q]) /\ Apart(run[q], run[p])
    BY <1>2 DEF Chain
  <2>2. \A q \in Worker \ {p} : Busy(q) => \A o \in run[q].obs : o.rpid # c
    BY <1>1 DEF Free, Holds
  <2> QED BY <1>1, <1>3, <1>4, <2>1, <2>2 DEF Apart, n
<1>15. Typed'
  BY WriteTyped DEF Chain
<1> QED BY <1>1, <1>2, <1>13, <1>14, <1>15, ChainOwn DEF Step

LEMMA CommitChain ==
  ASSUME Chain, NEW p \in Worker, NEW again \in BOOLEAN, Commit(p, again)
  PROVE  Chain'
<1>1. Step(p) /\ run'[p] = Idle /\ Busy(p)
  BY CommitEffect DEF Chain
<1>2. obs' = obs \cup run[p].obs
  BY Committed DEF Chain
<1>3. ChainRun(run[p]) /\ InTime(run[p])
  BY <1>1 DEF Chain, Typed
<1>4. ForkFree(obs)' /\ Moves(obs)'
  BY <1>2, <1>3 DEF Chain, ChainRun, Moves, ForkFree
<1>5. \A q \in Worker : Busy(q)' => q # p /\ Busy(q) /\ run'[q] = run[q]
  BY <1>1 DEF Step, Busy, Idle
<1>6. ASSUME NEW q \in Worker, Busy(q)' PROVE ChainRun(run[q])'
  <2>1. /\ run'[q] = run[q] /\ ChainRun(run[q])
        /\ Apart(run[p], run[q]) /\ Apart(run[q], run[p])
    BY <1>1, <1>5, <1>6 DEF Chain
  <2>2. run[q].at # 0 => \A o \in obs' : o.at # run[q].at
    BY <1>2, <1>3, <2>1 DEF ChainRun, Apart, InTime
  <2>4. ForkFree(obs' \cup run[q].obs)
    <3>1. ForkFree(obs \cup run[q].obs) /\ ForkFree(obs \cup run[p].obs)
      BY <1>3, <2>1 DEF ChainRun
    <3>2. \A o \in run[p].obs, r \in run[q].obs : o.rpid # r.rpid
      BY <2>1 DEF Apart
    <3> QED BY <1>2, <3>1, <3>2 DEF ForkFree
  <2>5. Entity(Head(run[q].page).rpid) => (\E o \in obs' : o.rpid = Head(run[q].page).rpid)
    BY <1>2 DEF Entity
  <2> QED BY <2>1, <2>2, <2>4, <2>5 DEF ChainRun, PageOnce, ForkFree, Moves, Entity
<1>7. \A q, r \in Worker : Busy(q)' /\ Busy(r)' /\ q # r => Apart(run[q], run[r])'
  BY <1>5 DEF Chain, Apart
<1>8. Typed'
  BY CommitTyped DEF Chain
<1> QED BY <1>4, <1>6, <1>7, <1>8 DEF Chain

LEMMA ChainStep == Chain /\ [Next]_vars => Chain'
<1> SUFFICES ASSUME Chain, [Next]_vars PROVE Chain'
  OBVIOUS
<1>1. Typed' /\ Typed
  BY TypedStep DEF Chain
<1>2. ASSUME UNCHANGED <<obs, run>> PROVE Chain'
  BY <1>1, <1>2 DEF Chain, ForkFree, Moves, ChainRun, PageOnce, Apart, Entity, Busy
<1>3. CASE UNCHANGED vars
  BY <1>2, <1>3 DEF vars
<1>4. ASSUME NEW c \in Comment, NEW to \in {"visible", "folded", "gone"},
             Change(c, to)
      PROVE  Chain'
  BY <1>2, <1>4 DEF Change, archive
<1>5. ASSUME NEW p \in Worker, GiveUp(p) PROVE Chain'
  <2>1. /\ Step(p) /\ UNCHANGED archive
        /\ run'[p].obs = run[p].obs /\ run'[p].at = run[p].at
        /\ run'[p].page = run[p].page /\ run'[p].stage = "failed"
    BY <1>1, <1>5, GiveUpEffect
  <2> QED BY <1>1, <2>1, ChainQuiet DEF archive
<1>6. ASSUME NEW p \in Worker, Look(p) PROVE Chain'
  <2>1. /\ Step(p) /\ UNCHANGED archive
        /\ run'[p].obs = run[p].obs /\ run'[p].at = run[p].at
        /\ run'[p].page = run[p].page /\ run'[p].new = ~Entity(Current(p))
    BY <1>1, <1>6, LookEffect
  <2>2. ~run'[p].new => Entity(Head(run'[p].page).rpid)
    BY <2>1 DEF Current
  <2> QED BY <1>1, <2>1, <2>2, ChainQuiet DEF archive
<1>7. ASSUME NEW p \in Worker, Watch(p) PROVE Chain'
  <2>1. /\ Step(p) /\ UNCHANGED archive
        /\ run'[p].obs = run[p].obs /\ run'[p].at = run[p].at
        /\ run'[p].page = run[p].page /\ run'[p].stage = "page"
    BY <1>1, <1>7, WatchEffect
  <2> QED BY <1>1, <2>1, ChainQuiet DEF archive
<1>8. ASSUME NEW p \in Worker, Mark(p) PROVE Chain'
  <2>1. /\ Step(p) /\ UNCHANGED archive
        /\ run'[p].obs = run[p].obs /\ run'[p].at = run[p].at
        /\ run'[p].page = run[p].page /\ run'[p].stage = "page"
    BY <1>1, <1>8, MarkEffect
  <2> QED BY <1>1, <2>1, ChainQuiet DEF archive
<1>9. ASSUME NEW p \in Worker, ScanFails(p) PROVE Chain'
  <2>1. /\ Step(p) /\ UNCHANGED archive
        /\ run'[p].obs = {} /\ run'[p].at = run[p].at
        /\ run'[p].page = <<>> /\ run'[p].stage = "failed"
    BY <1>9 DEF ScanFails
  <2> QED BY <1>1, <2>1, ChainQuiet DEF archive
<1>10. ASSUME NEW p \in Worker, Busy(p), RolledBack(p) PROVE Chain'
  <2>1. Step(p) /\ run'[p] = Idle /\ UNCHANGED archive
    BY <1>1, <1>10, RolledBackEffect
  <2>2. ~Busy(p)' /\ obs' = obs
    BY <2>1 DEF Busy, Idle, archive
  <2> QED BY <1>1, <2>1, <2>2, ChainOwn DEF Step
<1>11. ASSUME NEW p \in Worker, NEW c \in Comment \cup {NoComment},
              NEW kind \in {"hot", "scan", "reply"}, Begin(p, kind, c)
       PROVE  Chain'
  <2>1. run'[p] = [kind |-> kind, of |-> c,
                   since |-> IF kind = "reply" THEN clock ELSE 0,
                   stage |-> "asked", at |-> 0, page |-> <<>>, new |-> FALSE,
                   top |-> NoComment, missed |-> FALSE,
                   obs |-> {}, vis |-> {}, asks |-> {}]
    BY <1>1, <1>11, BeginEffect
  <2>2. /\ \A q \in Worker \ {p} : run'[q] = run[q]
        /\ obs' = obs
    BY <1>1, <1>11, BeginEffect DEF archive
  <2>3. /\ run'[p].obs = {} /\ run'[p].at = 0 /\ DOMAIN run'[p].page = {}
        /\ run'[p].stage = "asked"
    BY <2>1
  <2>4. ChainRun(run[p])'
    BY <2>2, <2>3 DEF ChainRun, Chain, PageOnce, ForkFree, Moves
  <2>5. \A q \in Worker \ {p} : Busy(q) =>
          Apart(run'[p], run[q]) /\ Apart(run[q], run'[p])
    BY <2>3 DEF Apart
  <2> QED BY <1>1, <2>2, <2>4, <2>5, ChainOwn
<1>12. ASSUME NEW p \in Worker,
              BeginHot(p) \/ BeginScan(p) \/ \E c \in Comment : BeginReply(p, c)
       PROVE  Chain'
  BY <1>11, <1>12 DEF BeginHot, BeginScan, BeginReply
<1> QED BY <1>1, <1>3, <1>4, <1>5, <1>6, <1>7, <1>8, <1>9, <1>10, <1>12, Steps,
          AnswerChain, WriteChain, CommitChain

(* The history of a comment does not fork (CommentRepository.upsert_page). *)
THEOREM ChainTheorem == Spec => []ChainUnforked
<1>1. Init => Chain
  <2>1. ASSUME Init PROVE obs = {} /\ \A p \in Worker : ~Busy(p)
    BY <2>1 DEF Init, Busy, Idle
  <2> QED BY <2>1, TypedInit DEF Chain, ForkFree, Moves
<1>2. Chain => ChainUnforked
  BY DEF Chain, ForkFree, ChainUnforked
<1> QED BY <1>1, <1>2, ChainStep, PTL DEF Spec
=============================================================================
