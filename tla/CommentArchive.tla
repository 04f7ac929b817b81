--------------------------- MODULE CommentArchive ---------------------------
(***************************************************************************)
(* The archive of comments: what the pages that workers read leave behind, *)
(* when several of them meet the same comments.                            *)
(*                                                                         *)
(* A task runs in one transaction of its worker.  It asks for a page and   *)
(* archives the answer with the request; writes an observation of each     *)
(* comment of the page, in the page's order, with what has changed since   *)
(* the latest one; puts a comment that matters on the watch list and       *)
(* enqueues the task that reads its replies; and commits.  When a request  *)
(* fails, what has been written so far is committed with the failure.  The *)
(* update of a comment's row waits for the transaction that holds it, and  *)
(* so does an insertion, which fails when that transaction has inserted    *)
(* the row.  A failure of the database ends the worker's process and rolls *)
(* everything back.                                                        *)
(***************************************************************************)
EXTENDS Integers, Sequences, FiniteSetsExt, SequencesExt

CONSTANTS
  Comment,   \* root comments of a video, numbered as they are posted
  NoComment,
  Worker,
  MaxRuns,   \* bound on the runs of tasks
  MaxChanges \* bound on what happens to the comments on the platform

ASSUME CommentArchiveAssumption ==
  /\ Comment \subseteq Nat /\ NoComment \notin Comment
  /\ IsFiniteSet(Comment)
  /\ MaxRuns \in Nat /\ MaxChanges \in Nat

VARIABLES
  shown,    \* how the platform shows a comment
  clock,    \* the instants of answers and marks so far
  obs,      \* comment_observations
  vis,      \* comment_visibility_events
  frontier, \* the anchors of the newest comments
  watch,    \* last_seen_at of important_comment_watchlist, 0 if not there
  reply,    \* the task <comment>:watchlist
  asked,    \* since when its latest run had been going when it ended
  run,      \* the transactions of the workers
  counts    \* of the runs and the changes

vars ==
  <<shown, clock, obs, vis, frontier, watch, reply, asked, run, counts>>
archive == <<obs, vis, frontier, watch, asked>>

Idle == [kind |-> "none"]
Busy(p) == run[p].kind # "none"

(* An observation, with the instant of the one that it was compared with;  *)
(* an event, with the instant when it is committed.                        *)
Observation(c, at, visibility, prev) ==
  [rpid |-> c, at |-> at, visibility |-> visibility, prev |-> prev]
Event(c, type, at) == [rpid |-> c, type |-> type, at |-> at, known |-> 0]

(* What a transaction sees: its own rows and the committed ones.           *)
ObsOf(p, c) == {o \in obs \cup run[p].obs : o.rpid = c}
VisOf(p, c) == {e \in vis \cup run[p].vis : e.rpid = c}
Latest(S) == CHOOSE r \in S : \A q \in S : q.at <= r.at

(* _latest_visibility_event: is it a disappearance?                        *)
LooksGoneHere(p, c) ==
  \E e \in run[p].vis : e.rpid = c /\ e.type = "disappeared"
LooksGone(p, c) ==
  \E e \in VisOf(p, c) :
    e.type = "disappeared" /\ \A f \in VisOf(p, c) : f.at <= e.at

Entity(c) == \E o \in obs : o.rpid = c
UpOnPlatform == {c \in Comment : shown[c] \in {"visible", "folded"}}

Init ==
  /\ shown = [c \in Comment |-> "unborn"]
  /\ clock = 0
  /\ obs = {} /\ vis = {} /\ frontier = {}
  /\ watch = [c \in Comment |-> 0]
  /\ reply = [c \in Comment |-> "none"]
  /\ asked = [c \in Comment |-> 0]
  /\ run = [p \in Worker |-> Idle]
  /\ counts = [runs |-> 0, changes |-> 0]

-----------------------------------------------------------------------------
(* The platform.  A comment that is gone may come back, as it was first.   *)
Change(c, to) ==
  /\ counts.changes < MaxChanges
  /\ shown[c] # to
  /\ shown[c] \in {"unborn", "gone"} => to = "visible"
  /\ shown[c] = "unborn" => \A b \in Comment : b < c => shown[b] # "unborn"
  /\ shown' = [shown EXCEPT ![c] = to]
  /\ counts' = [counts EXCEPT !.changes = @ + 1]
  /\ UNCHANGED <<clock, archive, reply, run>>

-----------------------------------------------------------------------------
(* The run of a task: a page of hot comments; the scan for the newest      *)
(* comments; the replies to c.  The request goes out.                      *)
Begin(p, kind, c) ==
  /\ ~Busy(p) /\ counts.runs < MaxRuns
  /\ counts' = [counts EXCEPT !.runs = @ + 1]
  /\ run' = [run EXCEPT ![p] =
       [kind |-> kind, of |-> c, since |-> IF kind = "reply" THEN clock ELSE 0,
        stage |-> "asked", at |-> 0, page |-> <<>>, new |-> FALSE,
        top |-> NoComment, missed |-> FALSE,
        obs |-> {}, vis |-> {}, asks |-> {}]]
  /\ UNCHANGED <<shown, clock, archive>>

BeginHot(p) == Begin(p, "hot", NoComment) /\ UNCHANGED reply
BeginScan(p) ==
  /\ \A q \in Worker : run[q].kind # "scan"
  /\ Begin(p, "scan", NoComment) /\ UNCHANGED reply

(* A task that an open transaction has enqueued or found is not for lease. *)
Locked(c) == \E q \in Worker : Busy(q) /\ c \in run[q].asks
BeginReply(p, c) ==
  /\ reply[c] = "pending" /\ ~Locked(c)
  /\ reply' = [reply EXCEPT ![c] = "running"]
  /\ Begin(p, "reply", c)

At(p, stage) == Busy(p) /\ run[p].stage = stage
Upd(p, r) == run' = [run EXCEPT ![p] = r]
Read(p) == At(p, "page") /\ run[p].page = <<>>

(* The answer is archived.  A hot page comes in any order, a page of a     *)
(* scan with the newest first.                                             *)
Orders(p) ==
  CASE run[p].kind = "reply" -> {<<>>}
    [] run[p].kind = "scan"  -> {o \in SetToSeqs(UpOnPlatform) :
                                   \A i, j \in DOMAIN o : i < j => o[i] > o[j]}
    [] OTHER                 -> SetToSeqs(UpOnPlatform)

Answer(p) ==
  \E order \in Orders(p) :
    /\ At(p, "asked")
    /\ clock' = clock + 1
    /\ Upd(p, [run[p] EXCEPT !.stage = "page", !.at = clock',
         !.page = [i \in DOMAIN order |->
                     [rpid |-> order[i], visibility |-> shown[order[i]]]],
         !.top = IF run[p].kind = "hot" /\ order # <<>> THEN Head(order) ELSE @,
         !.missed = /\ run[p].kind = "scan" /\ frontier # {}
                    /\ frontier \cap UpOnPlatform = {}])
    /\ UNCHANGED <<shown, archive, reply, counts>>

(* A request fails, the first or that of another page: the platform or the *)
(* network refuse it, its answer cannot be parsed, or not even be stored.  *)
GiveUp(p) ==
  /\ At(p, "asked") \/ (Read(p) /\ run[p].kind # "reply")
  /\ Upd(p, [run[p] EXCEPT !.stage = "failed", !.top = NoComment,
                            !.missed = FALSE])
  /\ UNCHANGED <<shown, clock, archive, reply, counts>>

(* _ensure_entity looks for the row of the next comment ...                *)
Current(p) == Head(run[p].page).rpid
Look(p) ==
  /\ At(p, "page") /\ run[p].page # <<>>
  /\ Upd(p, [run[p] EXCEPT !.stage = "write", !.new = ~Entity(Current(p))])
  /\ UNCHANGED <<shown, clock, archive, reply, counts>>

(* ... and writes it, when no other transaction holds it.                  *)
Holds(q, c) == Busy(q) /\ \E o \in run[q].obs : o.rpid = c
FreeAlways(p, c) == Busy(p) /\ c \in Comment
Free(p, c) == \A q \in Worker \ {p} : ~Holds(q, c)
Conflict(p) == run[p].new /\ Entity(Current(p))

(* _add_reappeared_event_if_needed, _add_fold_transition_if_needed.        *)
Reappeared(p, c) == IF LooksGone(p, c) THEN {"reappeared"} ELSE {}
Folding(old, new) ==
  IF old = new THEN {} ELSE IF new = "folded" THEN {"folded"} ELSE {"unfolded"}

Write(p) ==
  LET c == Current(p)
      seen == Head(run[p].page).visibility
      known == IF run[p].new THEN {} ELSE ObsOf(p, c)
      types == Reappeared(p, c) \cup
               IF known = {} THEN {} ELSE Folding(Latest(known).visibility, seen)
  IN /\ At(p, "write") /\ Free(p, c) /\ ~Conflict(p)
     /\ Upd(p, [run[p] EXCEPT
          !.stage = IF c = run[p].top THEN "watch" ELSE "page",
          !.page = Tail(@), !.new = FALSE,
          !.obs = @ \cup {Observation(c, run[p].at, seen,
                            IF known = {} THEN 0 ELSE Latest(known).at)},
          !.vis = @ \cup {Event(c, t, run[p].at) : t \in types}])
     /\ UNCHANGED <<shown, clock, archive, reply, counts>>

(* A comment at the top of a hot page is watched.  enqueue waits for a     *)
(* running task of the same key, and returns a pending one.                *)
AwaitedNever(c) == c \notin Comment
Awaited(c) == reply[c] = "running"
Watch(p) ==
  /\ At(p, "watch") /\ ~Awaited(run[p].top)
  /\ Upd(p, [run[p] EXCEPT !.stage = "page", !.asks = {run[p].top},
                            !.top = NoComment])
  /\ UNCHANGED <<shown, clock, archive, reply, counts>>

(* mark_disappeared, when the scan has met none of its anchors.            *)
Mark(p) ==
  /\ Read(p) /\ run[p].missed
  /\ clock' = clock + 1
  /\ Upd(p, [run[p] EXCEPT !.missed = FALSE,
       !.vis = IF LooksGone(p, Max(frontier)) THEN @
               ELSE @ \cup {Event(Max(frontier), "disappeared", clock')}])
  /\ UNCHANGED <<shown, archive, reply, counts>>

(* The worker commits what is written, also when the run has failed.  A    *)
(* reply task that has failed is put back or given up.                     *)
OverUnfailed(p) == Read(p) /\ ~run[p].missed
Over(p) == At(p, "failed") \/ (Read(p) /\ ~run[p].missed)

Commit(p, again) ==
  LET r == run[p] IN
  /\ Over(p)
  /\ again => At(p, "failed") /\ r.kind = "reply"
  /\ obs' = obs \cup r.obs
  /\ vis' = vis \cup {[e EXCEPT !.known = clock] : e \in r.vis}
  /\ frontier' = IF r.kind = "scan" /\ r.stage = "page"
                 THEN {o.rpid : o \in r.obs} ELSE frontier
  /\ watch' = [c \in Comment |-> IF c \in r.asks THEN r.at ELSE watch[c]]
  /\ asked' = [c \in Comment |->
       IF c = r.of /\ r.kind = "reply" /\ ~again THEN r.since ELSE asked[c]]
  /\ reply' = [c \in Comment |->
       IF c \in r.asks THEN "pending"
       ELSE IF c = r.of /\ r.kind = "reply"
            THEN IF again THEN "pending" ELSE "none"
       ELSE reply[c]]
  /\ Upd(p, Idle)
  /\ UNCHANGED <<shown, clock, counts>>

-----------------------------------------------------------------------------
(* The end of a worker's process.                                          *)
RolledBack(p) ==
  /\ reply' = [c \in Comment |->
       IF c = run[p].of /\ run[p].kind = "reply" THEN "pending" ELSE reply[c]]
  /\ Upd(p, Idle)
  /\ UNCHANGED <<shown, clock, archive, counts>>

Crash(p) == Busy(p) /\ RolledBack(p)

(* A failure of the database.  A scan writes its page under a savepoint,   *)
(* and fails without it; for the others the process ends.                  *)
Fall(p) ==
  IF run[p].kind = "scan"
  THEN /\ Upd(p, [run[p] EXCEPT !.stage = "failed", !.page = <<>>,
                 !.new = FALSE, !.missed = FALSE, !.obs = {}, !.vis = {}])
       /\ UNCHANGED <<shown, clock, archive, reply, counts>>
  ELSE RolledBack(p)

(* Another transaction has inserted the comment that was new.              *)
Die(p) ==
  /\ At(p, "write") /\ Conflict(p) /\ Free(p, Current(p))
  /\ Fall(p)

(* Transactions that wait for each other: the database picks a victim.     *)
WaitsFor(p) ==
  {q \in Worker \ {p} :
     \/ At(p, "write") /\ Holds(q, Current(p))
     \/ At(p, "watch") /\ run[q].kind = "reply" /\ run[q].of = run[p].top}
Deadlocked(S) == S # {} /\ \A q \in S : WaitsFor(q) \cap S # {}
Deadlock(p) ==
  /\ \E S \in SUBSET Worker : p \in S /\ Deadlocked(S)
  /\ Fall(p)

-----------------------------------------------------------------------------
GoOn(p) ==
  \/ Answer(p) \/ Look(p) \/ Write(p) \/ Watch(p) \/ Mark(p)
  \/ Die(p) \/ Deadlock(p)
  \/ \E again \in BOOLEAN : Commit(p, again)

Next ==
  \/ \E c \in Comment, to \in {"visible", "folded", "gone"} : Change(c, to)
  \/ \E p \in Worker :
       \/ BeginHot(p) \/ BeginScan(p) \/ GoOn(p) \/ GiveUp(p) \/ Crash(p)
       \/ \E c \in Comment : BeginReply(p, c)

Spec == Init /\ [][Next]_vars

(* A worker goes on, and the queue for a row serves whoever waits.         *)
FairSpec == Spec /\ \A p \in Worker : SF_vars(GoOn(p))

-----------------------------------------------------------------------------
Observations ==
  [rpid : Comment, at : Nat, visibility : {"visible", "folded"}, prev : Nat]

(* The comment of a disappearance is the newest of the anchors.            *)
Events ==
  [rpid : Comment \cup {Max(S) : S \in (SUBSET Comment) \ {{}}},
   type : {"disappeared", "reappeared", "folded", "unfolded"},
   at : Nat, known : Nat]

Runs ==
  [kind : {"hot", "scan", "reply"}, of : Comment \cup {NoComment}, since : Nat,
   stage : {"asked", "page", "write", "watch", "failed"}, at : Nat,
   page : Seq([rpid : Comment, visibility : {"visible", "folded"}]),
   new : BOOLEAN, top : Comment \cup {NoComment}, missed : BOOLEAN,
   obs : SUBSET Observations, vis : SUBSET Events, asks : SUBSET Comment]

TypeOK ==
  /\ shown \in [Comment -> {"unborn", "visible", "folded", "gone"}]
  /\ clock \in Nat
  /\ obs \subseteq Observations /\ vis \subseteq Events
  /\ frontier \subseteq Comment
  /\ watch \in [Comment -> Nat] /\ asked \in [Comment -> Nat]
  /\ reply \in [Comment -> {"none", "pending", "running"}]
  /\ run \in [Worker -> Runs \cup {Idle}]
  /\ counts \in [runs : Nat, changes : Nat]

(* Two observations of a comment are compared with the same earlier one    *)
(* (or with none, as the first) only when one of them was answered before  *)
(* it: the history of a comment does not fork, however the pages of the    *)
(* workers overlap (CommentRepository.upsert_page).                        *)
ChainUnforked ==
  \A o, q \in obs :
    o # q /\ o.rpid = q.rpid /\ o.prev = q.prev => (o.at < o.prev \/ q.at < q.prev)

(* A comment that is recorded as gone and then seen again, in an answer    *)
(* that came after that record was there, has a later event: no later      *)
(* reader finds it gone by that record (_add_reappeared_event_if_needed).  *)
SeenAgain ==
  \A e \in vis, o \in obs :
    /\ e.type = "disappeared" /\ o.rpid = e.rpid
    /\ e.known < o.at
    => \E f \in vis : f.rpid = e.rpid /\ e.at < f.at

(* A watched comment has its reply task waiting, or the last run of that   *)
(* task began after the comment was last watched: a sighting during a run  *)
(* is not lost (_upsert_watchlist_item, CollectionTaskRepository.enqueue). *)
RepliesFollow ==
  \A c \in Comment :
    watch[c] # 0 => (reply[c] # "none" \/ asked[c] >= watch[c])

(* Every run ends: pages with the same comments in different orders, reply *)
(* tasks and the watch list do not hold each other up for ever.            *)
Ends == \A p \in Worker : Busy(p) ~> ~Busy(p)
=============================================================================
