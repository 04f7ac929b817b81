----------------------------- MODULE Discovery -----------------------------
(***************************************************************************)
(* How videos are found, tied to a research event and measured: the rounds *)
(* that ask for the lists of the followed uids, the tasks that read a list *)
(* or the figures of a video, the sweep and the nightly snapshot that see  *)
(* to it that no video is forgotten, the discovery loop of the command     *)
(* line, and the operator who edits the targets of the event.              *)
(*                                                                         *)
(* A task runs in the one transaction of a worker, and what it writes      *)
(* shows when that commits.  It is two steps here: Read, where the answer  *)
(* is captured and the rows are looked up, and Store, which writes what    *)
(* the look called for and commits.  A row that another transaction has    *)
(* inserted in between is a conflict on its unique key.  Which of the      *)
(* ready tasks a worker takes is left open (TaskQueue has their order).    *)
(*                                                                         *)
(* Time is counted by video: a slot of it is the time from one instant of  *)
(* the snapshot policy to the next.  The videos of this module are a few   *)
(* of many: others push one off the first page of a list, or beyond the    *)
(* number of videos that a sweep looks at.                                 *)
(***************************************************************************)
EXTENDS Naturals, FiniteSetsExt

CONSTANTS
  Video,      \* some videos
  Mid,        \* uids
  Configured, \* those that the configuration follows
  Looped,     \* those whose lists the loop of the command line reads
  Author,     \* the uids in whose lists a video appears
  Worker,     \* the workers
  MaxRetries, \* max_retries of a task
  Copies,     \* bound on the tasks of a list that are active at a time
  MaxSlot,    \* bound on the slots of a video
  MaxTurns    \* bound on the tasks that begin to fail, the workers that are
              \* killed, the evenings and the operator's commands, together

ASSUME DiscoveryAssumption ==
  /\ {Copies, MaxSlot} \subseteq Nat \ {0}
  /\ {MaxRetries, MaxTurns} \subseteq Nat
  /\ Configured \subseteq Mid /\ Looped \subseteq Mid
  /\ Author \in [Video -> SUBSET Mid]

VARIABLES
  place,    \* where the platform shows a video
  beyond,   \* the videos that no sweep looks at, as newer ones are known
  known,    \* known_videos
  sources,  \* known_video_sources
  target,   \* the uid targets of the event
  seed,     \* its seed_bvid targets
  open,     \* the event is active and inside its window
  linked,   \* its event_videos, and the target each of them came by
  slot,     \* the slot that the time of a video is in
  last,     \* the slot of its latest metric snapshot, 0 if there is none
  avail,    \* its latest availability snapshot: none, visible, gone, or
            \* an answer with an error code or without the video
  evening,  \* how many evenings have come, and whether it still is one
  eligible, \* the videos that were known when it came
  tasks,    \* the tasks and how far they are
  tries,    \* their retry_count
  run,      \* what a process is about
  turns     \* how many of these there have been

vars == <<place, beyond, known, sources, target, seed, open, linked, slot,
          last, avail, evening, eligible, tasks, tries, run, turns>>
platform == <<place, beyond>>
videos == <<known, sources>>
event == <<target, seed, open>>
clock == <<slot, evening, eligible>>
figures == <<last, avail>>
queue == <<tasks, tries>>

-----------------------------------------------------------------------------
(* The tasks by their idempotency keys.                                    *)
List(m, i, link) == <<"list", m, i, link>>
First(v) == <<"first", v>>              \* video:<bvid>:discovery
Seeded(v) == <<"seed", v>>              \* video:<bvid>:event:<id>
Swept(v, k) == <<"sweep", v, k>>        \* video:<bvid>:sweep:<due_at>
Chained(v, k) == <<"chain", v, k>>      \* video:<bvid>:snapshot:<next_at>
Terminal(v, d) == <<"terminal", v, d>>  \* video:<bvid>:terminal:<date>

Lists == {List(m, i, link) : m \in Mid, i \in 1..Copies, link \in BOOLEAN}
StatsOf(v) ==
  {First(v), Seeded(v)} \cup {Swept(v, k) : k \in (0..MaxSlot) \ {1}}
    \cup {Chained(v, k) : k \in 2..(MaxSlot + 1)}
    \cup {Terminal(v, d) : d \in 1..MaxTurns}
Task == Lists \cup UNION {StatsOf(v) : v \in Video}

Active(t) == tasks[t] \in {"pending", "running"}

(* enqueue waits for a running task of the same key and returns a pending  *)
(* one; whoever calls it takes the first two formulas for guard and tasks. *)
CanEnqueue(S) == \A t \in S : tasks[t] # "running"
Enqueued(S) == [t \in Task |-> IF t \in S THEN "pending" ELSE tasks[t]]
Fresh(S) == [t \in Task |-> IF t \in S /\ ~Active(t) THEN 0 ELSE tries[t]]

Ready(t) ==
  /\ tasks[t] = "pending"
  /\ t[1] = "chain" => t[3] <= slot[t[2]]

-----------------------------------------------------------------------------
Idle == [task |-> <<"none">>]

(* What a process found when it read the first page of a list: the videos, *)
(* those it had not known, or not from this uid, and, if it is to link     *)
(* them, how they were linked.                                             *)
Listed == {v \in Video : place[v] = "page"}
PageOfNext(m) == {v \in Video : place[v] = "old" /\ m \in Author[v]}
PageOf(m) == {v \in Listed : m \in Author[v]}

Looked(t, m, link) ==
  LET page == PageOf(m) IN
  [task |-> t, mid |-> m, new |-> page \ known,
   fresh |-> {v \in page : <<v, m>> \notin sources},
   saw |-> [v \in IF link THEN page ELSE {} |-> linked[v]]]

(* What it found when it asked for the figures of a video; older: whose    *)
(* answers about the video are older than this one; late: a newer answer   *)
(* has been stored in the meantime.                                        *)
Asked(t, p) ==
  [task |-> t, at |-> slot[t[2]],
   answer |-> IF place[t[2]] = "gone" THEN "gone" ELSE "visible",
   older |-> {q \in Worker \ {p} : run[q].task \in StatsOf(t[2])},
   late |-> FALSE]

Due(v) == last[v] < slot[v]
Unlinked == [state |-> "none", via |-> "none"]
BySeed == [state |-> "active", via |-> "seed"]

(* Targets and seeds may have been given with the event.                   *)
Init ==
  /\ beyond = {}
  /\ known = {} /\ sources = {}
  /\ target \in [Mid -> {"none", "active"}]
  /\ seed \in [Video -> {"none", "active"}]
  /\ place = [v \in Video |-> IF seed[v] = "none" THEN "unborn" ELSE "page"]
  /\ open = TRUE
  /\ linked = [v \in Video |-> IF seed[v] = "none" THEN Unlinked ELSE BySeed]
  /\ slot = [v \in Video |-> 1]
  /\ last = [v \in Video |-> 0]
  /\ avail = [v \in Video |-> "none"]
  /\ evening = [no |-> 0, on |-> FALSE]
  /\ eligible = {}
  /\ tasks = [t \in Task |->
       IF t[1] = "seed" /\ seed[t[2]] # "none" THEN "pending" ELSE "none"]
  /\ tries = [t \in Task |-> 0]
  /\ run = [p \in Worker |-> Idle]
  /\ turns = 0

Turn == turns < MaxTurns /\ turns' = turns + 1

(* An attempt at t fails: a turn, if it is the first one to fail.          *)
Mishap(t) == IF tries[t] > 0 THEN UNCHANGED turns ELSE Turn

-----------------------------------------------------------------------------
(* The platform and the time.                                              *)
Publish(v) ==
  /\ place[v] = "unborn"
  /\ place' = [place EXCEPT ![v] = "page"]
  /\ UNCHANGED <<beyond, videos, event, linked, clock, figures, queue, run,
                 turns>>

PushOff(v) ==
  /\ place[v] = "page"
  /\ place' = [place EXCEPT ![v] = "old"]
  /\ UNCHANGED <<beyond, videos, event, linked, clock, figures, queue, run,
                 turns>>

TakeDown(v) ==
  /\ place[v] \in {"page", "old"}
  /\ place' = [place EXCEPT ![v] = "gone"]
  /\ UNCHANGED <<beyond, videos, event, linked, clock, figures, queue, run,
                 turns>>

Outnumber(v) ==
  /\ v \in known \ beyond
  /\ beyond' = beyond \cup {v}
  /\ UNCHANGED <<place, videos, event, linked, clock, figures, queue, run,
                 turns>>

Elapse(v) ==
  /\ place[v] # "unborn" /\ slot[v] < MaxSlot
  /\ slot' = [slot EXCEPT ![v] = @ + 1]
  /\ UNCHANGED <<platform, videos, event, linked, evening, eligible, figures,
                 queue, run, turns>>

NightFalls ==
  /\ ~evening.on /\ Turn
  /\ evening' = [no |-> evening.no + 1, on |-> TRUE]
  /\ eligible' = known
  /\ UNCHANGED <<platform, videos, event, linked, slot, figures, queue, run>>

Midnight ==
  /\ evening.on
  /\ evening' = [evening EXCEPT !.on = FALSE]
  /\ UNCHANGED <<platform, videos, event, linked, slot, eligible, figures,
                 queue, run, turns>>

-----------------------------------------------------------------------------
(* The scheduled jobs.                                                     *)

(* resolve_active_uid_target                                               *)
Follows(m) == open /\ target[m] = "active"

(* A round asks for the list of every followed uid, twice at a focus time. *)
(* A key names its round and is new; the bound is that a round comes when  *)
(* the lists of the round before are through.                              *)
Round(n) ==
  LET S == {List(m, i, Follows(m)) :
              m \in Configured \cup {m \in Mid : Follows(m)}, i \in 1..n}
  IN /\ \A t \in Lists : ~Active(t)
     /\ S # {}
     /\ tasks' = Enqueued(S) /\ tries' = Fresh(S)
     /\ UNCHANGED <<platform, videos, event, linked, clock, figures, run,
                    turns>>

Available(v) == avail[v] \in {"none", "visible"}

(* A video that has never been measured is due now, under a key that says  *)
(* when: each sweep adds one, of which the bound leaves one at a time.     *)
SweepKey(v) == IF last[v] = 0 THEN Swept(v, 0) ELSE Swept(v, last[v] + 1)

SweepOnce ==
  LET S == {SweepKey(v) :
              v \in {u \in known \ beyond : Available(u) /\ last[u] = 0}}
  IN /\ \E t \in S : ~Active(t)
     /\ tasks' = [t \in Task |-> IF t \in S /\ ~Active(t) THEN "pending"
                                 ELSE tasks[t]]
     /\ tries' = Fresh(S)
     /\ UNCHANGED <<platform, videos, event, linked, clock, figures, run,
                    turns>>

Sweep ==
  LET S == {SweepKey(v) :
              v \in {u \in known \ beyond : Available(u) /\ Due(u)}}
  IN /\ \E t \in S : ~Active(t)
     /\ CanEnqueue({t \in S : t[3] # 0})
     /\ tasks' = [t \in Task |-> IF t \in S /\ ~Active(t) THEN "pending"
                                 ELSE tasks[t]]
     /\ tries' = Fresh(S)
     /\ UNCHANGED <<platform, videos, event, linked, clock, figures, run,
                    turns>>

(* schedule_terminal_snapshots: one task a day, whatever became of it.     *)
Terminals ==
  {Terminal(v, evening.no) : v \in {u \in eligible : evening.on /\ Available(u)}}
Unasked == {t \in Terminals : tasks[t] = "none"}

TerminalJob ==
  /\ Unasked # {}
  /\ tasks' = Enqueued(Unasked) /\ tries' = Fresh(Unasked)
  /\ UNCHANGED <<platform, videos, event, linked, clock, figures, run, turns>>

-----------------------------------------------------------------------------
(* The run of a task.                                                      *)
Read(p, t) ==
  /\ run[p] = Idle /\ Ready(t)
  /\ tasks' = [tasks EXCEPT ![t] = "running"]
  /\ run' = [run EXCEPT ![p] =
       IF t \in Lists THEN Looked(t, t[2], t[4] /\ Follows(t[2]))
       ELSE Asked(t, p)]
  /\ UNCHANGED <<platform, videos, event, linked, clock, figures, tries,
                 turns>>

(* The answer is off: it has an error code, or it has none and does not    *)
(* show the video either.                                                  *)
Misread(p) ==
  /\ run[p].task \in Task \ Lists /\ run[p].answer = "visible"
  /\ Mishap(run[p].task)
  /\ \E answer \in {"error", "empty"} :
       run' = [run EXCEPT ![p].answer = answer]
  /\ UNCHANGED <<platform, videos, event, linked, clock, figures, queue>>

(* The other runs when p has ended, and stored an answer newer than those  *)
(* of Older.                                                               *)
Others(p, Older) ==
  [q \in Worker |->
     IF q = p THEN Idle
     ELSE IF "older" \notin DOMAIN run[q] THEN run[q]
     ELSE [run[q] EXCEPT !.older = @ \ {p}, !.late = @ \/ q \in Older]]

(* A daily key remembers that it has been used, no other needs to.         *)
Past(t) == IF t[1] = "terminal" THEN "past" ELSE "none"
Released(t, S) ==
  [Enqueued(S) EXCEPT ![t] = Past(t)]

NewSources(p) == run[p].fresh \X {run[p].mid}
Links(p) == DOMAIN run[p].saw

Conflict(p) ==
  \/ run[p].new \cap known # {}
  \/ NewSources(p) \cap sources # {}
  \/ \E v \in Links(p) : run[p].saw[v].state = "none" /\ linked[v].state # "none"

(* attach_video, which writes the columns that it found different.         *)
Attached(saw, v, via) ==
  [state |-> IF saw.state = "active" THEN linked[v].state ELSE "active",
   via |-> IF saw.via = via THEN linked[v].via ELSE via]

(* handle_discovered_videos, and the commit.                               *)
Discovered(new, from) ==
  /\ known' = known \cup new
  /\ sources' = sources \cup from
  /\ UNCHANGED <<platform, event, clock, figures, turns>>

StoreList(p) ==
  LET S == {First(v) : v \in run[p].new} IN
  /\ run[p].task \in Lists
  /\ ~Conflict(p)
  /\ Discovered(run[p].new, NewSources(p))
  /\ linked' = [v \in Video |->
       IF v \in Links(p) THEN Attached(run[p].saw[v], v, run[p].mid)
       ELSE linked[v]]
  /\ tasks' = Released(run[p].task, S)
  /\ tries' = Fresh(S \cup {run[p].task})
  /\ run' = Others(p, {})

(* The snapshots that an answer leaves: of whether the video is there, and *)
(* of its figures.                                                         *)
Availability(p, v) ==
  [avail EXCEPT ![v] = IF run[p].late THEN @ ELSE run[p].answer]
LastFigures(p, v) ==
  IF run[p].answer # "visible" THEN last
  ELSE [last EXCEPT ![v] = Max({@, run[p].at})]

(* Measured again: the next snapshot of a video that is known and, by the  *)
(* latest snapshot of its availability, still there.                       *)
StoreFigures(p) ==
  LET t == run[p].task
      v == t[2]
      next == Chained(v, run[p].at + 1)
      S == IF run[p].answer = "visible" /\ v \in known
              /\ Availability(p, v)[v] = "visible"
           THEN {next} ELSE {}
  IN /\ t \in Task /\ t \notin Lists
     /\ run[p].answer # "empty"
     /\ CanEnqueue(S)
     /\ avail' = Availability(p, v)
     /\ last' = LastFigures(p, v)
     /\ tasks' = Released(t, S)
     /\ tries' = Fresh(S \cup {t})
     /\ run' = Others(p, run[p].older)
     /\ UNCHANGED <<platform, videos, event, linked, clock, turns>>

(* The worker commits a failed attempt of t: once more, or for good.       *)
PutBack(t) ==
  IF tries[t] < MaxRetries
  THEN /\ tasks' = [tasks EXCEPT ![t] = "pending"]
       /\ tries' = [tries EXCEPT ![t] = @ + 1]
  ELSE /\ tasks' = [tasks EXCEPT ![t] = Past(t)]
       /\ tries' = [tries EXCEPT ![t] = 0]

(* The request fails, or its answer says nothing.                          *)
Fail(p) ==
  /\ run[p].task \in Task
  /\ Mishap(run[p].task)
  /\ PutBack(run[p].task)
  /\ run' = Others(p, {})
  /\ UNCHANGED <<platform, videos, event, linked, clock, figures>>

(* The answer says whether the video is there, which is recorded, but its  *)
(* figures cannot be parsed, or are not in it.                             *)
ParseFails(p) ==
  LET t == run[p].task IN
  /\ t \in Task \ Lists
  /\ \/ run[p].answer = "empty" /\ UNCHANGED turns
     \/ run[p].answer = "visible" /\ Mishap(t)
  /\ PutBack(t)
  /\ avail' = Availability(p, t[2])
  /\ run' = Others(p, run[p].older)
  /\ UNCHANGED <<platform, videos, event, linked, clock, last>>

(* The end of a process rolls its transaction back.                        *)
RolledBack(p) ==
  /\ tasks' = [tasks EXCEPT ![run[p].task] = "pending"]
  /\ run' = Others(p, {})
  /\ UNCHANGED <<platform, videos, event, linked, clock, figures, tries>>

Crash(p) ==
  /\ run[p].task \in Task /\ Turn
  /\ RolledBack(p)

(* Nobody catches the error of a conflict: it ends the worker's process.   *)
Die(p) ==
  /\ run[p].task \in Lists
  /\ Conflict(p)
  /\ RolledBack(p)
  /\ UNCHANGED turns

(* The loop of the command line, for one uid.  It has no task to give      *)
(* back, and what it meets that has been inserted since it looked makes it *)
(* fail without a trace, so that its look and its commit are one step.     *)
LoopAgain(m) ==
  LET S == {First(v) : v \in PageOf(m)} \cup Unasked
  IN /\ Discovered(PageOf(m), PageOf(m) \X {m})
     /\ tasks' = Enqueued(S) /\ tries' = Fresh(S)
     /\ UNCHANGED <<linked, run>>

Loop(m) ==
  LET page == PageOf(m)
      S == {First(v) : v \in page \ known} \cup Unasked
  IN /\ Discovered(page \ known, page \X {m})
     /\ tasks' = Enqueued(S) /\ tries' = Fresh(S)
     /\ UNCHANGED <<linked, run>>

-----------------------------------------------------------------------------
(* The operator.                                                           *)
Order ==
  /\ Turn
  /\ UNCHANGED <<platform, videos, clock, figures, run>>

State(on) == IF on THEN "active" ELSE "inactive"

UpdateEvent ==
  /\ Order /\ open' = ~open
  /\ UNCHANGED <<target, seed, linked, queue>>

AddTarget(m) ==
  /\ Order /\ target' = [target EXCEPT ![m] = "active"]
  /\ UNCHANGED <<seed, open, linked, queue>>

SetTarget(m, on) ==
  /\ Order /\ target[m] # "none"
  /\ target' = [target EXCEPT ![m] = State(on)]
  /\ UNCHANGED <<seed, open, linked, queue>>

(* The task of a seed is enqueued when its target is created.              *)
AddSeed(v) ==
  LET S == IF seed[v] = "none" THEN {Seeded(v)} ELSE {} IN
  /\ Order /\ place[v] # "unborn" /\ CanEnqueue(S)
  /\ seed' = [seed EXCEPT ![v] = "active"]
  /\ linked' = [linked EXCEPT ![v] = BySeed]
  /\ tasks' = Enqueued(S) /\ tries' = Fresh(S)
  /\ UNCHANGED <<target, open>>

SetSeed(v, on) ==
  /\ Order /\ seed[v] # "none"
  /\ seed' = [seed EXCEPT ![v] = State(on)]
  /\ linked' = [linked EXCEPT ![v].state =
       IF linked[v].via = "seed" THEN State(on) ELSE @]
  /\ UNCHANGED <<target, open, queue>>

SetVideo(v, on) ==
  /\ Order /\ linked[v].state # "none"
  /\ linked' = [linked EXCEPT ![v].state = State(on)]
  /\ UNCHANGED <<event, queue>>

-----------------------------------------------------------------------------
ReadList(m) == \E p \in Worker, t \in Lists : t[2] = m /\ Read(p, t)
ReadFigures(v) == \E p \in Worker, t \in StatsOf(v) : Read(p, t)
Store(p) ==
  \/ StoreList(p) \/ StoreFigures(p) \/ Die(p)
  \/ run[p].task \in Task \ Lists /\ run[p].answer = "empty" /\ ParseFails(p)

Next ==
  \/ NightFalls \/ Midnight \/ UpdateEvent
  \/ Sweep \/ TerminalJob
  \/ \E n \in 1..Copies : Round(n)
  \/ \E v \in Video :
       \/ Publish(v) \/ PushOff(v) \/ TakeDown(v) \/ Outnumber(v)
       \/ Elapse(v) \/ AddSeed(v) \/ ReadFigures(v)
  \/ \E m \in Mid : AddTarget(m) \/ ReadList(m)
  \/ \E m \in Looped : Loop(m)
  \/ \E m \in Mid, on \in BOOLEAN : SetTarget(m, on)
  \/ \E v \in Video, on \in BOOLEAN : SetSeed(v, on) \/ SetVideo(v, on)
  \/ \E p \in Worker : Store(p) \/ Misread(p) \/ Fail(p)
                       \/ ParseFails(p) \/ Crash(p)

Spec == Init /\ [][Next]_vars

(* The jobs come back on their schedules, a worker that has read goes on   *)
(* to the end, and the list of a uid, which has the highest priority of    *)
(* all tasks, does not wait for ever while others are taken.               *)
FairSpec ==
  /\ Spec
  /\ WF_vars(Round(1)) /\ WF_vars(Sweep)
  /\ \A p \in Worker : WF_vars(Store(p))
  /\ \A m \in Mid : SF_vars(ReadList(m))

-----------------------------------------------------------------------------
(* A video that a followed uid lists gets known, unless it is taken down   *)
(* or newer ones push it off the page before anybody looks: whoever fails  *)
(* or dies at it, another round asks again.                                *)
Found ==
  \A v \in Video :
    v \in Listed /\ Author[v] \cap Configured # {} ~> v \in known \cup (Video \ Listed)

(* The workers keep up: no task is ready that is not taken.  (Whoever is   *)
(* leased first depends on priorities, and under a load that lasts the     *)
(* tasks of least priority may wait for ever.)                             *)
KeptUp == \A t \in Task : ~Ready(t)

(* By the latest answer about it that could be read, a video is not        *)
(* visible: it has been taken down, or the answer had an error code, or    *)
(* nothing about the video in it, were it the last of several attempts.    *)
(* No sweep takes such a video up again.                                   *)
Dropped(v) == avail[v] \in {"gone", "error", "empty"}

(* A video that the sweep does not reach and whose chain of tasks is       *)
(* broken.                                                                 *)
Stranded(v) ==
  v \in beyond /\ \A t \in StatsOf(v) : ~Active(t)

(* If the workers keep up, a known video is measured again once its next   *)
(* slot has come, however often requests fail, answers cannot be parsed    *)
(* and workers are killed, unless it is dropped or stranded.               *)
Measured ==
  []<>KeptUp =>
    \A v \in Video :
      v \in known /\ Due(v) ~> ~Due(v) \/ Dropped(v) \/ Stranded(v)

(* A video gets its first task when it gets known, whoever finds it, and   *)
(* never again.                                                            *)
FirstOnce ==
  [][\A v \in Video :
       tasks[First(v)] = "none" /\ tasks'[First(v)] # "none"
         <=> v \notin known /\ v \in known']_vars

(* A video that the operator has taken out of the event comes back by a    *)
(* command only.                                                           *)
ExcludedStays ==
  [][\A v \in Video :
       linked[v].state = "inactive" /\ linked'[v].state = "active"
         => turns' # turns]_vars
=============================================================================
