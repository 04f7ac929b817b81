--------------------------- MODULE CohortPlanner ---------------------------
(***************************************************************************)
(* The cohort planner for one video: which cohorts it plans, recovers and  *)
(* closes, and which routine slots it writes off, while workers close the  *)
(* components of the cohorts and the clock jumps ahead.                    *)
(*                                                                         *)
(* plan_due is one transaction for all videos.  It either does everything  *)
(* that Plan says or, when a cohort in the database contradicts the     *)
(* plan, raises and leaves everything as it was.  Times are minutes since  *)
(* the video was published (the anchor of its schedule is 0); the clock    *)
(* jumps between a few Instants, since the policy thinks in hours.         *)
(***************************************************************************)
EXTENDS CohortPolicy

CONSTANTS
  Policies,    \* what each policy version contains
  Rollouts,    \* the rollout modes that the operator configures
  FirstSeen,   \* when the video was discovered
  Official,    \* is its source a monitored official account?
  Growths,     \* what the last hour's view growth may be found to be
  Events,      \* may it belong to an active event?
  Frontiers,   \* may its comment frontier be found complete?
  Joins,       \* may a latest component join a scan that is under way?
  Worked,      \* bound: what is worked on (cohorts, kinds of component)
  Outcomes,    \* what a worker's attempt may come to
  Instants,    \* where the clock stands when somebody acts
  LastChange   \* bound: the configuration is not changed after this time

(* The configuration validates a policy before the planner sees it; the
   lease of a task is ten minutes by default.                              *)
ASSUME PlannerAssumption ==
  /\ None \notin Int
  /\ Instants \subseteq Nat /\ LastChange \in Nat
  /\ \A v \in DOMAIN Policies : Accepted(Policies[v], 600)

(* What a worker makes of a component that it has begun.                   *)
ASSUME OutcomeAssumption ==
  Outcomes \subseteq {"running", "complete", "partial", "failed", "corrupted"}

VARIABLES
  now,
  config,    \* version and rollout mode that the planner is configured with
  active,    \* the active row of collection_policy_versions
  video,     \* the row of video_collection_states, as adopt() makes it at first
  cohorts,   \* the rows of snapshot_cohorts with their components, by key
  gaps,      \* the rows of collection_schedule_gaps
  outcome    \* what the last step came to, if it was the planner's

vars == <<now, config, active, video, cohorts, gaps, outcome>>

Kind == {"video_metrics", "hot_core", "hot_deep", "latest_current_head",
         "latest_reconciliation"}
Hot == {"hot_core", "hot_deep"}
Latest == {"latest_current_head", "latest_reconciliation"}
Startable == {"pending"} \cup Active
Done == {"complete", "not_applicable"}

AgeKey(h) == <<"age", h>>
RecoveryKey(h) == <<"recovery", h>>
RoutineKey(t) == <<"routine", t>>

P == Policies[config.version]
Live == config.rollout = "live"
FloorBucket(t) == t - (t % P.bucket)

-----------------------------------------------------------------------------
(* Cohorts and their components                                            *)

Parts(comps) ==
  {[required |-> TRUE, status |-> comps[k].status, started |-> comps[k].started] :
     k \in DOMAIN comps}

Recomputed(c) == [c EXCEPT !.status = Aggregate(Parts(c.comps))]

(* What a component is to cover: its pages, and the seconds of a slice.    *)
LatestSlice(interval) ==
  IF interval = None THEN 55 ELSE Min({55, Max({10, 24 * interval})})

Wanted(kinds, tier, deep, dormant, interval) ==
  LET pages == PagePlan(P, tier, deep, dormant)
      all == kinds \cup (IF "hot_core" \in kinds /\ pages.deep > 0
                         THEN {"hot_deep"} ELSE {})
  IN  [k \in all |->
         CASE k = "hot_core" -> [from |-> 1, to |-> pages.core,
                                 slice |-> P.hot.sliceSeconds]
           [] k = "hot_deep" -> [from |-> pages.deepStart,
                                 to |-> pages.core + pages.deep,
                                 slice |-> P.hot.sliceSeconds]
           [] k \in Latest -> [from |-> 1, to |-> 1,
                               slice |-> LatestSlice(interval)]
           [] OTHER -> [from |-> 1, to |-> 1, slice |-> None]]

(* A live planned cohort has a task for each component, but for a latest
   component that joins a scan that is under way.                          *)
Queued(plan) == Live /\ plan.status = "planned" /\ plan.part = "pending"

JoinsScan(k, plan, joins) == Queued(plan) /\ joins /\ k \in Latest

FirstTask(k, plan, joins) ==
  IF Queued(plan) /\ ~JoinsScan(k, plan, joins) THEN "pending" ELSE "none"

NewComponent(k, plan, joins) ==
  [want |-> plan.want[k], started |-> FALSE, task |-> FirstTask(k, plan, joins),
   status |-> IF JoinsScan(k, plan, joins) THEN "joined_active_task" ELSE plan.part]

NewCohort(plan, joins) ==
  [for |-> plan.for, deadline |-> plan.deadline, desired |-> plan.desired,
   effective |-> plan.effective, version |-> config.version,
   rollout |-> config.rollout,
   status |-> IF Live THEN plan.status ELSE "shadow_planned",
   target |-> IF Live THEN None ELSE plan.status,
   comps |-> [k \in DOMAIN plan.want |-> NewComponent(k, plan, joins)]]

(* Mutant of Rematerialized: an upsert that takes over what is planned.     *)
RematerializedAnew(c, plan, joins) ==
  [c EXCEPT !.comps =
     [k \in DOMAIN c.comps \cup DOMAIN plan.want |->
        IF k \in DOMAIN plan.want THEN NewComponent(k, plan, joins) ELSE c.comps[k]]]

(* _validate_existing_cohort, _validate_existing_component: a cohort that
   exists is the one that is planned.  Only a recovery may get further
   components.                                                             *)
SameCohort(c, plan) ==
  /\ c.for = plan.for /\ c.deadline = plan.deadline
  /\ c.desired = plan.desired /\ c.effective = plan.effective
  /\ c.version = config.version /\ c.rollout = config.rollout

SameComponents(c, plan) ==
  \A k \in DOMAIN plan.want :
    IF k \in DOMAIN c.comps THEN c.comps[k].want = plan.want[k]
                            ELSE plan.reason = "recovery"

(* A latest component without a task of its own is claimed for a scan anew
   each time its cohort is planned, and must get the scan it has.          *)
Rejoins(c, k, plan) ==
  /\ Queued(plan)
  /\ k \in Latest \cap DOMAIN c.comps /\ c.comps[k].task = "none"

SameScan(c, plan, over) ==
  \A k \in DOMAIN plan.want :
    Rejoins(c, k, plan) /\ over => c.comps[k].status \in Startable

Accepts(c, plan, over) ==
  SameCohort(c, plan) /\ SameComponents(c, plan) /\ SameScan(c, plan, over)

Rematerialized(c, plan, joins) ==
  [c EXCEPT !.comps =
     [k \in DOMAIN c.comps \cup DOMAIN plan.want |->
        IF k \notin DOMAIN c.comps THEN NewComponent(k, plan, joins)
        ELSE IF Rejoins(c, k, plan)
        THEN [c.comps[k] EXCEPT !.status = "joined_active_task"]
        ELSE c.comps[k]]]

Materialized(cs, key, plan, joins) ==
  IF key \in DOMAIN cs THEN Rematerialized(cs[key], plan, joins)
                       ELSE NewCohort(plan, joins)

-----------------------------------------------------------------------------
(* What closes by time                                                     *)

(* repair_latest_consumers: a latest component that still waits when its
   window ends is partial, whether it was begun or not.                    *)
Overdue(c, k) ==
  /\ c.rollout = "live" /\ k \in Latest
  /\ c.comps[k].status \in Startable /\ now >= c.deadline

Repaired(c) ==
  IF ~Live \/ \A k \in DOMAIN c.comps : ~Overdue(c, k) THEN c
  ELSE Recomputed([c EXCEPT !.comps =
         [k \in DOMAIN c.comps |->
            IF Overdue(c, k) THEN [c.comps[k] EXCEPT !.status = "partial"]
                             ELSE c.comps[k]]])

(* _finalize_expired_checkpoint: what has not begun is written off.  Its
   task stays in the queue.                                                *)
Finalized(c) ==
  Recomputed([c EXCEPT !.comps =
    [k \in DOMAIN c.comps |->
       CASE c.comps[k].status = "pending" ->
              [c.comps[k] EXCEPT !.status = "missed_due_to_capacity"]
         [] c.comps[k].status = "blocked" ->
              [c.comps[k] EXCEPT !.status = "missed_due_to_service_gap"]
         [] OTHER -> c.comps[k]]])

-----------------------------------------------------------------------------
(* _planning_signals, from what the planner finds out about the video.     *)

(* A row that has been planned has a next slot, so that a row without one is
   adopted by the plan that reads it.                                      *)
Adopted ==
  [desired |-> "c", effective |-> "c", candidate |-> None, count |-> 0,
   stage |-> "active", nextDue |-> None, lastAge |-> None]

FirstAdoption == video.nextDue = None

Signals(found) ==
  LET low == P.thresholds["b"].views
      desired == DesiredTier([official |-> Official, age |-> now,
                              event |-> found.event, creator |-> FALSE,
                              pinned |-> None, views |-> found.growth,
                              comments |-> None, turnover |-> None,
                              complete |-> FALSE, confirmations |-> 0], P)
      a == Assess(video, desired, P.confirmations)
  IN  [desired |-> desired, effective |-> a.effective,
       candidate |-> a.candidate, count |-> a.count,
       stage |-> LifeStage(now, found.growth # None /\ found.growth < low,
                           found.event \/ (found.growth # None /\ found.growth >= low), P)]

(* Mutant of Interval: the distance to the next checkpoint is left
   out.                                                                    *)
IntervalUncapped(found, sig) ==
  CASE sig.stage = "dormant" -> P.lifecycle.dormantInterval
    [] sig.stage = "archived" -> P.lifecycle.probeInterval
    [] OTHER -> EffectiveInterval(now, now % 1440, sig.effective, found.growth,
                                  None, P)

Interval(found, sig) ==
  LET ahead == {h \in P.hours : h > now} IN
  CASE sig.stage = "dormant" -> P.lifecycle.dormantInterval
    [] sig.stage = "archived" -> P.lifecycle.probeInterval
    [] OTHER -> EffectiveInterval(now, now % 1440, sig.effective, found.growth,
                  IF ahead = {} THEN None ELSE Min(ahead) - now, P)

(* An active video keeps to the grid of its publication, a slow stage starts
   from the planner's own bucket.                                          *)
NextDue(interval, stage) ==
  IF stage = "active" THEN NextAlignedSlot(0, now, interval)
                      ELSE FloorBucket(now) + interval

-----------------------------------------------------------------------------
(* _plan_video: the checkpoints                                            *)
DueAges == {h \in P.hours : h <= now}

(* The cohort as it is when its checkpoint is looked at.                   *)
Seen(h) ==
  LET c == Repaired(cohorts[AgeKey(h)]) IN
  IF c.status # "shadow_planned" /\ FirstSeen <= h /\ now > c.deadline /\ now > h + P.lateness
  THEN Finalized(c) ELSE c

(* A checkpoint that has been planned in shadow mode keeps its verdict.    *)
Shadowed(h) ==
  AgeKey(h) \in DOMAIN cohorts /\ cohorts[AgeKey(h)].status = "shadow_planned"

Target(h) ==
  CASE Shadowed(h) -> cohorts[AgeKey(h)].target
    [] ~Shadowed(h) /\ FirstSeen > h -> "not_applicable"
    [] ~Shadowed(h) /\ FirstSeen <= h /\ now <= h + P.lateness -> "planned"
    [] OTHER -> IF AgeKey(h) \in DOMAIN cohorts THEN Seen(h).status ELSE "missed"

NeedsRecovery(h) ==
  IF Shadowed(h) THEN Target(h) = "missed"
                 ELSE FirstSeen <= h /\ now > h + P.lateness

AgePlan(h, sig) ==
  LET known == AgeKey(h) \in DOMAIN cohorts
      tier == IF known THEN cohorts[AgeKey(h)].effective ELSE sig.effective
  IN  [reason |-> "age_checkpoint", for |-> h, deadline |-> h + P.lateness,
       desired |-> IF known THEN cohorts[AgeKey(h)].desired ELSE sig.desired,
       effective |-> tier, status |-> Target(h),
       part |-> CASE Target(h) = "not_applicable" -> "not_applicable"
                  [] Target(h) = "missed" /\ (Shadowed(h) \/ ~known) ->
                       "missed_due_to_service_gap"
                  [] OTHER -> "pending",
       want |-> Wanted({"video_metrics", "hot_core", "latest_reconciliation"},
                       tier, TRUE, FALSE, None)]

CheckpointInBucket ==
  \E h \in DueAges : FloorBucket(h) = FloorBucket(now) /\ Target(h) = "planned"

-----------------------------------------------------------------------------
(* The recovery of what the expired checkpoints lack                       *)

(* Mutant of Lacking: what has failed or is partial counts as captured.    *)
LackingMissedOnly(cs, h) ==
  {k \in DOMAIN cs[AgeKey(h)].comps : cs[AgeKey(h)].comps[k].status \in Missed}

(* _missing_component_plans                                                *)
Lacking(cs, h) ==
  {k \in DOMAIN cs[AgeKey(h)].comps : cs[AgeKey(h)].comps[k].status \notin Done}

(* _prefer_recovery_component_plan: of several ranges of pages the one that
   ends last, then the longest.                                            *)
Preferred(wants) ==
  CHOOSE w \in wants : \A u \in wants :
    u.to < w.to \/ (u.to = w.to /\ u.from >= w.from)

(* The recovery that the cohorts cs call for, if anything is lacking.      *)
Recovery(cs, sig, interval) ==
  LET overdue == {h \in DueAges : NeedsRecovery(h)}
      kinds == UNION {Lacking(cs, h) : h \in overdue}
      key == RecoveryKey(Max(overdue))
      known == key \in DOMAIN cs
  IN  IF kinds = {} THEN {}
      ELSE {[key |-> key, reason |-> "recovery", status |-> "planned",
             part |-> "pending",
             for |-> IF known THEN cs[key].for ELSE FloorBucket(now),
             deadline |-> IF known THEN cs[key].deadline
                          ELSE NextDue(interval, sig.stage),
             desired |-> IF known THEN cs[key].desired ELSE sig.desired,
             effective |-> IF known THEN cs[key].effective ELSE sig.effective,
             want |-> [k \in kinds |->
               Preferred({cs[AgeKey(h)].comps[k].want :
                            h \in {i \in overdue : k \in Lacking(cs, i)}})]]}

(* The routine cohort of the present bucket, unless its slot is still to
   come or another cohort of the bucket serves it.                         *)
Due == FirstAdoption \/ video.nextDue <= now

Coalesced(recovery) ==
  \/ CheckpointInBucket
  \/ \E plan \in recovery : plan.for = FloorBucket(now)

Routine(found, sig, interval, recovery) ==
  IF ~Due \/ Coalesced(recovery) THEN {}
  ELSE {[key |-> RoutineKey(FloorBucket(now)), reason |-> "routine",
         status |-> "planned", part |-> "pending", for |-> FloorBucket(now),
         deadline |-> NextDue(interval, sig.stage),
         desired |-> sig.desired, effective |-> sig.effective,
         want |-> Wanted(StageKinds(sig.stage, found.frontier), sig.effective,
                         FirstAdoption /\ sig.stage = "active",
                         sig.stage = "dormant", interval)]}

(* record_planning                                                         *)
Recorded(sig, interval) ==
  [desired |-> sig.desired, effective |-> sig.effective,
   candidate |-> sig.candidate, count |-> sig.count, stage |-> sig.stage,
   nextDue |-> IF Due THEN NextDue(interval, sig.stage) ELSE video.nextDue,
   lastAge |-> IF DueAges = {} THEN video.lastAge
               ELSE Max(DueAges \cup ({video.lastAge} \ {None}))]

(* Mutant of GapOf: the slot that is served now is written off, too.       *)
GapOfOneMore(due, interval) ==
  LET missed == (FloorBucket(now) - due) \div interval + 1 IN
  IF due = None \/ due >= FloorBucket(now) THEN {}
  ELSE {[start |-> due, end |-> due + interval * missed, count |-> missed]}

(* The routine slots that went by unserved.                                *)
GapOf(due, interval) ==
  LET missed == (FloorBucket(now) - due) \div interval IN
  IF due = None \/ due >= FloorBucket(now) \/ missed = 0 THEN {}
  ELSE {[start |-> due, end |-> due + interval * missed, count |-> missed]}

(* A gap that is there already is not recorded again; by GapsExclusive none
   comes with another count, which would raise.                            *)
RecordGaps(found) == gaps' = gaps \cup found

-----------------------------------------------------------------------------
(* The checkpoints are looked at first; what the recovery and the routine
   cohort add comes on top.                                                *)
Looked(h, sig, joins) ==
  IF AgeKey(h) \in DOMAIN cohorts
  THEN Rematerialized(Seen(h), AgePlan(h, sig), joins)
  ELSE NewCohort(AgePlan(h, sig), joins)

Checkpointed(sig, joins) ==
  LET ages == {AgeKey(h) : h \in DueAges} IN
  [key \in ages \cup DOMAIN cohorts |->
     IF key \in ages THEN Looked(key[2], sig, joins) ELSE Repaired(cohorts[key])]

(* The cohorts cs with what is planned besides: `plans' has one plan or none. *)
With(cs, plans, joins) ==
  LET added == {plan.key : plan \in plans} IN
  [key \in added \cup DOMAIN cs |->
     IF key \in added
     THEN Materialized(cs, key, CHOOSE plan \in plans : plan.key = key, joins)
     ELSE cs[key]]

(* _validate_cohort_plan, before anything is read.                         *)
WellFormed(plan) == plan.for < plan.deadline /\ DOMAIN plan.want # {}

Fits(cs, plans, over) ==
  \A plan \in plans :
    /\ WellFormed(plan)
    /\ plan.key \in DOMAIN cs => Accepts(cs[plan.key], plan, over)

CheckpointsFit(sig, over) ==
  \A h \in DueAges :
    /\ WellFormed(AgePlan(h, sig))
    /\ AgeKey(h) \in DOMAIN cohorts => Accepts(Seen(h), AgePlan(h, sig), over)

(* What plan_due may find.  A scan that is over matters to components that
   have joined one and have come to an end.                                *)
Findings ==
  [growth : Growths, event : Events, frontier : Frontiers, joins : Joins,
   over : IF \E key \in DOMAIN cohorts : \E k \in DOMAIN cohorts[key].comps \cap Latest :
                 /\ cohorts[key].comps[k].task = "none"
                 /\ cohorts[key].comps[k].status \notin Startable
          THEN BOOLEAN ELSE {FALSE}]

(* list_candidates: adopted or not, a video that is known is considered.   *)
Candidate == FirstSeen <= now

(* ensure_configured, activate: one version is active, the configured one. *)
Activate == active' = config.version

(* plan_due is one transaction.  It works out one after the other what the
   video is like, what becomes of the checkpoints, and what to recover and
   to plan besides.                                                        *)
Plan(found) ==
  /\ Candidate
  /\ \E sig \in {Signals(found)} : \E interval \in {Interval(found, sig)} :
     \E cs \in {Checkpointed(sig, found.joins)} :
     \E recovery \in {Recovery(cs, sig, interval)} :
     \E routine \in {Routine(found, sig, interval, recovery)} :
     \E recovered \in {With(cs, recovery, found.joins)} :
       IF /\ CheckpointsFit(sig, found.over)
          /\ Fits(cs, recovery, found.over)
          /\ Fits(recovered, routine, found.over)
       THEN /\ cohorts' = With(recovered, routine, found.joins)
            /\ RecordGaps(IF Due THEN GapOf(video.nextDue, interval) ELSE {})
            /\ video' = Recorded(sig, interval)
            /\ Activate
            /\ outcome' = "planned"
       ELSE /\ outcome' = "raised"
            /\ UNCHANGED <<active, video, cohorts, gaps>>
  /\ UNCHANGED <<now, config>>

-----------------------------------------------------------------------------
(* A latest component without a task of its own has joined a scan.         *)
Joined(k, p) == k \in Latest /\ p.task = "none"

(* The component p after an attempt at its task, or after news of the scan
   it joined.                                                              *)
Attempted(k, p, result) ==
  [p EXCEPT !.status = IF k \in Latest /\ result = "running"
                       THEN "joined_active_task" ELSE result,
            !.started = ~Joined(k, p) \/ result = "complete" \/ @,
            !.task = IF ~Joined(k, p) /\ result # "running" THEN "ended" ELSE @]

(* A worker commits its attempt, or the end of a scan.                     *)
Execute(key, k, result) ==
  LET c == cohorts[key]
      p == c.comps[k]
  IN  /\ <<key, k>> \in Worked
      /\ c.rollout = "live"
      /\ k \in Latest => result # "partial"
      /\ p.status \in Startable
      /\ p.task = "pending" \/ Joined(k, p)
      /\ cohorts' = [cohorts EXCEPT ![key] =
           Recomputed([c EXCEPT !.comps = [@ EXCEPT ![k] = Attempted(k, p, result)]])]
      /\ outcome' = "none"
      /\ UNCHANGED <<now, config, active, video, gaps>>

(* The operator restarts the service with another configuration.           *)
Configure(version, rollout) ==
  /\ now <= LastChange
  /\ config' = [version |-> version, rollout |-> rollout]
  /\ config' # config
  /\ outcome' = "none"
  /\ UNCHANGED <<now, active, video, cohorts, gaps>>

Tick ==
  /\ \E t \in Instants : t > now /\ now' = t
  /\ outcome' = "none"
  /\ UNCHANGED <<config, active, video, cohorts, gaps>>

Init ==
  /\ now = 0
  /\ config \in [version : DOMAIN Policies, rollout : Rollouts]
  /\ active = None
  /\ video = Adopted
  /\ cohorts = << >>
  /\ gaps = {}
  /\ outcome = "none"

Next ==
  \/ \E found \in Findings : Plan(found)
  \/ \E key \in DOMAIN cohorts : \E k \in DOMAIN cohorts[key].comps :
       \E result \in Outcomes : Execute(key, k, result)
  \/ \E version \in DOMAIN Policies, rollout \in Rollouts :
       Configure(version, rollout)
  \/ Tick

Spec == Init /\ [][Next]_vars

-----------------------------------------------------------------------------
(* Properties                                                              *)

VideoState ==
  [desired : Tier, effective : Tier, candidate : Tier \cup {None},
   count : Nat, stage : Stage,
   nextDue : Nat \cup {None}, lastAge : Nat \cup {None}]

Component ==
  [want : [from : Nat \ {0}, to : Nat \ {0}, slice : Nat \cup {None}],
   status : ComponentStatus, started : BOOLEAN,
   task : {"none", "pending", "ended"}]

Cohort(c) ==
  /\ {c.for, c.deadline} \subseteq Nat /\ c.for < c.deadline
  /\ {c.desired, c.effective} \subseteq Tier
  /\ c.version \in DOMAIN Policies /\ c.rollout \in Rollouts
  /\ c.status \in CohortStatus /\ c.target \in CohortStatus \cup {None}
  /\ DOMAIN c.comps \subseteq Kind /\ c.comps \in [DOMAIN c.comps -> Component]

Gap == [start : Nat, end : Nat, count : Nat \ {0}]

(* The rows hold what their columns may hold; deadlines lie ahead of what
   they are for, ranges of pages are not empty, and a shadow cohort has no
   tasks.                                                                  *)
TypeOK ==
  /\ now \in Instants \cup {0}
  /\ active \in DOMAIN Policies \cup {None}
  /\ video \in VideoState
  /\ gaps \subseteq Gap /\ \A g \in gaps : g.start < g.end
  /\ \A key \in DOMAIN cohorts :
       /\ Cohort(cohorts[key])
       /\ \A k \in DOMAIN cohorts[key].comps :
            /\ cohorts[key].comps[k].want.from <= cohorts[key].comps[k].want.to
            /\ cohorts[key].rollout = "shadow" => cohorts[key].comps[k].task = "none"

(* A time that has been written off as a gap was not served, and is written
   off once.                                                               *)
GapsExclusive ==
  /\ \A g \in gaps, h \in gaps : g # h => g.end <= h.start \/ h.end <= g.start
  /\ \A g \in gaps, key \in DOMAIN cohorts :
       key[1] = "routine" => ~(g.start <= cohorts[key].for /\ cohorts[key].for < g.end)

(* A component that had a task of its own and is closed stays as it is: the
   planner, which plans every checkpoint again and again, never reopens it.*)
ClosedStays ==
  [][\A key \in DOMAIN cohorts : \A k \in DOMAIN cohorts[key].comps :
       LET p == cohorts[key].comps[k] IN
       p.task # "none" /\ p.status \notin Startable => cohorts'[key].comps[k] = p]_vars

(* The kinds of which expired checkpoints have no usable evidence are the
   kinds that a new recovery is planned for, and after every plan there is a
   recovery for each of them.                                              *)
RecoveryExact ==
  [][outcome' = "planned" /\ Live =>
       LET expired == {h \in P.hours : FirstSeen <= h /\ now > h + P.lateness}
           lacking == {k \in Kind : \E h \in expired :
                         /\ k \in DOMAIN cohorts'[AgeKey(h)].comps
                         /\ cohorts'[AgeKey(h)].comps[k].status \notin Done}
           key == RecoveryKey(Max(expired))
       IN  lacking # {} =>
             /\ key \in DOMAIN cohorts'
             /\ lacking \subseteq DOMAIN cohorts'[key].comps
             /\ key \notin DOMAIN cohorts => lacking = DOMAIN cohorts'[key].comps]_vars

(* While a video is active its next slot is still to come, and not beyond
   the next checkpoint.                                                    *)
DueInTime ==
  [][outcome' = "planned" /\ video'.stage = "active"
       /\ video.nextDue # video'.nextDue =>
       /\ now < video'.nextDue
       /\ \A h \in P.hours : now < h => video'.nextDue <= h]_vars
=============================================================================
