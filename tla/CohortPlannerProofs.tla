------------------------ MODULE CohortPlannerProofs ------------------------
(***************************************************************************)
(* Proofs about CohortPlanner, for every set of policies that the          *)
(* configuration accepts, every video and every history of its cohorts.    *)
(***************************************************************************)
EXTENDS CohortPlanner, WellFoundedInduction, TLAPS

-----------------------------------------------------------------------------
(* What becomes of one cohort                                              *)

(* A cohort has the fields that the planner reads, components of the five
   kinds only, none of them blocked, and it is shadow planned only in shadow
   mode.                                                                   *)
Shaped(c) ==
  /\ {"comps", "status", "for", "rollout"} \subseteq DOMAIN c
  /\ DOMAIN c.comps \subseteq Kind
  /\ \A k \in DOMAIN c.comps : /\ {"status", "task"} \subseteq DOMAIN c.comps[k]
                               /\ c.comps[k].status # "blocked"
  /\ c.status = "shadow_planned" => c.rollout # "live"

Closed(p) == p.task # "none" /\ p.status \notin Startable

(* The cohort d has what c has: its time, its mode, its components, and
   those that are closed as they are.                                      *)
Keeps(c, d) ==
  /\ d.for = c.for /\ d.rollout = c.rollout
  /\ \A k \in DOMAIN c.comps : /\ k \in DOMAIN d.comps
                               /\ Closed(c.comps[k]) => d.comps[k] = c.comps[k]

(* What a plan has to be like for a new cohort.                            *)
Plannable(plan) ==
  /\ DOMAIN plan.want \subseteq Kind
  /\ plan.part \in {"pending", "not_applicable", "missed_due_to_service_gap"}

LEMMA KeepsOnward ==
  ASSUME NEW c, NEW d, NEW e, Keeps(c, d), Keeps(d, e)
  PROVE  Keeps(c, e)
BY DEF Keeps

LEMMA KeepsItself ==
  ASSUME NEW c
  PROVE  Keeps(c, c)
BY DEF Keeps

(* An aggregate is never the status of shadow mode.                        *)
LEMMA AggregateLive ==
  ASSUME NEW parts
  PROVE  Aggregate(parts) # "shadow_planned"
BY DEF Aggregate

LEMMA RecomputedKeeps ==
  ASSUME NEW c, Shaped(c)
  PROVE  /\ Shaped(Recomputed(c))
         /\ Recomputed(c).comps = c.comps
         /\ Keeps(c, Recomputed(c))
<1> DEFINE x == Aggregate(Parts(c.comps))
<1>1. x # "shadow_planned"
  BY AggregateLive
<1>2. /\ Recomputed(c) = [c EXCEPT !.status = x]
      /\ {"comps", "status", "for", "rollout"} \subseteq DOMAIN c
  BY DEF Recomputed, Shaped
<1> HIDE DEF x
<1>3. /\ Recomputed(c).comps = c.comps
      /\ Recomputed(c).for = c.for
      /\ Recomputed(c).rollout = c.rollout
      /\ Recomputed(c).status = x
      /\ DOMAIN Recomputed(c) = DOMAIN c
  BY <1>2
<1>4. Shaped(Recomputed(c))
  BY <1>1, <1>2, <1>3 DEF Shaped
<1> QED BY <1>3, <1>4 DEF Keeps

(* The components of c replaced, with the status that goes with them.      *)
LEMMA Recomponed ==
  ASSUME NEW c, Shaped(c), NEW comps,
         DOMAIN comps \subseteq Kind, DOMAIN c.comps \subseteq DOMAIN comps,
         \A k \in DOMAIN comps : /\ {"status", "task"} \subseteq DOMAIN comps[k]
                                 /\ comps[k].status # "blocked",
         \A k \in DOMAIN c.comps : Closed(c.comps[k]) => comps[k] = c.comps[k]
  PROVE  LET d == [c EXCEPT !.comps = comps] IN
         Shaped(d) /\ Keeps(c, d) /\ d.comps = comps /\ d.status = c.status
<1> DEFINE d == [c EXCEPT !.comps = comps]
<1>1. {"comps", "status", "for", "rollout"} \subseteq DOMAIN c
  BY DEF Shaped
<1>2. /\ d.comps = comps /\ d.for = c.for /\ d.rollout = c.rollout
      /\ d.status = c.status /\ DOMAIN d = DOMAIN c
  BY <1>1
<1> HIDE DEF d
<1>3. Shaped(d)
  BY <1>1, <1>2 DEF Shaped
<1>4. Keeps(c, d)
  BY <1>2 DEF Keeps
<1> QED BY <1>2, <1>3, <1>4 DEF d

(* repair_latest_consumers writes off what still waits.                    *)
LEMMA RepairedKeeps ==
  ASSUME NEW c, Shaped(c)
  PROVE  /\ Shaped(Repaired(c)) /\ Keeps(c, Repaired(c))
         /\ DOMAIN Repaired(c).comps = DOMAIN c.comps
<1> DEFINE comps == [k \in DOMAIN c.comps |->
                       IF Overdue(c, k) THEN [c.comps[k] EXCEPT !.status = "partial"]
                                        ELSE c.comps[k]]
           d == [c EXCEPT !.comps = comps]
<1>1. CASE ~Live \/ \A k \in DOMAIN c.comps : ~Overdue(c, k)
  <2>1. Repaired(c) = c
    BY <1>1 DEF Repaired
  <2> QED BY <2>1, KeepsItself
<1>2. CASE ~(~Live \/ \A k \in DOMAIN c.comps : ~Overdue(c, k))
  <2>1. Repaired(c) = Recomputed(d)
    BY <1>2 DEF Repaired
  <2>2. \A k \in DOMAIN c.comps : {"status", "task"} \subseteq DOMAIN c.comps[k]
    BY DEF Shaped
  <2>3. ASSUME NEW k \in DOMAIN comps
        PROVE  /\ {"status", "task"} \subseteq DOMAIN comps[k]
               /\ comps[k].status # "blocked"
    <3>1. CASE Overdue(c, k)
      <4>1. comps[k] = [c.comps[k] EXCEPT !.status = "partial"]
        BY <3>1
      <4> QED BY <4>1, <2>2
    <3>2. CASE ~Overdue(c, k)
      BY <3>2 DEF Shaped
    <3> QED BY <3>1, <3>2
  <2>4. \A k \in DOMAIN c.comps : Closed(c.comps[k]) => comps[k] = c.comps[k]
    BY DEF Closed, Overdue
  <2>5. DOMAIN comps = DOMAIN c.comps /\ DOMAIN comps \subseteq Kind
    BY DEF Shaped
  <2> HIDE DEF comps
  <2>6. Shaped(d) /\ Keeps(c, d) /\ d.comps = comps
    BY <2>3, <2>4, <2>5, Recomponed
  <2> HIDE DEF d
  <2> QED BY <2>1, <2>5, <2>6, RecomputedKeeps, KeepsOnward
<1> QED BY <1>1, <1>2

(* _finalize_expired_checkpoint writes off what has not begun.             *)
LEMMA FinalizedKeeps ==
  ASSUME NEW c, Shaped(c)
  PROVE  /\ Shaped(Finalized(c)) /\ Keeps(c, Finalized(c))
         /\ DOMAIN Finalized(c).comps = DOMAIN c.comps
<1> DEFINE comps == [k \in DOMAIN c.comps |->
       CASE c.comps[k].status = "pending" ->
              [c.comps[k] EXCEPT !.status = "missed_due_to_capacity"]
         [] c.comps[k].status = "blocked" ->
              [c.comps[k] EXCEPT !.status = "missed_due_to_service_gap"]
         [] OTHER -> c.comps[k]]
           d == [c EXCEPT !.comps = comps]
<1>1. Finalized(c) = Recomputed(d)
  BY DEF Finalized
<1>2. \A k \in DOMAIN c.comps : /\ {"status", "task"} \subseteq DOMAIN c.comps[k]
                               /\ c.comps[k].status # "blocked"
  BY DEF Shaped
<1>3. ASSUME NEW k \in DOMAIN comps
      PROVE  /\ {"status", "task"} \subseteq DOMAIN comps[k]
             /\ comps[k].status # "blocked"
             /\ Closed(c.comps[k]) => comps[k] = c.comps[k]
  <2>1. CASE c.comps[k].status = "pending"
    <3>1. comps[k] = [c.comps[k] EXCEPT !.status = "missed_due_to_capacity"]
      BY <2>1
    <3>2. ~Closed(c.comps[k])
      BY <2>1 DEF Closed, Startable
    <3> QED BY <3>1, <3>2, <1>2
  <2>2. CASE c.comps[k].status # "pending"
    <3>1. comps[k] = c.comps[k]
      BY <2>2, <1>2
    <3> QED BY <3>1, <1>2
  <2> QED BY <2>1, <2>2
<1>4. DOMAIN comps = DOMAIN c.comps /\ DOMAIN comps \subseteq Kind
  BY DEF Shaped
<1> HIDE DEF comps
<1>5. Shaped(d) /\ Keeps(c, d) /\ d.comps = comps
  BY <1>3, <1>4, Recomponed
<1> HIDE DEF d
<1> QED BY <1>1, <1>4, <1>5, RecomputedKeeps, KeepsOnward

(* A component as it is inserted.                                          *)
LEMMA NewComponentShape ==
  ASSUME NEW plan, Plannable(plan), NEW k, NEW joins
  PROVE  LET p == NewComponent(k, plan, joins) IN
         {"status", "task"} \subseteq DOMAIN p /\ p.status # "blocked"
BY DEF NewComponent, Plannable

(* materialize leaves an existing cohort what it has.                      *)
LEMMA RematerializedKeeps ==
  ASSUME NEW c, Shaped(c), NEW plan, Plannable(plan), NEW joins
  PROVE  LET d == Rematerialized(c, plan, joins) IN
         /\ Shaped(d) /\ Keeps(c, d)
         /\ DOMAIN d.comps = DOMAIN c.comps \cup DOMAIN plan.want
<1> DEFINE comps == [k \in DOMAIN c.comps \cup DOMAIN plan.want |->
        IF k \notin DOMAIN c.comps THEN NewComponent(k, plan, joins)
        ELSE IF Rejoins(c, k, plan)
        THEN [c.comps[k] EXCEPT !.status = "joined_active_task"]
        ELSE c.comps[k]]
           d == [c EXCEPT !.comps = comps]
<1>1. Rematerialized(c, plan, joins) = d
  BY DEF Rematerialized
<1>2. \A k \in DOMAIN c.comps : /\ {"status", "task"} \subseteq DOMAIN c.comps[k]
                               /\ c.comps[k].status # "blocked"
  BY DEF Shaped
<1>3. ASSUME NEW k \in DOMAIN comps
      PROVE  /\ {"status", "task"} \subseteq DOMAIN comps[k]
             /\ comps[k].status # "blocked"
  <2>1. CASE k \notin DOMAIN c.comps
    <3>1. comps[k] = NewComponent(k, plan, joins)
      BY <2>1
    <3> QED BY <3>1, NewComponentShape
  <2>2. CASE k \in DOMAIN c.comps /\ Rejoins(c, k, plan)
    <3>1. comps[k] = [c.comps[k] EXCEPT !.status = "joined_active_task"]
      BY <2>2
    <3> QED BY <3>1, <2>2, <1>2
  <2>3. CASE k \in DOMAIN c.comps /\ ~Rejoins(c, k, plan)
    BY <2>3, <1>2
  <2> QED BY <2>1, <2>2, <2>3
<1>4. \A k \in DOMAIN c.comps : Closed(c.comps[k]) => comps[k] = c.comps[k]
  BY DEF Closed, Rejoins
<1>5. /\ DOMAIN comps = DOMAIN c.comps \cup DOMAIN plan.want
      /\ DOMAIN comps \subseteq Kind
  BY DEF Shaped, Plannable
<1> HIDE DEF comps
<1>6. Shaped(d) /\ Keeps(c, d) /\ d.comps = comps
  BY <1>3, <1>4, <1>5, Recomponed
<1> QED BY <1>1, <1>5, <1>6

LEMMA NewCohortShape ==
  ASSUME NEW plan, Plannable(plan), plan.status # "shadow_planned", NEW joins
  PROVE  LET c == NewCohort(plan, joins) IN
         /\ Shaped(c) /\ c.for = plan.for
         /\ DOMAIN c.comps = DOMAIN plan.want
<1> DEFINE c == NewCohort(plan, joins)
<1>1. /\ c.comps = [k \in DOMAIN plan.want |-> NewComponent(k, plan, joins)]
      /\ c.rollout = config.rollout
      /\ c.status = IF Live THEN plan.status ELSE "shadow_planned"
      /\ c.for = plan.for
      /\ {"comps", "status", "for", "rollout"} \subseteq DOMAIN c
  BY DEF NewCohort
<1> HIDE DEF c
<1>2. \A k \in DOMAIN c.comps : /\ {"status", "task"} \subseteq DOMAIN c.comps[k]
                               /\ c.comps[k].status # "blocked"
  BY <1>1, NewComponentShape
<1>3. c.status = "shadow_planned" => c.rollout # "live"
  BY <1>1 DEF Live
<1>4. DOMAIN c.comps \subseteq Kind
  BY <1>1 DEF Plannable
<1> QED BY <1>1, <1>2, <1>3, <1>4 DEF Shaped, c

-----------------------------------------------------------------------------
(* What becomes of all cohorts in a plan                                   *)

Shapes == \A key \in DOMAIN cohorts : Shaped(cohorts[key])

LEMMA StageKindsKinds ==
  ASSUME NEW stage, NEW complete
  PROVE  StageKinds(stage, complete) \subseteq Kind
BY DEF StageKinds, Kind

LEMMA WantedKinds ==
  ASSUME NEW kinds, kinds \subseteq Kind,
         NEW tier, NEW deep, NEW dormant, NEW interval
  PROVE  DOMAIN Wanted(kinds, tier, deep, dormant, interval) \subseteq Kind
<1>1. "hot_deep" \in Kind
  BY DEF Kind
<1> QED BY <1>1 DEF Wanted

LEMMA AgePlanPlannable ==
  ASSUME NEW h, NEW sig
  PROVE  /\ Plannable(AgePlan(h, sig))
         /\ AgeKey(h) \notin DOMAIN cohorts => AgePlan(h, sig).status # "shadow_planned"
         /\ AgePlan(h, sig).for = h
<1>1. {"video_metrics", "hot_core", "latest_reconciliation"} \subseteq Kind
  BY DEF Kind
<1>2. DOMAIN AgePlan(h, sig).want \subseteq Kind
  BY <1>1, WantedKinds DEF AgePlan
<1>3. AgePlan(h, sig).part \in {"pending", "not_applicable", "missed_due_to_service_gap"}
  BY DEF AgePlan
<1>4. AgePlan(h, sig).status = Target(h) /\ AgePlan(h, sig).for = h
  BY DEF AgePlan
<1>5. AgeKey(h) \notin DOMAIN cohorts => Target(h) # "shadow_planned"
  BY DEF Target, Shadowed
<1> QED BY <1>2, <1>3, <1>4, <1>5 DEF Plannable

LEMMA SeenKeeps ==
  ASSUME Shapes, NEW h, AgeKey(h) \in DOMAIN cohorts
  PROVE  Shaped(Seen(h)) /\ Keeps(cohorts[AgeKey(h)], Seen(h))
<1> DEFINE c == Repaired(cohorts[AgeKey(h)])
<1>1. Shaped(c) /\ Keeps(cohorts[AgeKey(h)], c)
  BY RepairedKeeps DEF Shapes
<1>2. Seen(h) = c \/ Seen(h) = Finalized(c)
  BY DEF Seen
<1> HIDE DEF c
<1> QED BY <1>1, <1>2, FinalizedKeeps, KeepsOnward

LEMMA LookedKeeps ==
  ASSUME Shapes, NEW h, NEW sig, NEW joins
  PROVE  /\ Shaped(Looked(h, sig, joins))
         /\ AgeKey(h) \in DOMAIN cohorts =>
              Keeps(cohorts[AgeKey(h)], Looked(h, sig, joins))
<1>1. CASE AgeKey(h) \in DOMAIN cohorts
  <2>1. Looked(h, sig, joins) = Rematerialized(Seen(h), AgePlan(h, sig), joins)
    BY <1>1 DEF Looked
  <2> QED BY <1>1, <2>1, SeenKeeps, AgePlanPlannable, RematerializedKeeps, KeepsOnward
<1>2. CASE AgeKey(h) \notin DOMAIN cohorts
  <2>1. Looked(h, sig, joins) = NewCohort(AgePlan(h, sig), joins)
    BY <1>2 DEF Looked
  <2> QED BY <1>2, <2>1, AgePlanPlannable, NewCohortShape
<1> QED BY <1>1, <1>2

LEMMA CheckpointedKeeps ==
  ASSUME Shapes, NEW sig, NEW joins
  PROVE  LET cs == Checkpointed(sig, joins) IN
         /\ DOMAIN cs = {AgeKey(h) : h \in DueAges} \cup DOMAIN cohorts
         /\ \A key \in DOMAIN cs : Shaped(cs[key])
         /\ \A key \in DOMAIN cohorts : Keeps(cohorts[key], cs[key])
<1> DEFINE cs == Checkpointed(sig, joins)
           ages == {AgeKey(h) : h \in DueAges}
<1>1. /\ DOMAIN cs = ages \cup DOMAIN cohorts
      /\ \A key \in DOMAIN cs :
           cs[key] = IF key \in ages THEN Looked(key[2], sig, joins)
                                     ELSE Repaired(cohorts[key])
  BY DEF Checkpointed
<1>2. \A h : AgeKey(h)[2] = h
  BY DEF AgeKey
<1> HIDE DEF cs
<1>3. ASSUME NEW key \in DOMAIN cs
      PROVE  /\ Shaped(cs[key])
             /\ key \in DOMAIN cohorts => Keeps(cohorts[key], cs[key])
  <2>1. CASE key \in ages
    <3>1. PICK h \in DueAges : key = AgeKey(h)
      BY <2>1
    <3>2. cs[key] = Looked(h, sig, joins)
      BY <1>1, <1>2, <2>1, <3>1
    <3> QED BY <3>1, <3>2, LookedKeeps
  <2>2. CASE key \notin ages
    <3>1. key \in DOMAIN cohorts /\ cs[key] = Repaired(cohorts[key])
      BY <1>1, <2>2
    <3> QED BY <3>1, RepairedKeeps DEF Shapes
  <2> QED BY <2>1, <2>2
<1> QED BY <1>1, <1>3 DEF cs

LEMMA MaterializedKeeps ==
  ASSUME NEW cs, \A key \in DOMAIN cs : Shaped(cs[key]),
         NEW plan, Plannable(plan), plan.status # "shadow_planned",
         NEW key, NEW joins
  PROVE  LET c == Materialized(cs, key, plan, joins) IN
         /\ Shaped(c)
         /\ key \in DOMAIN cs => /\ Keeps(cs[key], c)
                                 /\ DOMAIN plan.want \subseteq DOMAIN c.comps
         /\ key \notin DOMAIN cs => /\ c.for = plan.for
                                    /\ DOMAIN c.comps = DOMAIN plan.want
<1>1. CASE key \in DOMAIN cs
  <2>1. Materialized(cs, key, plan, joins) = Rematerialized(cs[key], plan, joins)
    BY <1>1 DEF Materialized
  <2> QED BY <1>1, <2>1, RematerializedKeeps
<1>2. CASE key \notin DOMAIN cs
  <2>1. Materialized(cs, key, plan, joins) = NewCohort(plan, joins)
    BY <1>2 DEF Materialized
  <2> QED BY <1>2, <2>1, NewCohortShape
<1> QED BY <1>1, <1>2

(* What one plan more, or none, does to the cohorts.                       *)
LEMMA WithDomain ==
  ASSUME NEW cs, NEW plans, NEW joins
  PROVE  /\ DOMAIN With(cs, plans, joins) = {plan.key : plan \in plans} \cup DOMAIN cs
         /\ \A key \in DOMAIN cs : key \in DOMAIN With(cs, plans, joins)
         /\ \A plan \in plans : plan.key \in DOMAIN With(cs, plans, joins)
BY DEF With

LEMMA WithOthers ==
  ASSUME NEW cs, NEW plans, NEW joins, NEW key \in DOMAIN cs,
         \A plan \in plans : plan.key # key
  PROVE  With(cs, plans, joins)[key] = cs[key]
BY DEF With

LEMMA WithPlan ==
  ASSUME NEW cs, NEW plans, NEW joins, NEW plan \in plans,
         \A p, q \in plans : p = q
  PROVE  With(cs, plans, joins)[plan.key] = Materialized(cs, plan.key, plan, joins)
<1>1. plan = CHOOSE p \in plans : p.key = plan.key
  OBVIOUS
<1>2. plan.key \in {p.key : p \in plans}
  OBVIOUS
<1> QED BY <1>1, <1>2 DEF With

LEMMA WithKeeps ==
  ASSUME NEW cs, \A key \in DOMAIN cs : Shaped(cs[key]),
         NEW plans, NEW joins,
         \A plan \in plans : Plannable(plan) /\ plan.status # "shadow_planned",
         \A p, q \in plans : p = q
  PROVE  LET ds == With(cs, plans, joins) IN
         /\ \A key \in DOMAIN ds : Shaped(ds[key])
         /\ \A key \in DOMAIN cs : Keeps(cs[key], ds[key])
<1> DEFINE ds == With(cs, plans, joins)
<1> SUFFICES ASSUME NEW key \in DOMAIN ds
             PROVE  /\ Shaped(ds[key])
                    /\ key \in DOMAIN cs => Keeps(cs[key], ds[key])
  BY WithDomain
<1>1. CASE \E plan \in plans : plan.key = key
  <2>1. PICK plan \in plans : plan.key = key
    BY <1>1
  <2>2. ds[key] = Materialized(cs, key, plan, joins)
    BY <2>1, WithPlan
  <2> HIDE DEF ds
  <2> QED BY <2>1, <2>2, MaterializedKeeps
<1>2. CASE \A plan \in plans : plan.key # key
  <2>1. key \in DOMAIN cs
    <3>1. DOMAIN ds = {plan.key : plan \in plans} \cup DOMAIN cs
      BY WithDomain
    <3> HIDE DEF ds
    <3> QED BY <1>2, <3>1
  <2>2. ds[key] = cs[key]
    BY <1>2, <2>1, WithOthers
  <2> HIDE DEF ds
  <2> QED BY <2>1, <2>2, KeepsItself
<1> QED BY <1>1, <1>2

LEMMA RecoveryPlannable ==
  ASSUME NEW cs, \A key \in DOMAIN cs : Shaped(cs[key]),
         \A h \in DueAges : AgeKey(h) \in DOMAIN cs,
         NEW sig, NEW interval
  PROVE  LET plans == Recovery(cs, sig, interval)
             overdue == {h \in DueAges : NeedsRecovery(h)}
             kinds == UNION {Lacking(cs, h) : h \in overdue}
         IN
         /\ \A plan \in plans : Plannable(plan) /\ plan.status # "shadow_planned"
         /\ \A p, q \in plans : p = q
         /\ \A plan \in plans : /\ plan.key = RecoveryKey(Max(overdue))
                                /\ DOMAIN plan.want = kinds
         /\ kinds # {} => plans # {}
<1> DEFINE overdue == {h \in DueAges : NeedsRecovery(h)}
           kinds == UNION {Lacking(cs, h) : h \in overdue}
<1>1. kinds \subseteq Kind
  <2>1. ASSUME NEW h \in overdue PROVE Lacking(cs, h) \subseteq Kind
    BY DEF Lacking, Shaped
  <2> QED BY <2>1
<1>2. \A plan \in Recovery(cs, sig, interval) :
        /\ plan.status = "planned" /\ plan.part = "pending"
        /\ DOMAIN plan.want = kinds
        /\ plan.key = RecoveryKey(Max(overdue))
  BY DEF Recovery
<1>3. /\ \A p, q \in Recovery(cs, sig, interval) : p = q
      /\ kinds # {} => Recovery(cs, sig, interval) # {}
  BY DEF Recovery
<1> QED BY <1>1, <1>2, <1>3 DEF Plannable

LEMMA RoutinePlannable ==
  ASSUME NEW found, NEW sig, NEW interval, NEW recovery
  PROVE  LET plans == Routine(found, sig, interval, recovery) IN
         /\ \A plan \in plans : Plannable(plan) /\ plan.status # "shadow_planned"
         /\ \A p, q \in plans : p = q
         /\ \A plan \in plans : /\ plan.key = RoutineKey(FloorBucket(now))
                                /\ plan.for = FloorBucket(now)
         /\ plans # {} => Due
<1>1. \A plan \in Routine(found, sig, interval, recovery) :
        /\ plan.status = "planned" /\ plan.part = "pending"
        /\ plan.key = RoutineKey(FloorBucket(now))
        /\ plan.for = FloorBucket(now)
        /\ plan.want = Wanted(StageKinds(sig.stage, found.frontier), sig.effective,
                              FirstAdoption /\ sig.stage = "active",
                              sig.stage = "dormant", interval)
  BY DEF Routine
<1>2. \A p, q \in Routine(found, sig, interval, recovery) : p = q
  BY DEF Routine
<1>3. Routine(found, sig, interval, recovery) # {} => Due
  BY DEF Routine
<1> QED BY <1>1, <1>2, <1>3, StageKindsKinds, WantedKinds DEF Plannable

-----------------------------------------------------------------------------
(* The steps                                                               *)

(* What plan_due works out, one after the other.                           *)
PlanOf(found, sig, interval, cs, recovery, recovered, routine) ==
  /\ sig = Signals(found)
  /\ interval = Interval(found, sig)
  /\ cs = Checkpointed(sig, found.joins)
  /\ recovery = Recovery(cs, sig, interval)
  /\ recovered = With(cs, recovery, found.joins)
  /\ routine = Routine(found, sig, interval, recovery)

Committed(found, sig, interval, cs, recovery, recovered, routine) ==
  /\ CheckpointsFit(sig, found.over)
  /\ Fits(cs, recovery, found.over)
  /\ Fits(recovered, routine, found.over)
  /\ cohorts' = With(recovered, routine, found.joins)
  /\ gaps' = gaps \cup IF Due THEN GapOf(video.nextDue, interval) ELSE {}
  /\ video' = Recorded(sig, interval)

LEMMA PlanCases ==
  ASSUME NEW found, Plan(found)
  PROVE  /\ UNCHANGED <<now, config>>
         /\ \/ outcome' = "raised" /\ UNCHANGED <<video, cohorts, gaps>>
            \/ \E sig, interval, cs, recovery, recovered, routine :
                 /\ PlanOf(found, sig, interval, cs, recovery, recovered, routine)
                 /\ Committed(found, sig, interval, cs, recovery, recovered, routine)
BY DEF Plan, PlanOf, Committed, RecordGaps

(* What a plan that is committed leaves of the cohorts.                    *)
LEMMA CommittedKeeps ==
  ASSUME Shapes, NEW found, NEW sig, NEW interval, NEW cs, NEW recovery,
         NEW recovered, NEW routine,
         PlanOf(found, sig, interval, cs, recovery, recovered, routine),
         Committed(found, sig, interval, cs, recovery, recovered, routine)
  PROVE  /\ DOMAIN cs = {AgeKey(h) : h \in DueAges} \cup DOMAIN cohorts
         /\ \A key \in DOMAIN cs : Shaped(cs[key]) /\ Keeps(cs[key], recovered[key])
         /\ DOMAIN recovered = {plan.key : plan \in recovery} \cup DOMAIN cs
         /\ \A key \in DOMAIN recovered :
              Shaped(recovered[key]) /\ Keeps(recovered[key], cohorts'[key])
         /\ DOMAIN cohorts' = {plan.key : plan \in routine} \cup DOMAIN recovered
         /\ Shapes'
         /\ \A key \in DOMAIN cohorts :
              key \in DOMAIN cohorts' /\ Keeps(cohorts[key], cohorts'[key])
<1>1. /\ DOMAIN cs = {AgeKey(h) : h \in DueAges} \cup DOMAIN cohorts
      /\ \A key \in DOMAIN cs : Shaped(cs[key])
      /\ \A key \in DOMAIN cohorts : Keeps(cohorts[key], cs[key])
  BY CheckpointedKeeps DEF PlanOf
<1>2. /\ DOMAIN recovered = {plan.key : plan \in recovery} \cup DOMAIN cs
      /\ \A key \in DOMAIN recovered : Shaped(recovered[key])
      /\ \A key \in DOMAIN cs : Keeps(cs[key], recovered[key])
  <2>1. /\ \A plan \in recovery : Plannable(plan) /\ plan.status # "shadow_planned"
        /\ \A p, q \in recovery : p = q
    BY <1>1, RecoveryPlannable DEF PlanOf
  <2>2. recovered = With(cs, recovery, found.joins)
    BY DEF PlanOf
  <2> QED BY <1>1, <2>1, <2>2, WithDomain, WithKeeps
<1>3. /\ DOMAIN cohorts' = {plan.key : plan \in routine} \cup DOMAIN recovered
      /\ \A key \in DOMAIN cohorts' : Shaped(cohorts'[key])
      /\ \A key \in DOMAIN recovered : Keeps(recovered[key], cohorts'[key])
  <2>1. /\ \A plan \in routine : Plannable(plan) /\ plan.status # "shadow_planned"
        /\ \A p, q \in routine : p = q
    BY RoutinePlannable DEF PlanOf
  <2> QED BY <1>2, <2>1, WithDomain, WithKeeps DEF Committed
<1>4. ASSUME NEW key \in DOMAIN cohorts
      PROVE  key \in DOMAIN cohorts' /\ Keeps(cohorts[key], cohorts'[key])
  <2>1. key \in DOMAIN cs /\ key \in DOMAIN recovered /\ key \in DOMAIN cohorts'
    BY <1>1, <1>2, <1>3
  <2>2. Keeps(cohorts[key], cs[key]) /\ Keeps(cs[key], recovered[key])
    BY <1>1, <1>2, <2>1
  <2>3. Keeps(cohorts[key], recovered[key])
    BY <2>2, KeepsOnward
  <2> QED BY <2>1, <2>3, <1>3, KeepsOnward
<1> QED BY <1>1, <1>2, <1>3, <1>4 DEF Shapes

(* A worker moves a component that is still open.                          *)
LEMMA ExecuteKeeps ==
  ASSUME Shapes, NEW key \in DOMAIN cohorts, NEW k \in DOMAIN cohorts[key].comps,
         NEW result \in Outcomes, Execute(key, k, result)
  PROVE  /\ DOMAIN cohorts' = DOMAIN cohorts
         /\ Shapes'
         /\ \A other \in DOMAIN cohorts : Keeps(cohorts[other], cohorts'[other])
<1> DEFINE c == cohorts[key]
           p == Attempted(k, c.comps[k], result)
           comps == [c.comps EXCEPT ![k] = p]
           d == [c EXCEPT !.comps = comps]
<1>1. Shaped(c)
  BY DEF Shapes
<1>2. cohorts' = [cohorts EXCEPT ![key] = Recomputed(d)]
  BY DEF Execute
<1>3. ~Closed(c.comps[k])
  BY DEF Execute, Closed
<1>4. {"status", "task"} \subseteq DOMAIN c.comps[k]
  BY <1>1 DEF Shaped
<1>5. result # "blocked"
  BY OutcomeAssumption
<1>6. {"status", "task"} \subseteq DOMAIN p /\ p.status # "blocked"
  <2> HIDE DEF c
  <2> QED BY <1>4, <1>5 DEF Attempted
<1> HIDE DEF p, c
<1>7. /\ DOMAIN comps = DOMAIN c.comps
      /\ DOMAIN comps \subseteq Kind
      /\ \A j \in DOMAIN c.comps : comps[j] = IF j = k THEN p ELSE c.comps[j]
  BY <1>1 DEF Shaped
<1> HIDE DEF comps
<1>8. \A j \in DOMAIN comps : /\ {"status", "task"} \subseteq DOMAIN comps[j]
                              /\ comps[j].status # "blocked"
  BY <1>1, <1>6, <1>7 DEF Shaped
<1>9. \A j \in DOMAIN c.comps : Closed(c.comps[j]) => comps[j] = c.comps[j]
  BY <1>3, <1>7
<1>10. Shaped(d) /\ Keeps(c, d)
  BY <1>1, <1>7, <1>8, <1>9, Recomponed
<1> HIDE DEF d
<1>11. Shaped(Recomputed(d)) /\ Keeps(c, Recomputed(d))
  BY <1>10, RecomputedKeeps, KeepsOnward
<1> USE DEF c
<1>12. /\ DOMAIN cohorts' = DOMAIN cohorts
       /\ \A other \in DOMAIN cohorts :
            cohorts'[other] = IF other = key THEN Recomputed(d) ELSE cohorts[other]
  BY <1>2
<1> QED BY <1>11, <1>12, KeepsItself DEF Shapes

LEMMA InitShapes == Init => Shapes
BY DEF Init, Shapes

(* No step takes a cohort away, or touches a closed component.             *)
LEMMA NextKeeps ==
  ASSUME Shapes, [Next]_vars
  PROVE  /\ Shapes'
         /\ \A key \in DOMAIN cohorts :
              key \in DOMAIN cohorts' /\ Keeps(cohorts[key], cohorts'[key])
<1>1. CASE UNCHANGED cohorts
  BY <1>1, KeepsItself DEF Shapes
<1>2. CASE \E found \in Findings : Plan(found)
  <2>1. PICK found \in Findings : Plan(found)
    BY <1>2
  <2>2. CASE UNCHANGED cohorts
    BY <1>1, <2>2
  <2>3. CASE \E sig, interval, cs, recovery, recovered, routine :
                 /\ PlanOf(found, sig, interval, cs, recovery, recovered, routine)
                 /\ Committed(found, sig, interval, cs, recovery, recovered, routine)
    BY <2>3, CommittedKeeps
  <2> QED BY <2>1, <2>2, <2>3, PlanCases
<1>3. CASE \E key \in DOMAIN cohorts : \E k \in DOMAIN cohorts[key].comps :
             \E result \in Outcomes : Execute(key, k, result)
  BY <1>3, ExecuteKeeps
<1>4. CASE \E version \in DOMAIN Policies, rollout \in Rollouts :
             Configure(version, rollout)
  BY <1>1, <1>4 DEF Configure
<1>5. CASE Tick
  BY <1>1, <1>5 DEF Tick
<1>6. CASE UNCHANGED vars
  BY <1>1, <1>6 DEF vars
<1> QED BY <1>2, <1>3, <1>4, <1>5, <1>6 DEF Next

(* A component that had a task of its own and is closed is never reopened, *)
(* although plan_due plans every past checkpoint again at every run, and   *)
(* repairs and finalizes on the way.                                       *)
THEOREM ClosedTheorem == Spec => ClosedStays
<1>1. Shapes /\ [Next]_vars => Shapes'
  BY NextKeeps
<1>2. Shapes /\ [Next]_vars =>
        [\A key \in DOMAIN cohorts : \A k \in DOMAIN cohorts[key].comps :
           LET p == cohorts[key].comps[k] IN
           p.task # "none" /\ p.status \notin Startable =>
             cohorts'[key].comps[k] = p]_vars
  BY NextKeeps DEF Keeps, Closed
<1> QED BY <1>1, <1>2, InitShapes, PTL DEF Spec, ClosedStays

-----------------------------------------------------------------------------
(* The recovery                                                            *)

(* The clock and the configuration.                                        *)
Configured ==
  /\ now \in Nat
  /\ config \in [version : DOMAIN Policies, rollout : Rollouts]

LEMMA InitConfigured == Init => Configured
BY DEF Init, Configured

LEMMA NextConfigured ==
  ASSUME Configured, [Next]_vars
  PROVE  Configured'
<1>1. CASE UNCHANGED <<now, config>>
  BY <1>1 DEF Configured
<1>2. CASE Tick
  BY <1>2, PlannerAssumption DEF Tick, Configured, PlannerAssumption
<1>3. CASE \E version \in DOMAIN Policies, rollout \in Rollouts :
             Configure(version, rollout)
  BY <1>3 DEF Configure, Configured
<1>4. CASE \E found \in Findings : Plan(found)
  BY <1>1, <1>4 DEF Plan
<1>5. CASE \E key \in DOMAIN cohorts : \E k \in DOMAIN cohorts[key].comps :
             \E result \in Outcomes : Execute(key, k, result)
  BY <1>1, <1>5 DEF Execute
<1>6. CASE UNCHANGED vars
  BY <1>1, <1>6 DEF vars
<1> QED BY <1>2, <1>3, <1>4, <1>5, <1>6 DEF Next

(* The policy in force is one that the configuration accepts.              *)
LEMMA PolicyValid ==
  ASSUME Configured
  PROVE  /\ P.hours \subseteq Positive
         /\ P.lateness \in Positive /\ P.bucket \in Positive
         /\ P.lifecycle.dormantInterval \in Positive
         /\ P.lifecycle.probeInterval \in Positive
         /\ P.hot.sliceSeconds \in Positive
         /\ \A t \in Tier : /\ P.intervals[t].active \in Positive
                            /\ P.intervals[t].normal \in Positive
                            /\ P.hot.routine[t] \in Positive
                            /\ P.hot.checkpoint[t] \in Positive
<1>1. Accepted(P, 600)
  BY PlannerAssumption DEF PlannerAssumption, Configured, P
<1> QED BY <1>1 DEF Accepted, PositiveValid

(* In live mode, the ages whose checkpoints the planner recovers are those *)
(* that have expired.                                                      *)
LEMMA OverdueExpired ==
  ASSUME Shapes, Configured, Live, NEW sig, NEW over, CheckpointsFit(sig, over)
  PROVE  {h \in DueAges : NeedsRecovery(h)}
           = {h \in P.hours : FirstSeen <= h /\ now > h + P.lateness}
<1>1. ASSUME NEW h \in DueAges PROVE ~Shadowed(h)
  <2> SUFFICES ASSUME Shadowed(h) PROVE FALSE
    OBVIOUS
  <2>1. /\ AgeKey(h) \in DOMAIN cohorts
        /\ cohorts[AgeKey(h)].rollout # "live"
    BY DEF Shadowed, Shapes, Shaped
  <2>2. Seen(h).rollout = config.rollout
    BY <2>1 DEF CheckpointsFit, Accepts, SameCohort
  <2>3. Seen(h).rollout = cohorts[AgeKey(h)].rollout
    BY <2>1, SeenKeeps DEF Keeps
  <2> QED BY <2>1, <2>2, <2>3 DEF Live
<1>2. \A h \in DueAges : NeedsRecovery(h) <=> FirstSeen <= h /\ now > h + P.lateness
  BY <1>1 DEF NeedsRecovery
<1>3. \A h \in P.hours : now > h + P.lateness => h <= now
  BY PolicyValid DEF Configured, Positive
<1> QED BY <1>2, <1>3 DEF DueAges

(* What a plan in live mode recovers.                                      *)
LEMMA CommittedRecovers ==
  ASSUME Shapes, Configured, Live, NEW found, NEW sig, NEW interval, NEW cs,
         NEW recovery, NEW recovered, NEW routine,
         PlanOf(found, sig, interval, cs, recovery, recovered, routine),
         Committed(found, sig, interval, cs, recovery, recovered, routine)
  PROVE  LET expired == {h \in P.hours : FirstSeen <= h /\ now > h + P.lateness}
             lacking == {k \in Kind : \E h \in expired :
                           /\ k \in DOMAIN cohorts'[AgeKey(h)].comps
                           /\ cohorts'[AgeKey(h)].comps[k].status \notin Done}
             key == RecoveryKey(Max(expired))
         IN  lacking # {} =>
               /\ key \in DOMAIN cohorts'
               /\ lacking \subseteq DOMAIN cohorts'[key].comps
               /\ key \notin DOMAIN cohorts => lacking = DOMAIN cohorts'[key].comps
<1> DEFINE expired == {h \in P.hours : FirstSeen <= h /\ now > h + P.lateness}
           lacking == {k \in Kind : \E h \in expired :
                         /\ k \in DOMAIN cohorts'[AgeKey(h)].comps
                         /\ cohorts'[AgeKey(h)].comps[k].status \notin Done}
           key == RecoveryKey(Max(expired))
           kinds == UNION {Lacking(cs, h) : h \in expired}
<1>1. /\ DOMAIN cs = {AgeKey(h) : h \in DueAges} \cup DOMAIN cohorts
      /\ \A a \in DOMAIN cs : Shaped(cs[a])
  BY CheckpointedKeeps DEF PlanOf
<1>2. /\ expired = {h \in DueAges : NeedsRecovery(h)}
      /\ expired \subseteq DueAges
  <2>1. CheckpointsFit(sig, found.over)
    BY DEF Committed
  <2> QED BY <2>1, OverdueExpired
<1>3. /\ \A plan \in recovery : Plannable(plan) /\ plan.status # "shadow_planned"
      /\ \A p, q \in recovery : p = q
      /\ \A plan \in recovery : plan.key = key /\ DOMAIN plan.want = kinds
      /\ kinds # {} => recovery # {}
  <2>1. recovery = Recovery(cs, sig, interval)
    BY DEF PlanOf
  <2>2. \A h \in DueAges : AgeKey(h) \in DOMAIN cs
    BY <1>1
  <2> HIDE DEF expired
  <2> QED BY <1>1, <1>2, <2>1, <2>2, RecoveryPlannable DEF key, kinds
<1> HIDE DEF key, kinds
<1>5. /\ \A plan \in routine : Plannable(plan) /\ plan.status # "shadow_planned"
      /\ \A p, q \in routine : p = q
      /\ \A plan \in routine : plan.key = RoutineKey(FloorBucket(now))
  BY RoutinePlannable DEF PlanOf
<1>6. recovered = With(cs, recovery, found.joins)
  BY DEF PlanOf
<1>7. cohorts' = With(recovered, routine, found.joins)
  BY DEF Committed
<1>8. \A h, t : AgeKey(h) # RoutineKey(t) /\ RecoveryKey(h) # RoutineKey(t)
                /\ AgeKey(h) # RecoveryKey(t)
  BY DEF AgeKey, RoutineKey, RecoveryKey
<1>9. ASSUME NEW h \in expired PROVE cohorts'[AgeKey(h)] = cs[AgeKey(h)]
  <2>1. AgeKey(h) \in DOMAIN cs
    BY <1>1, <1>2
  <2>2. AgeKey(h) # key
    BY <1>8 DEF key
  <2>3. recovered[AgeKey(h)] = cs[AgeKey(h)] /\ AgeKey(h) \in DOMAIN recovered
    <3>1. \A plan \in recovery : plan.key # AgeKey(h)
      BY <1>3, <2>2
    <3>2. recovered[AgeKey(h)] = cs[AgeKey(h)]
      BY <1>6, <2>1, <3>1, WithOthers
    <3>3. AgeKey(h) \in DOMAIN recovered
      BY <1>6, <2>1, WithDomain
    <3> QED BY <3>2, <3>3
  <2>4. \A plan \in routine : plan.key # AgeKey(h)
    BY <1>5, <1>8
  <2> QED BY <1>7, <2>3, <2>4, WithOthers
<1> HIDE DEF expired
<1>10. lacking = kinds
  <2>1. \A h \in expired : DOMAIN cs[AgeKey(h)].comps \subseteq Kind
    BY <1>1, <1>2 DEF Shaped
  <2> QED BY <1>9, <2>1 DEF Lacking, kinds
<1> HIDE DEF lacking
<1>11. ASSUME lacking # {}
       PROVE  /\ key \in DOMAIN cohorts'
              /\ lacking \subseteq DOMAIN cohorts'[key].comps
              /\ key \notin DOMAIN cohorts => lacking = DOMAIN cohorts'[key].comps
  <2>1. PICK plan \in recovery : TRUE
    BY <1>3, <1>10, <1>11
  <2>2. plan.key = key /\ DOMAIN plan.want = lacking
    BY <1>3, <1>10
  <2>3. cohorts'[key] = Materialized(cs, key, plan, found.joins) /\ key \in DOMAIN cohorts'
    <3>1. recovered[key] = Materialized(cs, key, plan, found.joins)
      BY <1>3, <1>6, <2>2, WithPlan
    <3>2. key \in DOMAIN recovered
      BY <1>6, <2>2, WithDomain
    <3>3. \A p \in routine : p.key # key
      BY <1>5, <1>8 DEF key
    <3>4. cohorts'[key] = recovered[key]
      BY <1>7, <3>2, <3>3, WithOthers
    <3>5. key \in DOMAIN cohorts'
      BY <1>7, <3>2, WithDomain
    <3> QED BY <3>1, <3>4, <3>5
  <2>4. key \notin DOMAIN cohorts => key \notin DOMAIN cs
    BY <1>1, <1>8 DEF key
  <2> QED BY <1>1, <1>3, <2>2, <2>3, <2>4, MaterializedKeeps
<1> QED BY <1>11 DEF lacking, key, expired

(* A plan in live mode leaves a recovery for each kind that an expired     *)
(* checkpoint lacks evidence of, and a new recovery has nothing else       *)
(* (_missing_component_plans and the recovery of _plan_video).             *)
THEOREM RecoveryTheorem == Spec => RecoveryExact
<1>1. Shapes /\ Configured /\ [Next]_vars => Shapes' /\ Configured'
  BY NextKeeps, NextConfigured
<1>2. Shapes /\ Configured /\ [Next]_vars =>
      [outcome' = "planned" /\ Live =>
       LET expired == {h \in P.hours : FirstSeen <= h /\ now > h + P.lateness}
           lacking == {k \in Kind : \E h \in expired :
                         /\ k \in DOMAIN cohorts'[AgeKey(h)].comps
                         /\ cohorts'[AgeKey(h)].comps[k].status \notin Done}
           key == RecoveryKey(Max(expired))
       IN  lacking # {} =>
             /\ key \in DOMAIN cohorts'
             /\ lacking \subseteq DOMAIN cohorts'[key].comps
             /\ key \notin DOMAIN cohorts => lacking = DOMAIN cohorts'[key].comps]_vars
  <2> SUFFICES ASSUME Shapes, Configured, Next, outcome' = "planned", Live
               PROVE
       LET expired == {h \in P.hours : FirstSeen <= h /\ now > h + P.lateness}
           lacking == {k \in Kind : \E h \in expired :
                         /\ k \in DOMAIN cohorts'[AgeKey(h)].comps
                         /\ cohorts'[AgeKey(h)].comps[k].status \notin Done}
           key == RecoveryKey(Max(expired))
       IN  lacking # {} =>
             /\ key \in DOMAIN cohorts'
             /\ lacking \subseteq DOMAIN cohorts'[key].comps
             /\ key \notin DOMAIN cohorts => lacking = DOMAIN cohorts'[key].comps
    OBVIOUS
  <2>1. PICK found \in Findings : Plan(found)
    BY DEF Next, Execute, Configure, Tick
  <2>2. PICK sig, interval, cs, recovery, recovered, routine :
          /\ PlanOf(found, sig, interval, cs, recovery, recovered, routine)
          /\ Committed(found, sig, interval, cs, recovery, recovered, routine)
    BY <2>1, PlanCases
  <2> QED BY <2>2, CommittedRecovers
<1> QED BY <1>1, <1>2, InitShapes, InitConfigured, PTL DEF Spec, RecoveryExact

-----------------------------------------------------------------------------
(* The arithmetic of slots                                                 *)

(* A set of natural numbers has a least one.                               *)
LEMMA LeastIsLeast ==
  ASSUME NEW S \in SUBSET Nat, S # {}
  PROVE  Min(S) \in S /\ \A y \in S : Min(S) <= y
<1> DEFINE R == OpToRel(<, Nat)
<1>1. IsWellFoundedOn(R, Nat)
  BY NatLessThanWellFounded
<1>2. \A x, y \in Nat : <<y, x>> \in R <=> y < x
  BY DEF OpToRel
<1> HIDE DEF R
<1>3. PICK x \in S : \A y \in S : ~(<<y, x>> \in R)
  BY <1>1, WFMin
<1>4. \A y \in S : ~(y < x)
  BY <1>2, <1>3
<1>5. \A y \in S : x <= y
  BY <1>4
<1> QED BY <1>3, <1>5 DEF Min

(* The last multiple of b up to a.                                         *)
LEMMA LastMultiple ==
  ASSUME NEW a \in Nat, NEW b \in Positive
  PROVE  /\ a \div b \in Nat
         /\ b * (a \div b) \in Nat /\ b * (a \div b) <= a
         /\ a < b * (a \div b) + b
         /\ a - (a % b) = b * (a \div b)
<1>1. /\ a \div b \in Nat /\ a % b \in 0..(b - 1)
      /\ a = b * (a \div b) + (a % b)
  BY DEF Positive
<1> QED BY <1>1 DEF Positive

LEMMA Multiples ==
  ASSUME NEW b \in Positive, NEW m \in Nat, NEW n \in Nat
  PROVE  /\ b * (m + 1) = b * m + b
         /\ m < n => b * m + b <= b * n
<1>1. b * (m + 1) = b * m + b
  BY DEF Positive
<1>2. ASSUME m < n PROVE b * m + b <= b * n
  <2> DEFINE d == n - (m + 1)
  <2>1. d \in Nat /\ n = (m + 1) + d
    BY <1>2
  <2> HIDE DEF d
  <2>2. b * ((m + 1) + d) = b * (m + 1) + b * d /\ b * d \in Nat /\ b * m \in Nat
    BY <2>1 DEF Positive
  <2> QED BY <1>1, <2>1, <2>2 DEF Positive
<1> QED BY <1>1, <1>2

(* The bucket of a time, and of a later one.                               *)
LEMMA FloorBucketUp ==
  ASSUME Configured, NEW t \in Nat, NEW u \in Nat, t <= u
  PROVE  /\ FloorBucket(t) \in Nat /\ FloorBucket(t) <= t
         /\ FloorBucket(t) <= FloorBucket(u)
<1> DEFINE b == P.bucket
<1>1. b \in Positive
  BY PolicyValid
<1>2. FloorBucket(t) = b * (t \div b) /\ FloorBucket(u) = b * (u \div b)
  BY <1>1, LastMultiple DEF FloorBucket
<1> HIDE DEF b
<1>3. /\ t \div b \in Nat /\ b * (t \div b) \in Nat /\ b * (t \div b) <= t
      /\ u \div b \in Nat /\ b * (u \div b) \in Nat /\ u < b * (u \div b) + b
  BY <1>1, LastMultiple
<1>4. ~(u \div b < t \div b)
  <2> SUFFICES ASSUME u \div b < t \div b PROVE FALSE
    OBVIOUS
  <2>1. b * (u \div b) + b <= b * (t \div b)
    BY <1>1, <1>3, Multiples
  <2> QED BY <1>1, <1>3, <2>1 DEF Positive
<1>5. t \div b < u \div b => b * (t \div b) + b <= b * (u \div b)
  BY <1>1, <1>3, Multiples
<1>6. t \div b = u \div b \/ t \div b < u \div b
  BY <1>3, <1>4
<1>7. b * (t \div b) <= b * (u \div b)
  <2>1. CASE t \div b = u \div b
    BY <1>3, <2>1
  <2>2. CASE t \div b < u \div b
    BY <1>1, <1>3, <1>5, <2>2 DEF Positive
  <2> QED BY <1>6, <2>1, <2>2
<1> QED BY <1>2, <1>3, <1>7

(* The next slot is still to come, at most one interval ahead.             *)
LEMMA NextAligned ==
  ASSUME NEW t \in Nat, NEW i \in Positive
  PROVE  LET next == NextAlignedSlot(0, t, i) IN
         next \in Nat /\ t < next /\ next <= t + i
<1>1. NextAlignedSlot(0, t, i) = i * (t \div i + 1)
  <2>1. NextAlignedSlot(0, t, i) = 0 + i * ((t - 0) \div i + 1)
    BY DEF NextAlignedSlot
  <2>2. t - 0 = t
    OBVIOUS
  <2>3. i * (t \div i + 1) \in Int
    BY LastMultiple DEF Positive
  <2> QED BY <2>1, <2>2, <2>3
<1>2. /\ t \div i \in Nat /\ i * (t \div i) \in Nat
      /\ i * (t \div i) <= t /\ t < i * (t \div i) + i
  BY LastMultiple
<1>3. i * (t \div i + 1) = i * (t \div i) + i
  BY <1>2, Multiples
<1> QED BY <1>1, <1>2, <1>3 DEF Positive

LEMMA NextDueAhead ==
  ASSUME Configured, NEW i \in Positive, NEW stage
  PROVE  /\ NextDue(i, stage) \in Nat
         /\ FloorBucket(now) < NextDue(i, stage)
         /\ stage = "active" => now < NextDue(i, stage) /\ NextDue(i, stage) <= now + i
<1>1. now \in Nat /\ FloorBucket(now) \in Nat /\ FloorBucket(now) <= now
  BY FloorBucketUp DEF Configured
<1>2. CASE stage = "active"
  <2>1. NextDue(i, stage) = NextAlignedSlot(0, now, i)
    BY <1>2 DEF NextDue
  <2> QED BY <1>1, <2>1, NextAligned
<1>3. CASE stage # "active"
  <2>1. NextDue(i, stage) = FloorBucket(now) + i
    BY <1>3 DEF NextDue
  <2> QED BY <1>1, <1>3, <2>1 DEF Positive
<1> QED BY <1>2, <1>3

(* The slots that are written off end by the present bucket.               *)
LEMMA GapUpToNow ==
  ASSUME Configured, NEW due \in Nat, NEW i \in Positive,
         NEW g \in GapOf(due, i)
  PROVE  /\ g.start = due
         /\ g.end \in Nat /\ g.end <= FloorBucket(now)
<1> DEFINE a == FloorBucket(now) - due
<1>1. FloorBucket(now) \in Nat
  BY FloorBucketUp DEF Configured
<1>2. /\ ~(due >= FloorBucket(now))
      /\ g = [start |-> due, end |-> due + i * (a \div i), count |-> a \div i]
  BY DEF GapOf
<1>3. a \in Nat
  BY <1>1, <1>2
<1>4. g.start = due /\ g.end = due + i * (a \div i)
  BY <1>2
<1> HIDE DEF a
<1>5. i * (a \div i) \in Nat /\ i * (a \div i) <= a
  BY <1>3, LastMultiple
<1> QED BY <1>1, <1>3, <1>4, <1>5 DEF a

-----------------------------------------------------------------------------
(* The interval                                                            *)

LEMMA GrowthInterval ==
  ASSUME NEW age, NEW growth
  PROVE  AgeGrowthInterval(age, growth) \in Positive
BY DEF AgeGrowthInterval, Positive

LEMMA Effective ==
  ASSUME Configured, NEW age, NEW minute, NEW t \in Tier, NEW growth,
         NEW next \in Positive \cup {None}
  PROVE  LET i == EffectiveInterval(age, minute, t, growth, next, P) IN
         i \in Positive /\ (next # None => i <= next)
<1> DEFINE ceiling == IF InActivityWindow(minute, P) THEN P.intervals[t].active
                                                     ELSE P.intervals[t].normal
           S == {AgeGrowthInterval(age, growth), ceiling}
                  \cup (IF next = None THEN {} ELSE {next})
<1>1. ceiling \in Positive
  BY PolicyValid
<1>2. EffectiveInterval(age, minute, t, growth, next, P) = Min(S)
  BY DEF EffectiveInterval
<1> HIDE DEF ceiling
<1>3. S \subseteq Positive /\ S # {} /\ (next # None => next \in S)
  BY <1>1, GrowthInterval
<1> HIDE DEF S
<1>4. S \in SUBSET Nat
  BY <1>3 DEF Positive
<1>5. Min(S) \in S /\ \A y \in S : Min(S) <= y
  BY <1>3, <1>4, LeastIsLeast
<1>6. Min(S) \in Positive /\ (next # None => Min(S) <= next)
  BY <1>3, <1>5
<1> QED BY <1>2, <1>6

(* What the planner makes of the video is a tier and a stage.              *)
LEMMA Desired ==
  ASSUME NEW sig, sig.pinned = None
  PROVE  DesiredTier(sig, P) \in Tier
<1> DEFINE Pick(hits) == CHOOSE t \in hits : \A u \in hits : Rank[t] <= Rank[u]
<1>1. ASSUME NEW hits \in SUBSET {"s", "a", "b"}, hits # {}
      PROVE  Pick(hits) \in Tier
  <2>1. Rank["s"] = 0 /\ Rank["a"] = 1 /\ Rank["b"] = 2
    BY DEF Rank, Tier
  <2>2. \E t \in hits : \A u \in hits : Rank[t] <= Rank[u]
    <3>1. CASE "s" \in hits
      BY <2>1, <3>1
    <3>2. CASE "s" \notin hits /\ "a" \in hits
      BY <2>1, <3>2
    <3>3. CASE hits = {"b"}
      BY <2>1, <3>3
    <3> QED BY <1>1, <3>1, <3>2, <3>3
  <2>3. Pick(hits) \in hits
    BY <2>2
  <2> QED BY <2>3, <1>1 DEF Tier
<1>2. \/ DesiredTier(sig, P) \in {"s", "c"}
      \/ \E hits \in SUBSET {"s", "a", "b"} : hits # {} /\ DesiredTier(sig, P) = Pick(hits)
  BY DEF DesiredTier
<1> HIDE DEF Pick
<1> QED BY <1>1, <1>2 DEF Tier

(* The video's row between two plans.                                      *)
Rated ==
  /\ video.effective \in Tier
  /\ video.nextDue = None \/ video.nextDue \in Nat

LEMMA SignalsRated ==
  ASSUME Rated, NEW found
  PROVE  Signals(found).effective \in Tier
<1> DEFINE sig == [official |-> Official, age |-> now,
                   event |-> found.event, creator |-> FALSE,
                   pinned |-> None, views |-> found.growth,
                   comments |-> None, turnover |-> None,
                   complete |-> FALSE, confirmations |-> 0]
<1>1. DesiredTier(sig, P) \in Tier
  BY Desired
<1>2. Signals(found).effective = Assess(video, DesiredTier(sig, P), P.confirmations).effective
  BY DEF Signals
<1> HIDE DEF sig
<1>3. ASSUME NEW d \in Tier, NEW n
      PROVE  Assess(video, d, n).effective \in {d, video.effective}
  BY DEF Assess, Assessment
<1> QED BY <1>1, <1>2, <1>3 DEF Rated

(* While the video is active, the interval does not reach beyond the next  *)
(* checkpoint.                                                             *)
LEMMA IntervalPositive ==
  ASSUME Configured, NEW found, NEW sig, sig.effective \in Tier
  PROVE  LET i == Interval(found, sig) IN
         /\ i \in Positive
         /\ sig.stage = "active" => \A h \in P.hours : now < h => i <= h - now
<1> DEFINE ahead == {h \in P.hours : h > now}
           next == IF ahead = {} THEN None ELSE Min(ahead) - now
<1>1. ahead \in SUBSET Nat /\ now \in Nat
  BY PolicyValid DEF Configured, Positive
<1>2. ahead # {} => /\ Min(ahead) \in Nat /\ Min(ahead) > now
                    /\ \A h \in ahead : Min(ahead) <= h
  BY <1>1, LeastIsLeast
<1>3. next \in Positive \cup {None}
  BY <1>1, <1>2 DEF Positive
<1>4. ASSUME NEW h \in P.hours, now < h PROVE next # None /\ next <= h - now
  <2>1. h \in ahead /\ h \in Nat
    BY <1>1, <1>4
  <2>2. next = Min(ahead) - now /\ Min(ahead) \in Nat /\ Min(ahead) <= h
    BY <1>2, <2>1
  <2> HIDE DEF next, ahead
  <2>3. next \in Int /\ next <= h - now
    BY <1>1, <2>1, <2>2
  <2>4. None \notin Int
    BY PlannerAssumption DEF PlannerAssumption
  <2> QED BY <2>3, <2>4
<1>5. CASE sig.stage \notin {"dormant", "archived"}
  <2>1. Interval(found, sig)
          = EffectiveInterval(now, now % 1440, sig.effective, found.growth, next, P)
    BY <1>5 DEF Interval
  <2> HIDE DEF next
  <2>2. next # None => Interval(found, sig) <= next
    BY <1>3, <2>1, Effective
  <2>3. Interval(found, sig) \in Positive
    BY <1>3, <2>1, Effective
  <2>4. ASSUME NEW h \in P.hours, now < h PROVE Interval(found, sig) <= h - now
    <3>1. h \in Nat /\ next \in Positive
      BY <1>3, <1>4, <2>4, PolicyValid DEF Positive
    <3> QED BY <1>1, <1>4, <2>2, <2>3, <2>4, <3>1 DEF Positive
  <2> QED BY <2>3, <2>4
<1>6. CASE sig.stage \in {"dormant", "archived"}
  <2>1. Interval(found, sig) \in {P.lifecycle.dormantInterval, P.lifecycle.probeInterval}
    BY <1>6 DEF Interval
  <2> QED BY <1>6, <2>1, PolicyValid
<1> QED BY <1>5, <1>6

-----------------------------------------------------------------------------
(* The next slot                                                           *)

LEMMA InitRated == Init => Rated
BY DEF Init, Rated, Adopted, Tier

(* What a plan makes of the video's row.                                   *)
LEMMA CommittedRates ==
  ASSUME Configured, Rated, NEW found, NEW sig, NEW interval, NEW cs,
         NEW recovery, NEW recovered, NEW routine,
         PlanOf(found, sig, interval, cs, recovery, recovered, routine),
         Committed(found, sig, interval, cs, recovery, recovered, routine)
  PROVE  /\ interval \in Positive
         /\ sig.stage = "active" => \A h \in P.hours : now < h => interval <= h - now
         /\ video'.stage = sig.stage
         /\ video'.nextDue = IF Due THEN NextDue(interval, sig.stage)
                                    ELSE video.nextDue
         /\ Rated'
<1>1. sig.effective \in Tier
  BY SignalsRated DEF PlanOf
<1>2. interval = Interval(found, sig)
  BY DEF PlanOf
<1>3. /\ interval \in Positive
      /\ sig.stage = "active" => \A h \in P.hours : now < h => interval <= h - now
  BY <1>1, <1>2, IntervalPositive
<1>4. /\ video'.stage = sig.stage
      /\ video'.effective = sig.effective
      /\ video'.nextDue = IF Due THEN NextDue(interval, sig.stage) ELSE video.nextDue
  BY DEF Committed, Recorded
<1>5. NextDue(interval, sig.stage) \in Nat
  BY <1>3, NextDueAhead
<1> QED BY <1>1, <1>3, <1>4, <1>5 DEF Rated

LEMMA NextRated ==
  ASSUME Configured, Rated, [Next]_vars
  PROVE  Rated'
<1>1. CASE UNCHANGED video
  BY <1>1 DEF Rated
<1>2. CASE \E found \in Findings : Plan(found)
  <2>1. PICK found \in Findings : Plan(found)
    BY <1>2
  <2>2. CASE UNCHANGED video
    BY <1>1, <2>2
  <2>3. CASE \E sig, interval, cs, recovery, recovered, routine :
                 /\ PlanOf(found, sig, interval, cs, recovery, recovered, routine)
                 /\ Committed(found, sig, interval, cs, recovery, recovered, routine)
    BY <2>3, CommittedRates
  <2> QED BY <2>1, <2>2, <2>3, PlanCases
<1>3. CASE \E key \in DOMAIN cohorts : \E k \in DOMAIN cohorts[key].comps :
             \E result \in Outcomes : Execute(key, k, result)
  BY <1>1, <1>3 DEF Execute
<1>4. CASE \E version \in DOMAIN Policies, rollout \in Rollouts :
             Configure(version, rollout)
  BY <1>1, <1>4 DEF Configure
<1>5. CASE Tick
  BY <1>1, <1>5 DEF Tick
<1>6. CASE UNCHANGED vars
  BY <1>1, <1>6 DEF vars
<1> QED BY <1>2, <1>3, <1>4, <1>5, <1>6 DEF Next

(* While a video is active, the slot that a plan gives it lies ahead and   *)
(* not beyond the next checkpoint, for every accepted policy: the interval *)
(* is capped by the distance to that checkpoint before the slot is aligned *)
(* to the grid of the publication (_plan_video, next_aligned_slot).        *)
THEOREM DueTheorem == Spec => DueInTime
<1>1. Configured /\ Rated /\ [Next]_vars => Configured' /\ Rated'
  BY NextConfigured, NextRated
<1>2. Configured /\ Rated /\ [Next]_vars =>
        [outcome' = "planned" /\ video'.stage = "active"
           /\ video.nextDue # video'.nextDue =>
           /\ now < video'.nextDue
           /\ \A h \in P.hours : now < h => video'.nextDue <= h]_vars
  <2> SUFFICES ASSUME Configured, Rated, Next, outcome' = "planned",
                      video'.stage = "active", video.nextDue # video'.nextDue
               PROVE  /\ now < video'.nextDue
                      /\ \A h \in P.hours : now < h => video'.nextDue <= h
    OBVIOUS
  <2>1. PICK found \in Findings : Plan(found)
    BY DEF Next, Execute, Configure, Tick
  <2>2. PICK sig, interval, cs, recovery, recovered, routine :
          /\ PlanOf(found, sig, interval, cs, recovery, recovered, routine)
          /\ Committed(found, sig, interval, cs, recovery, recovered, routine)
    BY <2>1, PlanCases
  <2>3. /\ interval \in Positive
        /\ \A h \in P.hours : now < h => interval <= h - now
        /\ sig.stage = "active"
        /\ video'.nextDue = NextDue(interval, sig.stage)
    BY <2>2, CommittedRates
  <2>4. /\ video'.nextDue \in Nat
        /\ now < video'.nextDue /\ video'.nextDue <= now + interval
    BY <2>3, NextDueAhead
  <2>5. ASSUME NEW h \in P.hours, now < h PROVE video'.nextDue <= h
    <3>1. h \in Nat /\ now \in Nat /\ interval \in Nat /\ interval <= h - now
      BY <2>3, <2>5, PolicyValid DEF Configured, Positive
    <3> QED BY <2>4, <3>1
  <2> QED BY <2>4, <2>5
<1> QED BY <1>1, <1>2, InitConfigured, InitRated, PTL DEF Spec, DueInTime

-----------------------------------------------------------------------------
(* The gaps                                                                *)

(* A policy version does not change the planner's bucket.                  *)
EqualBuckets == \A v, w \in DOMAIN Policies : Policies[v].bucket = Policies[w].bucket

(* What has been served or written off is past, and before the next slot.  *)
Past(t) == t \in Nat /\ t <= FloorBucket(now)

Served ==
  /\ \A g \in gaps : /\ Past(g.end)
                     /\ video.nextDue \in Nat /\ g.end <= video.nextDue
  /\ \A key \in DOMAIN cohorts : key[1] = "routine" =>
       /\ Past(cohorts[key].for)
       /\ video.nextDue \in Nat /\ cohorts[key].for < video.nextDue

LEMMA InitServed == Init => Served /\ GapsExclusive
BY DEF Init, Served, GapsExclusive

(* The clock never takes the bucket back, and neither does a new version.  *)
LEMMA PastStays ==
  ASSUME EqualBuckets, Configured, Configured', now <= now', NEW t, Past(t)
  PROVE  Past(t)'
<1>1. P' = Policies[config'.version] /\ P = Policies[config.version]
  BY DEF P
<1>2. P'.bucket = P.bucket
  BY <1>1 DEF EqualBuckets, Configured
<1>3. FloorBucket(now)' = FloorBucket(now')
  BY <1>2 DEF FloorBucket
<1>4. /\ FloorBucket(now) \in Nat /\ FloorBucket(now') \in Nat
      /\ FloorBucket(now) <= FloorBucket(now')
  BY FloorBucketUp DEF Configured
<1> QED BY <1>3, <1>4 DEF Past

(* A step that neither plans nor takes anything away.                      *)
LEMMA ElsewhereServed ==
  ASSUME EqualBuckets, Configured, Configured', Served, now <= now',
         UNCHANGED <<video, gaps>>, DOMAIN cohorts' = DOMAIN cohorts,
         \A key \in DOMAIN cohorts : cohorts'[key].for = cohorts[key].for
  PROVE  Served' /\ (GapsExclusive => GapsExclusive')
<1>1. \A t : Past(t) => Past(t)'
  BY PastStays
<1>2. Served'
  BY <1>1 DEF Served
<1> QED BY <1>2 DEF GapsExclusive

(* A plan writes off the slots up to the present bucket, serves that bucket*)
(* at most, and has the next slot after it.                                *)
LEMMA CommittedServed ==
  ASSUME EqualBuckets, Shapes, Configured, Configured', Rated, Served, GapsExclusive,
         UNCHANGED now,
         NEW found, NEW sig, NEW interval, NEW cs, NEW recovery,
         NEW recovered, NEW routine,
         PlanOf(found, sig, interval, cs, recovery, recovered, routine),
         Committed(found, sig, interval, cs, recovery, recovered, routine)
  PROVE  Served' /\ GapsExclusive'
<1> DEFINE bucket == FloorBucket(now)
           found1 == IF Due THEN GapOf(video.nextDue, interval) ELSE {}
<1>1. /\ now \in Nat /\ bucket \in Nat
  BY FloorBucketUp DEF Configured
<1>2. /\ interval \in Positive
      /\ video'.nextDue = IF Due THEN NextDue(interval, sig.stage)
                                 ELSE video.nextDue
  BY CommittedRates
<1>3. Due => video'.nextDue \in Nat /\ bucket < video'.nextDue
  BY <1>2, NextDueAhead
<1>4. ~Due => video'.nextDue = video.nextDue
  BY <1>2
<1>5. \A t : Past(t) => Past(t)'
  BY <1>1, PastStays
<1>6. /\ gaps' = gaps \cup found1
      /\ found1 # {} => Due
      /\ \A g, h \in found1 : g = h
  BY DEF Committed, GapOf
<1>7. ASSUME NEW g \in found1
      PROVE  g.start = video.nextDue /\ Past(g.end)
  <2>1. Due /\ g \in GapOf(video.nextDue, interval)
    BY <1>7
  <2>2. video.nextDue \in Nat
    BY <2>1 DEF GapOf, Rated
  <2> QED BY <1>2, <2>1, <2>2, GapUpToNow DEF Past
(* A routine cohort is one there was, at the same time, or serves the      *)
(* present bucket.                                                         *)
<1>8. ASSUME NEW key \in DOMAIN cohorts', key[1] = "routine"
      PROVE  \/ key \in DOMAIN cohorts /\ cohorts'[key].for = cohorts[key].for
             \/ Due /\ cohorts'[key].for = bucket
  <2>1. CASE key \in DOMAIN cohorts
    BY <2>1, CommittedKeeps DEF Keeps
  <2>2. CASE key \notin DOMAIN cohorts
    <3>1. /\ \A plan \in recovery : plan.key[1] = "recovery"
          /\ \A h : AgeKey(h)[1] = "age"
      <4>1. recovery = Recovery(cs, sig, interval)
        BY DEF PlanOf
      <4> QED BY <4>1 DEF Recovery, RecoveryKey, AgeKey
    <3>2. key \notin DOMAIN recovered
      <4>1. DOMAIN recovered = {plan.key : plan \in recovery} \cup DOMAIN cs
        BY WithDomain DEF PlanOf
      <4>2. DOMAIN cs = {AgeKey(h) : h \in DueAges} \cup DOMAIN cohorts
        BY CheckpointedKeeps DEF PlanOf
      <4> QED BY <1>8, <2>2, <3>1, <4>1, <4>2
    <3>3. DOMAIN cohorts' = {plan.key : plan \in routine} \cup DOMAIN recovered
      BY WithDomain DEF Committed
    <3>4. PICK plan \in routine : plan.key = key
      BY <3>2, <3>3
    <3>5. routine = Routine(found, sig, interval, recovery)
      BY DEF PlanOf
    <3>6. /\ Due /\ plan.for = bucket
          /\ Plannable(plan) /\ plan.status # "shadow_planned"
          /\ \A p, q \in routine : p = q
      BY <3>5, RoutinePlannable
    <3>7. cohorts'[key] = Materialized(recovered, key, plan, found.joins)
      BY <3>4, <3>6, WithPlan DEF Committed
    <3>8. \A other \in DOMAIN recovered : Shaped(recovered[other])
      BY CommittedKeeps
    <3>9. cohorts'[key].for = plan.for
      BY <3>2, <3>6, <3>7, <3>8, MaterializedKeeps
    <3> QED BY <3>6, <3>9
  <2> QED BY <2>1, <2>2
<1>9. bucket <= FloorBucket(now)'
  <2>1. PICK b : b = bucket
    OBVIOUS
  <2>2. Past(b)
    BY <1>1, <2>1 DEF Past
  <2>3. Past(b)'
    BY <1>5, <2>2
  <2> QED BY <2>1, <2>3 DEF Past
<1> HIDE DEF bucket, found1
<1>10. ASSUME NEW g \in gaps'
       PROVE  Past(g.end)' /\ video'.nextDue \in Nat /\ g.end <= video'.nextDue
  <2>1. CASE g \in found1
    BY <1>1, <1>3, <1>5, <1>6, <1>7, <2>1 DEF Past, bucket
  <2>2. CASE g \in gaps
    BY <1>1, <1>3, <1>4, <1>5, <2>2 DEF Served, Past, bucket
  <2> QED BY <1>6, <2>1, <2>2
<1>11. ASSUME NEW key \in DOMAIN cohorts', key[1] = "routine"
       PROVE  /\ cohorts'[key].for \in Nat
              /\ cohorts'[key].for <= FloorBucket(now)'
              /\ video'.nextDue \in Nat /\ cohorts'[key].for < video'.nextDue
  <2>1. CASE key \in DOMAIN cohorts /\ cohorts'[key].for = cohorts[key].for
    <3>1. /\ cohorts[key].for \in Nat /\ cohorts[key].for <= bucket
          /\ video.nextDue \in Nat /\ cohorts[key].for < video.nextDue
      BY <1>11, <2>1 DEF Served, Past, bucket
    <3>2. \A t : Past(t) => t <= FloorBucket(now)'
      BY <1>5 DEF Past
    <3>3. cohorts[key].for <= FloorBucket(now)'
      BY <3>1, <3>2 DEF Past, bucket
    <3> QED BY <1>1, <1>3, <1>4, <2>1, <3>1, <3>3
  <2>2. CASE Due /\ cohorts'[key].for = bucket
    BY <1>1, <1>3, <1>9, <2>2
  <2> QED BY <1>8, <1>11, <2>1, <2>2
<1>12. Served'
  BY <1>10, <1>11 DEF Served, Past
<1>13. ASSUME NEW g \in gaps', NEW h \in gaps', g # h
       PROVE  g.end <= h.start \/ h.end <= g.start
  <2>1. CASE g \in gaps /\ h \in gaps
    BY <1>13, <2>1 DEF GapsExclusive
  <2>2. CASE g \in gaps /\ h \in found1
    BY <1>7, <2>2 DEF Served
  <2>3. CASE g \in found1 /\ h \in gaps
    BY <1>7, <2>3 DEF Served
  <2> QED BY <1>6, <1>13, <2>1, <2>2, <2>3
<1>14. ASSUME NEW g \in gaps', NEW key \in DOMAIN cohorts', key[1] = "routine",
              g.start <= cohorts'[key].for, cohorts'[key].for < g.end
       PROVE  FALSE
  <2>1. CASE g \in gaps /\ key \in DOMAIN cohorts
               /\ cohorts'[key].for = cohorts[key].for
    BY <1>14, <2>1 DEF GapsExclusive
  <2>2. CASE g \in found1 /\ key \in DOMAIN cohorts
               /\ cohorts'[key].for = cohorts[key].for
    <3>1. /\ cohorts[key].for < video.nextDue
          /\ cohorts[key].for \in Nat /\ video.nextDue \in Nat
      BY <1>14 , <2>2 DEF Served, Past
    <3>2. video.nextDue <= cohorts[key].for
      BY <1>7, <1>14, <2>2
    <3> QED BY <3>1, <3>2
  <2>3. CASE cohorts'[key].for = bucket
    <3>1. g.end \in Nat /\ g.end <= bucket
      BY <1>6, <1>7 DEF Served, Past, bucket
    <3> QED BY <1>1, <1>14, <2>3, <3>1
  <2> QED BY <1>6, <1>8, <1>14, <2>1, <2>2, <2>3
<1>15. GapsExclusive'
  BY <1>13, <1>14 DEF GapsExclusive
<1> QED BY <1>12, <1>15

LEMMA NextServed ==
  ASSUME EqualBuckets, Shapes, Configured, Configured', Rated, Served,
         GapsExclusive, [Next]_vars
  PROVE  Served' /\ GapsExclusive'
<1>1. CASE UNCHANGED <<video, cohorts, gaps>> /\ now <= now'
  BY <1>1, ElsewhereServed
<1>2. CASE \E found \in Findings : Plan(found)
  <2>1. PICK found \in Findings : Plan(found)
    BY <1>2
  <2>2. UNCHANGED now /\ now <= now'
    BY <2>1, PlanCases DEF Configured
  <2>3. CASE UNCHANGED <<video, cohorts, gaps>>
    BY <1>1, <2>2, <2>3
  <2>4. CASE \E sig, interval, cs, recovery, recovered, routine :
                 /\ PlanOf(found, sig, interval, cs, recovery, recovered, routine)
                 /\ Committed(found, sig, interval, cs, recovery, recovered, routine)
    BY <2>2, <2>4, CommittedServed
  <2> QED BY <2>1, <2>3, <2>4, PlanCases
<1>3. CASE \E key \in DOMAIN cohorts : \E k \in DOMAIN cohorts[key].comps :
             \E result \in Outcomes : Execute(key, k, result)
  <2>1. PICK key \in DOMAIN cohorts : \E k \in DOMAIN cohorts[key].comps :
             \E result \in Outcomes : Execute(key, k, result)
    BY <1>3
  <2>2. UNCHANGED <<now, video, gaps>> /\ now <= now'
    BY <2>1 DEF Execute, Configured
  <2>3. /\ DOMAIN cohorts' = DOMAIN cohorts
        /\ \A other \in DOMAIN cohorts : cohorts'[other].for = cohorts[other].for
    BY <2>1, ExecuteKeeps DEF Keeps
  <2> QED BY <2>2, <2>3, ElsewhereServed
<1>4. CASE \E version \in DOMAIN Policies, rollout \in Rollouts :
             Configure(version, rollout)
  BY <1>1, <1>4 DEF Configure, Configured
<1>5. CASE Tick
  BY <1>1, <1>5, PlannerAssumption DEF Tick, Configured, PlannerAssumption
<1>6. CASE UNCHANGED vars
  BY <1>1, <1>6 DEF vars, Configured
<1> QED BY <1>2, <1>3, <1>4, <1>5, <1>6 DEF Next

(* As long as no version changes the planner's bucket, a time that has been*)
(* written off as a gap was not served, and is written off once: what has  *)
(* been served or written off is past, and before the slot that is next    *)
(* due, from which the next gap starts (_plan_video, record_schedule_gap). *)
THEOREM GapsTheorem ==
  ASSUME EqualBuckets
  PROVE  Spec => []GapsExclusive
<1> DEFINE Inv == Shapes /\ Configured /\ Rated /\ Served /\ GapsExclusive
<1>1. Init => Inv
  BY InitShapes, InitConfigured, InitRated, InitServed
<1>2. Inv /\ [Next]_vars => Inv'
  BY NextKeeps, NextConfigured, NextRated, NextServed
<1> QED BY <1>1, <1>2, PTL DEF Spec

-----------------------------------------------------------------------------
(* The types: numbers                                                      *)

(* A bounded set of natural numbers has a greatest one.                    *)
LEMMA GreatestIsGreatest ==
  ASSUME NEW S \in SUBSET Nat, S # {}, NEW b \in Nat, \A y \in S : y <= b
  PROVE  Max(S) \in S /\ \A y \in S : y <= Max(S)
<1> DEFINE U == {n \in Nat : \A y \in S : y <= n}
           m == Min(U)
<1>1. U \in SUBSET Nat /\ b \in U
  OBVIOUS
<1>2. m \in U /\ \A n \in U : m <= n
  BY <1>1, LeastIsLeast
<1>3. m \in Nat /\ \A y \in S : y <= m
  BY <1>2
<1>4. m \in S
  <2> SUFFICES ASSUME m \notin S PROVE FALSE
    OBVIOUS
  <2> HIDE DEF m
  <2>1. \A y \in S : y <= m - 1
    BY <1>3
  <2>2. m - 1 \in Nat
    <3>1. PICK y \in S : y \in Nat
      OBVIOUS
    <3>2. y <= m - 1
      BY <2>1
    <3> QED BY <1>3, <3>1, <3>2
  <2>3. m - 1 \in U
    BY <2>1, <2>2
  <2>4. m <= m - 1
    BY <1>2, <2>3
  <2> QED BY <1>3, <2>4
<1> HIDE DEF m
<1>5. \A y \in S : m >= y
  BY <1>3
<1>6. Max(S) \in S /\ \A y \in S : Max(S) >= y
  BY <1>4, <1>5 DEF Max
<1> QED BY <1>6

(* The values of a function on some of the numbers up to n are bounded.    *)
LEMMA Bounded ==
  ASSUME NEW H \in SUBSET Nat, NEW n \in Nat, \A h \in H : h <= n,
         NEW f \in [H -> Nat]
  PROVE  \E b \in Nat : \A h \in H : f[h] <= b
<1> DEFINE Below(m) == \E b \in Nat : \A h \in H : h <= m => f[h] <= b
           bad == {m \in Nat : ~Below(m)}
           m == Min(bad)
<1>1. SUFFICES ASSUME n \in bad PROVE FALSE
  OBVIOUS
<1>2. m \in bad /\ \A i \in bad : m <= i
  BY <1>1, LeastIsLeast
<1>3. m \in Nat /\ ~Below(m)
  BY <1>2
<1>4. \E b \in Nat : \A h \in H : h < m => f[h] <= b
  <2>1. CASE m = 0
    <3> HIDE DEF m
    <3>1. \A h \in H : ~(h < m)
      BY <2>1
    <3> QED BY <3>1
  <2>2. CASE m # 0
    <3>1. m - 1 \in Nat /\ ~(m <= m - 1)
      <4> HIDE DEF m
      <4> QED BY <1>3, <2>2
    <3>2. Below(m - 1)
      BY <1>2, <3>1
    <3> HIDE DEF m
    <3>3. PICK b \in Nat : \A h \in H : h <= m - 1 => f[h] <= b
      BY <3>2
    <3>4. \A h \in H : h < m => h <= m - 1
      BY <1>3
    <3> QED BY <3>3, <3>4
  <2> QED BY <2>1, <2>2
<1>5. PICK b \in Nat : \A h \in H : h < m => f[h] <= b
  BY <1>4
<1> DEFINE top == IF m \in H THEN f[m] ELSE 0
<1>6. top \in Nat
  OBVIOUS
<1> HIDE DEF m
<1>7. \A h \in H : h <= m => h < m \/ h = m
  BY <1>3
<1>8. m \in H => top = f[m]
  OBVIOUS
<1> HIDE DEF top
<1>9. \A h \in H : h <= m => f[h] <= b + top
  BY <1>5, <1>6, <1>7, <1>8
<1>10. Below(m)
  BY <1>6, <1>9
<1> QED BY <1>3, <1>10

(* What a component is to cover.                                           *)
Want == [from : Nat \ {0}, to : Nat \ {0}, slice : Nat \cup {None}]
WantFine(w) == w \in Want /\ w.from <= w.to

(* Of several ranges of pages, the preferred one is one of them.           *)
LEMMA PreferredIsOne ==
  ASSUME NEW W \in SUBSET Want, W # {}, NEW b \in Nat, \A w \in W : w.to <= b
  PROVE  Preferred(W) \in W
<1> DEFINE tos == {w.to : w \in W}
           t == Max(tos)
           last == {w \in W : w.to = t}
           froms == {w.from : w \in last}
           s == Min(froms)
<1>1. \A w \in W : w.to \in Nat /\ w.from \in Nat
  BY DEF Want
<1>2. tos \in SUBSET Nat /\ tos # {} /\ \A y \in tos : y <= b
  BY <1>1
<1>3. t \in tos /\ \A y \in tos : y <= t
  BY <1>2, GreatestIsGreatest
<1> HIDE DEF t
<1>4. froms \in SUBSET Nat /\ froms # {}
  BY <1>1, <1>3
<1>5. s \in froms /\ \A y \in froms : s <= y
  BY <1>4, LeastIsLeast
<1> HIDE DEF s
<1>6. PICK w \in W : w.to = t /\ w.from = s
  BY <1>5
<1>7. \A u \in W : u.to <= t /\ (u.to = t => s <= u.from)
  BY <1>3, <1>5
<1>8. \A u \in W : u.to < w.to \/ (u.to = w.to /\ u.from >= w.from)
  BY <1>1, <1>6, <1>7
<1> QED BY <1>6, <1>8 DEF Preferred

LEMMA SliceNumber ==
  ASSUME NEW interval \in Positive \cup {None}
  PROVE  LatestSlice(interval) \in Nat
<1>1. CASE interval = None
  BY <1>1 DEF LatestSlice
<1>2. CASE interval # None
  <2> DEFINE S == {10, 24 * interval}
             T == {55, Max(S)}
  <2>1. 24 * interval \in Nat
    BY <1>2 DEF Positive
  <2>2. S \in SUBSET Nat /\ S # {} /\ \A y \in S : y <= 10 + 24 * interval
    BY <2>1
  <2>3. Max(S) \in S
    BY <2>1, <2>2, GreatestIsGreatest
  <2>4. Max(S) \in Nat
    BY <2>2, <2>3
  <2>5. LatestSlice(interval) = Min(T)
    BY <1>2 DEF LatestSlice
  <2> HIDE DEF S
  <2>6. T \in SUBSET Nat /\ T # {}
    BY <2>4
  <2>7. Min(T) \in T
    BY <2>6, LeastIsLeast
  <2> QED BY <2>5, <2>6, <2>7
<1> QED BY <1>1, <1>2

-----------------------------------------------------------------------------
(* The types: cohorts                                                      *)

PartSound(p, rollout) ==
  /\ p \in Component
  /\ p.want.from <= p.want.to
  /\ rollout = "shadow" => p.task = "none"

Sound(c) ==
  /\ Cohort(c)
  /\ \A k \in DOMAIN c.comps : PartSound(c.comps[k], c.rollout)

LEMMA SoundRecomputed ==
  ASSUME NEW c, "status" \in DOMAIN c, Sound(c)
  PROVE  Sound(Recomputed(c))
<1> DEFINE x == Aggregate(Parts(c.comps))
           d == [c EXCEPT !.status = x]
<1>1. x \in CohortStatus
  BY DEF Aggregate, CohortStatus
<1>2. Recomputed(c) = d /\ "status" \in DOMAIN c
  BY DEF Recomputed
<1> HIDE DEF x
<1>3. /\ d.comps = c.comps /\ d.for = c.for /\ d.deadline = c.deadline
      /\ d.desired = c.desired /\ d.effective = c.effective
      /\ d.version = c.version /\ d.rollout = c.rollout
      /\ d.status = x /\ d.target = c.target
  BY <1>2
<1> HIDE DEF d
<1>4. Cohort(d)
  BY <1>1, <1>3 DEF Sound, Cohort
<1>5. Sound(d)
  BY <1>3, <1>4 DEF Sound
<1> QED BY <1>2, <1>5

LEMMA SoundRecomponed ==
  ASSUME NEW c, Shaped(c), Sound(c), NEW comps,
         comps \in [DOMAIN comps -> Component], DOMAIN comps \subseteq Kind,
         \A k \in DOMAIN comps : PartSound(comps[k], c.rollout)
  PROVE  LET d == [c EXCEPT !.comps = comps] IN
         Sound(d) /\ Sound(Recomputed(d))
<1> DEFINE d == [c EXCEPT !.comps = comps]
<1>1. {"comps", "status"} \subseteq DOMAIN c
  BY DEF Shaped
<1>2. /\ d.comps = comps /\ d.for = c.for /\ d.deadline = c.deadline
      /\ d.desired = c.desired /\ d.effective = c.effective
      /\ d.version = c.version /\ d.rollout = c.rollout
      /\ d.status = c.status /\ d.target = c.target
      /\ DOMAIN d = DOMAIN c
  BY <1>1
<1> HIDE DEF d
<1>3. Cohort(d)
  BY <1>2 DEF Sound, Cohort
<1>4. Sound(d)
  BY <1>2, <1>3 DEF Sound
<1>5. Sound(Recomputed(d))
  BY <1>1, <1>2, <1>4, SoundRecomputed
<1> QED BY <1>4, <1>5 DEF d

LEMMA StatusChanged ==
  ASSUME NEW p, NEW rollout, PartSound(p, rollout), NEW s \in ComponentStatus
  PROVE  PartSound([p EXCEPT !.status = s], rollout)
BY DEF PartSound, Component

LEMMA SoundRepaired ==
  ASSUME NEW c, Shaped(c), Sound(c)
  PROVE  Sound(Repaired(c))
<1> DEFINE comps == [k \in DOMAIN c.comps |->
                       IF Overdue(c, k) THEN [c.comps[k] EXCEPT !.status = "partial"]
                                        ELSE c.comps[k]]
           d == [c EXCEPT !.comps = comps]
<1>1. CASE ~Live \/ \A k \in DOMAIN c.comps : ~Overdue(c, k)
  BY <1>1 DEF Repaired
<1>2. CASE ~(~Live \/ \A k \in DOMAIN c.comps : ~Overdue(c, k))
  <2>1. Repaired(c) = Recomputed(d)
    BY <1>2 DEF Repaired
  <2>2. \A k \in DOMAIN c.comps : PartSound(c.comps[k], c.rollout)
    BY DEF Sound
  <2>3. "partial" \in ComponentStatus
    BY DEF ComponentStatus
  <2>4. ASSUME NEW k \in DOMAIN comps
        PROVE  PartSound(comps[k], c.rollout)
    <3>1. CASE Overdue(c, k)
      <4>1. comps[k] = [c.comps[k] EXCEPT !.status = "partial"]
        BY <3>1
      <4> QED BY <4>1, <2>2, <2>3, StatusChanged
    <3>2. CASE ~Overdue(c, k)
      BY <2>2, <3>2
    <3> QED BY <3>1, <3>2
  <2>5. comps \in [DOMAIN comps -> Component] /\ DOMAIN comps \subseteq Kind
    BY <2>4 DEF PartSound, Shaped
  <2> HIDE DEF comps
  <2> QED BY <2>1, <2>4, <2>5, SoundRecomponed
<1> QED BY <1>1, <1>2

LEMMA SoundFinalized ==
  ASSUME NEW c, Shaped(c), Sound(c)
  PROVE  Sound(Finalized(c))
<1> DEFINE comps == [k \in DOMAIN c.comps |->
       CASE c.comps[k].status = "pending" ->
              [c.comps[k] EXCEPT !.status = "missed_due_to_capacity"]
         [] c.comps[k].status = "blocked" ->
              [c.comps[k] EXCEPT !.status = "missed_due_to_service_gap"]
         [] OTHER -> c.comps[k]]
           d == [c EXCEPT !.comps = comps]
<1>1. Finalized(c) = Recomputed(d)
  BY DEF Finalized
<1>2. \A k \in DOMAIN c.comps : PartSound(c.comps[k], c.rollout)
  BY DEF Sound
<1>3. {"missed_due_to_capacity", "missed_due_to_service_gap"} \subseteq ComponentStatus
  BY DEF ComponentStatus, Missed
<1>4. ASSUME NEW k \in DOMAIN comps
      PROVE  PartSound(comps[k], c.rollout)
  <2>1. CASE c.comps[k].status = "pending"
    <3>1. comps[k] = [c.comps[k] EXCEPT !.status = "missed_due_to_capacity"]
      BY <2>1
    <3> QED BY <3>1, <1>2, <1>3, StatusChanged
  <2>2. CASE c.comps[k].status = "blocked"
    <3>1. comps[k] = [c.comps[k] EXCEPT !.status = "missed_due_to_service_gap"]
      BY <2>2
    <3> QED BY <3>1, <1>2, <1>3, StatusChanged
  <2>3. CASE c.comps[k].status \notin {"pending", "blocked"}
    BY <2>3, <1>2
  <2> QED BY <2>1, <2>2, <2>3
<1>5. comps \in [DOMAIN comps -> Component] /\ DOMAIN comps \subseteq Kind
  BY <1>4 DEF PartSound, Shaped
<1> HIDE DEF comps
<1> QED BY <1>1, <1>4, <1>5, SoundRecomponed

LEMMA SoundSeen ==
  ASSUME Shapes, NEW h, AgeKey(h) \in DOMAIN cohorts, Sound(cohorts[AgeKey(h)])
  PROVE  Sound(Seen(h))
<1> DEFINE c == Repaired(cohorts[AgeKey(h)])
<1>1. Shaped(c) /\ Sound(c)
  BY RepairedKeeps, SoundRepaired DEF Shapes
<1>2. Seen(h) = c \/ Seen(h) = Finalized(c)
  BY DEF Seen
<1> HIDE DEF c
<1> QED BY <1>1, <1>2, SoundFinalized

(* What a plan has to be like besides.                                     *)
PlanSound(plan) ==
  /\ Plannable(plan)
  /\ {plan.for, plan.deadline} \subseteq Nat /\ plan.for < plan.deadline
  /\ {plan.desired, plan.effective} \subseteq Tier
  /\ \A k \in DOMAIN plan.want : WantFine(plan.want[k])

LEMMA SoundNewComponent ==
  ASSUME NEW plan, PlanSound(plan), NEW k \in DOMAIN plan.want, NEW joins
  PROVE  PartSound(NewComponent(k, plan, joins), config.rollout)
<1> DEFINE p == NewComponent(k, plan, joins)
<1>1. /\ p.want = plan.want[k] /\ p.started = FALSE
      /\ p.task \in {"none", "pending"}
      /\ p.status \in {"joined_active_task", plan.part}
      /\ p = [want |-> p.want, started |-> p.started, task |-> p.task,
              status |-> p.status]
      /\ config.rollout = "shadow" => p.task = "none"
  BY DEF NewComponent, FirstTask, Queued, Live
<1>2. p.status \in ComponentStatus
  BY <1>1 DEF PlanSound, Plannable, ComponentStatus, Active, Missed
<1>3. p.want \in Want /\ p.want.from <= p.want.to
  BY <1>1 DEF PlanSound, WantFine
<1> HIDE DEF p
<1>4. p \in Component
  BY <1>1, <1>2, <1>3 DEF Component, Want
<1> QED BY <1>1, <1>3, <1>4 DEF PartSound, p

LEMMA SoundNewCohort ==
  ASSUME Configured, NEW plan, PlanSound(plan), plan.status \in CohortStatus, NEW joins
  PROVE  Sound(NewCohort(plan, joins))
<1> DEFINE c == NewCohort(plan, joins)
<1>1. /\ c.comps = [k \in DOMAIN plan.want |-> NewComponent(k, plan, joins)]
      /\ c.for = plan.for /\ c.deadline = plan.deadline
      /\ c.desired = plan.desired /\ c.effective = plan.effective
      /\ c.version = config.version /\ c.rollout = config.rollout
      /\ c.status = IF Live THEN plan.status ELSE "shadow_planned"
      /\ c.target = IF Live THEN None ELSE plan.status
  BY DEF NewCohort
<1> HIDE DEF c
<1>2. /\ DOMAIN c.comps = DOMAIN plan.want
      /\ \A k \in DOMAIN c.comps : c.comps[k] = NewComponent(k, plan, joins)
  BY <1>1
<1>3. \A k \in DOMAIN c.comps : PartSound(c.comps[k], c.rollout)
  BY <1>1, <1>2, SoundNewComponent
<1>4. c.comps \in [DOMAIN c.comps -> Component]
  <2>1. c.comps = [k \in DOMAIN c.comps |-> c.comps[k]]
    BY <1>1, <1>2
  <2> QED BY <2>1, <1>3 DEF PartSound
<1>5. c.status \in CohortStatus /\ c.target \in CohortStatus \cup {None}
  BY <1>1 DEF CohortStatus
<1>6. Cohort(c)
  BY <1>1, <1>2, <1>4, <1>5 DEF Cohort, PlanSound, Plannable, Configured
<1> QED BY <1>3, <1>6 DEF Sound, c

LEMMA SoundRematerialized ==
  ASSUME NEW c, Shaped(c), Sound(c), NEW plan, PlanSound(plan),
         c.rollout = config.rollout, NEW joins
  PROVE  Sound(Rematerialized(c, plan, joins))
<1> DEFINE comps == [k \in DOMAIN c.comps \cup DOMAIN plan.want |->
        IF k \notin DOMAIN c.comps THEN NewComponent(k, plan, joins)
        ELSE IF Rejoins(c, k, plan)
        THEN [c.comps[k] EXCEPT !.status = "joined_active_task"]
        ELSE c.comps[k]]
<1>1. Rematerialized(c, plan, joins) = [c EXCEPT !.comps = comps]
  BY DEF Rematerialized
<1>2. \A k \in DOMAIN c.comps : PartSound(c.comps[k], c.rollout)
  BY DEF Sound
<1>3. ASSUME NEW k \in DOMAIN comps
      PROVE  PartSound(comps[k], c.rollout)
  <2>1. CASE k \notin DOMAIN c.comps
    <3>1. comps[k] = NewComponent(k, plan, joins) /\ k \in DOMAIN plan.want
      BY <2>1
    <3> QED BY <3>1, SoundNewComponent
  <2>2. CASE k \in DOMAIN c.comps /\ Rejoins(c, k, plan)
    <3>1. comps[k] = [c.comps[k] EXCEPT !.status = "joined_active_task"]
      BY <2>2
    <3>2. "joined_active_task" \in ComponentStatus
      BY DEF ComponentStatus, Active
    <3> QED BY <3>1, <3>2, <2>2, <1>2, StatusChanged
  <2>3. CASE k \in DOMAIN c.comps /\ ~Rejoins(c, k, plan)
    BY <2>3, <1>2
  <2> QED BY <2>1, <2>2, <2>3
<1>4. comps \in [DOMAIN comps -> Component] /\ DOMAIN comps \subseteq Kind
  BY <1>3 DEF PartSound, Shaped, PlanSound, Plannable
<1> HIDE DEF comps
<1> QED BY <1>1, <1>3, <1>4, SoundRecomponed

LEMMA SoundMaterialized ==
  ASSUME Configured, NEW cs, NEW key, NEW plan, PlanSound(plan), NEW joins,
         key \in DOMAIN cs => /\ Shaped(cs[key]) /\ Sound(cs[key])
                              /\ cs[key].rollout = config.rollout,
         key \notin DOMAIN cs => plan.status \in CohortStatus
  PROVE  Sound(Materialized(cs, key, plan, joins))
<1>1. CASE key \in DOMAIN cs
  <2>1. Materialized(cs, key, plan, joins) = Rematerialized(cs[key], plan, joins)
    BY <1>1 DEF Materialized
  <2> QED BY <1>1, <2>1, SoundRematerialized
<1>2. CASE key \notin DOMAIN cs
  <2>1. Materialized(cs, key, plan, joins) = NewCohort(plan, joins)
    BY <1>2 DEF Materialized
  <2> QED BY <1>2, <2>1, SoundNewCohort
<1> QED BY <1>1, <1>2

-----------------------------------------------------------------------------
(* The types: plans                                                        *)

SignalsSound(sig) ==
  /\ {sig.desired, sig.effective} \subseteq Tier
  /\ sig.candidate \in Tier \cup {None} /\ sig.count \in Nat
  /\ sig.stage \in Stage

LEMMA SoundSignals ==
  ASSUME video \in VideoState, NEW found
  PROVE  SignalsSound(Signals(found))
<1> DEFINE sig == [official |-> Official, age |-> now,
                   event |-> found.event, creator |-> FALSE,
                   pinned |-> None, views |-> found.growth,
                   comments |-> None, turnover |-> None,
                   complete |-> FALSE, confirmations |-> 0]
           d == DesiredTier(sig, P)
           a == Assess(video, d, P.confirmations)
<1>1. d \in Tier
  BY Desired
<1>2. /\ Signals(found).desired = d /\ Signals(found).effective = a.effective
      /\ Signals(found).candidate = a.candidate /\ Signals(found).count = a.count
      /\ Signals(found).stage \in Stage
  BY DEF Signals, LifeStage, Stage
<1> HIDE DEF d
<1>3. video.effective \in Tier /\ video.count \in Nat
  BY DEF VideoState
<1>4. a.effective \in Tier /\ a.candidate \in Tier \cup {None} /\ a.count \in Nat
  <2>1. a \in {Assessment(d, None, 0), Assessment(video.effective, d, video.count + 1),
               Assessment(video.effective, d, 1)}
    BY DEF Assess
  <2> HIDE DEF a
  <2> QED BY <1>1, <1>3, <2>1 DEF Assessment
<1> HIDE DEF a
<1> QED BY <1>1, <1>2, <1>4 DEF SignalsSound

LEMMA WantedFine ==
  ASSUME Configured, NEW kinds, "hot_deep" \notin kinds, NEW tier \in Tier,
         NEW deep, NEW dormant, NEW interval \in Positive \cup {None}
  PROVE  LET want == Wanted(kinds, tier, deep, dormant, interval) IN
         \A k \in DOMAIN want : WantFine(want[k])
<1> DEFINE pages == PagePlan(P, tier, deep, dormant)
           want == Wanted(kinds, tier, deep, dormant, interval)
<1>1. /\ P.hot.routine[tier] \in Positive /\ P.hot.checkpoint[tier] \in Positive
      /\ P.hot.sliceSeconds \in Positive
  BY PolicyValid
<1>2. /\ pages.core \in Positive /\ pages.deep \in Int
      /\ pages.deepStart = pages.core + 1
  BY <1>1 DEF PagePlan, Positive
<1>3. LatestSlice(interval) \in Nat
  BY SliceNumber
<1> HIDE DEF pages
<1> SUFFICES ASSUME NEW k \in DOMAIN want PROVE WantFine(want[k])
  OBVIOUS
<1>4. /\ k = "hot_deep" => pages.deep > 0
      /\ want[k] = CASE k = "hot_core" -> [from |-> 1, to |-> pages.core,
                                           slice |-> P.hot.sliceSeconds]
                     [] k = "hot_deep" -> [from |-> pages.deepStart,
                                           to |-> pages.core + pages.deep,
                                           slice |-> P.hot.sliceSeconds]
                     [] k \in Latest -> [from |-> 1, to |-> 1,
                                         slice |-> LatestSlice(interval)]
                     [] OTHER -> [from |-> 1, to |-> 1, slice |-> None]
  BY DEF Wanted, pages
<1> HIDE DEF want
<1>5. CASE k = "hot_core"
  <2>1. want[k] = [from |-> 1, to |-> pages.core, slice |-> P.hot.sliceSeconds]
    BY <1>4, <1>5 DEF Latest
  <2> QED BY <2>1, <1>1, <1>2 DEF WantFine, Want, Positive
<1>6. CASE k = "hot_deep"
  <2>1. want[k] = [from |-> pages.deepStart, to |-> pages.core + pages.deep,
                   slice |-> P.hot.sliceSeconds]
    BY <1>4, <1>6 DEF Latest
  <2> QED BY <2>1, <1>1, <1>2, <1>4, <1>6 DEF WantFine, Want, Positive
<1>7. CASE k \in Latest
  <2>1. want[k] = [from |-> 1, to |-> 1, slice |-> LatestSlice(interval)]
    BY <1>4, <1>7 DEF Latest
  <2> QED BY <2>1, <1>3 DEF WantFine, Want
<1>8. CASE k \notin {"hot_core", "hot_deep"} \cup Latest
  <2>1. want[k] = [from |-> 1, to |-> 1, slice |-> None]
    BY <1>4, <1>8
  <2> QED BY <2>1 DEF WantFine, Want
<1> QED BY <1>5, <1>6, <1>7, <1>8

(* The plan of a checkpoint.                                               *)
LEMMA SoundAgePlan ==
  ASSUME Configured, NEW h \in DueAges, NEW sig, SignalsSound(sig),
         AgeKey(h) \in DOMAIN cohorts => Sound(cohorts[AgeKey(h)]),
         WellFormed(AgePlan(h, sig))
  PROVE  /\ PlanSound(AgePlan(h, sig))
         /\ AgeKey(h) \notin DOMAIN cohorts => AgePlan(h, sig).status \in CohortStatus
<1> DEFINE known == AgeKey(h) \in DOMAIN cohorts
           tier == IF known THEN cohorts[AgeKey(h)].effective ELSE sig.effective
           kinds == {"video_metrics", "hot_core", "latest_reconciliation"}
           plan == AgePlan(h, sig)
<1>1. h \in Nat /\ P.lateness \in Nat
  BY PolicyValid DEF DueAges, Positive
<1>2. known => {cohorts[AgeKey(h)].desired, cohorts[AgeKey(h)].effective} \subseteq Tier
  BY DEF Sound, Cohort
<1>3. tier \in Tier
  BY <1>2 DEF SignalsSound
<1>4. /\ plan.for = h /\ plan.deadline = h + P.lateness
      /\ plan.desired = IF known THEN cohorts[AgeKey(h)].desired ELSE sig.desired
      /\ plan.effective = tier
      /\ plan.want = Wanted(kinds, tier, TRUE, FALSE, None)
      /\ plan.status = Target(h)
  BY DEF AgePlan
<1>5. Plannable(plan)
  BY AgePlanPlannable
<1>6. plan.for < plan.deadline
  BY DEF WellFormed
<1>7. ~known => Target(h) \in CohortStatus
  BY DEF Target, Shadowed, CohortStatus
<1> HIDE DEF plan, tier
<1>8. \A k \in DOMAIN plan.want : WantFine(plan.want[k])
  BY <1>3, <1>4, WantedFine
<1>9. {plan.desired, plan.effective} \subseteq Tier
  BY <1>2, <1>3, <1>4 DEF SignalsSound
<1>10. {plan.for, plan.deadline} \subseteq Nat
  BY <1>1, <1>4
<1> QED BY <1>4, <1>5, <1>6, <1>7, <1>8, <1>9, <1>10 DEF PlanSound, plan

(* What is recovered: wants of components that exist.                      *)
LEMMA SoundRecovery ==
  ASSUME Configured, NEW cs,
         \A key \in DOMAIN cs : Shaped(cs[key]) /\ Sound(cs[key]),
         \A h \in DueAges : AgeKey(h) \in DOMAIN cs,
         NEW sig, SignalsSound(sig), NEW interval \in Positive,
         NEW plan \in Recovery(cs, sig, interval), WellFormed(plan)
  PROVE  PlanSound(plan) /\ plan.status \in CohortStatus
<1> DEFINE overdue == {h \in DueAges : NeedsRecovery(h)}
           kinds == UNION {Lacking(cs, h) : h \in overdue}
           key == RecoveryKey(Max(overdue))
           W(k) == {cs[AgeKey(h)].comps[k].want :
                      h \in {i \in overdue : k \in Lacking(cs, i)}}
<1>1. /\ plan.status = "planned"
      /\ plan.for = IF key \in DOMAIN cs THEN cs[key].for ELSE FloorBucket(now)
      /\ plan.deadline = IF key \in DOMAIN cs THEN cs[key].deadline
                                              ELSE NextDue(interval, sig.stage)
      /\ plan.desired = IF key \in DOMAIN cs THEN cs[key].desired ELSE sig.desired
      /\ plan.effective = IF key \in DOMAIN cs THEN cs[key].effective
                                               ELSE sig.effective
      /\ plan.want = [k \in kinds |-> Preferred(W(k))]
  <2>1. plan = [key |-> key, reason |-> "recovery", status |-> "planned",
                part |-> "pending",
                for |-> IF key \in DOMAIN cs THEN cs[key].for ELSE FloorBucket(now),
                deadline |-> IF key \in DOMAIN cs THEN cs[key].deadline
                             ELSE NextDue(interval, sig.stage),
                desired |-> IF key \in DOMAIN cs THEN cs[key].desired
                            ELSE sig.desired,
                effective |-> IF key \in DOMAIN cs THEN cs[key].effective
                              ELSE sig.effective,
                want |-> [k \in kinds |-> Preferred(W(k))]]
    BY Zenon DEF Recovery
  <2> HIDE DEF key, kinds, W
  <2> QED BY <2>1
<1>2. Plannable(plan)
  BY RecoveryPlannable
<1>3. key \in DOMAIN cs => /\ {cs[key].for, cs[key].deadline} \subseteq Nat
                           /\ {cs[key].desired, cs[key].effective} \subseteq Tier
  BY DEF Sound, Cohort
<1>4. FloorBucket(now) \in Nat /\ NextDue(interval, sig.stage) \in Nat
  BY FloorBucketUp, NextDueAhead DEF Configured
<1>5. ASSUME NEW k \in kinds PROVE WantFine(Preferred(W(k)))
  <2> DEFINE H == {i \in overdue : k \in Lacking(cs, i)}
             to == [h \in H |-> cs[AgeKey(h)].comps[k].want.to]
  <2>1. ASSUME NEW h \in H PROVE WantFine(cs[AgeKey(h)].comps[k].want)
    <3>1. AgeKey(h) \in DOMAIN cs /\ k \in DOMAIN cs[AgeKey(h)].comps
      BY DEF Lacking
    <3>2. PartSound(cs[AgeKey(h)].comps[k], cs[AgeKey(h)].rollout)
      BY <3>1 DEF Sound
    <3> QED BY <3>2 DEF PartSound, Component, WantFine, Want
  <2>2. H # {}
    BY <1>5
  <2>3. H \in SUBSET Nat /\ (\A h \in H : h <= now) /\ now \in Nat
    BY PolicyValid DEF DueAges, Positive, Configured
  <2>4. to \in [H -> Nat]
    BY <2>1 DEF WantFine, Want
  <2> HIDE DEF overdue
  <2>5. PICK b \in Nat : \A h \in H : to[h] <= b
    <3> HIDE DEF H, to
    <3> QED BY <2>3, <2>4, Bounded
  <2>6. /\ W(k) \in SUBSET Want /\ W(k) # {}
        /\ \A w \in W(k) : w.to <= b /\ WantFine(w)
    BY <2>1, <2>2, <2>5 DEF WantFine
  <2> HIDE DEF W
  <2> QED BY <2>6, PreferredIsOne
<1> HIDE DEF key, kinds, W
<1>6. \A k \in DOMAIN plan.want : WantFine(plan.want[k])
  BY <1>1, <1>5
<1>7. plan.for < plan.deadline
  BY DEF WellFormed
<1>8. {plan.for, plan.deadline} \subseteq Nat
  BY <1>1, <1>3, <1>4
<1>9. {plan.desired, plan.effective} \subseteq Tier
  BY <1>1, <1>3 DEF SignalsSound
<1>10. plan.status \in CohortStatus
  BY <1>1 DEF CohortStatus
<1> QED BY <1>2, <1>6, <1>7, <1>8, <1>9, <1>10 DEF PlanSound

LEMMA SoundRoutine ==
  ASSUME Configured, NEW found, NEW sig, SignalsSound(sig),
         NEW interval \in Positive, NEW recovery,
         NEW plan \in Routine(found, sig, interval, recovery), WellFormed(plan)
  PROVE  PlanSound(plan) /\ plan.status \in CohortStatus
<1> DEFINE kinds == StageKinds(sig.stage, found.frontier)
           deep == FirstAdoption /\ sig.stage = "active"
           dormant == sig.stage = "dormant"
<1>1. /\ plan.status = "planned" /\ plan.for = FloorBucket(now)
      /\ plan.deadline = NextDue(interval, sig.stage)
      /\ plan.desired = sig.desired /\ plan.effective = sig.effective
      /\ plan.want = Wanted(kinds, sig.effective, deep, dormant, interval)
  BY DEF Routine
<1>2. Plannable(plan)
  BY RoutinePlannable
<1>3. FloorBucket(now) \in Nat /\ NextDue(interval, sig.stage) \in Nat
  BY FloorBucketUp, NextDueAhead DEF Configured
<1>4. "hot_deep" \notin kinds
  BY DEF StageKinds
<1> HIDE DEF kinds, deep, dormant
<1>5. \A k \in DOMAIN plan.want : WantFine(plan.want[k])
  BY <1>1, <1>4, WantedFine DEF SignalsSound
<1>6. plan.for < plan.deadline
  BY DEF WellFormed
<1> QED BY <1>1, <1>2, <1>3, <1>5, <1>6 DEF PlanSound, SignalsSound, CohortStatus

-----------------------------------------------------------------------------
(* The types: steps                                                        *)

AllSound(cs) == \A key \in DOMAIN cs : Sound(cs[key])

LEMMA TypesSplit ==
  TypeOK <=> /\ now \in Instants \cup {0}
             /\ active \in DOMAIN Policies \cup {None}
             /\ video \in VideoState
             /\ gaps \subseteq Gap /\ \A g \in gaps : g.start < g.end
             /\ AllSound(cohorts)
<1>1. ASSUME NEW c, Cohort(c), NEW k \in DOMAIN c.comps
      PROVE  c.comps[k] \in Component
  BY <1>1 DEF Cohort
<1> QED BY <1>1 DEF TypeOK, AllSound, Sound, PartSound

LEMMA SoundLooked ==
  ASSUME Shapes, Configured, AllSound(cohorts), NEW sig, SignalsSound(sig),
         NEW over, CheckpointsFit(sig, over), NEW h \in DueAges, NEW joins
  PROVE  Sound(Looked(h, sig, joins))
<1>1. WellFormed(AgePlan(h, sig))
  BY DEF CheckpointsFit
<1>2. /\ PlanSound(AgePlan(h, sig))
      /\ AgeKey(h) \notin DOMAIN cohorts => AgePlan(h, sig).status \in CohortStatus
  BY <1>1, SoundAgePlan DEF AllSound
<1>3. CASE AgeKey(h) \in DOMAIN cohorts
  <2>1. Looked(h, sig, joins) = Rematerialized(Seen(h), AgePlan(h, sig), joins)
    BY <1>3 DEF Looked
  <2>2. Shaped(Seen(h)) /\ Sound(Seen(h))
    BY <1>3, SeenKeeps, SoundSeen DEF AllSound
  <2>3. Seen(h).rollout = config.rollout
    BY <1>3 DEF CheckpointsFit, Accepts, SameCohort
  <2> QED BY <1>2, <2>1, <2>2, <2>3, SoundRematerialized
<1>4. CASE AgeKey(h) \notin DOMAIN cohorts
  <2>1. Looked(h, sig, joins) = NewCohort(AgePlan(h, sig), joins)
    BY <1>4 DEF Looked
  <2> QED BY <1>2, <1>4, <2>1, SoundNewCohort
<1> QED BY <1>3, <1>4

LEMMA SoundCheckpointed ==
  ASSUME Shapes, Configured, AllSound(cohorts), NEW sig, SignalsSound(sig),
         NEW over, CheckpointsFit(sig, over), NEW joins
  PROVE  AllSound(Checkpointed(sig, joins))
<1> DEFINE cs == Checkpointed(sig, joins)
           ages == {AgeKey(h) : h \in DueAges}
<1>1. /\ DOMAIN cs = ages \cup DOMAIN cohorts
      /\ \A key \in DOMAIN cs :
           cs[key] = IF key \in ages THEN Looked(key[2], sig, joins)
                                     ELSE Repaired(cohorts[key])
  BY DEF Checkpointed
<1>2. \A h : AgeKey(h)[2] = h
  BY DEF AgeKey
<1> HIDE DEF cs
<1>3. ASSUME NEW key \in DOMAIN cs PROVE Sound(cs[key])
  <2>1. CASE key \in ages
    <3>1. PICK h \in DueAges : key = AgeKey(h)
      BY <2>1
    <3>2. cs[key] = Looked(h, sig, joins)
      BY <1>1, <1>2, <2>1, <3>1
    <3> QED BY <3>2, SoundLooked
  <2>2. CASE key \notin ages
    <3>1. key \in DOMAIN cohorts /\ cs[key] = Repaired(cohorts[key])
      BY <1>1, <2>2
    <3> QED BY <3>1, SoundRepaired DEF Shapes, AllSound
  <2> QED BY <2>1, <2>2
<1> QED BY <1>3 DEF AllSound, cs

LEMMA SoundWith ==
  ASSUME Configured, NEW cs, \A key \in DOMAIN cs : Shaped(cs[key]), AllSound(cs),
         NEW plans, \A p, q \in plans : p = q,
         \A plan \in plans : PlanSound(plan) /\ plan.status \in CohortStatus,
         NEW over, Fits(cs, plans, over), NEW joins
  PROVE  AllSound(With(cs, plans, joins))
<1> DEFINE ds == With(cs, plans, joins)
<1> SUFFICES ASSUME NEW key \in DOMAIN ds PROVE Sound(ds[key])
  BY DEF AllSound
<1>1. CASE \E plan \in plans : plan.key = key
  <2>1. PICK plan \in plans : plan.key = key
    BY <1>1
  <2>2. ds[key] = Materialized(cs, key, plan, joins)
    BY <2>1, WithPlan
  <2>3. key \in DOMAIN cs => cs[key].rollout = config.rollout
    BY <2>1 DEF Fits, Accepts, SameCohort
  <2> HIDE DEF ds
  <2> QED BY <2>1, <2>2, <2>3, SoundMaterialized DEF AllSound
<1>2. CASE \A plan \in plans : plan.key # key
  <2>1. DOMAIN ds = {plan.key : plan \in plans} \cup DOMAIN cs
    BY WithDomain
  <2>2. key \in DOMAIN cs
    <3> HIDE DEF ds
    <3> QED BY <1>2, <2>1
  <2>3. ds[key] = cs[key]
    BY <1>2, <2>2, WithOthers
  <2> HIDE DEF ds
  <2> QED BY <2>2, <2>3 DEF AllSound
<1> QED BY <1>1, <1>2

(* The video's row.                                                        *)
LEMMA SoundRecorded ==
  ASSUME Configured, video \in VideoState, NEW sig, SignalsSound(sig),
         NEW interval \in Positive
  PROVE  Recorded(sig, interval) \in VideoState
<1> DEFINE ages == DueAges \cup ({video.lastAge} \ {None})
<1>1. video.lastAge \in Nat \cup {None} /\ video.nextDue \in Nat \cup {None}
  BY DEF VideoState
<1>2. now \in Nat /\ DueAges \in SUBSET Nat /\ \A h \in DueAges : h <= now
  BY PolicyValid DEF Configured, DueAges, Positive
<1>3. ASSUME DueAges # {} PROVE Max(ages) \in Nat
  <2> DEFINE b == now + (IF video.lastAge = None THEN 0 ELSE video.lastAge)
  <2>1. b \in Nat /\ now <= b /\ (video.lastAge # None => video.lastAge <= b)
    BY <1>1, <1>2
  <2> HIDE DEF b
  <2>2. ages \in SUBSET Nat /\ ages # {}
    BY <1>1, <1>2, <1>3
  <2>3. \A y \in ages : y <= b
    BY <1>1, <1>2, <2>1
  <2>4. Max(ages) \in ages
    BY <2>1, <2>2, <2>3, GreatestIsGreatest
  <2> QED BY <2>2, <2>4
<1>4. NextDue(interval, sig.stage) \in Nat
  BY NextDueAhead
<1> DEFINE last == IF DueAges = {} THEN video.lastAge ELSE Max(ages)
           next == IF Due THEN NextDue(interval, sig.stage) ELSE video.nextDue
<1>5. last \in Nat \cup {None} /\ next \in Nat \cup {None}
  BY <1>1, <1>3, <1>4
<1>6. Recorded(sig, interval)
        = [desired |-> sig.desired, effective |-> sig.effective,
           candidate |-> sig.candidate, count |-> sig.count, stage |-> sig.stage,
           nextDue |-> next, lastAge |-> last]
  BY DEF Recorded
<1> HIDE DEF last, next
<1> QED BY <1>5, <1>6 DEF VideoState, SignalsSound

LEMMA SoundGap ==
  ASSUME Configured, NEW due \in Nat, NEW i \in Positive, NEW g \in GapOf(due, i)
  PROVE  g \in Gap /\ g.start < g.end
<1> DEFINE a == FloorBucket(now) - due
<1>1. FloorBucket(now) \in Nat
  BY FloorBucketUp DEF Configured
<1>2. /\ ~(due >= FloorBucket(now)) /\ a \div i # 0
      /\ g = [start |-> due, end |-> due + i * (a \div i), count |-> a \div i]
  BY DEF GapOf
<1>3. a \in Nat
  BY <1>1, <1>2
<1> HIDE DEF a
<1>4. a \div i \in Nat \ {0}
  BY <1>2, <1>3, LastMultiple
<1>5. i * 0 = 0 /\ i * (a \div i) \in Nat /\ i <= i * (a \div i)
  <2>1. i * 0 = 0
    BY DEF Positive
  <2>2. i * 0 + i <= i * (a \div i)
    BY <1>4, Multiples
  <2>3. i * (a \div i) \in Nat
    BY <1>3, LastMultiple
  <2> QED BY <2>1, <2>2, <2>3 DEF Positive
<1> DEFINE end == due + i * (a \div i)
<1>6. end \in Nat /\ due < end
  BY <1>5 DEF Positive
<1> HIDE DEF end
<1>7. g = [start |-> due, end |-> end, count |-> a \div i]
  BY <1>2 DEF end
<1> QED BY <1>4, <1>6, <1>7 DEF Gap

LEMMA CommittedSound ==
  ASSUME Shapes, Configured, TypeOK, NEW found, NEW sig, NEW interval, NEW cs,
         NEW recovery, NEW recovered, NEW routine,
         PlanOf(found, sig, interval, cs, recovery, recovered, routine),
         Committed(found, sig, interval, cs, recovery, recovered, routine)
  PROVE  /\ video' \in VideoState
         /\ gaps' \subseteq Gap /\ \A g \in gaps' : g.start < g.end
         /\ AllSound(cohorts')
<1>1. /\ video \in VideoState /\ AllSound(cohorts)
      /\ gaps \subseteq Gap /\ \A g \in gaps : g.start < g.end
  BY TypesSplit
<1>2. SignalsSound(sig)
  BY <1>1, SoundSignals DEF PlanOf
<1>3. interval \in Positive
  <2>1. interval = Interval(found, sig)
    BY DEF PlanOf
  <2> QED BY <1>2, <2>1, IntervalPositive DEF SignalsSound
<1>4. video' \in VideoState
  <2>1. video' = Recorded(sig, interval)
    BY DEF Committed
  <2> QED BY <1>1, <1>2, <1>3, <2>1, SoundRecorded
<1>5. gaps' \subseteq Gap /\ \A g \in gaps' : g.start < g.end
  <2>1. ASSUME NEW g \in gaps', g \notin gaps
        PROVE  g \in Gap /\ g.start < g.end
    <3>1. g \in GapOf(video.nextDue, interval)
      BY <2>1 DEF Committed
    <3>2. video.nextDue \in Nat
      BY <1>1, <3>1 DEF GapOf, VideoState
    <3> QED BY <1>3, <3>1, <3>2, SoundGap
  <2> QED BY <1>1, <2>1
<1>6. /\ \A key \in DOMAIN cs : Shaped(cs[key]) /\ Sound(cs[key])
      /\ \A h \in DueAges : AgeKey(h) \in DOMAIN cs
  <2>1. CheckpointsFit(sig, found.over)
    BY DEF Committed
  <2>2. cs = Checkpointed(sig, found.joins)
    BY DEF PlanOf
  <2> QED BY <1>1, <1>2, <2>1, <2>2, CheckpointedKeeps, SoundCheckpointed DEF AllSound
<1>7. /\ \A key \in DOMAIN recovered : Shaped(recovered[key])
      /\ AllSound(recovered)
  <2>1. /\ recovery = Recovery(cs, sig, interval)
        /\ recovered = With(cs, recovery, found.joins)
    BY DEF PlanOf
  <2>2. Fits(cs, recovery, found.over) /\ \A plan \in recovery : WellFormed(plan)
    BY DEF Committed, Fits
  <2>3. \A plan \in recovery : PlanSound(plan) /\ plan.status \in CohortStatus
    BY <1>2, <1>3, <1>6, <2>1, <2>2, SoundRecovery
  <2>4. /\ \A plan \in recovery : Plannable(plan) /\ plan.status # "shadow_planned"
        /\ \A p, q \in recovery : p = q
    BY <1>6, <2>1, RecoveryPlannable
  <2>5. \A key \in DOMAIN recovered : Shaped(recovered[key])
    BY <1>6, <2>1, <2>4, WithKeeps
  <2>6. AllSound(cs)
    BY <1>6 DEF AllSound
  <2> QED BY <1>6, <2>1, <2>2, <2>3, <2>4, <2>5, <2>6, SoundWith
<1>8. AllSound(cohorts')
  <2>1. /\ routine = Routine(found, sig, interval, recovery)
        /\ cohorts' = With(recovered, routine, found.joins)
    BY DEF PlanOf, Committed
  <2>2. Fits(recovered, routine, found.over) /\ \A plan \in routine : WellFormed(plan)
    BY DEF Committed, Fits
  <2>3. \A plan \in routine : PlanSound(plan) /\ plan.status \in CohortStatus
    BY <1>2, <1>3, <2>1, <2>2, SoundRoutine
  <2>4. \A p, q \in routine : p = q
    BY <2>1, RoutinePlannable
  <2> QED BY <1>7, <2>1, <2>2, <2>3, <2>4, SoundWith
<1> QED BY <1>4, <1>5, <1>8

LEMMA ExecuteSound ==
  ASSUME Shapes, AllSound(cohorts), NEW key \in DOMAIN cohorts,
         NEW k \in DOMAIN cohorts[key].comps,
         NEW result \in Outcomes, Execute(key, k, result)
  PROVE  AllSound(cohorts')
<1> DEFINE c == cohorts[key]
           p == Attempted(k, c.comps[k], result)
           comps == [c.comps EXCEPT ![k] = p]
           d == [c EXCEPT !.comps = comps]
<1>1. Shaped(c) /\ Sound(c)
  BY DEF Shapes, AllSound
<1>2. cohorts' = [cohorts EXCEPT ![key] = Recomputed(d)] /\ c.rollout = "live"
  BY DEF Execute
<1> HIDE DEF c
<1>3. PartSound(c.comps[k], c.rollout)
  BY <1>1 DEF Sound, c
<1>4. result \in ComponentStatus /\ "joined_active_task" \in ComponentStatus
  BY OutcomeAssumption DEF ComponentStatus, Active
<1>5. PartSound(p, c.rollout)
  BY <1>2, <1>3, <1>4 DEF PartSound, Attempted, Component
<1> HIDE DEF p
<1>6. /\ DOMAIN comps = DOMAIN c.comps
      /\ \A j \in DOMAIN comps : comps[j] = IF j = k THEN p ELSE c.comps[j]
  OBVIOUS
<1>7. \A j \in DOMAIN comps : PartSound(comps[j], c.rollout)
  BY <1>1, <1>5, <1>6 DEF Sound
<1>8. comps \in [DOMAIN comps -> Component] /\ DOMAIN comps \subseteq Kind
  <2>1. comps = [j \in DOMAIN comps |-> comps[j]]
    OBVIOUS
  <2>2. DOMAIN comps \subseteq Kind
    BY <1>1, <1>6 DEF Shaped
  <2> HIDE DEF comps
  <2> QED BY <1>7, <2>1, <2>2 DEF PartSound
<1> HIDE DEF comps
<1>9. Sound(Recomputed(d))
  BY <1>1, <1>7, <1>8, SoundRecomponed
<1> HIDE DEF d
<1>10. /\ DOMAIN cohorts' = DOMAIN cohorts
       /\ \A other \in DOMAIN cohorts :
            cohorts'[other] = IF other = key THEN Recomputed(d) ELSE cohorts[other]
  BY <1>2
<1> QED BY <1>9, <1>10 DEF AllSound

LEMMA InitTypes == Init => TypeOK
<1>1. Init => AllSound(cohorts) /\ video \in VideoState
  BY DEF Init, AllSound, Adopted, VideoState, Tier, Stage
<1> QED BY <1>1, TypesSplit DEF Init

LEMMA NextTypes ==
  ASSUME Shapes, Configured, TypeOK, [Next]_vars
  PROVE  TypeOK'
<1>1. /\ now \in Instants \cup {0}
      /\ active \in DOMAIN Policies \cup {None}
      /\ video \in VideoState
      /\ gaps \subseteq Gap /\ \A g \in gaps : g.start < g.end
      /\ AllSound(cohorts)
  BY TypesSplit
<1>2. SUFFICES /\ now' \in Instants \cup {0}
               /\ active' \in DOMAIN Policies \cup {None}
               /\ video' \in VideoState
               /\ gaps' \subseteq Gap /\ \A g \in gaps' : g.start < g.end
               /\ AllSound(cohorts')
  <2>1. TypeOK' <=> (/\ now \in Instants \cup {0}
                     /\ active \in DOMAIN Policies \cup {None}
                     /\ video \in VideoState
                     /\ gaps \subseteq Gap /\ \A g \in gaps : g.start < g.end
                     /\ AllSound(cohorts))'
    BY TypesSplit, PTL
  <2> QED BY <2>1 DEF AllSound
<1>3. CASE \E found \in Findings : Plan(found)
  <2>1. PICK found \in Findings : Plan(found)
    BY <1>3
  <2>2. now' = now /\ active' \in {active, config.version}
    BY <2>1 DEF Plan, Activate
  <2>3. active' \in DOMAIN Policies \cup {None}
    BY <1>1, <2>2 DEF Configured
  <2>4. CASE UNCHANGED <<video, cohorts, gaps>>
    BY <1>1, <2>2, <2>3, <2>4
  <2>5. CASE \E sig, interval, cs, recovery, recovered, routine :
                 /\ PlanOf(found, sig, interval, cs, recovery, recovered, routine)
                 /\ Committed(found, sig, interval, cs, recovery, recovered, routine)
    <3>1. /\ video' \in VideoState
          /\ gaps' \subseteq Gap /\ \A g \in gaps' : g.start < g.end
          /\ AllSound(cohorts')
      BY <2>5, CommittedSound
    <3> QED BY <1>1, <2>2, <2>3, <3>1
  <2> QED BY <2>1, <2>4, <2>5, PlanCases
<1>4. CASE \E key \in DOMAIN cohorts : \E k \in DOMAIN cohorts[key].comps :
             \E result \in Outcomes : Execute(key, k, result)
  <2>1. AllSound(cohorts')
    BY <1>1, <1>4, ExecuteSound
  <2>2. UNCHANGED <<now, active, video, gaps>>
    BY <1>4 DEF Execute
  <2> QED BY <1>1, <2>1, <2>2
<1>5. CASE \E version \in DOMAIN Policies, rollout \in Rollouts :
             Configure(version, rollout)
  BY <1>1, <1>5 DEF Configure
<1>6. CASE Tick
  BY <1>1, <1>6 DEF Tick
<1>7. CASE UNCHANGED vars
  BY <1>1, <1>7 DEF vars
<1> QED BY <1>3, <1>4, <1>5, <1>6, <1>7 DEF Next

(* The rows of the planner keep to their columns: deadlines lie ahead of   *)
(* what they are for, ranges of pages are not empty, also when a recovery  *)
(* prefers one of several, tiers, stages and statuses are those that the   *)
(* database knows, and a shadow cohort has no tasks.                       *)
THEOREM PlannerTypes == Spec => []TypeOK
<1> DEFINE Inv == Shapes /\ Configured /\ TypeOK
<1>1. Init => Inv
  BY InitShapes, InitConfigured, InitTypes
<1>2. Inv /\ [Next]_vars => Inv'
  BY NextKeeps, NextConfigured, NextTypes
<1> QED BY <1>1, <1>2, PTL DEF Spec
=============================================================================
