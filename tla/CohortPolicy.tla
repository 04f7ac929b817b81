---------------------------- MODULE CohortPolicy ----------------------------
(***************************************************************************)
(* The arithmetic of the snapshot cohort policy: which configurations are  *)
(* accepted, how often a video is looked at, in which tier and life stage  *)
(* it is, which pages and components a cohort has and what the statuses of *)
(* its components say of it.                                               *)
(*                                                                         *)
(* A policy P is the record that CohortPolicy.from_config builds.  Times   *)
(* are minutes, None is the absent value of an optional number.  Tiers are *)
(* named in the order of their rank.                                       *)
(***************************************************************************)
EXTENDS Integers, Sequences, FiniteSetsExt

CONSTANT None

Tier == {"s", "a", "b", "c"}

Rank == [t \in Tier |-> CASE t = "s" -> 0 [] t = "a" -> 1 [] t = "b" -> 2
                          [] t = "c" -> 3]

Stage == {"active", "dormant", "archived"}

Missed == {"missed_due_to_capacity", "missed_due_to_service_gap"}

Active == {"running", "joined_active_task"}

ComponentStatus ==
  {"pending", "complete", "partial", "failed", "corrupted",
   "not_applicable", "blocked"} \cup Missed \cup Active

CohortStatus ==
  {"planned", "shadow_planned", "running", "complete", "partial", "missed",
   "corrupted", "blocked", "not_applicable"}

-----------------------------------------------------------------------------
(* What from_config accepts.                                               *)

Positive == Nat \ {0}

(* _positive_int, _checkpoint_hours: every count and every duration is a
   positive integer.                                                       *)
PositiveValid(P) ==
  /\ P.hours \subseteq Positive
  /\ {P.lateness, P.bucket, P.confirmations, P.officialAge,
      P.turnoverConfirmations, P.hot.sliceSeconds, P.lifecycle.dormantAfter,
      P.lifecycle.archiveAfter, P.lifecycle.dormantInterval,
      P.lifecycle.probeInterval} \subseteq Positive
  /\ \A t \in Tier : {P.hot.routine[t], P.hot.checkpoint[t],
                      P.intervals[t].active, P.intervals[t].normal} \subseteq Positive

(* _tier_thresholds: s over a over b, a turnover ratio for s and a.        *)
ThresholdsValid(th) ==
  /\ \A up \in {"s", "a", "b"}, low \in {"s", "a", "b"} :
       Rank[up] < Rank[low] => /\ th[up].views >= th[low].views
                               /\ th[up].comments >= th[low].comments
  /\ None \notin {th["s"].turnover, th["a"].turnover}
  /\ th["s"].turnover >= th["a"].turnover

LifecycleValid(l) == l.dormantAfter < l.archiveAfter

(* _activity_windows: names are unique, a window is neither empty nor all
   day.                                                                    *)
WindowsValid(ws) == \A w \in ws : w.start # w.end

IntervalsValid(iv) == \A t \in Tier : iv[t].active <= iv[t].normal

(* _hot_comment_policy: a checkpoint reads at least the routine pages, a
   slice ends within the lease of its task.                                *)
HotValid(h, lease) ==
  /\ \A t \in Tier : h.checkpoint[t] >= h.routine[t]
  /\ h.sliceSeconds < lease

Accepted(P, lease) ==
  /\ P.hours # {}
  /\ PositiveValid(P)
  /\ ThresholdsValid(P.thresholds)
  /\ HotValid(P.hot, lease)
  /\ LifecycleValid(P.lifecycle)
  /\ WindowsValid(P.windows)
  /\ IntervalsValid(P.intervals)

(* as_persisted_policy: everything but the switches of operation.          *)
Persisted(P) == [f \in DOMAIN P \ {"enabled", "version", "rollout"} |-> P[f]]

-----------------------------------------------------------------------------
(* Times                                                                   *)

(* Half-open windows of the local day; one that ends before it starts goes
   through midnight.                                                       *)
InWindow(minute, w) ==
  IF w.start < w.end THEN w.start <= minute /\ minute < w.end
                     ELSE w.start <= minute \/ minute < w.end

InActivityWindow(minute, P) == \E w \in P.windows : InWindow(minute, w)

AgeGrowthInterval(age, growth) ==
  LET views == IF growth = None THEN 0 ELSE growth IN
  CASE age < 30 -> 1
    [] age >= 30 /\ age < 360 -> 5
    [] age >= 360 /\ views > 30000 -> 5
    [] age >= 360 /\ views > 6000 /\ views <= 30000 -> 15
    [] age >= 360 /\ views > 1200 /\ views <= 6000 -> 30
    [] OTHER -> 120

(* The shortest of what the age, the tier and the next checkpoint allow.   *)
EffectiveInterval(age, minute, t, growth, toCheckpoint, P) ==
  LET ceiling == IF InActivityWindow(minute, P) THEN P.intervals[t].active
                                                ELSE P.intervals[t].normal
  IN  Min({AgeGrowthInterval(age, growth), ceiling}
            \cup (IF toCheckpoint = None THEN {} ELSE {toCheckpoint}))

(* The first slot of the grid through the anchor that is still to come.    *)
NextAlignedSlot(anchor, now, interval) ==
  IF now < anchor THEN anchor
  ELSE anchor + interval * ((now - anchor) \div interval + 1)

CheckpointTimes(anchor, hours) == {anchor + h : h \in hours}

-----------------------------------------------------------------------------
(* Tiers and stages                                                        *)

Meets(value, threshold) == value # None /\ value >= threshold

(* desired_tier: what forces a tier, else the first tier one of whose
   thresholds is met.  Turnover counts only when its input is complete and
   has been confirmed often enough.                                        *)
DesiredTier(sig, P) ==
  LET young == /\ sig.official
               /\ sig.age # None
               /\ 0 <= sig.age /\ sig.age < P.officialAge
      turnoverCounts == /\ sig.complete
                        /\ sig.confirmations >= P.turnoverConfirmations
                        /\ sig.turnover # None
      Hit(t) == \/ Meets(sig.views, P.thresholds[t].views)
                \/ Meets(sig.comments, P.thresholds[t].comments)
                \/ /\ turnoverCounts
                   /\ P.thresholds[t].turnover # None
                   /\ sig.turnover >= P.thresholds[t].turnover
      hits == {t \in {"s", "a", "b"} : Hit(t)}
  IN  CASE young \/ sig.event \/ sig.creator -> "s"
        [] ~(young \/ sig.event \/ sig.creator) /\ sig.pinned # None -> sig.pinned
        [] OTHER -> IF hits = {} THEN "c"
                    ELSE CHOOSE t \in hits : \A u \in hits : Rank[t] <= Rank[u]

Assessment(effective, candidate, count) ==
  [effective |-> effective, candidate |-> candidate, count |-> count]

(* apply_tier_assessment: up at once, down after so many equal wishes.     *)
Assess(a, desired, confirmations) ==
  LET count == IF a.candidate = desired THEN a.count + 1 ELSE 1 IN
  CASE Rank[desired] <= Rank[a.effective] -> Assessment(desired, None, 0)
    [] Rank[desired] > Rank[a.effective] /\ count >= confirmations ->
         Assessment(desired, None, 0)
    [] OTHER -> Assessment(a.effective, desired, count)

(* determine_life_stage: nobody leaves the active stage without evidence.  *)
LifeStage(age, lowGrowth, kept, P) ==
  IF kept \/ ~lowGrowth \/ age < P.lifecycle.dormantAfter THEN "active"
  ELSE IF age < P.lifecycle.archiveAfter THEN "dormant" ELSE "archived"

StageKinds(stage, frontierComplete) ==
  {"video_metrics"}
    \cup (IF stage = "archived" THEN {} ELSE {"hot_core"})
    \cup (IF stage = "active" \/ (stage = "dormant" /\ frontierComplete)
          THEN {"latest_current_head"} ELSE {})

(* hot_page_plan: the core starts at page 1, the deep part after it.       *)
PagePlan(P, t, includeDeep, dormant) ==
  LET core == IF dormant THEN 1 ELSE P.hot.routine[t]
      total == IF dormant \/ ~includeDeep THEN core ELSE P.hot.checkpoint[t]
  IN  [core |-> core, deepStart |-> core + 1, deep |-> total - core]

Begun(p) ==
  p.started \/ p.status \in Active \cup {"complete", "partial", "failed", "corrupted"}

(* aggregate_cohort_status: only required components count.                *)
Aggregate(parts) ==
  LET required == {p \in parts : p.required}
      all == {p.status : p \in required}
      applicable == all \ {"not_applicable"}
      begun == \E p \in required : Begun(p)
  IN  IF "corrupted" \in all THEN "corrupted"
      ELSE IF all \cap Active # {} THEN "running"
      ELSE IF all = {"pending"} THEN "planned"
      ELSE IF all = {"not_applicable"} THEN "not_applicable"
      ELSE IF ~begun /\ applicable = {"blocked"} THEN "blocked"
      ELSE IF ~begun /\ applicable \cap Missed # {} THEN "missed"
      ELSE IF all \subseteq {"complete", "not_applicable"} THEN "complete"
      ELSE IF begun /\ "pending" \in all THEN "running"
      ELSE IF ~begun /\ applicable \subseteq {"pending", "blocked"} THEN "planned"
      ELSE "partial"
=============================================================================
