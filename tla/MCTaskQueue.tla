---------------------------- MODULE MCTaskQueue ----------------------------
(* Small instances of TaskQueue for TLC.                                   *)
EXTENDS TaskQueue, TLC

CONSTANTS t1, t2, t3, w1, w2, video, reply, info

MCTask == {t1, t2, t3}
MCWorker == {w1, w2}
MCKey == {video, reply, info}

(* `info' is the kind without a collector, `video' the task of a cohort.   *)
MCHandled == {video, reply}
MCLinked == {video}
MCUnlinked == {}
MCPriority == (video :> 2) @@ (reply :> 1) @@ (info :> 1)

Symmetry == Permutations(MCTask) \cup Permutations(MCWorker)
=============================================================================
