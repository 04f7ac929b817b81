-------------------------- MODULE MCRequestBudget --------------------------
(* Small instances of RequestBudget for TLC.                               *)
EXTENDS RequestBudget, TLC

CONSTANTS global, video, p1, p2

MCKey == {global, video}
MCOrder == (video :> 1) @@ (global :> 2)
MCProcess == {p1, p2}
MCRequest == {{global, video}, {video}}

(* One token per unit of time, or one in two, as Unit = 2.                 *)
Fast == [rate |-> 2, burst |-> 1]
Slow == [rate |-> 1, burst |-> 2]
MCRule == {Fast, Slow}

(* A second deployment drifts in the rule of one key and drops the other.  *)
Agreed == (global :> Fast) @@ (video :> Slow)
Drifted == (global :> NoRule) @@ (video :> Fast)
MCConfig == {Agreed, Drifted}
=============================================================================
