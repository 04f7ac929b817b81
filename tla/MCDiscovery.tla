---------------------------- MODULE MCDiscovery ----------------------------
(* Small instances of Discovery for TLC.                                   *)
EXTENDS Discovery

CONSTANTS bv, uid, w1, w2

MCVideo == {bv}
MCMid == {uid}
MCWorker == {w1, w2}
MCAuthor == [v \in Video |-> {uid}]
OneWorker == {w1}
=============================================================================
