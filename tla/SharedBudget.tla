---------------------------- MODULE SharedBudget ----------------------------
(***************************************************************************)
(* What COLLECTION.md and CONFIGURATION.md promise of the request budget   *)
(* that all processes on one database share: each layer is one token       *)
(* bucket, a request takes its token from all of its layers at once or     *)
(* from none, and a rule that has been recorded stays what it is.          *)
(*                                                                         *)
(* Tokens are counted in parts, Unit of which are one token.  With Lag = 0 *)
(* the promise is exact.  Otherwise a request may see its buckets as they  *)
(* were at most Lag ago, and pays for them as if it had come then: what    *)
(* they have gained since, they gain once more.                            *)
(***************************************************************************)
EXTENDS Integers

CONSTANTS
  Key, Rule, NoRule, Unit,
  Lag      \* how old the view of a request may be

VARIABLES
  level,   \* what each bucket holds at this instant
  rule     \* its rule, once a process has used it

vars == <<level, rule>>

Least(a, b) == IF a <= b THEN a ELSE b

Full(r) == r.burst * Unit

Init ==
  /\ level = [k \in Key |-> 0]
  /\ rule = [k \in Key |-> NoRule]

(* The rules that buckets get when they are used for the first time, and   *)
(* what they hold then.                                                    *)
Adopted(k) == IF rule[k] # NoRule THEN level[k] ELSE Full(rule'[k])

Adopt(K) ==
  /\ rule' \in [Key -> Rule \cup {NoRule}]
  /\ \A k \in K : rule'[k] # NoRule
  /\ \A k \in Key : k \notin K \/ rule[k] # NoRule => rule'[k] = rule[k]

(* What k gains at most from the age of the view.                          *)
Slack(k) == rule'[k].rate * Lag

(* The buckets of K are charged, the others are left alone.                *)
Charge(K, charge) ==
  /\ \A k \in K : /\ level'[k] >= Adopted(k) - charge
                  /\ level'[k] <= Adopted(k) - charge + Slack(k)
                  /\ level'[k] <= Full(rule'[k])
  /\ \A k \in Key \ K : level'[k] = level[k]

(* A request takes a token from each of its layers.                        *)
Take(K) ==
  /\ Adopt(K)
  /\ level' \in [Key -> Nat]
  /\ \A k \in K : Adopted(k) >= Unit
  /\ Charge(K, Unit)

(* A request has to wait and takes nothing.                                *)
Wait(K) ==
  /\ Adopt(K)
  /\ level' \in [Key -> Nat]
  /\ \E k \in K : Adopted(k) < Unit + Slack(k)
  /\ Charge(K, 0)

(* A unit of time passes and refills the buckets.                          *)
Refill ==
  /\ level' = [k \in Key |->
                 IF rule[k] = NoRule THEN level[k]
                 ELSE Least(Full(rule[k]), level[k] + rule[k].rate)]
  /\ UNCHANGED rule

Next == Refill \/ \E K \in SUBSET Key : Take(K) \/ Wait(K)

Spec == Init /\ [][Next]_vars
=============================================================================
