--------------------------- MODULE RequestBudget ---------------------------
(***************************************************************************)
(* DatabaseTokenBucketRateLimiter: the token buckets in                    *)
(* request_budget_states from which all processes on one database take.    *)
(*                                                                         *)
(* An attempt is one transaction: it reads the clock of the database,      *)
(* inserts the buckets that do not exist yet, locks all of its buckets in  *)
(* the order of their keys, computes from what it has loaded what they     *)
(* hold at the time it has read, and commits that, minus a token each if   *)
(* all of them can pay.  Otherwise the caller sleeps and tries again.      *)
(*                                                                         *)
(* Time is kept relative to the present: the age of last_refill_at, the    *)
(* age of the time a transaction has read, what is left of a sleep.        *)
(***************************************************************************)
EXTENDS Integers

CONSTANTS
  Key,       \* the budget keys: global, hosts, request types
  Order,     \* the place of each key among the sorted keys
  Process,   \* the callers that share the database
  Request,   \* the sets of keys of the kinds of requests
  Config,    \* the rules processes may be configured with
  Rule,      \* [rate, burst]: parts per unit of time, tokens
  Unit,      \* the parts of one token
  NoRule, NoBucket, Nobody,
  MaxLag,    \* the longest a transaction waits for its locks
  MaxAge     \* bound on ages: a bucket of that age is full,
             \* and was full MaxLag ago

ASSUME BudgetAssumption ==
  /\ Order \in [Key -> Nat]
  /\ \A j, k \in Key : Order[j] = Order[k] => j = k
  /\ Request \subseteq SUBSET Key
  /\ Rule \subseteq [rate : Nat \ {0}, burst : Nat \ {0}]
  /\ NoRule \notin Rule
  /\ Config \subseteq [Key -> Rule \cup {NoRule}]
  /\ Unit \in Nat \ {0}
  /\ Nobody \notin Process
  /\ MaxLag \in Nat
  /\ MaxAge \in Nat
  /\ MaxLag <= MaxAge
  /\ \A r \in Rule : r.rate * (MaxAge - MaxLag) >= r.burst * Unit
  /\ NoBucket \notin [tokens : Nat, age : 0..MaxAge, rule : Rule]

VARIABLES
  buckets,   \* the committed rows of request_budget_states
  holder,    \* the process whose open transaction holds each row
  config,    \* the rules of each process
  phase,     \* what each process is doing
  asked,     \* the keys of its request that have a rule
  todo,      \* the keys it still has to insert or to lock
  lag,       \* the age of the time its transaction has read
  states,    \* the rows its transaction has loaded
  wait       \* what is left of its sleep

vars == <<buckets, holder, config, phase, asked, todo, lag, states,
          wait>>

-----------------------------------------------------------------------------
Bucket == [tokens : Nat, age : 0..MaxAge, rule : Rule]

Phase == {"down", "idle", "inserting", "locking", "sleeping", "sending"}

InTransaction(p) == phase[p] \in {"inserting", "locking"}

Least(a, b) == IF a <= b THEN a ELSE b
Minus(a, b) == IF a > b THEN a - b ELSE 0

Full(r) == r.burst * Unit

NothingLoaded == [k \in Key |-> NoBucket]

Effective(p, K) == {k \in K : config[p][k] # NoRule}

(* The row of k in the transaction of p, which may have inserted it.       *)
Current(p, k) ==
  IF buckets[k] # NoBucket THEN buckets[k]
  ELSE [tokens |-> Full(config[p][k]), age |-> Least(lag[p], MaxAge),
        rule |-> config[p][k]]

(* What the bucket holds at the time that p has read.                      *)
Available(p, k) ==
  LET b == states[p][k]
  IN  Least(Full(b.rule), b.tokens + b.rule.rate * Minus(b.age, lag[p]))

CanPay(p) == \A k \in asked[p] : Available(p, k) >= Unit

Locked(p) == phase[p] = "locking" /\ todo[p] = {}

Agrees(p) == \A k \in asked[p] : states[p][k].rule = config[p][k]

-----------------------------------------------------------------------------
Init ==
  /\ buckets = [k \in Key |-> NoBucket]
  /\ holder = [k \in Key |-> Nobody]
  /\ config \in [Process -> Config]
  /\ phase = [p \in Process |-> "idle"]
  /\ asked = [p \in Process |-> {}]
  /\ todo = [p \in Process |-> {}]
  /\ lag = [p \in Process |-> 0]
  /\ states = [p \in Process |-> NothingLoaded]
  /\ wait = [p \in Process |-> 0]

(* acquire_many: keys without a rule are ignored, and a request without    *)
(* any rule is sent at once.                                               *)
Acquire(p, K) ==
  /\ phase[p] = "idle"
  /\ asked' = [asked EXCEPT ![p] = Effective(p, K)]
  /\ todo' = [todo EXCEPT ![p] = Effective(p, K)]
  /\ phase' = [phase EXCEPT ![p] =
       IF Effective(p, K) = {} THEN "sending" ELSE "inserting"]
  /\ UNCHANGED <<buckets, holder, config, lag, states, wait>>

(* Mutant of IsNext: the keys come in any order.                           *)
IsNextUnsorted(p, k) == k \in todo[p]

IsNext(p, k) == k \in todo[p] /\ \A j \in todo[p] : Order[k] <= Order[j]

(* _ensure_budget_state: INSERT ... ON CONFLICT DO NOTHING, which waits    *)
(* for a transaction that has inserted the same key.                       *)
Insert(p, k) ==
  /\ phase[p] = "inserting"
  /\ IsNext(p, k)
  /\ \/ buckets[k] # NoBucket /\ UNCHANGED holder
     \/ /\ buckets[k] = NoBucket /\ holder[k] = Nobody
        /\ holder' = [holder EXCEPT ![k] = p]
  /\ todo' = [todo EXCEPT ![p] = IF @ = {k} THEN asked[p] ELSE @ \ {k}]
  /\ phase' = [phase EXCEPT ![p] = IF todo[p] = {k} THEN "locking" ELSE @]
  /\ UNCHANGED <<buckets, config, asked, lag, states, wait>>

Load(p, k) ==
  /\ todo' = [todo EXCEPT ![p] = @ \ {k}]
  /\ states' = [states EXCEPT ![p][k] = Current(p, k)]

(* Mutant of Lock: a SELECT that does not lock.                            *)
LockForgotten(p, k) ==
  /\ phase[p] = "locking"
  /\ IsNext(p, k)
  /\ Load(p, k)
  /\ UNCHANGED <<buckets, holder, config, phase, asked, lag, wait>>

(* SELECT ... ORDER BY budget_key FOR UPDATE: one row after the other is   *)
(* locked and loaded.                                                      *)
Lock(p, k) ==
  /\ phase[p] = "locking"
  /\ IsNext(p, k)
  /\ holder[k] \in {Nobody, p}
  /\ holder' = [holder EXCEPT ![k] = p]
  /\ Load(p, k)
  /\ UNCHANGED <<buckets, config, phase, asked, lag, wait>>

(* The end of a transaction of p, which goes on to phase next.             *)
Release(p, next) ==
  /\ holder' = [k \in Key |-> IF holder[k] = p THEN Nobody ELSE holder[k]]
  /\ phase' = [phase EXCEPT ![p] = next]
  /\ todo' = [todo EXCEPT ![p] = {}]
  /\ lag' = [lag EXCEPT ![p] = 0]
  /\ states' = [states EXCEPT ![p] = NothingLoaded]

(* What p commits: each of its buckets refilled, minus a charge.           *)
Charged(p, charge) ==
  [k \in Key |->
     IF k \in asked[p]
     THEN [tokens |-> Available(p, k) - charge,
           age |-> Least(lag[p], MaxAge), rule |-> config[p][k]]
     ELSE buckets[k]]

(* _validate_rule: the row says another rule than the configuration of the *)
(* process; the request fails and everything is rolled back.               *)
RefuseRule(p) ==
  /\ Locked(p)
  /\ ~Agrees(p)
  /\ Release(p, "idle")
  /\ asked' = [asked EXCEPT ![p] = {}]
  /\ UNCHANGED <<buckets, config, wait>>

(* All buckets can pay.                                                    *)
Grant(p) ==
  /\ Locked(p)
  /\ Agrees(p)
  /\ CanPay(p)
  /\ buckets' = Charged(p, Unit)
  /\ Release(p, "sending")
  /\ asked' = [asked EXCEPT ![p] = {}]
  /\ UNCHANGED <<config, wait>>

(* The time until the emptiest bucket can pay, if nobody else takes.       *)
Suffices(p, w) ==
  \A k \in asked[p] : Available(p, k) + config[p][k].rate * w >= Unit

(* One of them cannot: the refill is committed and the process sleeps.     *)
Postpone(p) ==
  /\ Locked(p)
  /\ Agrees(p)
  /\ ~CanPay(p)
  /\ buckets' = Charged(p, 0)
  /\ \E w \in 1..Unit :
       /\ Suffices(p, w) /\ ~Suffices(p, w - 1)
       /\ wait' = [wait EXCEPT ![p] = w]
  /\ Release(p, "sleeping")
  /\ UNCHANGED <<config, asked>>

(* The sleep is over: another transaction for the same keys.               *)
Wake(p) ==
  /\ phase[p] = "sleeping"
  /\ wait[p] = 0
  /\ phase' = [phase EXCEPT ![p] = "inserting"]
  /\ todo' = [todo EXCEPT ![p] = asked[p]]
  /\ UNCHANGED <<buckets, holder, config, asked, lag, states, wait>>

(* The request has been answered.                                          *)
Finish(p) ==
  /\ phase[p] = "sending"
  /\ phase' = [phase EXCEPT ![p] = "idle"]
  /\ UNCHANGED <<buckets, holder, config, asked, todo, lag, states, wait>>

(* The process is killed; an open transaction is rolled back.              *)
Crash(p) ==
  /\ phase[p] # "down"
  /\ Release(p, "down")
  /\ asked' = [asked EXCEPT ![p] = {}]
  /\ wait' = [wait EXCEPT ![p] = 0]
  /\ UNCHANGED <<buckets, config>>

(* It is started again, perhaps with another configuration.                *)
Restart(p, c) ==
  /\ phase[p] = "down"
  /\ phase' = [phase EXCEPT ![p] = "idle"]
  /\ config' = [config EXCEPT ![p] = c]
  /\ UNCHANGED <<buckets, holder, asked, todo, lag, states, wait>>

(* A unit of time passes.                                                  *)
Older(b) ==
  IF b = NoBucket THEN b
  ELSE [tokens |-> b.tokens, age |-> Least(b.age + 1, MaxAge), rule |-> b.rule]

Tick ==
  /\ \A p \in Process : InTransaction(p) => lag[p] < MaxLag
  /\ buckets' = [k \in Key |-> Older(buckets[k])]
  /\ states' = [p \in Process |-> [k \in Key |-> Older(states[p][k])]]
  /\ lag' = [p \in Process |-> IF InTransaction(p) THEN lag[p] + 1 ELSE 0]
  /\ wait' = [p \in Process |-> Minus(wait[p], 1)]
  /\ UNCHANGED <<holder, config, phase, asked, todo>>

-----------------------------------------------------------------------------
Proceed(p) == \E k \in Key : Insert(p, k) \/ Lock(p, k)

Decide(p) == RefuseRule(p) \/ Grant(p) \/ Postpone(p)

Next ==
  \/ \E p \in Process :
       \/ \E K \in Request : Acquire(p, K)
       \/ Proceed(p) \/ Decide(p) \/ Wake(p) \/ Finish(p)
       \/ Crash(p) \/ \E c \in Config : Restart(p, c)
  \/ Tick

Spec == Init /\ [][Next]_vars

(* Time passes, whatever the processes do; a transaction gets a lock that  *)
(* is free again and again, since the database queues those that wait; and *)
(* a process goes on when it can.                                          *)
Fairness ==
  /\ SF_vars(Tick)
  /\ \A p \in Process :
       SF_vars(Proceed(p)) /\ WF_vars(Decide(p)) /\ WF_vars(Wake(p))

FairSpec == Spec /\ Fairness

-----------------------------------------------------------------------------
TypeOK ==
  /\ buckets \in [Key -> Bucket \cup {NoBucket}]
  /\ \A k \in Key : buckets[k] # NoBucket =>
       buckets[k].tokens <= Full(buckets[k].rule)
  /\ holder \in [Key -> Process \cup {Nobody}]
  /\ config \in [Process -> Config]
  /\ phase \in [Process -> Phase]
  /\ asked \in [Process -> SUBSET Key]
  /\ todo \in [Process -> SUBSET Key]
  /\ lag \in [Process -> 0..MaxLag]
  /\ states \in [Process -> [Key -> Bucket \cup {NoBucket}]]
  /\ wait \in [Process -> 0..Unit]

(* What a bucket holds at this instant.                                    *)
Level(k) ==
  IF buckets[k] = NoBucket THEN 0
  ELSE LET b == buckets[k]
       IN  Least(Full(b.rule), b.tokens + b.rule.rate * b.age)

Budget == INSTANCE SharedBudget WITH
            Lag <- MaxLag,
            level <- [k \in Key |-> Level(k)],
            rule <- [k \in Key |-> IF buckets[k] = NoBucket THEN NoRule
                                   ELSE buckets[k].rule]

(* The processes together keep to the shared budget: no request is sent    *)
(* unless each of its layers holds a token at that instant, no layer is    *)
(* charged for a request that has to wait or whose process dies, no rule   *)
(* is changed by a process with another configuration, and a transaction   *)
(* that waited for its locks gives its layers at most what they gained     *)
(* while it waited (acquire_many, _acquire_or_wait, _validate_rule).       *)
BudgetShared == Budget!Spec

(* A request that wants tokens does not wait for ever while nobody is      *)
(* served: some request is sent, or this one is refused or killed.  (Which *)
(* waiter is served is left to chance.)                                    *)
SomebodyServed ==
  \A p \in Process :
    asked[p] # {} ~> \/ asked[p] = {}
                     \/ \E q \in Process : phase[q] = "sending"
=============================================================================
