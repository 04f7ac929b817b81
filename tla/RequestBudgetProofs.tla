------------------------ MODULE RequestBudgetProofs ------------------------
(***************************************************************************)
(* Theorems about RequestBudget, for any keys, processes, requests, rules  *)
(* and configurations.                                                     *)
(*                                                                         *)
(* A process decides by the rows it has loaded.  They are still the rows   *)
(* of the table when it commits, because it holds their locks (Coherent)   *)
(* and because it only asks for keys that its configuration has a rule for *)
(* (Scoped).  Hence the commit is one step of the shared budget: it may be *)
(* computed for an instant that has passed (lag), which gives the bucket   *)
(* no more than what it regains in that time (ViewOfThePast).              *)
(***************************************************************************)
EXTENDS RequestBudget, TLAPS

Scoped ==
  \A p \in Process :
    /\ todo[p] \subseteq asked[p]
    /\ \A k \in asked[p] : config[p][k] # NoRule
    /\ asked[p] # {} => phase[p] \in {"inserting", "locking", "sleeping"}

Coherent ==
  \A p \in Process : phase[p] = "locking" =>
    \A k \in asked[p] \ todo[p] :
      holder[k] = p /\ states[p][k] = Current(p, k)

Inv == TypeOK /\ Scoped /\ Coherent

-----------------------------------------------------------------------------
(* Products of natural numbers, which the solver does not find by itself.  *)
LEMMA ProductIsNat ==
  ASSUME NEW a \in Nat, NEW b \in Nat
  PROVE  a * b \in Nat
  OBVIOUS

(* The fields of rules, buckets and rows.                                  *)
LEMMA RuleFields ==
  ASSUME NEW r \in Rule
  PROVE  /\ r.rate \in Nat \ {0}
         /\ r.burst \in Nat \ {0}
         /\ Full(r) \in Nat
         /\ r.rate * MaxAge \in Nat
         /\ r.rate * MaxAge >= Full(r)
         /\ r # NoRule
<1>1. r.rate \in Nat \ {0} /\ r.burst \in Nat \ {0} /\ r # NoRule
  BY BudgetAssumption
<1>2. /\ Unit \in Nat /\ MaxAge \in Nat /\ MaxLag \in Nat
      /\ r.rate * (MaxAge - MaxLag) >= r.burst * Unit
  BY BudgetAssumption
<1>3. /\ r.burst * Unit \in Nat /\ r.rate * MaxAge \in Nat
      /\ r.rate * MaxLag \in Nat
  BY <1>1, <1>2, ProductIsNat
<1>4. r.rate * (MaxAge - MaxLag) = r.rate * MaxAge - r.rate * MaxLag
  BY <1>1, <1>2
<1>5. r.rate * MaxAge >= r.burst * Unit
  BY <1>2, <1>3, <1>4
<1> QED BY <1>1, <1>3, <1>5 DEF Full

LEMMA BucketFields ==
  ASSUME NEW b \in Bucket
  PROVE  /\ b.tokens \in Nat
         /\ b.age \in 0..MaxAge
         /\ b.rule \in Rule
         /\ b # NoBucket
  BY BudgetAssumption DEF Bucket

LEMMA RowIsBucket ==
  ASSUME NEW t \in Nat, NEW a \in 0..MaxAge, NEW r \in Rule
  PROVE  /\ [tokens |-> t, age |-> a, rule |-> r] \in Bucket
         /\ [tokens |-> t, age |-> a, rule |-> r] # NoBucket
  BY BudgetAssumption DEF Bucket

(* What a process is configured with.                                      *)
LEMMA ConfiguredRule ==
  ASSUME TypeOK, NEW p \in Process, NEW k \in Key, config[p][k] # NoRule
  PROVE  config[p][k] \in Rule
  BY BudgetAssumption DEF TypeOK

(* The row that a transaction sees is a bucket.                            *)
LEMMA CurrentIsBucket ==
  ASSUME TypeOK, NEW p \in Process, NEW k \in Key, config[p][k] # NoRule
  PROVE  Current(p, k) \in Bucket
<1>1. CASE buckets[k] # NoBucket
  BY <1>1 DEF TypeOK, Current
<1>2. CASE buckets[k] = NoBucket
  <2>1. config[p][k] \in Rule
    BY ConfiguredRule
  <2>2. Full(config[p][k]) \in Nat
    BY <2>1, RuleFields
  <2>3. Least(lag[p], MaxAge) \in 0..MaxAge
    BY BudgetAssumption DEF TypeOK, Least
  <2> QED BY <1>2, <2>1, <2>2, <2>3, RowIsBucket DEF Current
<1> QED BY <1>1, <1>2

(* What a process has loaded once it has all its locks.                    *)
LEMMA LoadedIsBucket ==
  ASSUME Inv, NEW p \in Process, Locked(p), NEW k \in asked[p]
  PROVE  /\ k \in Key
         /\ holder[k] = p
         /\ config[p][k] \in Rule
         /\ states[p][k] = Current(p, k)
         /\ states[p][k] \in Bucket
<1>1. k \in Key /\ config[p][k] # NoRule
  BY DEF Inv, TypeOK, Scoped
<1>2. holder[k] = p /\ states[p][k] = Current(p, k)
  BY DEF Inv, Coherent, Locked
<1> QED BY <1>1, <1>2, ConfiguredRule, CurrentIsBucket DEF Inv

(* It computes an amount between nothing and the burst.                    *)
LEMMA AvailableInRange ==
  ASSUME Inv, NEW p \in Process, Locked(p), NEW k \in asked[p]
  PROVE  Available(p, k) \in 0..Full(states[p][k].rule)
<1> DEFINE b == states[p][k]
<1>1. b.tokens \in Nat /\ b.age \in 0..MaxAge /\ b.rule \in Rule
  BY LoadedIsBucket, BucketFields
<1>2. lag[p] \in Nat /\ MaxAge \in Nat
  BY BudgetAssumption DEF Inv, TypeOK
<1>3. Minus(b.age, lag[p]) \in Nat
  BY <1>1, <1>2 DEF Minus
<1>4. b.rule.rate * Minus(b.age, lag[p]) \in Nat /\ Full(b.rule) \in Nat
  BY <1>1, <1>3, RuleFields, ProductIsNat
<1> DEFINE gain == b.rule.rate * Minus(b.age, lag[p])
<1>5. Available(p, k) = Least(Full(b.rule), b.tokens + gain)
  BY DEF Available
<1>6. gain \in Nat /\ Full(b.rule) \in Nat /\ b.tokens \in Nat
  BY <1>1, <1>4
<1> HIDE DEF gain
<1> QED BY <1>5, <1>6 DEF Least

-----------------------------------------------------------------------------
(* The rows that a decision commits.                                       *)
LEMMA ChargedTyped ==
  ASSUME Inv, NEW p \in Process, Locked(p), Agrees(p),
         NEW charge \in {0, Unit}, charge = Unit => CanPay(p)
  PROVE  /\ Charged(p, charge) \in [Key -> Bucket \cup {NoBucket}]
         /\ \A k \in Key : Charged(p, charge)[k] # NoBucket =>
              Charged(p, charge)[k].tokens <= Full(Charged(p, charge)[k].rule)
         /\ \A k \in asked[p] : Charged(p, charge)[k] # NoBucket
<1>1. ASSUME NEW k \in asked[p]
      PROVE  /\ k \in Key
             /\ Charged(p, charge)[k] \in Bucket
             /\ Charged(p, charge)[k].tokens
                  <= Full(Charged(p, charge)[k].rule)
  <2>1. k \in Key /\ config[p][k] \in Rule /\ states[p][k] \in Bucket
    BY LoadedIsBucket
  <2>2. states[p][k].rule = config[p][k]
    BY DEF Agrees
  <2>3. Available(p, k) \in 0..Full(config[p][k])
    BY <2>2, AvailableInRange
  <2>4. Full(config[p][k]) \in Nat /\ Unit \in Nat
    BY <2>1, RuleFields, BudgetAssumption
  <2>5. /\ Available(p, k) - charge \in Nat
        /\ Available(p, k) - charge <= Full(config[p][k])
    BY <2>3, <2>4 DEF CanPay
  <2>6. Least(lag[p], MaxAge) \in 0..MaxAge
    BY BudgetAssumption DEF Inv, TypeOK, Least
  <2>7. Charged(p, charge)[k] =
          [tokens |-> Available(p, k) - charge,
           age |-> Least(lag[p], MaxAge), rule |-> config[p][k]]
    BY <2>1 DEF Charged
  <2> QED BY <2>1, <2>5, <2>6, <2>7, RowIsBucket
<1>2. ASSUME NEW k \in Key, k \notin asked[p]
      PROVE  Charged(p, charge)[k] = buckets[k]
  BY <1>2 DEF Charged
<1>3. ASSUME NEW k \in Key
      PROVE  Charged(p, charge)[k] \in Bucket \cup {NoBucket}
  BY <1>1, <1>2 DEF Inv, TypeOK
<1>4. Charged(p, charge) \in [Key -> Bucket \cup {NoBucket}]
  BY <1>3 DEF Charged
<1>5. ASSUME NEW k \in Key, Charged(p, charge)[k] # NoBucket
      PROVE  Charged(p, charge)[k].tokens
               <= Full(Charged(p, charge)[k].rule)
  BY <1>1, <1>2, <1>5 DEF Inv, TypeOK
<1> QED BY <1>1, <1>4, <1>5, BucketFields

(* The parts of Inv that the end of a transaction of p leaves in order,    *)
(* when rows change under the locks of p only.                             *)
LEMMA ReleaseKeeps ==
  ASSUME Inv, NEW p \in Process, NEW next \in Phase \ {"inserting", "locking"},
         Release(p, next),
         asked' \in {asked, [asked EXCEPT ![p] = {}]},
         asked'[p] # {} => next = "sleeping",
         config' = config,
         \A k \in Key : buckets'[k] = buckets[k] \/ holder[k] = p
  PROVE  /\ holder' \in [Key -> Process \cup {Nobody}]
         /\ phase' \in [Process -> Phase]
         /\ asked' \in [Process -> SUBSET Key]
         /\ todo' \in [Process -> SUBSET Key]
         /\ lag' \in [Process -> 0..MaxLag]
         /\ states' \in [Process -> [Key -> Bucket \cup {NoBucket}]]
         /\ Scoped' /\ Coherent'
<1>1. phase' = [phase EXCEPT ![p] = next] /\ phase \in [Process -> Phase]
  BY DEF Release, Inv, TypeOK
<1>2. phase'[p] = next /\ phase' \in [Process -> Phase]
  BY <1>1
<1>3. /\ holder' \in [Key -> Process \cup {Nobody}]
      /\ asked' \in [Process -> SUBSET Key]
      /\ todo' \in [Process -> SUBSET Key]
      /\ lag' \in [Process -> 0..MaxLag]
      /\ states' \in [Process -> [Key -> Bucket \cup {NoBucket}]]
  <2>1. /\ holder' \in [Key -> Process \cup {Nobody}]
        /\ asked' \in [Process -> SUBSET Key]
        /\ todo' \in [Process -> SUBSET Key]
    BY DEF Release, Inv, TypeOK
  <2>2. lag' \in [Process -> 0..MaxLag]
    BY BudgetAssumption DEF Release, Inv, TypeOK
  <2>3. NothingLoaded \in [Key -> Bucket \cup {NoBucket}]
    BY DEF NothingLoaded
  <2>4. states' = [states EXCEPT ![p] = NothingLoaded]
    BY DEF Release
  <2>5. states' \in [Process -> [Key -> Bucket \cup {NoBucket}]]
    BY <2>3, <2>4 DEF Inv, TypeOK
  <2> QED BY <2>1, <2>2, <2>5
<1>4. todo'[p] = {} /\ asked'[p] \subseteq asked[p]
  BY DEF Release, Inv, TypeOK
<1>5. ASSUME NEW q \in Process, q # p
      PROVE  /\ phase'[q] = phase[q] /\ todo'[q] = todo[q]
             /\ asked'[q] = asked[q] /\ states'[q] = states[q]
             /\ lag'[q] = lag[q]
  BY <1>5 DEF Release, Inv, TypeOK
<1>6. Scoped'
  <2> SUFFICES ASSUME NEW q \in Process
               PROVE  /\ todo'[q] \subseteq asked'[q]
                      /\ \A k \in asked'[q] : config'[q][k] # NoRule
                      /\ asked'[q] # {} =>
                           phase'[q] \in {"inserting", "locking", "sleeping"}
    BY DEF Scoped
  <2>1. CASE q = p
    BY <2>1, <1>2, <1>4 DEF Inv, Scoped
  <2>2. CASE q # p
    BY <2>2, <1>5 DEF Inv, Scoped
  <2> QED BY <2>1, <2>2
<1>7. Coherent'
  <2> SUFFICES ASSUME NEW q \in Process, phase'[q] = "locking",
                      NEW k \in asked'[q] \ todo'[q]
               PROVE  holder'[k] = q /\ states'[q][k] = Current(q, k)'
    BY DEF Coherent
  <2>1. q # p
    BY <1>2
  <2>2. holder[k] = q /\ states[q][k] = Current(q, k) /\ k \in Key
    BY <2>1, <1>5 DEF Inv, Coherent, TypeOK
  <2>3. holder'[k] = q
    BY <2>1, <2>2 DEF Release
  <2>4. buckets'[k] = buckets[k]
    BY <2>1, <2>2
  <2> QED BY <2>1, <2>2, <2>3, <2>4, <1>5 DEF Current
<1> QED BY <1>2, <1>3, <1>6, <1>7
-----------------------------------------------------------------------------
(* The initial states.                                                     *)
LEMMA InitInv == Init => Inv
<1> SUFFICES ASSUME Init PROVE Inv
  OBVIOUS
<1>1. TypeOK
  BY BudgetAssumption DEF Init, TypeOK, Phase, NothingLoaded
<1>2. Scoped /\ Coherent
  BY DEF Init, Scoped, Coherent
<1> QED BY <1>1, <1>2 DEF Inv

LEMMA AcquireInv ==
  ASSUME Inv, NEW p \in Process, NEW K \in Request, Acquire(p, K)
  PROVE  Inv'
<1> DEFINE E == Effective(p, K)
<1>1. E \in SUBSET Key /\ \A k \in E : config[p][k] # NoRule
  BY BudgetAssumption DEF Effective
<1>2. /\ asked' = [asked EXCEPT ![p] = E]
      /\ todo' = [todo EXCEPT ![p] = E]
      /\ phase' = [phase EXCEPT ![p] =
           IF E = {} THEN "sending" ELSE "inserting"]
      /\ UNCHANGED <<buckets, holder, config, lag, states, wait>>
  BY DEF Acquire
<1> HIDE DEF E
<1>3. TypeOK'
  BY <1>1, <1>2 DEF Inv, TypeOK, Phase
<1>4. Scoped'
  BY <1>1, <1>2 DEF Inv, TypeOK, Scoped
<1>5. Coherent'
  <2> SUFFICES ASSUME NEW q \in Process, phase'[q] = "locking",
                      NEW k \in asked'[q] \ todo'[q]
               PROVE  holder'[k] = q /\ states'[q][k] = Current(q, k)'
    BY DEF Coherent
  <2>1. q # p
    BY <1>2 DEF Inv, TypeOK
  <2>2. phase[q] = "locking" /\ k \in asked[q] \ todo[q]
    BY <2>1, <1>2 DEF Inv, TypeOK
  <2> QED BY <2>2, <1>2 DEF Inv, Coherent, Current
<1> QED BY <1>3, <1>4, <1>5 DEF Inv

LEMMA InsertInv ==
  ASSUME Inv, NEW p \in Process, NEW k \in Key, Insert(p, k)
  PROVE  Inv'
<1>1. /\ phase[p] = "inserting" /\ k \in todo[p]
      /\ \/ holder' = holder
         \/ holder[k] = Nobody /\ holder' = [holder EXCEPT ![k] = p]
      /\ todo' = [todo EXCEPT ![p] =
           IF todo[p] = {k} THEN asked[p] ELSE todo[p] \ {k}]
      /\ phase' = [phase EXCEPT ![p] =
           IF todo[p] = {k} THEN "locking" ELSE phase[p]]
      /\ UNCHANGED <<buckets, config, asked, lag, states, wait>>
  BY DEF Insert, IsNext
<1>2. TypeOK'
  <2>1. phase' \in [Process -> Phase]
    BY <1>1 DEF Inv, TypeOK, Phase
  <2>2. todo' \in [Process -> SUBSET Key]
    BY <1>1 DEF Inv, TypeOK
  <2>3. holder' \in [Key -> Process \cup {Nobody}]
    BY <1>1 DEF Inv, TypeOK
  <2> QED BY <1>1, <2>1, <2>2, <2>3 DEF Inv, TypeOK
<1>3. Scoped'
  BY <1>1 DEF Inv, TypeOK, Scoped
<1>4. Coherent'
  <2> SUFFICES ASSUME NEW q \in Process, phase'[q] = "locking",
                      NEW j \in asked'[q] \ todo'[q]
               PROVE  holder'[j] = q /\ states'[q][j] = Current(q, j)'
    BY DEF Coherent
  <2>1. CASE q = p
    <3>1. todo'[p] = asked[p] \/ phase'[p] = "inserting"
      BY <1>1 DEF Inv, TypeOK
    <3> QED BY <2>1, <3>1, <1>1
  <2>2. CASE q # p
    <3>1. phase[q] = "locking" /\ j \in asked[q] \ todo[q]
      BY <2>2, <1>1 DEF Inv, TypeOK
    <3>2. holder[j] = q /\ states[q][j] = Current(q, j) /\ j \in Key
      BY <3>1 DEF Inv, Coherent, TypeOK
    <3>3. holder'[j] = q
      BY <3>2, <1>1, BudgetAssumption DEF Inv, TypeOK
    <3> QED BY <3>2, <3>3, <1>1 DEF Current
  <2> QED BY <2>1, <2>2
<1> QED BY <1>2, <1>3, <1>4 DEF Inv

LEMMA LockInv ==
  ASSUME Inv, NEW p \in Process, NEW k \in Key, Lock(p, k)
  PROVE  Inv'
<1>1. /\ phase[p] = "locking" /\ k \in todo[p]
      /\ holder[k] \in {Nobody, p}
      /\ holder' = [holder EXCEPT ![k] = p]
      /\ todo' = [todo EXCEPT ![p] = todo[p] \ {k}]
      /\ states' = [states EXCEPT ![p][k] = Current(p, k)]
      /\ UNCHANGED <<buckets, config, phase, asked, lag, wait>>
  BY DEF Lock, Load, IsNext
<1>2. config[p][k] # NoRule
  BY <1>1 DEF Inv, Scoped
<1>3. Current(p, k) \in Bucket
  BY <1>2, CurrentIsBucket DEF Inv
<1>4. /\ states'[p][k] = Current(p, k)
      /\ \A q \in Process, j \in Key :
           q # p \/ j # k => states'[q][j] = states[q][j]
  BY <1>1 DEF Inv, TypeOK
<1>5. TypeOK'
  <2>1. states' \in [Process -> [Key -> Bucket \cup {NoBucket}]]
    BY <1>1, <1>3 DEF Inv, TypeOK
  <2>2. holder' \in [Key -> Process \cup {Nobody}]
    BY <1>1 DEF Inv, TypeOK
  <2>3. todo' \in [Process -> SUBSET Key]
    BY <1>1 DEF Inv, TypeOK
  <2> QED BY <1>1, <2>1, <2>2, <2>3 DEF Inv, TypeOK
<1>6. Scoped'
  BY <1>1 DEF Inv, TypeOK, Scoped
<1>7. Coherent'
  <2> SUFFICES ASSUME NEW q \in Process, phase'[q] = "locking",
                      NEW j \in asked'[q] \ todo'[q]
               PROVE  holder'[j] = q /\ states'[q][j] = Current(q, j)'
    BY DEF Coherent
  <2>1. phase[q] = "locking" /\ j \in asked[q] /\ j \in Key
    BY <1>1 DEF Inv, TypeOK
  <2>2. Current(q, j)' = Current(q, j)
    BY <1>1 DEF Current
  <2>3. CASE q = p /\ j = k
    BY <2>1, <2>2, <2>3, <1>1, <1>4 DEF Inv, TypeOK
  <2>4. CASE q # p \/ j # k
    <3>1. j \notin todo[q]
      BY <2>4, <1>1 DEF Inv, TypeOK
    <3>2. holder[j] = q /\ states[q][j] = Current(q, j)
      BY <3>1, <2>1 DEF Inv, Coherent
    <3>3. holder'[j] = q
      BY <3>2, <2>1, <1>1, BudgetAssumption DEF Inv, TypeOK
    <3> QED BY <3>2, <3>3, <2>1, <2>2, <2>4, <1>4
  <2> QED BY <2>3, <2>4
<1> QED BY <1>5, <1>6, <1>7 DEF Inv

(* The decisions.                                                          *)
LEMMA DecideInv ==
  ASSUME Inv, NEW p \in Process, Decide(p)
  PROVE  Inv'
<1>1. CASE RefuseRule(p)
  <2>1. /\ Release(p, "idle") /\ asked' = [asked EXCEPT ![p] = {}]
        /\ UNCHANGED <<buckets, config, wait>>
    BY <1>1 DEF RefuseRule
  <2>2. asked'[p] = {} /\ "idle" \in Phase \ {"inserting", "locking"}
    BY <2>1 DEF Inv, TypeOK, Phase
  <2> QED BY <2>1, <2>2, ReleaseKeeps DEF Inv, TypeOK
<1>2. CASE Grant(p)
  <2>1. /\ Locked(p) /\ Agrees(p) /\ CanPay(p)
        /\ buckets' = Charged(p, Unit)
        /\ Release(p, "sending") /\ asked' = [asked EXCEPT ![p] = {}]
        /\ UNCHANGED <<config, wait>>
    BY <1>2 DEF Grant
  <2>2. asked'[p] = {} /\ "sending" \in Phase \ {"inserting", "locking"}
    BY <2>1 DEF Inv, TypeOK, Phase
  <2>3. /\ buckets' \in [Key -> Bucket \cup {NoBucket}]
        /\ \A k \in Key : buckets'[k] # NoBucket =>
             buckets'[k].tokens <= Full(buckets'[k].rule)
    BY <2>1, ChargedTyped
  <2>4. \A k \in Key : buckets'[k] = buckets[k] \/ holder[k] = p
    BY <2>1, LoadedIsBucket DEF Charged
  <2> QED BY <2>1, <2>2, <2>3, <2>4, ReleaseKeeps DEF Inv, TypeOK
<1>3. CASE Postpone(p)
  <2>1. /\ Locked(p) /\ Agrees(p)
        /\ buckets' = Charged(p, 0)
        /\ Release(p, "sleeping")
        /\ UNCHANGED <<config, asked>>
    BY <1>3 DEF Postpone
  <2>2. PICK w \in 1..Unit : wait' = [wait EXCEPT ![p] = w]
    BY <1>3 DEF Postpone
  <2>3. wait' \in [Process -> 0..Unit]
    BY <2>2, BudgetAssumption DEF Inv, TypeOK
  <2>4. "sleeping" \in Phase \ {"inserting", "locking"}
    BY DEF Phase
  <2>5. 0 # Unit
    BY BudgetAssumption
  <2>6. /\ buckets' \in [Key -> Bucket \cup {NoBucket}]
        /\ \A k \in Key : buckets'[k] # NoBucket =>
             buckets'[k].tokens <= Full(buckets'[k].rule)
    BY <2>1, <2>5, ChargedTyped
  <2>7. \A k \in Key : buckets'[k] = buckets[k] \/ holder[k] = p
    BY <2>1, LoadedIsBucket DEF Charged
  <2> QED BY <2>1, <2>3, <2>4, <2>6, <2>7, ReleaseKeeps DEF Inv, TypeOK
<1> QED BY <1>1, <1>2, <1>3 DEF Decide

(* Waking up, the end of a request, kills and restarts.                    *)
LEMMA WakeInv ==
  ASSUME Inv, NEW p \in Process, Wake(p)
  PROVE  Inv'
<1>1. TypeOK'
  BY DEF Wake, Inv, TypeOK, Phase
<1>2. Scoped'
  BY DEF Wake, Inv, TypeOK, Scoped
<1>3. Coherent'
  BY DEF Wake, Inv, TypeOK, Coherent, Current
<1> QED BY <1>1, <1>2, <1>3 DEF Inv

LEMMA FinishInv ==
  ASSUME Inv, NEW p \in Process, Finish(p)
  PROVE  Inv'
<1>1. TypeOK'
  BY DEF Finish, Inv, TypeOK, Phase
<1>2. Scoped'
  BY DEF Finish, Inv, TypeOK, Scoped
<1>3. Coherent'
  BY DEF Finish, Inv, TypeOK, Coherent, Current
<1> QED BY <1>1, <1>2, <1>3 DEF Inv

LEMMA CrashInv ==
  ASSUME Inv, NEW p \in Process, Crash(p)
  PROVE  Inv'
<1>1. /\ Release(p, "down") /\ asked' = [asked EXCEPT ![p] = {}]
      /\ wait' = [wait EXCEPT ![p] = 0]
      /\ UNCHANGED <<buckets, config>>
  BY DEF Crash
<1>2. asked'[p] = {} /\ "down" \in Phase \ {"inserting", "locking"}
  BY <1>1 DEF Inv, TypeOK, Phase
<1>3. wait' \in [Process -> 0..Unit]
  BY <1>1, BudgetAssumption DEF Inv, TypeOK
<1> QED BY <1>1, <1>2, <1>3, ReleaseKeeps DEF Inv, TypeOK

LEMMA RestartInv ==
  ASSUME Inv, NEW p \in Process, NEW c \in Config, Restart(p, c)
  PROVE  Inv'
<1>1. asked[p] = {}
  BY DEF Restart, Inv, Scoped
<1>2. TypeOK'
  BY DEF Restart, Inv, TypeOK, Phase
<1>3. Scoped'
  BY <1>1 DEF Restart, Inv, TypeOK, Scoped
<1>4. Coherent'
  BY <1>1 DEF Restart, Inv, TypeOK, Coherent, Current
<1> QED BY <1>2, <1>3, <1>4 DEF Inv

(* Time passes: whatever has been loaded ages as the rows do.              *)
LEMMA OlderIsBucket ==
  ASSUME NEW b \in Bucket
  PROVE  /\ Older(b) \in Bucket
         /\ Older(b) # NoBucket
         /\ Older(b) = [tokens |-> b.tokens, age |-> Least(b.age + 1, MaxAge),
                        rule |-> b.rule]
<1>1. b.tokens \in Nat /\ b.age \in 0..MaxAge /\ b.rule \in Rule
      /\ b # NoBucket
  BY BucketFields
<1>2. Least(b.age + 1, MaxAge) \in 0..MaxAge
  BY <1>1, BudgetAssumption DEF Least
<1> QED BY <1>1, <1>2, RowIsBucket DEF Older

LEMMA TickInv ==
  ASSUME Inv, Tick
  PROVE  Inv'
<1>1. /\ \A p \in Process : InTransaction(p) => lag[p] < MaxLag
      /\ buckets' = [k \in Key |-> Older(buckets[k])]
      /\ states' = [p \in Process |-> [k \in Key |-> Older(states[p][k])]]
      /\ lag' = [p \in Process |-> IF InTransaction(p) THEN lag[p] + 1 ELSE 0]
      /\ wait' = [p \in Process |-> Minus(wait[p], 1)]
      /\ UNCHANGED <<holder, config, phase, asked, todo>>
  BY DEF Tick
<1>2. Older(NoBucket) = NoBucket
  BY DEF Older
<1>3. TypeOK'
  <2>1. buckets' \in [Key -> Bucket \cup {NoBucket}]
    BY <1>1, <1>2, OlderIsBucket DEF Inv, TypeOK
  <2>2. ASSUME NEW k \in Key, buckets'[k] # NoBucket
        PROVE  buckets'[k].tokens <= Full(buckets'[k].rule)
    <3>1. buckets[k] \in Bucket /\ buckets[k] # NoBucket
      BY <2>2, <1>1, <1>2 DEF Inv, TypeOK
    <3>2. /\ buckets'[k].tokens = buckets[k].tokens
          /\ buckets'[k].rule = buckets[k].rule
      BY <3>1, <1>1, OlderIsBucket
    <3> QED BY <3>1, <3>2 DEF Inv, TypeOK
  <2>3. states' \in [Process -> [Key -> Bucket \cup {NoBucket}]]
    BY <1>1, <1>2, OlderIsBucket DEF Inv, TypeOK
  <2>4. lag' \in [Process -> 0..MaxLag]
    BY <1>1, BudgetAssumption DEF Inv, TypeOK
  <2>5. wait' \in [Process -> 0..Unit]
    BY <1>1, BudgetAssumption DEF Inv, TypeOK, Minus
  <2> QED BY <1>1, <2>1, <2>2, <2>3, <2>4, <2>5 DEF Inv, TypeOK
<1>4. Scoped'
  BY <1>1 DEF Inv, Scoped
<1>5. Coherent'
  <2> SUFFICES ASSUME NEW p \in Process, phase'[p] = "locking",
                      NEW k \in asked'[p] \ todo'[p]
               PROVE  holder'[k] = p /\ states'[p][k] = Current(p, k)'
    BY DEF Coherent
  <2>1. phase[p] = "locking" /\ k \in asked[p] /\ k \in Key /\ k \notin todo[p]
    BY <1>1 DEF Inv, TypeOK
  <2>2. holder[k] = p /\ states[p][k] = Current(p, k)
    BY <2>1 DEF Inv, Coherent
  <2>3. states'[p][k] = Older(Current(p, k))
    BY <2>1, <2>2, <1>1
  <2>4. lag[p] \in Nat /\ lag'[p] = lag[p] + 1 /\ MaxAge \in Nat
    BY <2>1, <1>1, BudgetAssumption DEF InTransaction, Inv, TypeOK
  <2>5. CASE buckets[k] # NoBucket
    <3>1. Current(p, k) = buckets[k] /\ buckets[k] \in Bucket
      BY <2>5, <2>1 DEF Current, Inv, TypeOK
    <3>2. buckets'[k] = Older(buckets[k]) /\ buckets'[k] # NoBucket
      BY <3>1, <2>1, <1>1, OlderIsBucket
    <3> QED BY <1>1, <2>2, <2>3, <3>1, <3>2 DEF Current
  <2>6. CASE buckets[k] = NoBucket
    <3>1. config[p][k] # NoRule
      BY <2>1 DEF Inv, Scoped
    <3>2. /\ Current(p, k) \in Bucket
          /\ Current(p, k).tokens = Full(config[p][k])
          /\ Current(p, k).age = Least(lag[p], MaxAge)
          /\ Current(p, k).rule = config[p][k]
      BY <2>6, <2>1, <3>1, CurrentIsBucket DEF Current, Inv
    <3>3. Older(Current(p, k)) =
            [tokens |-> Full(config[p][k]),
             age |-> Least(Least(lag[p], MaxAge) + 1, MaxAge),
             rule |-> config[p][k]]
      BY <3>2, OlderIsBucket
    <3>4. Least(Least(lag[p], MaxAge) + 1, MaxAge) = Least(lag[p] + 1, MaxAge)
      BY <2>4 DEF Least
    <3>5. buckets'[k] = NoBucket
      BY <2>6, <2>1, <1>1, <1>2
    <3>6. Current(p, k)' = [tokens |-> Full(config[p][k]),
                            age |-> Least(lag[p] + 1, MaxAge),
                            rule |-> config[p][k]]
      BY <3>5, <2>4, <1>1 DEF Current, Full
    <3> QED BY <1>1, <2>2, <2>3, <3>3, <3>4, <3>6
  <2> QED BY <2>5, <2>6
<1> QED BY <1>3, <1>4, <1>5 DEF Inv

(* Every step keeps the invariant.                                         *)
LEMMA NextInv ==
  ASSUME Inv, [Next]_vars
  PROVE  Inv'
<1>1. CASE UNCHANGED vars
  BY <1>1 DEF vars, Inv, TypeOK, Scoped, Coherent, Current
<1>2. CASE Next
  BY <1>2, AcquireInv, InsertInv, LockInv, DecideInv, WakeInv, FinishInv,
     CrashInv, RestartInv, TickInv DEF Next, Proceed
<1> QED BY <1>1, <1>2

(* The variables keep their types; in particular no bucket ever holds less *)
(* than nothing or more than its burst (_acquire_or_wait).                 *)
THEOREM BudgetTypes == Spec => []TypeOK
<1>1. Init => Inv
  BY InitInv
<1>2. Inv /\ [Next]_vars => Inv'
  BY NextInv
<1>3. Inv => TypeOK
  BY DEF Inv
<1> QED BY <1>1, <1>2, <1>3, PTL DEF Spec

-----------------------------------------------------------------------------
(* The rest is the refinement.                                             *)
RuleOf(k) == IF buckets[k] = NoBucket THEN NoRule ELSE buckets[k].rule

(* What the shared budget holds for k before a commit.                     *)
Held(k) == IF RuleOf(k) # NoRule THEN Level(k) ELSE Full(RuleOf(k)')

(* A bucket with t parts at age a, of which F fit and which regains r in a *)
(* unit of time: a process that sees it as it was l ago computes no more   *)
(* than it holds now, and what it then writes, at the time it has read,    *)
(* makes up for the difference, and for at most l units of time.           *)
LEMMA ViewOfThePast ==
  ASSUME NEW F \in Nat, NEW t \in Nat, NEW r \in Nat, NEW a \in Nat,
         NEW l \in Nat, NEW c \in Nat
  PROVE  LET old == Least(F, t + r * Minus(a, l))
             now == Least(F, t + r * a)
             then == Least(F, (old - c) + r * l)
         IN  /\ old <= now /\ now <= old + r * l
             /\ now - c <= then /\ then <= (now - c) + r * l /\ then <= F
<1> DEFINE old == Least(F, t + r * Minus(a, l))
           now == Least(F, t + r * a)
           then == Least(F, (old - c) + r * l)
           x == r * a
           y == r * l
           z == r * Minus(a, l)
<1>1. x \in Nat /\ y \in Nat /\ Minus(a, l) \in Nat
  BY ProductIsNat DEF Minus
<1>2. z \in Nat
  BY <1>1, ProductIsNat
<1>3. z <= x /\ x <= z + y
  <2>1. CASE a > l
    <3>1. z = r * (a - l)
      BY <2>1 DEF Minus
    <3>2. r * (a - l) = r * a - r * l
      OBVIOUS
    <3> QED BY <1>1, <3>1, <3>2
  <2>2. CASE ~(a > l)
    <3>1. Minus(a, l) = 0
      BY <2>2 DEF Minus
    <3>2. z = 0
      BY <3>1
    <3>3. PICK d \in Nat : l = a + d
      BY <2>2
    <3>4. r * (a + d) = r * a + r * d /\ r * d \in Nat
      BY <3>3, ProductIsNat
    <3> QED BY <1>1, <3>2, <3>3, <3>4
  <2> QED BY <2>1, <2>2
<1>4. /\ old = Least(F, t + z) /\ now = Least(F, t + x)
      /\ then = Least(F, (old - c) + y)
  OBVIOUS
<1> HIDE DEF x, y, z, old, now, then
<1>5. old <= now /\ now <= old + y
  BY <1>1, <1>2, <1>3, <1>4 DEF Least
<1>6. now - c <= then /\ then <= (now - c) + y /\ then <= F
  BY <1>1, <1>2, <1>3, <1>4 DEF Least
<1> QED BY <1>5, <1>6 DEF y, old, now, then

(* The slack is what a bucket regains in the longest wait for locks.       *)
LEMMA SlackOfLag ==
  ASSUME Inv, NEW p \in Process, NEW r \in Rule
  PROVE  /\ r.rate * lag[p] \in Nat /\ r.rate * MaxLag \in Nat
         /\ r.rate * lag[p] <= r.rate * MaxLag
<1>1. /\ r.rate \in Nat /\ lag[p] \in Nat /\ MaxLag \in Nat
      /\ lag[p] <= MaxLag
  BY RuleFields, BudgetAssumption DEF Inv, TypeOK
<1>2. r.rate * lag[p] \in Nat /\ r.rate * MaxLag \in Nat
  BY <1>1, ProductIsNat
<1>3. MaxLag - lag[p] \in Nat /\ MaxLag = lag[p] + (MaxLag - lag[p])
  BY <1>1
<1> DEFINE d == MaxLag - lag[p]
<1>4. r.rate * (lag[p] + d) = r.rate * lag[p] + r.rate * d
      /\ r.rate * d \in Nat
  BY <1>1, <1>3, ProductIsNat
<1> QED BY <1>2, <1>3, <1>4

(* What a process computes is at most what the shared budget holds; it     *)
(* commits that minus the charge, plus at most what its wait has given.    *)
LEMMA CommittedLevels ==
  ASSUME Inv, NEW p \in Process, Locked(p), Agrees(p),
         NEW charge \in {0, Unit}, charge = Unit => CanPay(p),
         buckets' = Charged(p, charge), NEW k \in asked[p]
  PROVE  LET slack == RuleOf(k)'.rate * MaxLag
         IN  /\ k \in Key
             /\ RuleOf(k)' \in Rule
             /\ RuleOf(k) # NoRule => RuleOf(k)' = RuleOf(k)
             /\ Available(p, k) \in Nat /\ Held(k) \in Nat
             /\ Available(p, k) <= Held(k)
             /\ Held(k) <= Available(p, k) + slack
             /\ Level(k)' \in Nat
             /\ Held(k) - charge <= Level(k)'
             /\ Level(k)' <= Held(k) - charge + slack
             /\ Level(k)' <= Full(RuleOf(k)')
<1> DEFINE b == states[p][k]
           r == config[p][k]
           a == Available(p, k)
<1>1. k \in Key /\ r \in Rule /\ b = Current(p, k) /\ b \in Bucket
  BY LoadedIsBucket
<1>2. b.rule = r
  BY DEF Agrees
<1>3. lag[p] \in 0..MaxAge /\ MaxAge \in Nat /\ Least(lag[p], MaxAge) = lag[p]
  BY BudgetAssumption DEF Inv, TypeOK, Least
<1>4. b.tokens \in Nat /\ b.age \in Nat
  BY <1>1, BucketFields
<1>5. r.rate \in Nat /\ Full(r) \in Nat /\ Unit \in Nat /\ r # NoRule
  BY <1>1, RuleFields, BudgetAssumption
<1>6. a = Least(Full(r), b.tokens + r.rate * Minus(b.age, lag[p]))
  BY <1>2 DEF Available
<1>7. a \in 0..Full(r)
  BY <1>2, AvailableInRange
<1>8. buckets'[k] = [tokens |-> a - charge, age |-> lag[p], rule |-> r]
  BY <1>1, <1>3 DEF Charged
<1>9. a - charge \in Nat /\ charge \in Nat
  BY <1>5, <1>7 DEF CanPay
<1>10. buckets'[k] # NoBucket
  BY <1>1, <1>3, <1>8, <1>9, RowIsBucket
<1>11. RuleOf(k)' = r
  BY <1>8, <1>10 DEF RuleOf
<1>12. Level(k)' = Least(Full(r), (a - charge) + r.rate * lag[p])
  BY <1>8, <1>10 DEF Level, Least, Full
<1>13. Held(k) = Least(Full(r), b.tokens + r.rate * b.age)
  <2>1. CASE buckets[k] # NoBucket
    <3>1. b = buckets[k]
      BY <1>1, <2>1 DEF Current
    <3>2. RuleOf(k) = r
      BY <1>2, <2>1, <3>1 DEF RuleOf
    <3> QED BY <1>2, <1>5, <2>1, <3>1, <3>2 DEF Held, Level
  <2>2. CASE buckets[k] = NoBucket
    <3>1. b.tokens = Full(r)
      BY <1>1, <2>2 DEF Current
    <3>2. Held(k) = Full(r)
      BY <1>11, <2>2 DEF Held, RuleOf, Full
    <3>3. r.rate * b.age \in Nat
      BY <1>4, <1>5, ProductIsNat
    <3> QED BY <1>5, <3>1, <3>2, <3>3 DEF Least
  <2> QED BY <2>1, <2>2
<1>14. RuleOf(k) # NoRule => RuleOf(k)' = RuleOf(k)
  BY <1>1, <1>2, <1>11 DEF Current, RuleOf
<1> DEFINE gain == r.rate * lag[p]
<1>15. /\ a <= Held(k) /\ Held(k) <= a + gain
       /\ Held(k) - charge <= Level(k)'
       /\ Level(k)' <= (Held(k) - charge) + gain
       /\ Level(k)' <= Full(r)
  <2> DEFINE F == Full(r)
             t == b.tokens
             v == r.rate
             g == b.age
             l == lag[p]
  <2>1. F \in Nat /\ t \in Nat /\ v \in Nat /\ g \in Nat /\ l \in Nat
    BY <1>3, <1>4, <1>5
  <2>2. /\ a = Least(F, t + v * Minus(g, l))
        /\ Held(k) = Least(F, t + v * g)
        /\ Level(k)' = Least(F, (a - charge) + v * l)
        /\ gain = v * l
    BY <1>6, <1>12, <1>13
  <2> HIDE DEF F, t, v, g, l, a, gain
  <2>3. LET old == Least(F, t + v * Minus(g, l))
            now == Least(F, t + v * g)
            then == Least(F, (old - charge) + v * l)
        IN  /\ old <= now /\ now <= old + v * l
            /\ now - charge <= then /\ then <= (now - charge) + v * l
            /\ then <= F
    BY <2>1, <1>9, ViewOfThePast
  <2>4. /\ a <= Held(k) /\ Held(k) <= a + gain
        /\ Held(k) - charge <= Level(k)'
        /\ Level(k)' <= (Held(k) - charge) + gain
        /\ Level(k)' <= F
    BY <2>2, <2>3
  <2> QED BY <2>4 DEF F
<1>16. gain \in Nat /\ r.rate * MaxLag \in Nat /\ gain <= r.rate * MaxLag
  BY <1>1, SlackOfLag
<1>17. Held(k) \in Nat /\ Level(k)' \in Nat
  <2>1. r.rate * b.age \in Nat
    BY <1>4, <1>5, ProductIsNat
  <2> HIDE DEF gain
  <2>2. Level(k)' = Least(Full(r), (a - charge) + gain)
    BY <1>12 DEF gain
  <2> QED BY <1>4, <1>5, <1>9, <1>13, <1>16, <2>1, <2>2 DEF Least
<1>18. a \in Nat
  BY <1>5, <1>7
<1> HIDE DEF a, gain, b
<1>19. /\ Held(k) <= a + r.rate * MaxLag
       /\ Level(k)' <= (Held(k) - charge) + r.rate * MaxLag
  BY <1>9, <1>15, <1>16, <1>17, <1>18
<1> QED BY <1>1, <1>11, <1>14, <1>15, <1>17, <1>18, <1>19 DEF Full, a

(* The buckets of the other keys are left alone.                           *)
LEMMA OtherLevels ==
  ASSUME NEW p \in Process, NEW charge, buckets' = Charged(p, charge),
         NEW k \in Key, k \notin asked[p]
  PROVE  Level(k)' = Level(k) /\ RuleOf(k)' = RuleOf(k)
<1>1. buckets'[k] = buckets[k]
  BY DEF Charged
<1> QED BY <1>1 DEF Level, RuleOf, Full

(* The first use of a bucket gives it the rule of the process.             *)
LEMMA CommitAdopts ==
  ASSUME Inv, NEW p \in Process, Locked(p), Agrees(p),
         NEW charge \in {0, Unit}, charge = Unit => CanPay(p),
         buckets' = Charged(p, charge), NEW K, K = asked[p]
  PROVE  Budget!Adopt(K)
<1>1. \A k \in asked[p] : /\ k \in Key
                          /\ RuleOf(k)' \in Rule /\ RuleOf(k)' # NoRule
                          /\ RuleOf(k) # NoRule => RuleOf(k)' = RuleOf(k)
  BY CommittedLevels, RuleFields
<1>2. \A k \in Key : k \notin asked[p] => RuleOf(k)' = RuleOf(k)
  BY OtherLevels
<1>3. \A k \in Key : RuleOf(k) \in Rule \cup {NoRule}
  BY BucketFields DEF RuleOf, Inv, TypeOK
<1>4. \A k \in Key : RuleOf(k)' \in Rule \cup {NoRule}
  BY <1>1, <1>2, <1>3
<1> QED BY <1>1, <1>2, <1>4 DEF Budget!Adopt, RuleOf

(* What buckets hold is a natural number.                                  *)
LEMMA LevelIsNat ==
  ASSUME Inv, NEW k \in Key
  PROVE  Level(k) \in Nat
<1>1. CASE buckets[k] # NoBucket
  <2> DEFINE b == buckets[k]
  <2>1. b.tokens \in Nat /\ b.age \in Nat /\ b.rule \in Rule
    BY <1>1, BucketFields DEF Inv, TypeOK
  <2>2. b.rule.rate * b.age \in Nat /\ Full(b.rule) \in Nat
    BY <2>1, RuleFields, ProductIsNat
  <2>3. Level(k) = Least(Full(b.rule), b.tokens + b.rule.rate * b.age)
    BY <1>1 DEF Level
  <2> QED BY <2>1, <2>2, <2>3 DEF Least
<1>2. CASE buckets[k] = NoBucket
  BY <1>2 DEF Level
<1> QED BY <1>1, <1>2

LEMMA CommitCharges ==
  ASSUME Inv, NEW p \in Process, Locked(p), Agrees(p),
         NEW charge \in {0, Unit}, charge = Unit => CanPay(p),
         buckets' = Charged(p, charge), NEW K, K = asked[p]
  PROVE  /\ Budget!Charge(K, charge)
         /\ [k \in Key |-> Level(k)]' \in [Key -> Nat]
<1>1. ASSUME NEW k \in asked[p]
      PROVE  /\ k \in Key /\ Held(k) = Budget!Adopted(k)
             /\ RuleOf(k)'.rate * MaxLag = Budget!Slack(k)
  BY CommittedLevels
  DEF Budget!Adopted, Budget!Slack, Budget!Full, Full, RuleOf, Held
<1>2. \A k \in asked[p] : /\ Level(k)' \in Nat
                          /\ Held(k) - charge <= Level(k)'
                          /\ Level(k)' <= Held(k) - charge
                                            + RuleOf(k)'.rate * MaxLag
                          /\ Level(k)' <= Full(RuleOf(k)')
                          /\ Held(k) \in Nat
  BY CommittedLevels
<1>3. \A k \in Key : k \notin asked[p] => Level(k)' = Level(k)
  BY OtherLevels
<1>4. \A k \in Key : Level(k)' \in Nat
  BY <1>2, <1>3, LevelIsNat
<1>5. charge \in Nat
  BY BudgetAssumption
<1>6. ASSUME NEW k \in asked[p]
      PROVE  /\ Level(k)' >= Budget!Adopted(k) - charge
             /\ Level(k)' <= Budget!Adopted(k) - charge + Budget!Slack(k)
             /\ Level(k)' <= Budget!Full(RuleOf(k)')
  BY <1>1, <1>2, <1>5 DEF Budget!Full, Full
<1> QED BY <1>1, <1>3, <1>4, <1>6 DEF Budget!Charge, RuleOf

LEMMA GrantTakes ==
  ASSUME Inv, NEW p \in Process, Grant(p), NEW K, K = asked[p]
  PROVE  Budget!Take(K)
<1>1. /\ Locked(p) /\ Agrees(p) /\ CanPay(p)
      /\ buckets' = Charged(p, Unit)
  BY DEF Grant
<1>2. Budget!Adopt(K)
  BY <1>1, CommitAdopts
<1>3. Budget!Charge(K, Unit) /\ [k \in Key |-> Level(k)]' \in [Key -> Nat]
  BY <1>1, CommitCharges
<1>4. ASSUME NEW k \in asked[p]
      PROVE  Budget!Adopted(k) >= Unit
  <2>1. /\ k \in Key /\ Available(p, k) \in Nat /\ Held(k) \in Nat
        /\ Available(p, k) <= Held(k)
    BY <1>1, CommittedLevels
  <2>2. Held(k) = Budget!Adopted(k)
    BY <2>1 DEF Budget!Adopted, Budget!Full, Full, RuleOf, Held
  <2>3. Available(p, k) >= Unit /\ Unit \in Nat
    BY <1>1, BudgetAssumption DEF CanPay
  <2> QED BY <2>1, <2>2, <2>3
<1> QED BY <1>2, <1>3, <1>4 DEF Budget!Take

LEMMA PostponeWaits ==
  ASSUME Inv, NEW p \in Process, Postpone(p), NEW K, K = asked[p]
  PROVE  Budget!Wait(K)
<1>1. /\ Locked(p) /\ Agrees(p) /\ ~CanPay(p)
      /\ buckets' = Charged(p, 0)
  BY DEF Postpone
<1>2. 0 # Unit
  BY BudgetAssumption
<1>3. Budget!Adopt(K)
  BY <1>1, <1>2, CommitAdopts
<1>4. Budget!Charge(K, 0) /\ [k \in Key |-> Level(k)]' \in [Key -> Nat]
  BY <1>1, <1>2, CommitCharges
<1>5. PICK k \in asked[p] : ~(Available(p, k) >= Unit)
  BY <1>1 DEF CanPay
<1>6. /\ k \in Key /\ Available(p, k) \in Nat /\ Held(k) \in Nat
      /\ Held(k) <= Available(p, k) + RuleOf(k)'.rate * MaxLag
      /\ RuleOf(k)' \in Rule
  BY <1>1, <1>2, CommittedLevels
<1>7. RuleOf(k)'.rate * MaxLag \in Nat /\ Unit \in Nat
  BY <1>6, RuleFields, BudgetAssumption, ProductIsNat
<1>8. /\ Held(k) = Budget!Adopted(k)
      /\ RuleOf(k)'.rate * MaxLag = Budget!Slack(k)
  BY <1>6 DEF Budget!Adopted, Budget!Slack, Budget!Full, Full, RuleOf, Held
<1>9. Budget!Adopted(k) < Unit + Budget!Slack(k)
  BY <1>5, <1>6, <1>7, <1>8
<1> QED BY <1>3, <1>4, <1>9 DEF Budget!Wait

(* The refill of one unit of time: since a bucket whose age has reached    *)
(* MaxAge is full, the bound on ages is not visible.                       *)
LEMMA RefillOfOneUnit ==
  ASSUME NEW F \in Nat, NEW t \in Nat, NEW r \in Nat, NEW a \in 0..MaxAge,
         r * MaxAge >= F
  PROVE  Least(F, t + r * Least(a + 1, MaxAge)) =
           Least(F, Least(F, t + r * a) + r)
<1>1. MaxAge \in Nat /\ a \in Nat
  BY BudgetAssumption
<1> DEFINE x == r * a
<1>2. x \in Nat
  BY <1>1, ProductIsNat
<1>3. CASE a < MaxAge
  <2>1. Least(a + 1, MaxAge) = a + 1
    BY <1>1, <1>3 DEF Least
  <2>2. r * (a + 1) = x + r
    BY <1>1
  <2>3. t + r * Least(a + 1, MaxAge) = t + (x + r)
    BY <2>1, <2>2
  <2> HIDE DEF x
  <2>4. Least(F, t + (x + r)) = Least(F, Least(F, t + x) + r)
    BY <1>2 DEF Least
  <2> QED BY <2>3, <2>4 DEF x
<1>4. CASE a = MaxAge
  <2>1. Least(a + 1, MaxAge) = a
    BY <1>1, <1>4 DEF Least
  <2>2. t + r * Least(a + 1, MaxAge) = t + x
    BY <2>1
  <2>3. x >= F
    BY <1>4
  <2> HIDE DEF x
  <2>4. Least(F, t + x) = Least(F, Least(F, t + x) + r)
    BY <1>2, <2>3 DEF Least
  <2> QED BY <2>2, <2>4 DEF x
<1> QED BY <1>1, <1>3, <1>4

LEMMA TickRefills ==
  ASSUME Inv, Tick
  PROVE  Budget!Refill
<1>1. buckets' = [k \in Key |-> Older(buckets[k])]
  BY DEF Tick
<1>2. ASSUME NEW k \in Key, buckets[k] = NoBucket
      PROVE  RuleOf(k) = NoRule /\ RuleOf(k)' = RuleOf(k)
             /\ Level(k)' = Level(k)
  BY <1>1, <1>2 DEF Older, RuleOf, Level
<1>3. ASSUME NEW k \in Key, buckets[k] # NoBucket
      PROVE  /\ RuleOf(k) # NoRule /\ RuleOf(k)' = RuleOf(k)
             /\ Level(k)' =
                  Least(Full(RuleOf(k)), Level(k) + RuleOf(k).rate)
  <2> DEFINE b == buckets[k]
             r == b.rule
  <2>1. b \in Bucket /\ b.tokens \in Nat /\ b.age \in 0..MaxAge /\ r \in Rule
    BY <1>3, BucketFields DEF Inv, TypeOK
  <2>2. r.rate \in Nat /\ Full(r) \in Nat /\ r.rate * MaxAge >= Full(r)
        /\ r # NoRule
    BY <2>1, RuleFields
  <2>3. /\ buckets'[k] = [tokens |-> b.tokens, age |-> Least(b.age + 1, MaxAge),
                          rule |-> r]
        /\ buckets'[k] # NoBucket
    BY <2>1, <1>1, OlderIsBucket
  <2>4. RuleOf(k) = r /\ RuleOf(k)' = r
    BY <1>3, <2>3 DEF RuleOf
  <2>5. Level(k) = Least(Full(r), b.tokens + r.rate * b.age)
    BY <1>3 DEF Level
  <2>6. Level(k)' =
          Least(Full(r), b.tokens + r.rate * Least(b.age + 1, MaxAge))
    BY <2>3 DEF Level, Least, Full
  <2>7. Level(k)' = Least(Full(r), Level(k) + r.rate)
    BY <2>1, <2>2, <2>5, <2>6, RefillOfOneUnit
  <2> QED BY <2>2, <2>4, <2>7
<1> QED BY <1>2, <1>3 DEF Budget!Refill, Budget!Least, Budget!Full, Least,
                          Full, RuleOf

(* All other steps leave the shared budget alone.                          *)
LEMMA OthersStutter ==
  ASSUME UNCHANGED buckets
  PROVE  UNCHANGED Budget!vars
<1>1. \A k \in Key : Level(k)' = Level(k)
  BY DEF Level, Least, Full
<1> QED BY <1>1 DEF Budget!vars

LEMMA StepRefines ==
  ASSUME Inv, [Next]_vars
  PROVE  [Budget!Next]_(Budget!vars)
<1>1. ASSUME NEW p \in Process, Grant(p) \/ Postpone(p)
      PROVE  Budget!Next
  <2>1. PICK K \in SUBSET Key : K = asked[p]
    BY DEF Inv, TypeOK
  <2>2. Budget!Take(K) \/ Budget!Wait(K)
    BY <1>1, <2>1, GrantTakes, PostponeWaits
  <2> QED BY <2>2 DEF Budget!Next
<1>2. CASE Tick
  BY <1>2, TickRefills DEF Budget!Next
<1>3. CASE UNCHANGED buckets
  BY <1>3, OthersStutter
<1>4. CASE UNCHANGED vars
  BY <1>3, <1>4 DEF vars
<1>5. ASSUME NEW p \in Process, NEW K \in Request, Acquire(p, K)
      PROVE  UNCHANGED buckets
  BY <1>5 DEF Acquire
<1>6. ASSUME NEW p \in Process,
             Proceed(p) \/ RefuseRule(p) \/ Wake(p) \/ Finish(p) \/ Crash(p)
      PROVE  UNCHANGED buckets
  BY <1>6 DEF Proceed, Insert, Lock, RefuseRule, Wake, Finish, Crash
<1>7. ASSUME NEW p \in Process, NEW c \in Config, Restart(p, c)
      PROVE  UNCHANGED buckets
  BY <1>7 DEF Restart
<1> QED BY <1>1, <1>2, <1>3, <1>4, <1>5, <1>6, <1>7 DEF Next, Decide

(* The processes together keep to the shared budget (acquire_many,         *)
(* _acquire_or_wait, _validate_rule), however many they are, however they  *)
(* are configured and killed, and however long transactions wait for their *)
(* locks: what that wait costs the budget is at most what a layer regains  *)
(* in it.                                                                  *)
THEOREM BudgetTheorem == Spec => BudgetShared
<1>1. Init => Inv
  BY InitInv
<1>2. Inv /\ [Next]_vars => Inv'
  BY NextInv
<1>3. Init => Budget!Init
  BY DEF Init, Budget!Init, Level
<1>4. Inv /\ [Next]_vars => [Budget!Next]_(Budget!vars)
  BY StepRefines
<1> QED BY <1>1, <1>2, <1>3, <1>4, PTL DEF Spec, BudgetShared, Budget!Spec
=============================================================================
