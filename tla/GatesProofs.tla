----------------------------- MODULE GatesProofs ----------------------------
(***************************************************************************)
(* Proofs about the two gates, for every number of workers, every rate,    *)
(* capacity and threshold, and every movement of the clock.                *)
(***************************************************************************)
EXTENDS Gates, TLAPS

USE DEF clockVars, bucketVars, breakerVars

-----------------------------------------------------------------------------
(* Arithmetic of the bucket and of the cooldown.                           *)

LEMMA Split == \A x, y \in Int : Rate * (x + y) = Rate * x + Rate * y
  BY GatesAssumption

LEMMA Between ==
  ASSUME NEW t \in Int, NEW l \in Int, NEW g \in Int
  PROVE  /\ (t - l) * Rate \in Int
         /\ Rate * (t - g) = (t - l) * Rate + Rate * (l - g)
         /\ Rate * (t - t) = 0
<1>1. t - l \in Int /\ l - g \in Int /\ (t - l) + (l - g) = t - g /\ Rate \in Int
  BY GatesAssumption
<1>2. (t - l) * Rate = Rate * (t - l)
  BY <1>1
<1>3. QED
  BY <1>1, <1>2, Split

LEMMA MoreParts ==
  ASSUME NEW n \in Int
  PROVE  Token * (n + 1) = Token * n + Token /\ Token * n \in Int
  BY GatesAssumption

LEMMA RefilledFacts ==
  ASSUME NEW b \in [tokens : Int, last : Int], NEW t \in Int
  PROVE  /\ Refilled(b, t) \in [tokens : Int, last : Int]
         /\ Refilled(b, t).last = t
         /\ Refilled(b, t).tokens <= Capacity
         /\ Refilled(b, t).tokens <= b.tokens + (t - b.last) * Rate
         /\ \/ Refilled(b, t).tokens = Capacity
            \/ Refilled(b, t).tokens = b.tokens + (t - b.last) * Rate
         /\ Spent(Refilled(b, t)) \in [tokens : Int, last : Int]
         /\ Spent(Refilled(b, t)).last = t
         /\ Spent(Refilled(b, t)).tokens = Refilled(b, t).tokens - Token
<1> DEFINE r == Refilled(b, t)
<1>1. b.tokens + (t - b.last) * Rate \in Int /\ Capacity \in Int
  BY Between, GatesAssumption
<1>2. r \in [tokens : Int, last : Int]
  BY <1>1 DEF Refilled
<1>3. /\ r.last = t /\ r.tokens <= Capacity
      /\ r.tokens <= b.tokens + (t - b.last) * Rate
      /\ \/ r.tokens = Capacity
         \/ r.tokens = b.tokens + (t - b.last) * Rate
  BY <1>1 DEF Refilled
<1>4. Spent(r).last = r.last /\ Spent(r).tokens = r.tokens - Token
      /\ Spent(r) \in [tokens : Int, last : Int]
  BY <1>2, GatesAssumption DEF Spent
<1>5. QED
  BY <1>2, <1>3, <1>4

\* The backoff never shrinks as the blocks add up.
LEMMA BackoffGrows ==
  ASSUME NEW m \in Nat \ {0}, NEW n \in Nat, m <= n
  PROVE  CooldownOf(m) \in Nat /\ CooldownOf(m) <= CooldownOf(n)
<1> DEFINE f == <<2, 4, 8, 16, 32>>
           e(k) == f[IF k < 5 THEN k ELSE 5]
<1>1. e(m) \in Nat /\ e(n) \in Nat /\ e(m) <= e(n)
  <2>1. m \in {1, 2, 3, 4} \/ m >= 5
    OBVIOUS
  <2>2. n \in {1, 2, 3, 4} \/ n >= 5
    OBVIOUS
  <2>3. QED
    BY <2>1, <2>2
<1> HIDE DEF e
<1>2. e(m) * Base \in Nat /\ e(m) * Base <= e(n) * Base
  BY <1>1, GatesAssumption
<1>3. CooldownOf(m) = e(m) * Base /\ CooldownOf(n) = e(n) * Base
  BY DEF e, CooldownOf
<1>4. QED
  BY <1>2, <1>3

-----------------------------------------------------------------------------
(* Type correctness.                                                       *)

LEMMA NextBreaker ==
  ASSUME NEW b \in Breaker, NEW n \in Nat \ {0}, NEW t \in Int
  PROVE  /\ Probing(b) \in Breaker /\ AfterSuccess(b) \in Breaker
         /\ AfterFailure(b, n, t) \in Breaker
         /\ b.failures < n => /\ Probing(b).failures < n
                              /\ AfterSuccess(b).failures < n
                              /\ AfterFailure(b, n, t).failures < n
<1>1. Probing(b) \in Breaker
  BY DEF Breaker, Probing
<1>2. AfterSuccess(b) \in Breaker
  BY DEF Breaker, AfterSuccess
<1>3. b.blocks + 1 \in Nat \ {0} /\ b.failures + 1 \in Nat
  BY DEF Breaker
<1>4. CooldownOf(b.blocks + 1) \in Nat
  BY <1>3, BackoffGrows
<1>5. AfterFailure(b, n, t) \in Breaker
  BY <1>3, <1>4 DEF Breaker, AfterFailure
<1>6. ASSUME b.failures < n
      PROVE  /\ Probing(b).failures < n /\ AfterSuccess(b).failures < n
             /\ AfterFailure(b, n, t).failures < n
  <2>1. Probing(b).failures = b.failures /\ AfterSuccess(b).failures = 0
    BY DEF Breaker, Probing, AfterSuccess
  <2>2. AfterFailure(b, n, t).failures < n
    BY <1>3 DEF Breaker, AfterFailure, Opens
  <2>3. QED
    BY <1>6, <2>1, <2>2
<1>7. QED
  BY <1>1, <1>2, <1>5, <1>6

LEMMA StepType == TypeOK /\ [Next]_vars => TypeOK'
<1> SUFFICES ASSUME TypeOK, [Next]_vars PROVE TypeOK'
  OBVIOUS
<1> USE DEF TypeOK
<1>1. peak' \in Int \/ peak' = peak
  BY DEF Next, vars, PassGate, Grant, Refuse, Block, Succeed, ReadFill, Advance, SetBack, Refill
<1>2. ASSUME NEW w \in Worker, PassGate(w) PROVE TypeOK'
  BY <1>2, NextBreaker, GatesAssumption DEF PassGate, Goto
<1>3. ASSUME NEW w \in Worker, Grant(w) PROVE TypeOK'
  <2>1. bucket' \in [tokens : Int, last : Int]
    BY <1>3, RefilledFacts DEF Grant, Refill
  <2>2. QED
    BY <1>1, <1>3, <2>1 DEF Grant, Goto
<1>4. ASSUME NEW w \in Worker, Refuse(w) PROVE TypeOK'
  <2>1. bucket' \in [tokens : Int, last : Int]
    BY <1>4, RefilledFacts DEF Refuse, Refill
  <2>2. QED
    BY <1>1, <1>4, <2>1 DEF Refuse, Goto
<1>5. ASSUME NEW w \in Worker, Block(w) PROVE TypeOK'
  <2>1. /\ AfterFailure(breaker[w], Threshold[w], now) \in Breaker
        /\ AfterFailure(breaker[w], Threshold[w], now).failures < Threshold[w]
    BY NextBreaker, GatesAssumption
  <2>2. /\ breaker' \in [Worker -> Breaker] /\ opens' \in [Worker -> Seq(Int)]
        /\ \A v \in Worker : breaker'[v].failures < Threshold[v]
    BY <1>5, <2>1 DEF Block
  <2>3. QED
    BY <1>5, <2>2 DEF Block, Goto
<1>6. ASSUME NEW w \in Worker, Succeed(w) PROVE TypeOK'
  BY <1>6, NextBreaker, GatesAssumption DEF Succeed, Goto
<1>7. CASE ReadFill
  <2>1. bucket' \in [tokens : Int, last : Int]
    BY <1>7, RefilledFacts DEF ReadFill, Refill
  <2>2. QED
    BY <1>1, <1>7, <2>1 DEF ReadFill
<1>8. CASE Advance
  BY <1>8, GatesAssumption DEF Advance
<1>9. CASE SetBack
  BY <1>9, GatesAssumption DEF SetBack
<1>10. CASE UNCHANGED vars
  BY <1>10 DEF vars
<1>11. QED
  BY <1>2, <1>3, <1>4, <1>5, <1>6, <1>7, <1>8, <1>9, <1>10 DEF Next

\* Every variable keeps its type.
THEOREM TypeCorrect == Spec => []TypeOK
<1>1. Init => TypeOK
  BY GatesAssumption DEF Init, TypeOK, Breaker, NewBreaker, FullBucket
<1>2. QED
  BY <1>1, StepType, PTL DEF Spec

-----------------------------------------------------------------------------
(* The token bucket.                                                       *)

\* What any step does to the bucket.
LEMMA BucketMoves ==
  ASSUME [Next]_vars
  PROVE  LET b == Refilled(bucket, now) IN
         \/ UNCHANGED bucketVars
         \/ /\ b.tokens >= Token /\ Refill(Spent(b))
            /\ grants' = Append(grants, now) /\ refused' = refused
         \/ /\ Refill(b) /\ grants' = grants
            /\ \/ refused' = refused
               \/ b.tokens < Token /\ refused' = [at |-> now, peak |-> peak]
  BY DEF Next, vars, PassGate, Grant, Refuse, Block, Succeed, ReadFill, Advance, SetBack

\* RateBound, with the tokens that are left for the next request.
Spending ==
  /\ bucket.tokens <= Capacity
  /\ \A i \in 1..Len(grants) :
       Token * (Len(grants) - i + 1) + bucket.tokens
         <= Capacity + Rate * (bucket.last - grants[i])
  /\ RateBound

LEMMA StepSpending == TypeOK /\ Spending /\ [Next]_vars => Spending'
<1> SUFFICES ASSUME TypeOK, Spending, [Next]_vars PROVE Spending'
  OBVIOUS
<1> DEFINE b == Refilled(bucket, now)
           n == Len(grants)
<1>1. /\ bucket \in [tokens : Int, last : Int] /\ now \in Int
      /\ grants \in Seq(Int) /\ n \in Nat /\ Token \in Nat /\ Capacity \in Nat
      /\ \A i \in 1..n : grants[i] \in Int
  BY GatesAssumption DEF TypeOK
<1>2. /\ b.tokens \in Int /\ b.last = now /\ b.tokens <= Capacity
      /\ b.tokens <= bucket.tokens + (now - bucket.last) * Rate
      /\ Spent(b).tokens = b.tokens - Token /\ Spent(b).last = now
  BY <1>1, RefilledFacts
\* A refill adds at most what the time since the last one is worth.
<1>3. ASSUME NEW i \in 1..n
      PROVE  Token * (n - i + 1) + b.tokens <= Capacity + Rate * (now - grants[i])
  <2> DEFINE asked == Token * (n - i + 1)
             added == (now - bucket.last) * Rate
             since == Rate * (bucket.last - grants[i])
             whole == Rate * (now - grants[i])
  <2>1. asked + bucket.tokens <= Capacity + since
    BY DEF Spending
  <2>2. added \in Int /\ whole = added + since
    BY <1>1, Between
  <2>3. asked \in Int /\ since \in Int
    BY <1>1, GatesAssumption
  <2>4. /\ b.tokens <= bucket.tokens + added /\ b.tokens \in Int
        /\ bucket.tokens \in Int /\ Capacity \in Int
    BY <1>1, <1>2
  <2> HIDE DEF asked, added, since, whole, b
  <2>5. asked + b.tokens <= Capacity + whole
    BY <2>1, <2>2, <2>3, <2>4
  <2>6. QED
    BY <2>5 DEF asked, whole
<1>4. CASE UNCHANGED bucketVars
  BY <1>4 DEF Spending, RateBound
<1>5. CASE Refill(b) /\ grants' = grants
  BY <1>2, <1>3, <1>5 DEF Spending, RateBound, Refill
<1>6. CASE b.tokens >= Token /\ Refill(Spent(b)) /\ grants' = Append(grants, now)
  <2>1. /\ Len(grants') = n + 1 /\ grants'[n + 1] = now
        /\ \A i \in 1..n : grants'[i] = grants[i]
        /\ bucket'.tokens = b.tokens - Token /\ bucket'.last = now
    BY <1>1, <1>2, <1>6 DEF Refill
  <2>2. ASSUME NEW i \in 1..n + 1
        PROVE  Token * (n + 1 - i + 1) + (b.tokens - Token)
                 <= Capacity + Rate * (now - grants'[i])
    <3>1. CASE i = n + 1
      <4>1. Token * (n + 1 - i + 1) = Token /\ Rate * (now - now) = 0
        BY <1>1, <3>1, Between, GatesAssumption
      <4>2. QED
        BY <1>1, <1>2, <2>1, <3>1, <4>1
    <3>2. CASE i \in 1..n
      <4> DEFINE asked == Token * (n - i + 1)
                 more  == Token * (n + 1 - i + 1)
                 whole == Rate * (now - grants[i])
      <4>1. more = asked + Token /\ asked \in Int
        <5>1. n - i + 1 \in Int /\ n + 1 - i + 1 = (n - i + 1) + 1
          BY <1>1, <3>2
        <5>2. QED
          BY <5>1, MoreParts
      <4>2. whole \in Int /\ grants'[i] = grants[i]
        BY <1>1, <2>1, <3>2, GatesAssumption
      <4>3. asked + b.tokens <= Capacity + whole
        BY <1>3, <3>2
      <4>4. b.tokens \in Int /\ Token \in Int /\ Capacity \in Int
        BY <1>1, <1>2
      <4> HIDE DEF asked, more, whole, b
      <4>5. more + (b.tokens - Token) <= Capacity + whole
        BY <4>1, <4>2, <4>3, <4>4
      <4>6. QED
        BY <4>2, <4>5 DEF more, whole
    <3>3. QED
      BY <1>1, <3>1, <3>2
  <2>3. ASSUME NEW i \in 1..n + 1
        PROVE  Token * (n + 1 - i + 1) <= Capacity + Rate * (now - grants'[i])
    <3> DEFINE more  == Token * (n + 1 - i + 1)
               whole == Rate * (now - grants'[i])
    <3>1. more \in Int
      BY <1>1, GatesAssumption
    <3>2. now - grants'[i] \in Int
      BY <1>1, <2>1
    <3>3. whole \in Int
      BY <3>2, GatesAssumption
    <3>4. more + (b.tokens - Token) <= Capacity + whole
      BY <2>2
    <3>5. b.tokens >= Token /\ b.tokens \in Int /\ Token \in Int /\ Capacity \in Int
      BY <1>1, <1>2, <1>6
    <3> HIDE DEF more, whole, b
    <3>6. more <= Capacity + whole
      BY <3>1, <3>3, <3>4, <3>5
    <3>7. QED
      BY <3>6 DEF more, whole
  <2>4. RateBound'
    <3> SUFFICES ASSUME NEW j \in 1..n + 1, NEW i \in 1..j
                 PROVE  Token * (j - i + 1) <= Capacity + Rate * (grants'[j] - grants'[i])
      BY <2>1 DEF RateBound
    <3>1. CASE j = n + 1
      BY <1>1, <2>1, <2>3, <3>1
    <3>2. CASE j \in 1..n
      BY <1>1, <2>1, <3>2 DEF Spending, RateBound
    <3>3. QED
      BY <1>1, <3>1, <3>2
  <2>5. bucket'.tokens <= Capacity
    BY <1>1, <1>2, <2>1
  <2>6. QED
    BY <2>1, <2>2, <2>4, <2>5 DEF Spending
<1>7. QED
  BY <1>4, <1>5, <1>6, BucketMoves

\* Between any two grants the bucket grants no more than its capacity and the
\* time between them are worth, however the clock moves.
THEOREM RateHolds == Spec => []RateBound
<1>1. Init => Spending
  BY GatesAssumption DEF Init, Spending, RateBound, FullBucket
<1>2. Spending => RateBound
  BY DEF Spending
<1>3. QED
  BY <1>1, <1>2, StepSpending, TypeCorrect, PTL DEF Spec

\* The bucket owes at most what the last refill was behind the latest one.
Debt ==
  /\ bucket.last <= peak
  /\ bucket.tokens >= Rate * (bucket.last - peak)
  /\ RefusedOnlyNearPeak

LEMMA StepDebt == TypeOK /\ Debt /\ [Next]_vars => Debt'
<1> SUFFICES ASSUME TypeOK, Debt, [Next]_vars PROVE Debt'
  OBVIOUS
<1> DEFINE b == Refilled(bucket, now)
<1>1. /\ bucket \in [tokens : Int, last : Int] /\ now \in Int /\ peak \in Int
      /\ Token \in Nat \ {0} /\ Capacity \in Nat /\ Capacity >= Token /\ Rate \in Nat
  BY GatesAssumption DEF TypeOK
<1>2. /\ b.tokens \in Int /\ b.last = now
      /\ b.tokens = Capacity \/ b.tokens = bucket.tokens + (now - bucket.last) * Rate
      /\ Spent(b).tokens = b.tokens - Token /\ Spent(b).last = now
  BY <1>1, RefilledFacts
<1>3. b.tokens = Capacity \/ b.tokens >= Rate * (now - peak)
  <2>1. /\ Rate * (now - peak) = (now - bucket.last) * Rate + Rate * (bucket.last - peak)
        /\ (now - bucket.last) * Rate \in Int
    BY <1>1, Between
  <2>2. Rate * (bucket.last - peak) \in Int
    BY <1>1
  <2>3. QED
    BY <1>1, <1>2, <2>1, <2>2 DEF Debt
<1>4. \A p \in Int : now <= p => Rate * (now - p) \in Int /\ Rate * (now - p) <= 0
  <2> SUFFICES ASSUME NEW p \in Int, now <= p
               PROVE  Rate * (now - p) \in Int /\ Rate * (now - p) <= 0
    OBVIOUS
  <2>1. p - now \in Nat /\ now - p = 0 - (p - now)
    BY <1>1
  <2>2. \A d \in Nat : Rate * (0 - d) \in Int /\ Rate * (0 - d) <= 0
    BY <1>1
  <2>3. QED
    BY <2>1, <2>2
<1>5. Rate * (now - now) = 0
  BY <1>1, Between
<1>6. ASSUME NEW then, Refill(then)
      PROVE  /\ peak' \in Int /\ now <= peak' /\ Rate * (now - peak') <= 0
             /\ Rate * (now - peak') \in Int
             /\ b.tokens >= Rate * (now - peak')
  <2>1. peak' \in Int /\ now <= peak' /\ (peak' = peak \/ peak' = now)
    BY <1>1, <1>6 DEF Refill
  <2>2. Rate * (now - peak') \in Int /\ Rate * (now - peak') <= 0
    BY <1>4, <2>1
  <2>3. CASE b.tokens = Capacity
    <3> DEFINE owed == Rate * (now - peak')
    <3>1. owed \in Int /\ owed <= 0 /\ Capacity \in Nat
      BY <1>1, <2>2
    <3> HIDE DEF owed, b
    <3>2. b.tokens >= owed
      BY <2>3, <3>1
    <3>3. QED
      BY <2>1, <2>2, <3>2 DEF owed
  <2>4. CASE peak' = peak /\ b.tokens >= Rate * (now - peak)
    BY <2>1, <2>2, <2>4
  <2>5. CASE peak' = now /\ peak' # peak /\ b.tokens >= Rate * (now - peak)
    <3>1. Rate * (now - peak) >= 0
      <4>1. now - peak \in Nat
        BY <1>1, <1>6, <2>5 DEF Refill
      <4>2. QED
        BY <1>1, <4>1
    <3>2. QED
      BY <1>1, <1>2, <1>5, <2>1, <2>2, <2>5, <3>1
  <2>6. QED
    BY <1>3, <2>1, <2>2, <2>3, <2>4, <2>5
<1>7. CASE UNCHANGED bucketVars
  BY <1>7 DEF Debt, RefusedOnlyNearPeak
<1>8. CASE b.tokens >= Token /\ Refill(Spent(b)) /\ refused' = refused
  BY <1>1, <1>2, <1>6, <1>8 DEF Debt, RefusedOnlyNearPeak, Refill
<1>9. CASE Refill(b) /\ refused' = refused
  BY <1>2, <1>6, <1>9 DEF Debt, RefusedOnlyNearPeak, Refill
<1>10. CASE Refill(b) /\ b.tokens < Token /\ refused' = [at |-> now, peak |-> peak]
  <2>1. Rate * (now - peak) < Token
    BY <1>1, <1>2, <1>3, <1>10
  <2>2. QED
    BY <1>2, <1>6, <1>10, <2>1 DEF Debt, RefusedOnlyNearPeak, Refill
<1>11. QED
  BY <1>7, <1>8, <1>9, <1>10, BucketMoves

\* A refusal comes less than the time of one token after the latest refill:
\* a clock that was set back starves the bucket no longer than it was set back.
THEOREM DebtIsShort == Spec => []RefusedOnlyNearPeak
<1>1. Init => Debt
  BY GatesAssumption DEF Init, Debt, RefusedOnlyNearPeak, FullBucket
<1>2. Debt => RefusedOnlyNearPeak
  BY DEF Debt
<1>3. QED
  BY <1>1, <1>2, StepDebt, TypeCorrect, PTL DEF Spec

-----------------------------------------------------------------------------
(* The circuit breaker.                                                    *)

\* Where a worker is between its last opening and its next: an open breaker
\* remembers that opening and keeps the thread at the gate; one that is not
\* open any more has served the cooldown.
Served(w) ==
  LET n == Len(opens[w])
      last == opens[w][n] IN
  /\ pc[w] # "gate" => breaker[w].state # "OPEN"
  /\ breaker[w].blocks >= n
  /\ n > 0 =>
       IF breaker[w].state = "OPEN"
       THEN breaker[w].since = last /\ breaker[w].cooldown >= CooldownOf(n)
       ELSE now + back >= last + CooldownOf(n)

AllServed == \A w \in Worker : Served(w)

\* The clock and what it has been set back only grow together.
LEMMA NoTimeLost ==
  TypeOK /\ [Next]_vars => now' \in Int /\ back' \in Nat /\ now' + back' >= now + back
  BY GatesAssumption DEF TypeOK, Next, vars, PassGate, Grant, Refuse, Block, Succeed,
     ReadFill, Advance, SetBack

LEMMA StillServed ==
  ASSUME TypeOK, [Next]_vars, NEW v \in Worker, Served(v), opens'[v] = opens[v],
         breaker'[v].blocks = breaker[v].blocks,
         breaker'[v].since = breaker[v].since, breaker'[v].cooldown = breaker[v].cooldown,
         breaker'[v].state = "OPEN" <=> breaker[v].state = "OPEN",
         pc'[v] # "gate" => breaker[v].state # "OPEN"
  PROVE  Served(v)'
<1>1. CooldownOf(Len(opens[v])) \in Int \/ Len(opens[v]) = 0
  BY BackoffGrows DEF TypeOK
<1>2. Len(opens[v]) > 0 => opens[v][Len(opens[v])] \in Int
  BY DEF TypeOK
<1>3. now \in Int /\ back \in Int
  BY DEF TypeOK
<1>4. QED
  BY <1>1, <1>2, <1>3, NoTimeLost DEF Served

LEMMA StepServed == TypeOK /\ AllServed /\ [Next]_vars => AllServed'
<1> SUFFICES ASSUME TypeOK, AllServed, [Next]_vars, NEW v \in Worker
             PROVE  Served(v)'
  BY DEF AllServed
<1> DEFINE n == Len(opens[v])
<1>1. /\ breaker \in [Worker -> Breaker] /\ opens \in [Worker -> Seq(Int)]
      /\ pc \in [Worker -> {"gate", "bucket", "fetch"}]
      /\ now \in Int /\ back \in Nat /\ n \in Nat
      /\ n > 0 => opens[v][n] \in Int /\ CooldownOf(n) \in Nat
  BY BackoffGrows DEF TypeOK
<1>2. Served(v)
  BY DEF AllServed
<1>3. CASE breaker'[v] = breaker[v] /\ opens'[v] = opens[v]
           /\ (pc'[v] # "gate" => breaker[v].state # "OPEN")
  BY <1>2, <1>3, StillServed
<1>4. CASE PassGate(v)
  <2>1. /\ breaker'[v] = [breaker[v] EXCEPT !.state = IF @ = "OPEN" THEN "HALF_OPEN" ELSE @]
        /\ breaker'[v].state # "OPEN" /\ breaker'[v].blocks = breaker[v].blocks
        /\ opens' = opens /\ now' = now /\ back' = back
    BY <1>1, <1>4 DEF PassGate, Probing, Breaker
  <2>2. n > 0 => now + back >= opens[v][n] + CooldownOf(n)
    <3>1. breaker[v].cooldown \in Nat /\ breaker[v].since \in Int
      BY <1>1 DEF Breaker
    <3>2. QED
      BY <1>1, <1>2, <1>4, <3>1 DEF PassGate, Allows, Served
  <2>3. QED
    BY <1>2, <2>1, <2>2 DEF Served
<1>5. CASE Succeed(v)
  <2>1. /\ breaker'[v] = AfterSuccess(breaker[v]) /\ opens' = opens
        /\ pc[v] = "fetch" /\ pc'[v] = "gate"
    BY <1>1, <1>5 DEF Succeed, Goto
  <2>2. breaker[v].state # "OPEN"
    BY <1>2, <2>1 DEF Served
  <2>3. /\ breaker'[v].blocks = breaker[v].blocks /\ breaker'[v].since = breaker[v].since
        /\ breaker'[v].cooldown = breaker[v].cooldown /\ breaker'[v].state # "OPEN"
    BY <1>1, <2>1, <2>2 DEF AfterSuccess, Breaker
  <2>4. QED
    BY <1>2, <2>1, <2>2, <2>3, StillServed
<1>6. CASE Block(v) /\ ~Opens(breaker[v], Threshold[v])
  <2>1. /\ breaker'[v] = [breaker[v] EXCEPT !.failures = @ + 1, !.blocks = @ + 1]
        /\ opens' = opens /\ now' = now /\ back' = back
        /\ pc[v] = "fetch" /\ pc'[v] = "gate"
    BY <1>1, <1>6 DEF Block, Goto, AfterFailure
  <2>2. /\ breaker'[v].blocks = breaker[v].blocks + 1
        /\ breaker'[v].state = breaker[v].state /\ breaker[v].blocks \in Nat
    BY <1>1, <2>1 DEF Breaker
  <2>3. QED
    BY <1>1, <1>2, <2>1, <2>2 DEF Served
<1>7. CASE Block(v) /\ Opens(breaker[v], Threshold[v])
  <2>1. /\ breaker'[v] = AfterFailure(breaker[v], Threshold[v], now)
        /\ opens'[v] = Append(opens[v], now) /\ pc'[v] = "gate"
    BY <1>1, <1>7 DEF Block, Goto
  <2>2. breaker[v].blocks \in Nat /\ breaker[v].blocks >= n
    BY <1>1, <1>2 DEF Breaker, Served
  <2>3. /\ breaker'[v].state = "OPEN" /\ breaker'[v].since = now
        /\ breaker'[v].blocks = breaker[v].blocks + 1
        /\ breaker'[v].cooldown = CooldownOf(breaker[v].blocks + 1)
    BY <1>7, <2>1 DEF AfterFailure
  <2>4. CooldownOf(breaker[v].blocks + 1) >= CooldownOf(n + 1)
    BY <1>1, <2>2, BackoffGrows
  <2>5. Len(opens'[v]) = n + 1 /\ opens'[v][n + 1] = now
    BY <1>1, <2>1
  <2>6. QED
    BY <1>1, <2>1, <2>2, <2>3, <2>4, <2>5 DEF Served
<1>8. CASE Grant(v) \/ Refuse(v)
  BY <1>1, <1>2, <1>3, <1>8 DEF Grant, Refuse, Goto, Served
<1>9. CASE \E w \in Worker \ {v} :
             PassGate(w) \/ Grant(w) \/ Refuse(w) \/ Block(w) \/ Succeed(w)
  BY <1>1, <1>2, <1>3, <1>9 DEF PassGate, Grant, Refuse, Block, Succeed, Goto, Served
<1>10. CASE ReadFill \/ Advance \/ SetBack \/ UNCHANGED vars
  BY <1>2, <1>3, <1>10 DEF ReadFill, Advance, SetBack, vars, Served
<1>11. QED
  BY <1>4, <1>5, <1>6, <1>7, <1>8, <1>9, <1>10 DEF Next

\* After its i-th opening a worker stays off the site for 2 ** min(i, 5)
\* delays, save for what the clock has been set back.
THEOREM CooldownHolds == Spec => []CooldownServed
<1>1. Init => AllServed
  <2> SUFFICES ASSUME Init, NEW w \in Worker PROVE Served(w)
    BY DEF AllServed
  <2>1. opens[w] = <<>> /\ breaker[w] = NewBreaker /\ pc[w] = "gate"
    BY DEF Init
  <2>2. Len(opens[w]) = 0 /\ breaker[w].blocks = 0
    BY <2>1 DEF NewBreaker
  <2>3. QED
    BY <2>1, <2>2 DEF Served
<1>2. TypeOK /\ AllServed => CooldownServed
  <2>1. \A w \in Worker : opens[w] # <<>> => Len(opens[w]) > 0 \/ ~TypeOK
    BY DEF TypeOK
  <2>2. QED
    BY <2>1 DEF AllServed, Served, CooldownServed
<1>3. QED
  BY <1>1, <1>2, StepServed, TypeCorrect, PTL DEF Spec
=============================================================================
