---------------------------- MODULE FleetProofs -----------------------------
(***************************************************************************)
(* Proofs about the data plane: the type invariant, that no URL is lost or *)
(* duplicated by any interleaving of workers, autoscaler and stop, and     *)
(* that the fleet implements WorkPool, for every number of workers,        *)
(* shards and URLs.                                                        *)
(***************************************************************************)
EXTENDS Fleet, Lemmas

-----------------------------------------------------------------------------
(* Type correctness.                                                       *)

USE DEF poolVars, ownVars, flagVars, Goto, Say, MayRun, RecordFailure, RecordSuccess,
        InitFleet, InitWorkers

LEMMA InitType == Init => TypeOK
<1> SUFFICES ASSUME Init PROVE TypeOK
  OBVIOUS
<1>1. queue \in [Shard -> Seq(Url)]
  BY FleetAssumption DEF Init
<1>2. tokens \in [Shard -> 0..BucketSize] /\ cursor \in [Worker -> 1..Len(ShardOrder)]
  BY FleetAssumption DEF Init
<1>3. best \in [Worker -> [shard : Shard \cup {None}, depth : Nat]]
  BY DEF Init, NoShard
<1>4. \A w \in Worker : hand[w] # None <=> pc[w] \in Holding
  BY DEF Init, Holding
<1>5. QED
  BY <1>1, <1>2, <1>3, <1>4 DEF Init, TypeOK, Places

LEMMA StepType == TypeOK /\ [Next]_vars => TypeOK'
<1> SUFFICES ASSUME TypeOK, [Next]_vars PROVE TypeOK'
  OBVIOUS
<1> USE FleetAssumption
<1>1. ASSUME NEW w \in Worker, WorkerStep(w) PROVE TypeOK'
  <2>1. CASE PassGate(w)
    BY <2>1 DEF PassGate, TypeOK, Places, Holding
  <2>2. CASE ProbeAfterCooldown(w)
    BY <2>2 DEF ProbeAfterCooldown, TypeOK, Places, Holding
  <2>3. CASE RefuseAtGate(w)
    BY <2>3 DEF RefuseAtGate, TypeOK, Places, Holding
  <2>4. CASE SayCooling(w)
    BY <2>4 DEF SayCooling, TypeOK, Places, Holding
  <2>5. CASE TakeOwn(w)
    <3> DEFINE s == ShardOf[w]
    <3>1. s \in Shard /\ queue[s] \in Seq(Url) /\ queue[s] # <<>>
      BY <2>5 DEF TakeOwn, TypeOK
    <3>2. Head(queue[s]) \in Url /\ Tail(queue[s]) \in Seq(Url)
      BY <3>1, PopLeft
    <3>3. queue' \in [Shard -> Seq(Url)] /\ hand' \in [Worker -> Url \cup {None}]
      BY <2>5, <3>2 DEF TakeOwn, TypeOK
    <3>4. pc' \in [Worker -> Places]
      BY <2>5 DEF TakeOwn, TypeOK, Places
    <3>5. \A v \in Worker : hand'[v] # None <=> pc'[v] \in Holding
      BY <2>5, <3>2 DEF TakeOwn, TypeOK, Holding
    <3>6. QED
      BY <2>5, <3>3, <3>4, <3>5 DEF TakeOwn, TypeOK
  <2>6. CASE OwnIsEmpty(w)
    BY <2>6 DEF OwnIsEmpty, TypeOK, Places, Holding
  <2>7. CASE PassShard(w) \/ PreferShard(w) \/ NoteShard(w)
    <3> DEFINE s == ShardOrder[cursor[w]]
    <3>1. s \in Shard /\ queue[s] \in Seq(Url) /\ Len(queue[s]) \in Nat
      BY DEF TypeOK
    <3>2. best' \in [Worker -> [shard : Shard \cup {None}, depth : Nat]]
      <4>1. UNCHANGED best \/ best' = [best EXCEPT ![w] = [shard |-> s, depth |-> Len(queue[s])]]
        BY <2>7 DEF PassShard, PreferShard, NoteShard, ownVars
      <4>2. best \in [Worker -> [shard : Shard \cup {None}, depth : Nat]]
        BY DEF TypeOK
      <4>3. [shard |-> s, depth |-> Len(queue[s])] \in [shard : Shard \cup {None}, depth : Nat]
        BY <3>1
      <4> HIDE DEF s
      <4>4. QED
        BY <4>1, <4>2, <4>3
    <3>3. cursor' \in [Worker -> 1..Len(ShardOrder)]
      <4>1. cursor[w] \in 1..Len(ShardOrder) /\ Len(ShardOrder) \in Nat
        BY DEF TypeOK
      <4>2. cursor[w] # Len(ShardOrder) => cursor[w] + 1 \in 1..Len(ShardOrder)
        BY <4>1
      <4>3. (IF cursor[w] = Len(ShardOrder) THEN 1 ELSE cursor[w] + 1) \in 1..Len(ShardOrder)
        BY <4>1, <4>2
      <4>4. /\ cursor \in [Worker -> 1..Len(ShardOrder)]
            /\ \/ UNCHANGED cursor
               \/ cursor' = [cursor EXCEPT ![w] = IF @ = Len(ShardOrder) THEN 1 ELSE @ + 1]
        BY <2>7 DEF PassShard, PreferShard, NoteShard, NextShard, ownVars, TypeOK
      <4>5. QED
        BY <4>3, <4>4
    <3>4. pc' \in [Worker -> Places]
      BY <2>7 DEF PassShard, PreferShard, NoteShard, NextShard, TypeOK, Places
    <3>5. \A v \in Worker : hand'[v] # None <=> pc'[v] \in Holding
      BY <2>7 DEF PassShard, PreferShard, NoteShard, NextShard, TypeOK, Holding
    <3>6. /\ UNCHANGED <<poolVars, flagVars, tokens, status>>
          /\ UNCHANGED <<breaker, warm, scraped>>
      BY <2>7 DEF PassShard, PreferShard, NoteShard
    <3>7. QED
      BY <3>2, <3>3, <3>4, <3>5, <3>6 DEF TypeOK
  <2>8. CASE StealFromBack(w)
    <3> DEFINE s == Victim(w)
    <3>1. s \in Shard /\ queue[s] \in Seq(Url) /\ queue[s] # <<>>
      BY <2>8 DEF StealFromBack, Victim, TypeOK
    <3>2. /\ queue[s][Len(queue[s])] \in Url
          /\ SubSeq(queue[s], 1, Len(queue[s]) - 1) \in Seq(Url)
      BY <3>1, PopRight
    <3>3. queue' \in [Shard -> Seq(Url)] /\ hand' \in [Worker -> Url \cup {None}]
      BY <2>8, <3>2 DEF StealFromBack, TypeOK
    <3>4. pc' \in [Worker -> Places]
      BY <2>8 DEF StealFromBack, TypeOK, Places
    <3>5. \A v \in Worker : hand'[v] # None <=> pc'[v] \in Holding
      BY <2>8, <3>2 DEF StealFromBack, TypeOK, Holding
    <3>6. best' \in [Worker -> [shard : Shard \cup {None}, depth : Nat]]
      BY <2>8 DEF StealFromBack, NoShard, TypeOK
    <3>7. QED
      BY <2>8, <3>3, <3>4, <3>5, <3>6 DEF StealFromBack, TypeOK
  <2>9. CASE FindNothing(w)
    BY <2>9 DEF FindNothing, NoShard, TypeOK, Places, Holding
  <2>10. CASE Admit(w)
    <3>1. hand[w] \in Url /\ Bucket(w) \in Shard
      BY <2>10 DEF Admit, Bucket, TypeOK, Holding
    <3>2. tokens' \in [Shard -> 0..BucketSize]
      <4>1. tokens[Bucket(w)] \in 0..BucketSize /\ tokens[Bucket(w)] > 0
        BY <2>10, <3>1 DEF Admit, TypeOK
      <4>2. tokens[Bucket(w)] - 1 \in 0..BucketSize
        BY <4>1
      <4>3. QED
        BY <2>10, <3>1, <4>2 DEF Admit, TypeOK
    <3>3. QED
      BY <2>10, <3>2 DEF Admit, TypeOK, Places, Holding
  <2>11. CASE RateLimit(w)
    BY <2>11 DEF RateLimit, TypeOK, Places, Holding
  <2>12. CASE Block(w)
    BY <2>12 DEF Block, TypeOK, Places, Holding
  <2>13. CASE Requeue(w)
    <3> DEFINE s == ShardOf[w]
    <3>1. s \in Shard /\ queue[s] \in Seq(Url) /\ hand[w] \in Url
      BY <2>13 DEF Requeue, TypeOK, Holding
    <3>2. <<hand[w]>> \o queue[s] \in Seq(Url)
      BY <3>1, PushLeft
    <3>3. queue' \in [Shard -> Seq(Url)] /\ hand' \in [Worker -> Url \cup {None}]
      BY <2>13, <3>2 DEF Requeue, TypeOK
    <3>4. pc' \in [Worker -> Places]
      BY <2>13 DEF Requeue, TypeOK, Places
    <3>5. \A v \in Worker : hand'[v] # None <=> pc'[v] \in Holding
      BY <2>13 DEF Requeue, TypeOK, Holding
    <3>6. QED
      BY <2>13, <3>3, <3>4, <3>5 DEF Requeue, TypeOK
  <2>14. CASE Succeed(w)
    <3>1. hand[w] \in Url /\ DomainOf[hand[w]] \in Domain
      BY <2>14 DEF Succeed, TypeOK, Holding
    <3>2. warm' \in [Worker -> SUBSET Domain]
      BY <2>14, <3>1 DEF Succeed, TypeOK
    <3>3. scraped' \in [Worker -> Nat]
      <4>1. scraped[w] + 1 \in Nat
        BY DEF TypeOK
      <4>2. QED
        BY <2>14, <4>1 DEF Succeed, TypeOK
    <3>4. breaker' \in [Worker -> {"CLOSED", "OPEN", "HALF_OPEN"}]
      BY <2>14 DEF Succeed, TypeOK
    <3>5. QED
      BY <2>14, <3>2, <3>3, <3>4 DEF Succeed, TypeOK, Places, Holding
  <2>15. CASE Record(w)
    <3>1. hand[w] \in Url
      BY <2>15 DEF Record, TypeOK, Holding
    <3>2. results' \in [Url -> Nat]
      <4>1. results \in [Url -> Nat]
        BY DEF TypeOK
      <4>2. results[hand[w]] + 1 \in Nat
        BY <3>1, <4>1
      <4>3. QED
        BY <2>15, <3>1, <4>1, <4>2 DEF Record
    <3>3. QED
      BY <2>15, <3>2 DEF Record, TypeOK, Places, Holding
  <2>16. CASE LeaveLoop(w)
    BY <2>16 DEF LeaveLoop, TypeOK, Places, Holding
  <2>17. QED
    BY <1>1, <2>1, <2>2, <2>3, <2>4, <2>5, <2>6, <2>7, <2>8, <2>9, <2>10, <2>11,
       <2>12, <2>13, <2>14, <2>15, <2>16 DEF WorkerStep
<1>2. ASSUME NEW s \in Shard, Refill(s) PROVE TypeOK'
  <2>1. tokens[s] + 1 \in 0..BucketSize
    BY <1>2 DEF Refill, TypeOK
  <2>2. tokens' \in [Shard -> 0..BucketSize]
    BY <1>2, <2>1 DEF Refill, TypeOK
  <2>3. QED
    BY <1>2, <2>2 DEF Refill, TypeOK
<1>3. ASSUME NEW w \in Worker, PickNew(w) \/ PickIdle(w) PROVE TypeOK'
  <2>1. scaler' \in [step : {"add", "start", "kill", "dead"}, node : Worker]
    BY <1>3 DEF PickNew, PickIdle
  <2>2. QED
    BY <1>3, <2>1 DEF PickNew, PickIdle, TypeOK
<1>4. ASSUME NEW w \in Worker,
             AddWorker(w) \/ StartWorker(w) \/ KillFlags(w) \/ KillStatus(w)
      PROVE  TypeOK'
  <2>1. scaler' \in [step : {"add", "start", "kill", "dead"}, node : Worker] \cup {Watching}
    BY <1>4 DEF AddWorker, StartWorker, KillFlags, KillStatus
  <2>2. CASE AddWorker(w)
    BY <2>1, <2>2 DEF AddWorker, TypeOK, Places, Holding
  <2>3. CASE StartWorker(w)
    BY <2>1, <2>3 DEF StartWorker, TypeOK, Places, Holding
  <2>4. CASE KillFlags(w)
    BY <2>1, <2>4 DEF KillFlags, TypeOK
  <2>5. CASE KillStatus(w)
    BY <2>1, <2>5 DEF KillStatus, TypeOK
  <2>6. QED
    BY <1>4, <2>2, <2>3, <2>4, <2>5
<1>5. CASE LowerFleetFlag
  BY <1>5 DEF LowerFleetFlag, TypeOK
<1>6. CASE SweepWorkers
  BY <1>6 DEF SweepWorkers, TypeOK
<1>7. CASE UNCHANGED vars
  BY <1>7 DEF vars, TypeOK
<1>8. QED
  BY <1>1, <1>2, <1>3, <1>4, <1>5, <1>6, <1>7 DEF Next, ScalerPick, ScalerAct

\* Every variable keeps its type, and a thread holds a URL exactly between
\* taking it and giving it up.
THEOREM TypeCorrect == Spec => []TypeOK
<1>1. QED
  BY InitType, StepType, PTL DEF Spec

-----------------------------------------------------------------------------
(* What a step does to the places of a URL: one of the three moves of the  *)
(* abstract pool, or nothing.                                              *)

Taking(w, u) ==
  /\ hand[w] = None /\ Waiting(u)
  /\ hand' = [hand EXCEPT ![w] = u]
  /\ results' = results
  /\ DequesApart'
  /\ \A x \in Url : Waiting(x)' <=> Waiting(x) /\ x # u

Giving(w) ==
  /\ hand[w] \in Url
  /\ hand' = [hand EXCEPT ![w] = None]
  /\ results' = results
  /\ DequesApart'
  /\ \A x \in Url : Waiting(x)' <=> Waiting(x) \/ x = hand[w]

Finishing(w) ==
  /\ hand[w] \in Url
  /\ hand' = [hand EXCEPT ![w] = None]
  /\ results' = [results EXCEPT ![hand[w]] = @ + 1]
  /\ queue' = queue

\* Taking one URL out of one deque.
LEMMA DequeLosesUrl ==
  ASSUME TypeOK, DequesApart, NEW s \in Shard, NEW u \in Url, NEW q \in Seq(Url),
         Range(queue[s]) = {u} \cup Range(q), u \notin Range(q), IsInjective(q),
         queue' = [queue EXCEPT ![s] = q]
  PROVE  /\ Waiting(u)
         /\ DequesApart'
         /\ \A x \in Url : Waiting(x)' <=> Waiting(x) /\ x # u
<1>1. queue'[s] = q /\ \A t \in Shard : t # s => queue'[t] = queue[t]
  BY DEF TypeOK
<1>2. \A t \in Shard : t # s => u \notin Range(queue[t])
  BY DEF DequesApart
<1>3. Waiting(u)
  BY DEF Waiting
<1>4. DequesApart'
  <2>1. \A t \in Shard : IsInjective(queue'[t])
    BY <1>1 DEF DequesApart
  <2>2. \A t \in Shard : Range(queue'[t]) \subseteq Range(queue[t])
    BY <1>1
  <2>3. QED
    BY <2>1, <2>2 DEF DequesApart
<1>5. ASSUME NEW x \in Url PROVE Waiting(x)' <=> Waiting(x) /\ x # u
  BY <1>1, <1>2 DEF Waiting
<1>6. QED
  BY <1>3, <1>4, <1>5

\* Putting one URL, that is in no deque, in front of one deque.
LEMMA DequeGainsUrl ==
  ASSUME TypeOK, DequesApart, NEW s \in Shard, NEW u \in Url, NEW q \in Seq(Url),
         Range(q) = {u} \cup Range(queue[s]), ~Waiting(u), IsInjective(q),
         queue' = [queue EXCEPT ![s] = q]
  PROVE  /\ DequesApart'
         /\ \A x \in Url : Waiting(x)' <=> Waiting(x) \/ x = u
<1>1. queue'[s] = q /\ \A t \in Shard : t # s => queue'[t] = queue[t]
  BY DEF TypeOK
<1>2. \A t \in Shard : u \notin Range(queue[t])
  BY DEF Waiting
<1>3. DequesApart'
  <2>1. \A t \in Shard : IsInjective(queue'[t])
    BY <1>1 DEF DequesApart
  <2>2. ASSUME NEW t1 \in Shard, NEW t2 \in Shard, t1 # t2
        PROVE  Range(queue'[t1]) \cap Range(queue'[t2]) = {}
    BY <1>1, <1>2, <2>2 DEF DequesApart
  <2>3. QED
    BY <2>1, <2>2 DEF DequesApart
<1>4. ASSUME NEW x \in Url PROVE Waiting(x)' <=> Waiting(x) \/ x = u
  BY <1>1 DEF Waiting
<1>5. QED
  BY <1>3, <1>4

LEMMA StepMoves ==
  ASSUME TypeOK, NoUrlTwice, [Next]_vars
  PROVE  \/ \E w \in Worker, u \in Url : Taking(w, u)
         \/ \E w \in Worker : Giving(w)
         \/ \E w \in Worker : Finishing(w)
         \/ UNCHANGED poolVars
<1> USE FleetAssumption
<1>1. ASSUME NEW w \in Worker, TakeOwn(w) PROVE \E u \in Url : Taking(w, u)
  <2> DEFINE s == ShardOf[w]
             u == Head(queue[s])
  <2>1. s \in Shard /\ queue[s] \in Seq(Url) /\ queue[s] # <<>> /\ DequesApart
    BY <1>1 DEF TakeOwn, TypeOK, NoUrlTwice
  <2>2. /\ u \in Url /\ Tail(queue[s]) \in Seq(Url)
        /\ Range(queue[s]) = {u} \cup Range(Tail(queue[s]))
        /\ u \notin Range(Tail(queue[s])) /\ IsInjective(Tail(queue[s]))
    BY <2>1, PopLeft DEF DequesApart
  <2>3. queue' = [queue EXCEPT ![s] = Tail(queue[s])]
    BY <1>1 DEF TakeOwn
  <2>4. /\ Waiting(u) /\ DequesApart'
        /\ \A x \in Url : Waiting(x)' <=> Waiting(x) /\ x # u
    BY <2>1, <2>2, <2>3, DequeLosesUrl
  <2>5. hand[w] = None
    BY <1>1 DEF TakeOwn, TypeOK, Holding
  <2>6. Taking(w, u)
    BY <1>1, <2>4, <2>5 DEF TakeOwn, Taking
  <2>7. QED
    BY <2>2, <2>6
<1>2. ASSUME NEW w \in Worker, StealFromBack(w) PROVE \E u \in Url : Taking(w, u)
  <2> DEFINE s == Victim(w)
             u == queue[s][Len(queue[s])]
             front == SubSeq(queue[s], 1, Len(queue[s]) - 1)
  <2>1. s \in Shard /\ queue[s] \in Seq(Url) /\ queue[s] # <<>> /\ DequesApart
    BY <1>2 DEF StealFromBack, Victim, TypeOK, NoUrlTwice
  <2>2. /\ u \in Url /\ front \in Seq(Url)
        /\ Range(queue[s]) = {u} \cup Range(front)
        /\ u \notin Range(front) /\ IsInjective(front)
    BY <2>1, PopRight DEF DequesApart
  <2>3. queue' = [queue EXCEPT ![s] = front]
    BY <1>2 DEF StealFromBack
  <2> HIDE DEF front, u, s
  <2>4. /\ Waiting(u) /\ DequesApart'
        /\ \A x \in Url : Waiting(x)' <=> Waiting(x) /\ x # u
    BY <2>1, <2>2, <2>3, DequeLosesUrl
  <2>5. hand[w] = None
    BY <1>2 DEF StealFromBack, TypeOK, Holding
  <2>6. Taking(w, u)
    BY <1>2, <2>4, <2>5 DEF StealFromBack, Taking, u, s
  <2>7. QED
    BY <2>2, <2>6
<1>3. ASSUME NEW w \in Worker, Requeue(w) PROVE Giving(w)
  <2> DEFINE s == ShardOf[w]
             q == <<hand[w]>> \o queue[s]
  <2>1. s \in Shard /\ queue[s] \in Seq(Url) /\ hand[w] \in Url /\ DequesApart
    BY <1>3 DEF Requeue, TypeOK, NoUrlTwice, Holding
  <2>2. ~Waiting(hand[w])
    BY <2>1 DEF NoUrlTwice, HandsApart, Waiting
  <2>3. q \in Seq(Url) /\ Range(q) = {hand[w]} \cup Range(queue[s]) /\ IsInjective(q)
    BY <2>1, <2>2, PushLeft DEF DequesApart, Waiting
  <2>4. queue' = [queue EXCEPT ![s] = q]
    BY <1>3 DEF Requeue
  <2> HIDE DEF q
  <2>5. /\ DequesApart'
        /\ \A x \in Url : Waiting(x)' <=> Waiting(x) \/ x = hand[w]
    BY <2>1, <2>2, <2>3, <2>4, DequeGainsUrl
  <2>6. QED
    BY <1>3, <2>1, <2>5 DEF Requeue, Giving
<1>4. ASSUME NEW w \in Worker, Record(w) PROVE Finishing(w)
  BY <1>4 DEF Record, Finishing, TypeOK, Holding
<1>5. ASSUME NEW w \in Worker, WorkerStep(w),
             ~TakeOwn(w), ~StealFromBack(w), ~Requeue(w), ~Record(w)
      PROVE  UNCHANGED poolVars
  BY <1>5 DEF WorkerStep, PassGate, ProbeAfterCooldown, RefuseAtGate, SayCooling,
              OwnIsEmpty, PassShard, PreferShard, NoteShard, NextShard, FindNothing,
              Admit, RateLimit, Block, Succeed, LeaveLoop
<1>6. ASSUME (\E s \in Shard : Refill(s)) \/ ScalerPick \/ ScalerAct
               \/ LowerFleetFlag \/ SweepWorkers \/ UNCHANGED vars
      PROVE  UNCHANGED poolVars
  BY <1>6 DEF Refill, ScalerPick, PickNew, PickIdle, ScalerAct, AddWorker, StartWorker,
              KillFlags, KillStatus, LowerFleetFlag, SweepWorkers, vars
<1>7. QED
  BY <1>1, <1>2, <1>3, <1>4, <1>5, <1>6 DEF Next

-----------------------------------------------------------------------------
(* The invariants, from the moves.                                         *)

LEMMA InitPlaces == Init => NoUrlTwice /\ NoUrlLost
<1> SUFFICES ASSUME Init PROVE NoUrlTwice /\ NoUrlLost
  OBVIOUS
<1> USE FleetAssumption
<1>1. \A s \in Shard : IsInjective(queue[s]) /\ Range(queue[s]) = {u \in Url : CatOf[u] = s}
  BY DEF Init
<1>2. \A u \in Url : results[u] = 0 /\ CatOf[u] \in Shard
  BY DEF Init
<1>3. \A w \in Worker : hand[w] = None
  BY DEF Init
<1>4. NoUrlTwice
  <2>1. DequesApart
    <3>1. ASSUME NEW s \in Shard, NEW t \in Shard, s # t
          PROVE  Range(queue[s]) \cap Range(queue[t]) = {}
      <4>1. \A x \in Range(queue[s]) : CatOf[x] = s
        BY <1>1
      <4>2. \A x \in Range(queue[t]) : CatOf[x] = t
        BY <1>1
      <4>3. QED
        BY <4>1, <4>2, <3>1, Zenon
    <3>2. QED
      BY <3>1, <1>1 DEF DequesApart
  <2>2. HandsApart /\ ResultsApart
    BY <1>2, <1>3 DEF HandsApart, ResultsApart
  <2>3. QED
    BY <2>1, <2>2 DEF NoUrlTwice
<1>5. NoUrlLost
  BY <1>1, <1>2 DEF NoUrlLost, Waiting
<1>6. QED
  BY <1>4, <1>5

LEMMA StepTwice == TypeOK /\ NoUrlTwice /\ [Next]_vars => NoUrlTwice'
<1> SUFFICES ASSUME TypeOK, NoUrlTwice, [Next]_vars PROVE NoUrlTwice'
  OBVIOUS
<1> USE FleetAssumption
<1>1. ASSUME NEW w \in Worker, NEW u \in Url, Taking(w, u) PROVE NoUrlTwice'
  <2>1. results[u] = 0 /\ results' = results
    <3>1. results[u] \in Nat
      BY DEF TypeOK
    <3>2. results[u] <= 1 /\ (results[u] = 1 => ~Waiting(u))
      BY DEF NoUrlTwice, ResultsApart
    <3>3. QED
      <4>1. results[u] # 1
        BY <3>2, <1>1 DEF Taking
      <4>2. \A n \in Nat : n <= 1 /\ n # 1 => n = 0
        OBVIOUS
      <4>3. results[u] <= 1
        BY <3>2
      <4>4. results[u] = 0
        BY <3>1, <4>1, <4>2, <4>3
      <4>5. QED
        BY <4>4, <1>1 DEF Taking
  <2>2. \A v \in Worker : hand[v] # u
    BY <1>1 DEF Taking, NoUrlTwice, HandsApart
  <2>3. \A v \in Worker : hand'[v] = IF v = w THEN u ELSE hand[v]
    BY <1>1 DEF Taking, TypeOK
  <2>4. ASSUME NEW v \in Worker, NEW x \in Url, hand'[v] = x
        PROVE  /\ ~Waiting(x)'
               /\ results'[x] = 0
               /\ \A y \in Worker : hand'[y] = x => y = v
    <3>1. CASE v = w
      BY <3>1, <2>4, <1>1, <2>1, <2>2, <2>3 DEF Taking
    <3>2. CASE v # w
      BY <3>2, <2>4, <1>1, <2>1, <2>2, <2>3 DEF Taking, NoUrlTwice, HandsApart
    <3>3. QED
      BY <3>1, <3>2
  <2>5. HandsApart'
    BY <2>4 DEF HandsApart
  <2>6. ResultsApart'
    BY <1>1, <2>1 DEF Taking, NoUrlTwice, ResultsApart
  <2>7. QED
    BY <1>1, <2>5, <2>6 DEF Taking, NoUrlTwice
<1>2. ASSUME NEW w \in Worker, Giving(w) PROVE NoUrlTwice'
  <2> DEFINE u == hand[w]
  <2>1. results[u] = 0 /\ results' = results /\ u \in Url
    BY <1>2 DEF Giving, NoUrlTwice, HandsApart
  <2>2. \A v \in Worker : hand'[v] = IF v = w THEN None ELSE hand[v]
    BY <1>2 DEF Giving, TypeOK
  <2>3. ASSUME NEW v \in Worker, NEW x \in Url, hand'[v] = x
        PROVE  /\ ~Waiting(x)'
               /\ results'[x] = 0
               /\ \A y \in Worker : hand'[y] = x => y = v
    <3>1. v # w /\ hand[v] = x /\ x # u
      BY <2>2, <2>3, <2>1 DEF NoUrlTwice, HandsApart
    <3>2. QED
      BY <3>1, <1>2, <2>1, <2>2 DEF Giving, NoUrlTwice, HandsApart
  <2>4. HandsApart'
    BY <2>3 DEF HandsApart
  <2>5. ResultsApart'
    BY <1>2, <2>1 DEF Giving, NoUrlTwice, ResultsApart
  <2>6. QED
    BY <1>2, <2>4, <2>5 DEF Giving, NoUrlTwice
<1>3. ASSUME NEW w \in Worker, Finishing(w) PROVE NoUrlTwice'
  <2> DEFINE u == hand[w]
  <2>1. results[u] = 0 /\ u \in Url /\ ~Waiting(u)
    BY <1>3 DEF Finishing, NoUrlTwice, HandsApart
  <2>2. \A v \in Worker : hand'[v] = IF v = w THEN None ELSE hand[v]
    BY <1>3 DEF Finishing, TypeOK
  <2>3. \A x \in Url : results'[x] = IF x = u THEN 1 ELSE results[x]
    BY <1>3, <2>1 DEF Finishing, TypeOK
  <2>4. DequesApart' /\ \A x \in Url : Waiting(x)' <=> Waiting(x)
    BY <1>3 DEF Finishing, NoUrlTwice, DequesApart, Waiting
  <2>5. ASSUME NEW v \in Worker, NEW x \in Url, hand'[v] = x
        PROVE  /\ ~Waiting(x)'
               /\ results'[x] = 0
               /\ \A y \in Worker : hand'[y] = x => y = v
    <3>1. v # w /\ hand[v] = x /\ x # u
      BY <2>2, <2>5, <2>1 DEF NoUrlTwice, HandsApart
    <3>2. ~Waiting(x) /\ results[x] = 0 /\ \A y \in Worker : hand[y] = x => y = v
      BY <3>1 DEF NoUrlTwice, HandsApart
    <3>3. \A y \in Worker : hand'[y] = x => y = v
      BY <3>2, <2>2
    <3>4. results'[x] = 0
      BY <3>1, <3>2, <2>3
    <3>5. QED
      BY <3>2, <3>3, <3>4, <2>4
  <2>6. HandsApart'
    BY <2>5 DEF HandsApart
  <2>7. ResultsApart'
    <3>1. ASSUME NEW x \in Url
          PROVE  results'[x] <= 1 /\ (results'[x] = 1 => ~Waiting(x)')
      <4>1. results[x] <= 1 /\ (results[x] = 1 => ~Waiting(x))
        BY DEF NoUrlTwice, ResultsApart
      <4>2. CASE x = u
        BY <4>2, <2>1, <2>3, <2>4
      <4>3. CASE x # u
        BY <4>1, <4>3, <2>3, <2>4
      <4>4. QED
        BY <4>2, <4>3
    <3>2. QED
      BY <3>1 DEF ResultsApart
  <2>8. QED
    BY <2>4, <2>6, <2>7 DEF NoUrlTwice
<1>4. CASE UNCHANGED poolVars
  BY <1>4 DEF NoUrlTwice, DequesApart, HandsApart, ResultsApart, Waiting
<1>5. QED
  BY <1>1, <1>2, <1>3, <1>4, StepMoves

LEMMA StepLost == TypeOK /\ NoUrlTwice /\ NoUrlLost /\ [Next]_vars => NoUrlLost'
<1> SUFFICES ASSUME TypeOK, NoUrlTwice, NoUrlLost, [Next]_vars, NEW u \in Url
             PROVE  (Waiting(u) \/ (\E w \in Worker : hand[w] = u) \/ results[u] > 0)'
  BY DEF NoUrlLost
<1> USE FleetAssumption
<1>0. Waiting(u) \/ (\E w \in Worker : hand[w] = u) \/ results[u] > 0
  BY DEF NoUrlLost
<1>1. ASSUME NEW w \in Worker, NEW x \in Url, Taking(w, x)
      PROVE  Waiting(u)' \/ (\E v \in Worker : hand'[v] = u) \/ results'[u] > 0
  <2>1. \A v \in Worker : hand'[v] = IF v = w THEN x ELSE hand[v]
    BY <1>1 DEF Taking, TypeOK
  <2>2. QED
    BY <1>0, <1>1, <2>1 DEF Taking
<1>2. ASSUME NEW w \in Worker, Giving(w)
      PROVE  Waiting(u)' \/ (\E v \in Worker : hand'[v] = u) \/ results'[u] > 0
  <2>1. \A v \in Worker : v # w => hand'[v] = hand[v]
    BY <1>2 DEF Giving, TypeOK
  <2>2. QED
    BY <1>0, <1>2, <2>1 DEF Giving
<1>3. ASSUME NEW w \in Worker, Finishing(w)
      PROVE  Waiting(u)' \/ (\E v \in Worker : hand'[v] = u) \/ results'[u] > 0
  <2>1. \A v \in Worker : v # w => hand'[v] = hand[v]
    BY <1>3 DEF Finishing, TypeOK
  <2>2. \A x \in Url : results'[x] = IF x = hand[w] THEN results[x] + 1 ELSE results[x]
    BY <1>3 DEF Finishing, TypeOK
  <2>3. results[u] \in Nat /\ (Waiting(u)' <=> Waiting(u))
    BY <1>3 DEF Finishing, TypeOK, Waiting
  <2>4. QED
    <3>1. CASE u = hand[w]
      BY <3>1, <2>2, <2>3
    <3>2. CASE u # hand[w]
      BY <3>2, <1>0, <2>1, <2>2, <2>3
    <3>3. QED
      BY <3>1, <3>2
<1>4. CASE UNCHANGED poolVars
  BY <1>0, <1>4 DEF Waiting
<1>5. QED
  BY <1>1, <1>2, <1>3, <1>4, StepMoves

\* No interleaving of steals, requeues, kills and stops puts a URL in two
\* places, so no page enters the results twice.
THEOREM NeverTwice == Spec => []NoUrlTwice
<1>1. QED
  BY InitPlaces, StepTwice, TypeCorrect, PTL DEF Spec

\* No interleaving loses a URL.
THEOREM NeverLost == Spec => []NoUrlLost
<1>1. QED
  BY InitPlaces, StepLost, TypeCorrect, NeverTwice, PTL DEF Spec

\* The fleet implements the abstract work pool: every step is one of its
\* three moves or leaves it alone.
THEOREM Implements == Spec => ImplementsWorkPool
<1> USE FleetAssumption
<1>1. Init => Pool!Init
  <2> SUFFICES ASSUME Init PROVE Pool!Init
    OBVIOUS
  <2>1. \A u \in Url : Waiting(u) /\ results[u] = 0
    BY DEF Init, Waiting
  <2>2. QED
    BY <2>1 DEF Init, Pool!Init
<1>2. TypeOK /\ NoUrlTwice /\ [Next]_vars => [Pool!Next]_Pool!vars
  <2> SUFFICES ASSUME TypeOK, NoUrlTwice, [Next]_vars PROVE [Pool!Next]_Pool!vars
    OBVIOUS
  <2> DEFINE pending == {u \in Url : Waiting(u)}
             done == {u \in Url : results[u] > 0}
  <2>1. ASSUME NEW w \in Worker, NEW u \in Url, Taking(w, u) PROVE Pool!Take(w, u)
    <3>1. pending' = pending \ {u} /\ u \in pending /\ done' = done
      BY <2>1 DEF Taking
    <3>2. QED
      BY <2>1, <3>1 DEF Taking, Pool!Take
  <2>2. ASSUME NEW w \in Worker, Giving(w) PROVE Pool!GiveBack(w)
    <3>1. pending' = pending \cup {hand[w]} /\ done' = done
      BY <2>2 DEF Giving
    <3>2. QED
      BY <2>2, <3>1 DEF Giving, Pool!GiveBack
  <2>3. ASSUME NEW w \in Worker, Finishing(w) PROVE Pool!Finish(w)
    <3>1. pending' = pending
      BY <2>3 DEF Finishing, Waiting
    <3>2. \A x \in Url : results[x] \in Nat
                       /\ results'[x] = IF x = hand[w] THEN results[x] + 1 ELSE results[x]
      BY <2>3 DEF Finishing, TypeOK
    <3>3. done' = done \cup {hand[w]}
      BY <2>3, <3>2 DEF Finishing
    <3>4. QED
      BY <2>3, <3>1, <3>3 DEF Finishing, Pool!Finish
  <2>4. CASE UNCHANGED poolVars
    <3>1. pending' = pending /\ done' = done /\ hand' = hand
      BY <2>4 DEF Waiting
    <3>2. QED
      BY <3>1 DEF Pool!vars
  <2>5. QED
    BY <2>1, <2>2, <2>3, <2>4, StepMoves DEF Pool!Next
<1>3. QED
  BY <1>1, <1>2, TypeCorrect, NeverTwice, PTL DEF Spec, Pool!Spec, ImplementsWorkPool

-----------------------------------------------------------------------------
(* The circuit breaker.                                                    *)

LEMMA StepBreaker ==
  ASSUME TypeOK, OpenBreakerFetchesNothing, [Next]_vars
  PROVE  OpenBreakerFetchesNothing'
<1> SUFFICES ASSUME NEW v \in Worker, breaker'[v] = "OPEN"
             PROVE  pc'[v] \in {"requeue", "top", "cool", "stopped"}
  BY DEF OpenBreakerFetchesNothing
<1>1. /\ breaker \in [Worker -> {"CLOSED", "OPEN", "HALF_OPEN"}] /\ pc \in [Worker -> Places]
      /\ breaker[v] = "OPEN" => pc[v] \in {"requeue", "top", "cool", "stopped"}
  BY DEF OpenBreakerFetchesNothing, TypeOK
<1>2. ASSUME NEW w \in Worker, WorkerStep(w)
      PROVE  pc'[v] \in {"requeue", "top", "cool", "stopped"}
  <2>1. CASE w # v
    BY <1>1, <1>2, <2>1 DEF WorkerStep, PassGate, ProbeAfterCooldown, RefuseAtGate, SayCooling,
       TakeOwn, OwnIsEmpty, PassShard, PreferShard, NoteShard, NextShard, StealFromBack,
       FindNothing, Admit, RateLimit, Block, Requeue, Succeed, Record, LeaveLoop
  <2>2. CASE w = v
    <3>1. CASE PassGate(v) \/ ProbeAfterCooldown(v) \/ RefuseAtGate(v) \/ SayCooling(v)
               \/ TakeOwn(v) \/ OwnIsEmpty(v) \/ PassShard(v) \/ PreferShard(v)
               \/ NoteShard(v) \/ StealFromBack(v)
      BY <1>1, <3>1 DEF PassGate, ProbeAfterCooldown, RefuseAtGate, SayCooling,
         TakeOwn, OwnIsEmpty, PassShard, PreferShard, NoteShard, NextShard, StealFromBack
    <3>2. CASE FindNothing(v) \/ Admit(v) \/ RateLimit(v) \/ Block(v) \/ Requeue(v)
               \/ Succeed(v) \/ Record(v) \/ LeaveLoop(v)
      BY <1>1, <3>2 DEF FindNothing, Admit, RateLimit, Block, Requeue, Succeed, Record,
         LeaveLoop
    <3>3. QED
      BY <1>2, <2>2, <3>1, <3>2 DEF WorkerStep
  <2>3. QED
    BY <2>1, <2>2
<1>3. ASSUME ScalerAct PROVE pc'[v] \in {"requeue", "top", "cool", "stopped"}
  <2>1. breaker' = breaker
    BY <1>3 DEF ScalerAct, AddWorker, StartWorker, KillFlags, KillStatus
  <2>2. \/ pc' = pc
        \/ \E w \in Worker : /\ pc[w] \in {"unborn", "built"}
                             /\ \E to : pc' = [pc EXCEPT ![w] = to]
    BY <1>3 DEF ScalerAct, AddWorker, StartWorker, KillFlags, KillStatus
  <2>3. QED
    BY <1>1, <2>1, <2>2
<1>4. ASSUME (\E s \in Shard : Refill(s)) \/ ScalerPick \/ LowerFleetFlag
               \/ SweepWorkers \/ UNCHANGED vars
      PROVE  pc'[v] \in {"requeue", "top", "cool", "stopped"}
  BY <1>1, <1>4 DEF Refill, ScalerPick, PickNew, PickIdle, LowerFleetFlag, SweepWorkers, vars
<1>5. QED
  BY <1>2, <1>3, <1>4 DEF Next

\* After a block a worker fetches nothing until its cooldown lets a probe
\* through, whatever it might have stolen.
THEOREM BreakerHolds == Spec => []OpenBreakerFetchesNothing
<1>1. Init => OpenBreakerFetchesNothing
  BY DEF Init, OpenBreakerFetchesNothing
<1>2. QED
  BY <1>1, StepBreaker, TypeCorrect, PTL DEF Spec
-----------------------------------------------------------------------------
(* The counters, the size of the fleet, and its stop.                      *)

\* Where a worker's step leaves its thread, and whose flags it leaves alone.
LEMMA WorkerMoves ==
  ASSUME NEW w \in Worker, WorkerStep(w)
  PROVE  /\ \E to \in Places \ {"unborn", "built"} : pc' = [pc EXCEPT ![w] = to]
         /\ pc[w] \notin {"unborn", "built"}
         /\ UNCHANGED flagVars
<1>1. CASE PassGate(w) \/ ProbeAfterCooldown(w) \/ RefuseAtGate(w) \/ SayCooling(w)
           \/ TakeOwn(w) \/ OwnIsEmpty(w) \/ PassShard(w) \/ PreferShard(w)
           \/ NoteShard(w) \/ StealFromBack(w)
  BY <1>1 DEF PassGate, ProbeAfterCooldown, RefuseAtGate, SayCooling, TakeOwn, OwnIsEmpty,
     PassShard, PreferShard, NoteShard, NextShard, StealFromBack, Places
<1>2. CASE FindNothing(w) \/ Admit(w) \/ RateLimit(w) \/ Block(w) \/ Requeue(w)
           \/ Succeed(w) \/ Record(w) \/ LeaveLoop(w)
  BY <1>2 DEF FindNothing, Admit, RateLimit, Block, Requeue, Succeed, Record, LeaveLoop, Places
<1>3. QED
  BY <1>1, <1>2 DEF WorkerStep

Recording == {w \in Worker : pc[w] = "record"}

\* A step that is neither a success nor an append leaves the sums, and the
\* workers between the two, alone.
LEMMA StepElsewhere ==
  ASSUME TypeOK, [Next]_vars, ~ \E w \in Worker : Succeed(w) \/ Record(w)
  PROVE  scraped' = scraped /\ results' = results /\ Recording' = Recording
<1>1. ASSUME NEW w \in Worker, WorkerStep(w)
      PROVE  /\ scraped' = scraped /\ results' = results /\ pc[w] # "record"
             /\ \E to \in Places \ {"record"} : pc' = [pc EXCEPT ![w] = to]
  <2>1. CASE PassGate(w) \/ ProbeAfterCooldown(w) \/ RefuseAtGate(w) \/ SayCooling(w)
             \/ TakeOwn(w) \/ OwnIsEmpty(w) \/ PassShard(w) \/ PreferShard(w)
             \/ NoteShard(w) \/ StealFromBack(w)
    BY <2>1 DEF PassGate, ProbeAfterCooldown, RefuseAtGate, SayCooling, TakeOwn, OwnIsEmpty,
       PassShard, PreferShard, NoteShard, NextShard, StealFromBack, Places
  <2>2. CASE FindNothing(w) \/ Admit(w) \/ RateLimit(w) \/ Block(w) \/ Requeue(w)
             \/ LeaveLoop(w)
    BY <2>2 DEF FindNothing, Admit, RateLimit, Block, Requeue, LeaveLoop, Places
  <2>3. QED
    BY <1>1, <2>1, <2>2 DEF WorkerStep
<1>2. CASE ScalerAct
  <2>1. PICK w \in Worker : AddWorker(w) \/ StartWorker(w) \/ KillFlags(w) \/ KillStatus(w)
    BY <1>2 DEF ScalerAct
  <2>2. QED
    BY <2>1 DEF AddWorker, StartWorker, KillFlags, KillStatus, TypeOK, Recording
<1>3. CASE ScalerPick \/ LowerFleetFlag \/ SweepWorkers \/ (\E s \in Shard : Refill(s))
           \/ UNCHANGED vars
  BY <1>3 DEF ScalerPick, PickNew, PickIdle, LowerFleetFlag, SweepWorkers, Refill, vars, Recording
<1>4. ASSUME NEW w \in Worker, WorkerStep(w) PROVE Recording' = Recording
  BY <1>1, <1>4 DEF TypeOK, Recording
<1>5. QED
  BY <1>1, <1>2, <1>3, <1>4 DEF Next

LEMMA StepCounters ==
  TypeOK /\ CountersMatchResults /\ [Next]_vars => CountersMatchResults'
<1> SUFFICES ASSUME TypeOK, CountersMatchResults, [Next]_vars
             PROVE  CountersMatchResults'
  OBVIOUS
<1> DEFINE R == Recording
<1>1. /\ Tally(scraped, Worker) = Tally(results, Url) + Cardinality(R)
      /\ Tally(scraped, Worker) \in Nat /\ Tally(results, Url) \in Nat
      /\ IsFiniteSet(R) /\ Cardinality(R) \in Nat
  <2>1. IsFiniteSet(Worker) /\ IsFiniteSet(Url) /\ R \in SUBSET Worker
    BY FleetAssumption DEF Recording
  <2>2. /\ \A w \in Worker : scraped[w] \in Nat
        /\ \A u \in Url : results[u] \in Nat
    BY DEF TypeOK
  <2>3. IsFiniteSet(R)
    BY <2>1, FS_Subset
  <2>4. QED
    BY <2>1, <2>2, <2>3, TallyOfAll, FS_CardinalityType DEF CountersMatchResults, Recording
<1>2. ASSUME NEW w \in Worker, Succeed(w) PROVE CountersMatchResults'
  <2>1. Tally(scraped', Worker) = Tally(scraped, Worker) + 1
    BY <1>2, FleetAssumption, TallyGrows DEF Succeed, TypeOK
  <2>2. R' = R \cup {w} /\ w \notin R
    BY <1>2 DEF Succeed, TypeOK, Recording
  <2>3. Cardinality(R') = Cardinality(R) + 1
    BY <1>1, <2>2, FS_AddElement
  <2>4. results' = results
    BY <1>2 DEF Succeed
  <2>5. QED
    BY <1>1, <2>1, <2>3, <2>4 DEF CountersMatchResults, Recording
<1>3. ASSUME NEW w \in Worker, Record(w) PROVE CountersMatchResults'
  <2>1. hand[w] \in Url
    BY <1>3 DEF Record, TypeOK, Holding
  <2>2. Tally(results', Url) = Tally(results, Url) + 1
    BY <1>3, <2>1, FleetAssumption, TallyGrows DEF Record, TypeOK
  <2>3. R' = R \ {w} /\ w \in R
    BY <1>3 DEF Record, TypeOK, Recording
  <2>4. Cardinality(R') = Cardinality(R) - 1
    BY <1>1, <2>3, FS_RemoveElement
  <2>5. scraped' = scraped
    BY <1>3 DEF Record
  <2>6. QED
    BY <1>1, <2>2, <2>4, <2>5 DEF CountersMatchResults, Recording
<1>4. CASE ~ \E w \in Worker : Succeed(w) \/ Record(w)
  BY <1>4, StepElsewhere DEF CountersMatchResults, Recording
<1>5. QED
  BY <1>2, <1>3, <1>4

\* What the workers have counted is what is in the result list and what is
\* between the counter and the append.
THEOREM CountersHold == Spec => []CountersMatchResults
<1>1. Init => CountersMatchResults
  <2> SUFFICES ASSUME Init PROVE CountersMatchResults
    OBVIOUS
  <2>1. /\ \A w \in Worker : scraped[w] = 0 /\ pc[w] # "record"
        /\ \A u \in Url : results[u] = 0
    BY DEF Init
  <2>2. Tally(scraped, Worker) = 0 /\ Tally(results, Url) = 0
    BY <2>1, TallyOfNone, TallyOfSome
  <2>3. {w \in Worker : pc[w] = "record"} = {}
    BY <2>1
  <2>4. QED
    BY <2>2, <2>3, FS_EmptySet DEF CountersMatchResults
<1>2. QED
  BY <1>1, StepCounters, TypeCorrect, PTL DEF Spec

\* What the autoscaler has decided still stands when it acts: it alone makes
\* workers and kills them.
Decided ==
  /\ scaler.step = "add" => Cardinality(Alive) < MaxNodes
  /\ scaler.step = "kill" => scaler.node \in Alive /\ Cardinality(Alive) > MinNodes

\* Only a spawn and a kill change the workers that count as alive.
LEMMA StepAlive ==
  ASSUME TypeOK, [Next]_vars, ~ \E w \in Worker : AddWorker(w) \/ KillFlags(w)
  PROVE  Alive' = Alive
<1>1. ASSUME NEW w \in Worker, WorkerStep(w) PROVE Alive' = Alive
  BY <1>1, WorkerMoves DEF TypeOK, Alive
<1>2. ASSUME NEW w \in Worker, StartWorker(w) \/ KillStatus(w) PROVE Alive' = Alive
  BY <1>2 DEF StartWorker, KillStatus, TypeOK, Alive
<1>3. CASE ScalerPick \/ LowerFleetFlag \/ SweepWorkers \/ (\E s \in Shard : Refill(s))
           \/ UNCHANGED vars
  BY <1>3 DEF ScalerPick, PickNew, PickIdle, LowerFleetFlag, SweepWorkers, Refill, vars, Alive
<1>4. QED
  BY <1>1, <1>2, <1>3 DEF Next, ScalerAct

LEMMA StepSize ==
  TypeOK /\ FleetSizeKept /\ Decided /\ [Next]_vars => FleetSizeKept' /\ Decided'
<1> SUFFICES ASSUME TypeOK, FleetSizeKept, Decided, [Next]_vars
             PROVE  FleetSizeKept' /\ Decided'
  OBVIOUS
<1>1. /\ IsFiniteSet(Alive) /\ Cardinality(Alive) \in Nat
      /\ MinNodes \in Nat /\ MaxNodes \in Nat
  <2>1. Alive \in SUBSET Worker
    BY DEF Alive
  <2>2. QED
    BY <2>1, FleetAssumption, FS_Subset, FS_CardinalityType
<1>2. ASSUME NEW w \in Worker, AddWorker(w) PROVE FleetSizeKept' /\ Decided'
  <2>1. scaler.step = "add" /\ scaler'.step \notin {"add", "kill"}
    BY <1>2 DEF AddWorker, Watching
  <2>2. Alive' \in {Alive, Alive \cup {w}}
    BY <1>2 DEF AddWorker, TypeOK, Alive
  <2>3. Cardinality(Alive \cup {w}) \in {Cardinality(Alive), Cardinality(Alive) + 1}
    BY <1>1, FS_AddElement
  <2>4. Cardinality(Alive') \in {Cardinality(Alive), Cardinality(Alive) + 1}
        /\ Alive \subseteq Alive'
    BY <2>2, <2>3
  <2>5. Cardinality(Alive) < MaxNodes
    BY <2>1 DEF Decided
  <2>6. FleetSizeKept'
    <3> DEFINE n == Cardinality(Alive)
               m == Cardinality(Alive')
    <3>1. m <= MaxNodes /\ m >= n
      BY <1>1, <2>4, <2>5
    <3>2. n >= MinNodes => m >= MinNodes
      BY <1>1, <2>4
    <3>3. QED
      BY <2>4, <3>1, <3>2 DEF FleetSizeKept
  <2>7. QED
    BY <2>1, <2>6 DEF Decided
<1>3. ASSUME NEW w \in Worker, KillFlags(w) PROVE FleetSizeKept' /\ Decided'
  <2>1. scaler.step = "kill" /\ scaler.node = w /\ scaler'.step = "dead"
    BY <1>3 DEF KillFlags
  <2>2. Alive' = Alive \ {w} /\ w \in Alive
    BY <1>3, <2>1 DEF KillFlags, TypeOK, Alive, Decided
  <2>3. Cardinality(Alive') = Cardinality(Alive) - 1 /\ Cardinality(Alive) > MinNodes
    BY <1>1, <2>1, <2>2, FS_RemoveElement DEF Decided
  <2>4. QED
    BY <1>1, <2>1, <2>2, <2>3 DEF FleetSizeKept, Decided
<1>4. CASE ~ \E w \in Worker : AddWorker(w) \/ KillFlags(w)
  <2>1. Alive' = Alive
    BY <1>4, StepAlive
  <2>2. \/ scaler' = scaler
        \/ scaler'.step \notin {"add", "kill"}
        \/ \E w \in Worker : PickNew(w) \/ PickIdle(w)
    <3>1. ASSUME NEW w \in Worker, WorkerStep(w) PROVE scaler' = scaler
      BY <3>1, WorkerMoves
    <3>2. ASSUME NEW w \in Worker, StartWorker(w) \/ KillStatus(w)
          PROVE  scaler'.step \notin {"add", "kill"}
      BY <3>2 DEF StartWorker, KillStatus, Watching
    <3>3. CASE LowerFleetFlag \/ SweepWorkers \/ (\E s \in Shard : Refill(s)) \/ UNCHANGED vars
      BY <3>3 DEF LowerFleetFlag, SweepWorkers, Refill, vars
    <3>4. QED
      BY <1>4, <3>1, <3>2, <3>3 DEF Next, ScalerAct, ScalerPick
  <2>3. ASSUME NEW w \in Worker, PickNew(w) \/ PickIdle(w) PROVE Decided'
    BY <2>1, <2>3 DEF PickNew, PickIdle, Decided
  <2>4. Decided'
    BY <2>1, <2>2, <2>3 DEF Decided
  <2>5. QED
    BY <2>1, <2>4 DEF FleetSizeKept
<1>5. QED
  BY <1>2, <1>3, <1>4

\* The autoscaler keeps the fleet between its floor and its ceiling.
THEOREM SizeHolds == Spec => []FleetSizeKept
<1>1. Init => FleetSizeKept /\ Decided
  <2> SUFFICES ASSUME Init PROVE FleetSizeKept /\ Decided
    OBVIOUS
  <2>1. Alive = Initial
    BY FleetAssumption DEF Init, Alive
  <2>2. QED
    BY <2>1 DEF Init, Watching, FleetSizeKept, Decided
<1>2. QED
  BY <1>1, StepSize, TypeCorrect, PTL DEF Spec

\* A worker runs, or the autoscaler is past its look at the fleet's flag.
Surviving(w) == running[w] \/ scaler = [step |-> "start", node |-> w]

\* After the sweep at most one worker does.
Swept == stop = "over" => \A v, w \in Worker : Surviving(v) /\ Surviving(w) => v = w

LEMMA StepSwept == TypeOK /\ Swept /\ [Next]_vars => Swept'
<1> SUFFICES ASSUME TypeOK, Swept, [Next]_vars, stop' = "over",
                    NEW v \in Worker, NEW w \in Worker, Surviving(v)', Surviving(w)'
             PROVE  v = w
  BY DEF Swept
<1>1. CASE SweepWorkers
  BY <1>1 DEF SweepWorkers, Surviving
<1>2. CASE ~SweepWorkers
  <2>1. stop = "over"
    <3>1. ASSUME NEW x \in Worker, WorkerStep(x) PROVE stop' = stop
      BY <3>1, WorkerMoves
    <3>2. ASSUME ScalerAct \/ ScalerPick \/ (\E s \in Shard : Refill(s)) \/ UNCHANGED vars
          PROVE  stop' = stop
      BY <3>2 DEF ScalerAct, AddWorker, StartWorker, KillFlags, KillStatus, ScalerPick,
         PickNew, PickIdle, Refill, vars
    <3>3. ~LowerFleetFlag
      BY DEF LowerFleetFlag
    <3>4. QED
      BY <1>2, <3>1, <3>2, <3>3 DEF Next
  <2>2. ASSUME NEW x \in Worker, Surviving(x)' PROVE Surviving(x)
    <3>1. ASSUME NEW y \in Worker, WorkerStep(y) PROVE Surviving(x)
      BY <2>2, <3>1, WorkerMoves DEF Surviving
    <3>2. ASSUME NEW y \in Worker, AddWorker(y) PROVE Surviving(x)
      BY <2>1, <2>2, <3>2 DEF AddWorker, Watching, Surviving
    <3>3. ASSUME NEW y \in Worker, StartWorker(y) PROVE Surviving(x)
      <4>1. /\ scaler = [step |-> "start", node |-> y] /\ scaler' = Watching
            /\ running' = [running EXCEPT ![y] = TRUE]
        BY <3>3 DEF StartWorker
      <4>2. scaler' # [step |-> "start", node |-> x]
        BY <4>1 DEF Watching
      <4>3. running'[x]
        BY <2>2, <4>2 DEF Surviving
      <4>4. x = y \/ running[x]
        BY <4>1, <4>3 DEF TypeOK
      <4>5. x = y => scaler = [step |-> "start", node |-> x]
        BY <4>1
      <4>6. QED
        BY <4>4, <4>5, Zenon DEF Surviving
    <3>4. ASSUME NEW y \in Worker, KillFlags(y) \/ KillStatus(y) PROVE Surviving(x)
      <4>1. /\ scaler'.step \in {"dead", "watch"}
            /\ running' = running \/ running' = [running EXCEPT ![y] = FALSE]
        BY <3>4 DEF KillFlags, KillStatus, Watching
      <4>2. running'[x]
        BY <2>2, <4>1 DEF Surviving
      <4>3. running[x]
        BY <4>1, <4>2 DEF TypeOK
      <4>4. QED
        BY <4>3 DEF Surviving
    <3>5. ASSUME NEW y \in Worker, PickNew(y) \/ PickIdle(y) PROVE Surviving(x)
      BY <2>2, <3>5 DEF PickNew, PickIdle, Surviving
    <3>6. ASSUME (\E s \in Shard : Refill(s)) \/ LowerFleetFlag \/ UNCHANGED vars
          PROVE  Surviving(x)
      BY <2>2, <3>6 DEF Refill, LowerFleetFlag, vars, Surviving
    <3>7. QED
      BY <1>2, <3>1, <3>2, <3>3, <3>4, <3>5, <3>6 DEF Next, ScalerAct, ScalerPick
  <2>3. QED
    BY <2>1, <2>2 DEF Swept
<1>3. QED
  BY <1>1, <1>2

\* However the autoscaler and stop() interleave, at most one worker outlives
\* the stop.
THEOREM StopHolds == Spec => []AtMostOneOutlivesStop
<1>1. Init => Swept
  BY DEF Init, Swept
<1>2. TypeOK /\ Swept => AtMostOneOutlivesStop
  <2> SUFFICES ASSUME TypeOK, Swept, stop = "over"
               PROVE  Cardinality({w \in Worker : Surviving(w)}) <= 1
    BY DEF AtMostOneOutlivesStop, Surviving
  <2>1. CASE \A w \in Worker : ~Surviving(w)
    <3>1. {w \in Worker : Surviving(w)} = {}
      BY <2>1
    <3>2. QED
      BY <3>1, FS_EmptySet
  <2>2. ASSUME NEW v \in Worker, Surviving(v)
        PROVE  Cardinality({w \in Worker : Surviving(w)}) <= 1
    <3>1. {w \in Worker : Surviving(w)} = {v}
      BY <2>2 DEF Swept
    <3>2. QED
      BY <3>1, FS_Singleton
  <2>3. QED
    BY <2>1, <2>2
<1>3. QED
  BY <1>1, <1>2, StepSwept, TypeCorrect, PTL DEF Spec
=============================================================================
