------------------------------- MODULE Fleet --------------------------------
(***************************************************************************)
(* The data plane of the distributed fleet: DistributedWorker._run and     *)
(* _steal, one thread per worker, over the shard deques, token buckets and *)
(* result list that DistributedFleet owns, with the autoscaler and the      *)
(* fleet's stop acting on the workers from their own threads.  Each action *)
(* is a stretch of a thread between two accesses to state another thread   *)
(* can see.                                                                *)
(*                                                                         *)
(* Abstracted: a per-domain request counter to "zero or not" (all that     *)
(* _ip_block_fires decides on: at zero it never fires, above zero it may), *)
(* a token bucket to whole tokens, a cooldown to "may have elapsed", page  *)
(* contents, clocks, gossip and log lines.                                 *)
(***************************************************************************)
EXTENDS Integers, Sequences, FiniteSets, Functions, Totals

CONSTANTS
  Worker,       \* node ids the fleet may ever give out
  Initial,      \* those of the workers the constructor spawns
  Url,          \* the URLs left by the Bloom filter pass: no duplicates
  Shard,        \* domain categories, one deque and one bucket each
  ShardOrder,   \* iteration order of the _shards dict
  Domain,
  CatOf,        \* domain_map
  DomainOf,     \* _domain_of
  ShardOf,      \* _shard_for: the shard the hash ring gives a worker
  Backlog,      \* the shard deques as the constructor fills them
  BucketSize,   \* capacity of a token bucket
  ShallowDepth, \* queue depth under which the autoscaler scales down
  DeepDepth,    \* queue depth above which it scales up
  MinNodes,     \* autoscaling floor
  MaxNodes,     \* autoscaling ceiling
  None

ASSUME FleetAssumption ==
  /\ CatOf \in [Url -> Shard] /\ DomainOf \in [Url -> Domain]
  /\ ShardOf \in [Worker -> Shard]
  /\ IsFiniteSet(Url) /\ IsFiniteSet(Worker)
  /\ None \notin Url /\ None \notin Worker /\ None \notin Shard
  /\ ShardOrder \in Seq(Shard) /\ Range(ShardOrder) = Shard
  /\ Len(ShardOrder) > 0
  /\ Initial \subseteq Worker
  /\ BucketSize \in Nat \ {0} /\ ShallowDepth \in Nat /\ DeepDepth \in Nat
  /\ MinNodes \in Nat \ {0} /\ MaxNodes \in Nat
  /\ Backlog \in [Shard -> Seq(Url)]
  /\ \A s \in Shard : /\ IsInjective(Backlog[s])
                      /\ Range(Backlog[s]) = {u \in Url : CatOf[u] = s}

VARIABLES
  queue,     \* shard -> its deque, left end first
  tokens,    \* shard -> tokens in its bucket
  results,   \* URL -> number of entries for it in the result list
  pc,        \* worker -> where its thread is in _run
  hand,      \* worker -> local variable url
  cursor,    \* worker -> position of the scan in _steal
  best,      \* worker -> the busiest shard seen by that scan, with its depth
  breaker,   \* worker -> state of its circuit breaker
  warm,      \* worker -> domains whose request counter is above zero
  scraped,   \* worker -> urls_scraped
  status,    \* worker -> status
  running,   \* worker -> _running
  killed,    \* worker -> _killed
  scaler,    \* where the autoscaler is, and the worker it is acting on
  stop       \* fleet's stop: "no", "sweep" (fleet flag down, workers' not), "over"

poolVars  == <<queue, results, hand>>
ownVars   == <<cursor, best, breaker, warm, scraped>>
flagVars  == <<running, killed, scaler, stop>>
vars == <<queue, tokens, results, pc, hand, cursor, best, breaker, warm,
          scraped, status, running, killed, scaler, stop>>

NoShard == [shard |-> None, depth |-> 0]
Watching == [step |-> "watch", node |-> None]

InitFleet ==
  /\ queue = Backlog
  /\ tokens = [s \in Shard |-> BucketSize]
  /\ results = [u \in Url |-> 0]
  /\ scaler = Watching
  /\ stop = "no"

\* The constructor's workers, started; the others not yet spawned.
InitWorkers ==
  /\ pc = [w \in Worker |-> IF w \in Initial THEN "top" ELSE "unborn"]
  /\ hand = [w \in Worker |-> None]
  /\ cursor = [w \in Worker |-> 1]
  /\ best = [w \in Worker |-> NoShard]
  /\ breaker = [w \in Worker |-> "CLOSED"]
  /\ warm = [w \in Worker |-> {}]
  /\ scraped = [w \in Worker |-> 0]
  /\ status = [w \in Worker |-> "idle"]
  /\ running = [w \in Worker |-> w \in Initial]
  /\ killed = [w \in Worker |-> FALSE]

Init == InitFleet /\ InitWorkers

-----------------------------------------------------------------------------
(* One iteration of a worker thread.                                       *)

Goto(w, from, to) == pc[w] = from /\ pc' = [pc EXCEPT ![w] = to]

Say(w, s) == status' = [status EXCEPT ![w] = s]

MayRun(w) == running[w] /\ ~killed[w]

\* With a threshold of one, every failure opens the breaker...
RecordFailure(w) == breaker' = [breaker EXCEPT ![w] = "OPEN"]

\* ...and only a success after a probe closes it.
RecordSuccess(w) ==
  breaker' = [breaker EXCEPT ![w] = IF @ = "HALF_OPEN" THEN "CLOSED" ELSE @]

\* Mutant: no gate.
MutPassGate(w) ==
  /\ Goto(w, "top", "own")
  /\ MayRun(w)
  /\ UNCHANGED <<poolVars, ownVars, flagVars, tokens, status>>

\* The breaker lets the iteration through.
PassGate(w) ==
  /\ Goto(w, "top", "own")
  /\ MayRun(w)
  /\ breaker[w] # "OPEN"
  /\ UNCHANGED <<poolVars, ownVars, flagVars, tokens, status>>

\* The cooldown is over: the open breaker lets one probe through.
ProbeAfterCooldown(w) ==
  /\ Goto(w, "top", "own")
  /\ MayRun(w)
  /\ breaker[w] = "OPEN"
  /\ breaker' = [breaker EXCEPT ![w] = "HALF_OPEN"]
  /\ UNCHANGED <<poolVars, flagVars, cursor, best, warm, scraped, tokens, status>>

\* The cooldown is not over; the status is written after the flags were read.
RefuseAtGate(w) ==
  /\ Goto(w, "top", "cool")
  /\ MayRun(w)
  /\ breaker[w] = "OPEN"
  /\ UNCHANGED <<poolVars, ownVars, flagVars, tokens, status>>

SayCooling(w) ==
  /\ Goto(w, "cool", "top")
  /\ Say(w, "cooling")
  /\ UNCHANGED <<poolVars, ownVars, flagVars, tokens>>

TakeOwn(w) ==
  LET s == ShardOf[w] IN
  /\ Goto(w, "own", "admit")
  /\ queue[s] # <<>>
  /\ hand' = [hand EXCEPT ![w] = Head(queue[s])]
  /\ queue' = [queue EXCEPT ![s] = Tail(@)]
  /\ UNCHANGED <<ownVars, flagVars, results, tokens, status>>

OwnIsEmpty(w) ==
  /\ Goto(w, "own", "scan")
  /\ queue[ShardOf[w]] = <<>>
  /\ UNCHANGED <<poolVars, ownVars, flagVars, tokens, status>>

\* _steal compares the length of the deque under the cursor...
Deeper(w) ==
  LET s == ShardOrder[cursor[w]] IN s # ShardOf[w] /\ Len(queue[s]) > best[w].depth

\* ...and goes to the next shard, or after the last one to the pop.
NextShard(w, from) ==
  LET last == cursor[w] = Len(ShardOrder) IN
  /\ Goto(w, from, IF last THEN "pop" ELSE "scan")
  /\ cursor' = [cursor EXCEPT ![w] = IF last THEN 1 ELSE @ + 1]

PassShard(w) ==
  /\ ~Deeper(w)
  /\ NextShard(w, "scan")
  /\ UNCHANGED <<poolVars, flagVars, best, breaker, warm, scraped, tokens, status>>

PreferShard(w) ==
  /\ Deeper(w)
  /\ Goto(w, "scan", "note")
  /\ UNCHANGED <<poolVars, ownVars, flagVars, tokens, status>>

\* The length is read again to be stored: others may have used the deque.
NoteShard(w) ==
  LET s == ShardOrder[cursor[w]] IN
  /\ NextShard(w, "note")
  /\ best' = [best EXCEPT ![w] = [shard |-> s, depth |-> Len(queue[s])]]
  /\ UNCHANGED <<poolVars, flagVars, breaker, warm, scraped, tokens, status>>

\* A deque that was empty when its length was stored is not tried.
Victim(w) == IF best[w].depth > 0 THEN best[w].shard ELSE None

\* Mutant: the URL at the back is taken, the one at the front removed.
MutStealFromBack(w) ==
  LET s == Victim(w) IN
  /\ Goto(w, "pop", "admit")
  /\ s # None
  /\ queue[s] # <<>>
  /\ hand' = [hand EXCEPT ![w] = queue[s][Len(queue[s])]]
  /\ queue' = [queue EXCEPT ![s] = Tail(@)]
  /\ best' = [best EXCEPT ![w] = NoShard]
  /\ UNCHANGED <<flagVars, results, cursor, breaker, warm, scraped, tokens, status>>

StealFromBack(w) ==
  LET s == Victim(w) IN
  /\ Goto(w, "pop", "admit")
  /\ s # None
  /\ queue[s] # <<>>
  /\ hand' = [hand EXCEPT ![w] = queue[s][Len(queue[s])]]
  /\ queue' = [queue EXCEPT ![s] = SubSeq(@, 1, Len(@) - 1)]
  /\ best' = [best EXCEPT ![w] = NoShard]
  /\ UNCHANGED <<flagVars, results, cursor, breaker, warm, scraped, tokens, status>>

\* Nothing to steal, or another thread emptied the victim (IndexError).
FindNothing(w) ==
  /\ Goto(w, "pop", "top")
  /\ Victim(w) # None => queue[Victim(w)] = <<>>
  /\ best' = [best EXCEPT ![w] = NoShard]
  /\ Say(w, "idle")
  /\ UNCHANGED <<poolVars, flagVars, cursor, breaker, warm, scraped, tokens>>

Bucket(w) == CatOf[hand[w]]

Admit(w) ==
  /\ Goto(w, "admit", "fetch")
  /\ tokens[Bucket(w)] > 0
  /\ tokens' = [tokens EXCEPT ![Bucket(w)] = @ - 1]
  /\ Say(w, "scraping")
  /\ UNCHANGED <<poolVars, ownVars, flagVars>>

RateLimit(w) ==
  /\ Goto(w, "admit", "requeue")
  /\ tokens[Bucket(w)] = 0
  /\ UNCHANGED <<poolVars, ownVars, flagVars, tokens, status>>

\* _ip_block_fires: never at a zero counter, possibly above it.
MayBlock(w) == DomainOf[hand[w]] \in warm[w]

\* Mutant: a blocked request is counted as scraped.
MutBlockCounted(w) ==
  /\ Goto(w, "fetch", "requeue")
  /\ MayBlock(w)
  /\ RecordFailure(w)
  /\ warm' = [warm EXCEPT ![w] = @ \ {DomainOf[hand[w]]}]
  /\ scraped' = [scraped EXCEPT ![w] = @ + 1]
  /\ Say(w, "blocked")
  /\ UNCHANGED <<poolVars, flagVars, cursor, best, tokens>>

\* Mutant: the request counter of the blocked domain is not reset.
MutBlockStaysWarm(w) ==
  /\ Goto(w, "fetch", "requeue")
  /\ MayBlock(w)
  /\ RecordFailure(w)
  /\ Say(w, "blocked")
  /\ UNCHANGED <<poolVars, flagVars, cursor, best, warm, scraped, tokens>>

Block(w) ==
  /\ Goto(w, "fetch", "requeue")
  /\ MayBlock(w)
  /\ RecordFailure(w)
  /\ warm' = [warm EXCEPT ![w] = @ \ {DomainOf[hand[w]]}]
  /\ Say(w, "blocked")
  /\ UNCHANGED <<poolVars, flagVars, cursor, best, scraped, tokens>>

\* Rate-limited and blocked URLs go back to the front of the worker's own
\* shard, which for a stolen URL is not the shard it came from.
Requeue(w) ==
  /\ Goto(w, "requeue", "top")
  /\ queue' = [queue EXCEPT ![ShardOf[w]] = <<hand[w]>> \o @]
  /\ hand' = [hand EXCEPT ![w] = None]
  /\ UNCHANGED <<ownVars, flagVars, results, tokens, status>>

Succeed(w) ==
  /\ Goto(w, "fetch", "record")
  /\ RecordSuccess(w)
  /\ warm' = [warm EXCEPT ![w] = @ \cup {DomainOf[hand[w]]}]
  /\ scraped' = [scraped EXCEPT ![w] = @ + 1]
  /\ UNCHANGED <<poolVars, flagVars, cursor, best, tokens, status>>

\* Mutant: the result is not appended.
MutRecord(w) ==
  /\ Goto(w, "record", "top")
  /\ hand' = [hand EXCEPT ![w] = None]
  /\ UNCHANGED <<ownVars, flagVars, queue, results, tokens, status>>

Record(w) ==
  /\ Goto(w, "record", "top")
  /\ results' = [results EXCEPT ![hand[w]] = @ + 1]
  /\ hand' = [hand EXCEPT ![w] = None]
  /\ UNCHANGED <<ownVars, flagVars, queue, tokens, status>>

LeaveLoop(w) ==
  /\ Goto(w, "top", "stopped")
  /\ ~MayRun(w)
  /\ status' = IF killed[w] THEN status ELSE [status EXCEPT ![w] = "done"]
  /\ UNCHANGED <<poolVars, ownVars, flagVars, tokens>>

WorkerStep(w) ==
  \/ PassGate(w)      \/ ProbeAfterCooldown(w) \/ RefuseAtGate(w)
  \/ SayCooling(w)    \/ TakeOwn(w)            \/ OwnIsEmpty(w)
  \/ PassShard(w)     \/ PreferShard(w)        \/ NoteShard(w)
  \/ StealFromBack(w) \/ FindNothing(w)        \/ Admit(w)
  \/ RateLimit(w)     \/ Block(w)              \/ Requeue(w)
  \/ Succeed(w)       \/ Record(w)             \/ LeaveLoop(w)

-----------------------------------------------------------------------------
(* The other threads.                                                      *)

\* The lazy refill: time has earned the bucket another token.
Refill(s) ==
  /\ tokens[s] < BucketSize
  /\ tokens' = [tokens EXCEPT ![s] = @ + 1]
  /\ UNCHANGED <<poolVars, ownVars, flagVars, pc, status>>

Alive == {w \in Worker : pc[w] # "unborn" /\ ~killed[w]}

Depth == SumFunction([s \in Shard |-> Len(queue[s])])

Blocked == {w \in Alive : status[w] = "blocked" \/ breaker[w] = "OPEN"}

\* A tick of the autoscaler reads the depths, counts and statuses of the
\* moment; by the time it acts on the worker they may have changed.
PickNew(w) ==
  /\ scaler = Watching /\ stop = "no"
  /\ pc[w] = "unborn"
  /\ Depth > DeepDepth
  /\ 5 * Cardinality(Blocked) > 2 * Cardinality(Alive)
  /\ Cardinality(Alive) < MaxNodes
  /\ scaler' = [step |-> "add", node |-> w]
  /\ UNCHANGED <<poolVars, ownVars, running, killed, stop, tokens, pc, status>>

\* Mutant: no floor.
MutPickIdle(w) ==
  /\ scaler = Watching /\ stop = "no"
  /\ w \in Alive /\ status[w] = "idle"
  /\ Depth < ShallowDepth
  /\ scaler' = [step |-> "kill", node |-> w]
  /\ UNCHANGED <<poolVars, ownVars, running, killed, stop, tokens, pc, status>>

PickIdle(w) ==
  /\ scaler = Watching /\ stop = "no"
  /\ w \in Alive /\ status[w] = "idle"
  /\ Depth < ShallowDepth
  /\ Cardinality(Alive) > MinNodes
  /\ scaler' = [step |-> "kill", node |-> w]
  /\ UNCHANGED <<poolVars, ownVars, running, killed, stop, tokens, pc, status>>

\* _spawn_worker registers the worker under the worker lock, then starts it
\* if the fleet's flag is still up.
AddWorker(w) ==
  /\ scaler = [step |-> "add", node |-> w]
  /\ Goto(w, "unborn", "built")
  /\ scaler' = IF stop = "no" THEN [step |-> "start", node |-> w] ELSE Watching
  /\ UNCHANGED <<poolVars, ownVars, running, killed, stop, tokens, status>>

StartWorker(w) ==
  /\ scaler = [step |-> "start", node |-> w]
  /\ Goto(w, "built", "top")
  /\ running' = [running EXCEPT ![w] = TRUE]
  /\ scaler' = Watching
  /\ UNCHANGED <<poolVars, ownVars, killed, stop, tokens, status>>

\* Mutant: the thread is ended at once, with what it has in hand.
MutKillAtOnce(w) ==
  /\ scaler = [step |-> "kill", node |-> w]
  /\ killed' = [killed EXCEPT ![w] = TRUE]
  /\ running' = [running EXCEPT ![w] = FALSE]
  /\ pc' = [pc EXCEPT ![w] = "stopped"]
  /\ hand' = [hand EXCEPT ![w] = None]
  /\ scaler' = [step |-> "dead", node |-> w]
  /\ UNCHANGED <<queue, results, ownVars, stop, tokens, status>>

KillFlags(w) ==
  /\ scaler = [step |-> "kill", node |-> w]
  /\ killed' = [killed EXCEPT ![w] = TRUE]
  /\ running' = [running EXCEPT ![w] = FALSE]
  /\ scaler' = [step |-> "dead", node |-> w]
  /\ UNCHANGED <<poolVars, ownVars, stop, tokens, pc, status>>

KillStatus(w) ==
  /\ scaler = [step |-> "dead", node |-> w]
  /\ Say(w, "dead")
  /\ scaler' = Watching
  /\ UNCHANGED <<poolVars, ownVars, running, killed, stop, tokens, pc>>

ScalerPick == \E w \in Worker : PickNew(w) \/ PickIdle(w)

ScalerAct ==
  \E w \in Worker :
    AddWorker(w) \/ StartWorker(w) \/ KillFlags(w) \/ KillStatus(w)

LowerFleetFlag ==
  /\ stop = "no"
  /\ stop' = "sweep"
  /\ UNCHANGED <<poolVars, ownVars, running, killed, scaler, tokens, pc, status>>

\* Mutant: stop() lowers the fleet's own flag only.
MutSweepWorkers ==
  /\ stop = "sweep"
  /\ stop' = "over"
  /\ UNCHANGED <<poolVars, ownVars, running, killed, scaler, tokens, pc, status>>

\* One step under the worker lock: each worker reads only its own flag.
SweepWorkers ==
  /\ stop = "sweep"
  /\ stop' = "over"
  /\ running' = [w \in Worker |-> FALSE]
  /\ UNCHANGED <<poolVars, ownVars, killed, scaler, tokens, pc, status>>

Next ==
  \/ \E w \in Worker : WorkerStep(w)
  \/ \E s \in Shard : Refill(s)
  \/ ScalerPick
  \/ ScalerAct
  \/ LowerFleetFlag
  \/ SweepWorkers

Spec == Init /\ [][Next]_vars

(* Threads are scheduled, so a worker that can step does.  A cooldown is   *)
(* finite and the gate is polled every 50 ms, so a worker polling an open  *)
(* breaker for ever would be let through: strong fairness of the probe.    *)
(* Tokens accrue at 15 per second.  Nothing makes the user stop   *)
(* the fleet or the autoscaler pick a worker, but what either has begun it *)
(* completes.                                                              *)
FairSpec ==
  /\ Spec
  /\ \A w \in Worker : /\ WF_vars(WorkerStep(w))
                       /\ SF_vars(ProbeAfterCooldown(w))
  /\ \A s \in Shard : WF_vars(Refill(s))
  /\ WF_vars(ScalerAct)
  /\ WF_vars(SweepWorkers)

-----------------------------------------------------------------------------
(* Properties.                                                             *)

Places == {"top", "cool", "own", "scan", "note", "pop", "admit", "fetch",
           "requeue", "record", "stopped", "unborn", "built"}

Holding == {"admit", "fetch", "requeue", "record"}

\* Type invariant, with the one fact that ties a thread's position to its
\* local variable: it holds a URL exactly between the pop and the push or
\* append that gives it up.
TypeOK ==
  /\ queue \in [Shard -> Seq(Url)]
  /\ tokens \in [Shard -> 0..BucketSize]
  /\ results \in [Url -> Nat]
  /\ pc \in [Worker -> Places]
  /\ hand \in [Worker -> Url \cup {None}]
  /\ cursor \in [Worker -> 1..Len(ShardOrder)]
  /\ best \in [Worker -> [shard : Shard \cup {None}, depth : Nat]]
  /\ breaker \in [Worker -> {"CLOSED", "OPEN", "HALF_OPEN"}]
  /\ warm \in [Worker -> SUBSET Domain]
  /\ scraped \in [Worker -> Nat]
  /\ status \in [Worker -> {"idle", "cooling", "scraping", "blocked", "dead", "done"}]
  /\ running \in [Worker -> BOOLEAN]
  /\ killed \in [Worker -> BOOLEAN]
  /\ scaler \in [step : {"add", "start", "kill", "dead"}, node : Worker]
               \cup {Watching}
  /\ stop \in {"no", "sweep", "over"}
  /\ \A w \in Worker : hand[w] # None <=> pc[w] \in Holding

Waiting(u) == \E s \in Shard : u \in Range(queue[s])

\* No URL is lost by a steal, a rate limit, a block, a kill or a stop: it
\* is in some deque, in some worker's hand, or in the results.
NoUrlLost ==
  \A u \in Url : Waiting(u) \/ (\E w \in Worker : hand[w] = u) \/ results[u] > 0

DequesApart ==
  /\ \A s \in Shard : IsInjective(queue[s])
  /\ \A s, t \in Shard : s # t => Range(queue[s]) \cap Range(queue[t]) = {}

HandsApart ==
  \A w \in Worker, u \in Url : hand[w] = u =>
    /\ ~Waiting(u)
    /\ results[u] = 0
    /\ \A v \in Worker : hand[v] = u => v = w

ResultsApart == \A u \in Url : results[u] <= 1 /\ (results[u] = 1 => ~Waiting(u))

\* No URL is in two places: at most one position of one deque, one hand, or
\* one result entry.  Hence no page is ever scraped twice.
NoUrlTwice == DequesApart /\ HandsApart /\ ResultsApart

\* The per-worker counters the dashboard sums and the result list MapReduce
\* reads differ by the workers between the counter and the append, which is
\* what a race that ends there loses from its summary.
CountersMatchResults ==
  Tally(scraped, Worker) =
    Tally(results, Url) + Cardinality({w \in Worker : pc[w] = "record"})

\* A worker whose breaker is open is not fetching: after a block it touches
\* no site until the cooldown has let a probe through, stealing included.
OpenBreakerFetchesNothing ==
  \A w \in Worker :
    breaker[w] = "OPEN" => pc[w] \in {"requeue", "top", "cool", "stopped"}

\* The autoscaler keeps the fleet between its floor and its ceiling, even
\* though it acts on counts read earlier; a fleet constructed outside them
\* is never moved further out.
FleetSizeKept ==
  /\ Cardinality(Alive) >= MinNodes \/ Initial \subseteq Alive
  /\ Cardinality(Alive) <= MaxNodes \/ Alive \subseteq Initial

\* stop() leaves at most one worker running: the one that the autoscaler, which
\* looked at the fleet's flag before, was spawning and starts after the sweep.
AtMostOneOutlivesStop ==
  stop = "over" =>
    Cardinality({w \in Worker : running[w] \/ scaler = [step |-> "start", node |-> w]}) <= 1

Pool == INSTANCE WorkPool WITH
          pending <- {u \in Url : Waiting(u)},
          held <- hand,
          done <- {u \in Url : results[u] > 0}

\* The fleet implements the abstract work pool.
ImplementsWorkPool == Pool!Spec

\* Unless the fleet is stopped, every URL ends up in the results, through
\* rate limits, blocks, steals and scaling, for every interleaving.
EveryUrlScraped == <>((\A u \in Url : results[u] = 1) \/ stop # "no")
=============================================================================
