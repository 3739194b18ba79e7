# ScrapeGrid in TLA+

Specifications, model-checking runs and machine-checked proofs for ScrapeGrid,
the simulator that races one scraper against a distributed fleet. The reference
is the source: every definition listed in `PROJECT.json` under `map` names the
lines it stands for.

## 1. Inventory

| Component | State | Operations | Talks to | Hard part |
| --- | --- | --- | --- | --- |
| Distributed worker (`simulation.py`, `DistributedWorker`) | own deque (shared), breaker, per-domain counters, `urls_scraped`, `status`, `_running`, `_killed` | `_run` (gate, pop, steal, token, fetch, block, requeue, record), `_steal`, `stop`, `kill` | deques, buckets and result list of the fleet; clocks, gossip table, event log | threads interleave between any two accesses; two ends of one deque; kill in mid-iteration |
| Distributed fleet, autoscaler (`DistributedFleet`) | shards, buckets, `_workers`, `_results`, `_running` | `start`, `stop`, `_spawn_worker`, `_kill_worker`, `_autoscale_loop`, `_snapshot_loop`, `get_results` | workers; engine | acts on counts and flags read earlier; a dict that grows under unlocked iterations |
| Single scraper (`SingleNodeScraper`) | deques per category, counters, stats, status | `start`, `stop`, `_run` | engine's stop | round-robin over emptied deques; retry order |
| Circuit breaker (`algorithms/circuit_breaker.py`) | state, counts, cooldown | `allow_request`, `record_success`, `record_failure`, `probe` | its worker | no fetch before the cooldown is over |
| Token bucket (`algorithms/token_bucket.py`) | tokens, last refill | `consume`, `fill_level`, `available` | workers, dashboard | lazy refill from a wall clock |
| Raft coordinators (`algorithms/raft.py`) | term, vote, log, state, `crashed`, lock | election, vote, announcement, heartbeat, append, crash, recover | each other by method calls; dashboard | locks held across calls; state read and used after an unlock; crash in mid-election |
| Engine (`SimulationEngine`) | race flags, start time, MapReduce result | `start_race`, `_race_timer`, `stop_race`/`_end_race`, `_gossip_loop`, `get_state`, Raft buttons | everything | one global engine for all browser tabs: start, stop and timer race |
| MapReduce (`run_mapreduce`) | none | pure aggregation | engine | which results it is given |
| Lamport and vector clocks (`algorithms/clocks.py`), event log (`utils/logger.py`) | a shared counter; a vector per worker; the last 500 events | `increment`, `tick`, `compare`; `log`, `all` | workers, fleet, engine, dashboard | a stamp is drawn under one lock and used under another |
| URL generator, Bloom filter, hash ring (`utils/`, `algorithms/`) | none; bits and counters; sorted ring | generate; add, contains; add, remove, get | constructor of the engine | templates that repeat; false positives; shared positions and the wrap-around |
| Gossip table of the engine, gossip library | table; views | update, round; exchange | workers, engine; only tests | values nobody reads |
| Dashboard (`dashboard.py`) | none of its own | Start, Stop, Reset, Crash, Recover, a snapshot at every rendering | engine | several tabs are several threads |

`PROJECT.json` lists every component with its status, and under `hazards` what
is hard to test in this code, each at its line with the properties about it.

What makes each correct: the fleet and the single scraper lose no URL and
scrape none twice, whatever is blocked, stolen, rate-limited, killed or
stopped; everything is scraped in the end; a blocked worker waits out its
cooldown; the autoscaler keeps between floor and ceiling. The coordinators
elect one winner per term, never take a vote back, do not deadlock, and
replicate the same log. A race that is started ends once, with everything
stopped and summed up. The buckets never grant more than their rate, and the
breakers never cut a backoff short, whatever the wall clock does. The
constructor gives both competitors the same URLs, each once. What the reader of
a race is shown, stamps, log and results, keeps the order in which things
happened to each URL and to each worker.

## 2. Modules

| Module | What it is |
| --- | --- |
| `WorkPool` | the abstract promise of both competitors: a URL is waiting, in one worker's hands, or finished |
| `Fleet` | the data plane of the fleet: worker threads, deques, buckets, breakers, autoscaler, stop |
| `Single` | the single scraper |
| `Raft` | the coordinators, the browser tabs whose snapshots append, the Crash and Recover buttons |
| `Race` | the control plane: `start_race`, `_end_race` from several threads, loops over `_workers` |
| `Gates` | circuit breaker and token bucket against the wall clock |
| `Boot`, `HashRing` | the engine's constructor: URL pool, Bloom filter, hash ring, shard deques |
| `Observers` | Lamport stamps, vector clocks, event log and result list under interleaving threads |
| `Totals` | the total of a counter over workers or URLs, as the number of its units |
| `Lemmas` | lemmas on the ends of a deque, on remainders and on totals |
| `FleetProofs`, `SingleProofs`, `RaftProofs`, `RaceProofs`, `GatesProofs`, `BootProofs`, `ObserversProofs` | theorems and proofs |
| `MCFleet`, `MCSingle`, `MCRaft`, `MCRace`, `MCGates`, `MCBoot`, `MCObservers` | small instances for TLC |

`Fleet` and `Single` each implement `WorkPool` under a refinement mapping
(`Pool == INSTANCE WorkPool WITH ...`). `Race` abstracts what `Fleet` and
`Raft` detail: there a worker only scrapes or finds nothing, a coordinator is
only started and stopped. `Gates` and `Observers` detail what `Fleet` leaves to
chance or leaves out: when a token or a cooldown is there, and what a worker
publishes. `Boot` extends `HashRing` and ends in the state that `Fleet` and
`Single` start from: `DequesFit` is what `FleetAssumption` and
`SingleAssumption` ask of the deques.

### Grain and abstractions

An action is a stretch of a thread between two accesses to state that another
thread can see. CPython's deque operations and assignments of one attribute are
atomic; a stretch under a lock is one action.

* `Fleet`. `pc[w]` is where the thread is in `_run`; `top` is line 388. `top ->
  own -> (scan -> note -> pop) -> admit -> fetch -> record` is a successful
  iteration; `requeue` is between a rate limit or block and the `appendleft`.
  The scan of `_steal` reads one deque length per step, and that of a deque it
  prefers a second time at `note`, where it may have become zero. A request counter is "zero or not":
  at zero `_ip_block_fires` never fires, above zero it may. A bucket holds whole
  tokens, and any time may pass: `Refill`. A cooldown may be over whenever the
  gate is polled. `DistributedFleet.start` is in `Init`: threads that have not
  run yet are at `top`. Worker ids are given out in any order, which only adds
  behaviours. The shard the ring gives a worker is an arbitrary constant
  function, so a shard may have no worker of its own.
  The autoscaler's tick reads everything at one moment (`PickNew`, `PickIdle`)
  and acts later, one write per step. `tasks_stolen`, `blocks`, `block_events`,
  scale events, gossip, clocks and logs are left out.
* `Raft`. A call to a peer is one action, because it runs under the peer's lock.
  `_start_election` asks without its own lock, and announces with it: `Unlocked`
  is the guard of whoever needs that lock. The checks and reads in `run` and `append_log`
  that are made without a lock, or used after it is released, are steps of their
  own. Timers are chance. `granted`, `won` and `hit` are history variables; the
  votes a candidate counts are recovered from `granted`, which agrees with the
  local counter because a candidate asks once per term. Every tab takes its own
  snapshots and appends on a thread of its own; a command is the tab and the
  number of its append. `hit` names the nodes ever crashed.
* `Single`. The scan for a non-empty category touches state no other thread
  writes, so with the pop it is one action. `done` and `refused` are history
  variables.
* `Race`. One engine and one race. The dict of workers is its set of keys;
  iterating over it raises when its size has changed since the iteration began.
  `late` records what raised its flag with `race_running` down. That the
  autoscaler wants to grow is left to chance here.
* `Gates`. The clock is `time.time()`: `Advance` and `SetBack` stand for it.
  Time is in ticks and tokens are in parts of a token, so that the products of
  the code are whole numbers; rounding of floats is left out. `consume` and the
  reads of the dashboard are one action each, under the bucket's lock. The
  breaker belongs to its worker's thread and has no lock. Whether a fetch is
  blocked is chance. `probe` and the displayed counters are left out.
* `Boot`. A URL is its domain, its template, and the index or the fields the
  template keeps of it. The seeded random choices and the shuffle are arbitrary,
  MD5 is an arbitrary function to sets of bits or positions. A pool that is
  shuffled is a bag that is drawn from. The nodes join the ring in any order.
* `HashRing`. The sorted list is a set of entries with its order; a key's owner
  is the least entry at its position or after it, or the least of all.
* `Observers`. Drawing a stamp and using it are two actions, since the clock's
  lock is released in between; the vector ticks with the counters before the
  stamp is drawn, because no other thread reads a worker's vector before its
  result is appended, except a display. URLs wait in a set. `Logger` is every
  thread that logs but holds no URL.

## 3. Runs

| Run | Cfg | Instance | Shows |
| --- | --- | --- | --- |
| `fleet` | `MCFleet.cfg` | 2 of 3 workers at first, one on each of 2 shards, 3 URLs, 1 token per bucket; 1.8 million states | nothing lost or doubled; counters; breaker; fleet size; what a stop leaves running; implements `WorkPool` |
| `fleet_live` | `MCFleetLive.cfg` | 2 workers on different shards, 2 URLs | everything is scraped |
| `raft_crash` | `MCRaftCrash.cfg` | 3 nodes, 2 terms, 1 crash, 1 append; 5.2 million states | one winner per term; one leader, no deadlock and no missing entry among nodes never crashed; votes kept |
| `raft_live` | `MCRaftLive.cfg` | 3 nodes, 2 terms, no crash | elections end |
| `single` | `MCSingle.cfg` | 8 URLs, 4 domains, 3 categories | order of retries, termination, `WorkPool` |
| `race` | `MCRace.cfg` | 1 tab, 1 coordinator, 1 worker scraping at most 2 URLs; 1.8 million states | two threads ending one race |
| `race_grow` | `MCRaceGrow.cfg` | 1 coordinator, the dict grows by one worker | spawning against stopping; every race ends |
| `gates` | `MCGates.cfg` | 2 workers, thresholds 1 and 2, a bucket of 2 tokens, 5 ticks, the clock set back by 1; 1.5 million states | the rate over every window; debts; backoffs served |
| `boot` | `MCBoot.cfg` | 2 domains of 3 URLs, 1 padded, 2 repeats, 3 ring nodes; 46 thousand states | which URLs repeat, pass, or are dropped; what the fleet starts with; keys that move |
| `observers` | `MCObservers.cfg` | 3 workers on 2 vector slots, 1 more thread, 2 URLs, a log of 4 entries; 2.8 million states | order of stories, of the log and of results; what vectors say |

Bounds. Two workers on one shard and a third on another are enough for a race
for the last URL at one end, a theft at the other end, a URL that migrates to
another shard, a shard whose only worker has been killed, and a bucket that runs
dry with one token in it. `BucketSize`,
`ShallowDepth`, `DeepDepth` (30, 80, 300 in the code) are scaled to the number
of URLs so that both scaling directions happen. Two terms let a second election
overlap the first one's announcements; one crash with its recovery gives a node
that missed a vote. One append of one
tab at any moment of the elections shows what each of them does to equal logs;
what several tabs that append at once do to each other needs neither elections
nor bounds in its argument and is proved for any number of them.
`MaxTerm`, `MaxCrashes`, `MaxAppends` and `MaxScraped` cap
what is otherwise unbounded. Eight URLs give every category a turn with another
one emptied, and a category in which two domains alternate.

In `gates` (`MaxNow`, `MaxBack`) a token takes two ticks, so a request is
refused in the middle of one, and the clock can be set back below the last
refill with the bucket empty. Both breakers open twice and serve a cooldown of
two ticks. In `boot` the template without an id repeats within the second domain
only. The first two URLs of the first domain set the same bits, so one hides the
other, and two URLs together can hide a third. Of the three ring nodes two share
a position. In `observers` (`MaxStamp`) every stamp up to five can be used
in every order and the log lets two go; with two URLs only three of the four
threads can hold a stamp at once, so `FewNewerLost` is met with room to spare.
`MCBoot` also evaluates the generator with the source's own numbers: of the 720
indexes of a domain 645 URLs are distinct. There 25 domains of 720 are the whole
target and nothing is padded; the instance pads one URL, because the code would
for other totals.

Every type invariant and every inductive invariant is proved, so no run repeats
it, with one exception: `TypeOK` of `Race` is also an invariant of `race_grow`.
All proofs are without bounds, so a bound of a run limits only what TLC sees and
the liveness. `MCFleet` also evaluates that a total of `Totals` is the sum it
stands for.

`CHECK_DEADLOCK FALSE` everywhere: a fleet, a race and a scraper end; the
coordinators stop at the bound on terms, and at the deadlock of section 5,
which `NoLockCycleUnhit` and `NoLockCycle` are about.

Fairness. Threads are scheduled by the operating system: weak fairness of each
thread's step. `fleet_live` adds weak fairness of `Refill` (15 tokens per
second) and strong fairness of `ProbeAfterCooldown`: a cooldown is at most 16
seconds and the gate is polled every 50 ms, so a worker that keeps polling is
let through. No fairness makes a request escape its block: `EveryUrlScraped`
follows from the counter that a block resets. Nobody has to press a button, the
autoscaler has to pick nobody, no election has to be started. Under `FairSpec`
of `Race` the timer wakes in the end because the duration is finite.

## 4. Proofs

`tlapm` checks, for every value of the constants allowed by the named
assumptions (`FleetAssumption`, `SingleAssumption`, `RaftAssumption`,
`GatesAssumption`, `HashRingAssumption`, `BootAssumption`,
`ObserversAssumption`, `RaceAssumption`):

* `FleetProofs`: type correctness, `NoUrlTwice`, `NoUrlLost`, the refinement of
  `WorkPool`, `OpenBreakerFetchesNothing`, `CountersMatchResults`,
  `FleetSizeKept` and `AtMostOneOutlivesStop`. `NoUrlTwice` with `TypeOK` is
  inductive because it is split by places: no deque repeats a URL, no two deques
  share one, a URL in hand is nowhere else, a URL with a result is not waiting.
  `Lemmas` supplies what a pop or push at an end does to the set of a deque's
  elements, and what one more unit does to a total. The size of the fleet needs
  `Decided`: what the autoscaler has decided still stands when it acts, because
  it alone makes workers and kills them. The stop needs `Swept`: after the sweep
  the one worker that may run is the one the autoscaler is about to start, or
  has just started, and it looks at the fleet's flag before the next.
* `RaftProofs`: `Inductive` is the invariant. `VotesBind` says that a granted
  vote binds its voter until a later term, across heartbeats that raise a term
  and leave the vote alone; `VotesOnce` and `WinnersElected` follow it to
  majorities, and two majorities meet: `ElectionSafety`. `OfficeHeld` and
  `AskedCaughtUp` are needed for `SoleLeader`, which is stronger than
  one-per-term: a winner has asked all peers before it counts, and each of them
  that was not down has reached its term, so an older leader among them has
  stepped down. `NoLockCycleUnhit` follows, since a lock is held only by a
  leader. `TermsAndVotesKept` is an action property from the same invariant.
  For `ReplicasAgree`, the invariant `TabSafe` speaks of one tab at a time: its
  latest command is in no log that its loop has not come to, so each append is
  above everything of that tab in the log it goes to; and what one log has and
  another, never crashed, has not, is the entry on its way. A peer that drops it
  is down, hence among those ever crashed: the one fact taken from `Inductive`.
  Steps of other tabs touch only their own entries.
* `SingleProofs`: type correctness, `EachOnce`, `RefusedIsNext` (inductive with
  `EachOnce`), `BlockedAtMostOnce` from it, `BlocksPaidFor` and the refinement
  of `WorkPool`. `SwitchesAfterBlock` follows from `Moved`: the category of the
  last fetch or block is the one the next round comes to last, so a round that
  takes from it has found all the others empty. `DoneMeansAll` follows from
  `Accounted`: a round passes every category of `Order` (`RoundSeesAll`), so one
  that finds nothing leaves no URL anywhere but among the scraped.
* `RaceProofs`: type correctness, `StopIsFinal`, `MissesAtMostOneEach` and
  `TotalCoversSummary`. `AllDown` says, of each thread in `_end_race`, that what
  is up behind it was raised after it had lowered `race_running`; it needs
  `Begun`, that nobody ends a race that has not begun. `Copies` says that a
  copy of the results misses at most one result of a worker that was not
  raised late, and none as long as that worker's last iteration may still bring
  one. `Counted` and `Covers` say that a result is counted before it is in the
  list, and that the sum so far covers the part of the copy whose workers the
  loop has visited.
* `GatesProofs`: type correctness, `RateBound`, `RefusedOnlyNearPeak`,
  `CooldownServed`. The first needs an invariant on the tokens left after the
  last grant: what is in the bucket now and what each window has granted never
  exceed a full bucket and the time from the window's first grant to the last
  refill. The second, that the bucket is only short of what the clock was set
  back. The third, that the opening time and cooldown a breaker holds are those
  of the last opening until it is served, and that the cooldown is at least that
  of the number of openings.
* `BootProofs`: on a ring with entries every key has exactly one owner, because
  the order of the entries is total and every set of positions has a least; a
  joining node takes keys and a leaving one gives up only its own. On the constructor: type
  correctness, `FilteredOnce` (the bits of all that passed are set),
  `DroppedByCollision` (what was drawn and did not pass is covered), `DequesFit`
  (each deque holds the dealt part of its category), `RepeatsHaveNoId` (what is
  generated is made of its index, of which a template either keeps the id or
  not; what is padded was not in the pool).
* `ObserversProofs`: type correctness, `StoryInOrder` (what is known of a URL is
  with the one worker that holds it, and its next stamp is above all published),
  `ResultsInOrder`, `ComparableIffSlotShared` (slots are equal exactly if
  `max_nodes` divides the difference of the ids: `SameRemainder`), and
  `FewNewerLost`. The last needs `FewOvertake`: what was inserted after an entry
  and is older was drawn before it by another thread that had not used it, one
  for each thread, counting also the stamps that are drawn and not used yet.

Every invariant and every action property of the passing runs is the statement
of a theorem, and so are both refinements. Only model-checked is the liveness,
`EveryUrlScraped` of the fleet and of the single scraper, `ElectionEnds` and
`RaceEnds`: the prover has neither fairness nor `ENABLED`. So is what `MCBoot`
evaluates about the source's own numbers.

## 5. Where the code and its documents differ

Two differences are runs that TLC must find violated, each a finding in
`PROJECT.json`.

| Run | What happens | Said |
| --- | --- | --- |
| `raft_lock` | two winners announce to each other, each holding its own lock | `README.md:20` |
| `race_loops` | a worker registered during an unlocked iteration ends the gossip or snapshot loop | `simulation.py:649`, `985` |

Others are seen by reading, with the models at hand, and have no run:

* The autoscaler looks at the fleet's flag, and starts its new worker after
  `stop()` has swept the others (`simulation.py:599`): one worker scrapes on,
  against "Stops the current race early" (`README.md:150`).
  `AtMostOneOutlivesStop` says that it is never more than one.
* The sum in `_end_race` iterates over the dict of workers without its lock as
  well (`simulation.py:969`): if the autoscaler registers a worker meanwhile, the
  race is over, but "Race finished!" is never logged. `RaceEnds` counts that as
  an end, since everything is stopped and MapReduce's outcome stored by then.
* A worker killed in mid-iteration overwrites the status "dead"
  (`simulation.py:358`, `478`) and counts as active for ever
  (`simulation.py:736`).
* A coordinator that was down when it was asked for its vote can lead its own
  term beside a later winner after it has recovered (`raft.py:55`), against "the
  system chooses one coordinator" (`README.md:20`). `SoleLeader` says that this
  takes a crash.
* `append_log` advances `commit_index` before it has called any peer and counts
  none of them (`raft.py:165`), while `dashboard.py:380` says "Majority vote
  (2/3) required to commit"; the model therefore has no separate commit. A peer
  that is down never gets the entry (`raft.py:173`).
* `start_race` raises `race_running` first and does not look at it again, so a
  Stop from another tab in between is undone (`simulation.py:893`);
  `StopIsFinal` names exactly what may be up then.
* The generator's own repeats make the Bloom filter catch at least 3875 of the
  20000 URLs, some 19%, where `dashboard.py:132` says "~10%": `Distinct` in
  `MCBoot` counts them.
* "Incomparable vectors = truly concurrent events" (`dashboard.py:540`) holds
  neither way: vectors are never exchanged, so two workers' vectors are
  incomparable whatever happened before what, unless the workers share a slot,
  and then they compare although neither knows of the other
  (`ComparableIffSlotShared`). "Own Events" is 0 for ids beyond `max_nodes`.
* `_spawn_worker` starts the worker before it draws the stamp of "Spawned ..."
  (`simulation.py:600`, `606`), so a worker's first events may be listed before
  it.
* `total_blocks` counts every failure, not those that "have opened the circuit"
  (`circuit_breaker.py:72`), which differ for thresholds above one.
* In the gossip library `exchange` lets the second node's view win, so a node's
  own fresher state can be overwritten by an older one (`gossip.py:52`). The
  program does not use it.

The properties that do hold say how far the damage goes: at most one worker
outlives a stop; nodes never crashed neither deadlock nor lead side by side;
everything that is still up after a stop was raised after `race_running` fell;
a clock that is set back delays requests by no more than it was set back.

## 6. Not modelled

* The engine's gossip table: nothing reads the values it stores; the dashboard
  shows how many ids are known and how many rounds there were.
* The gossip library, `probe`, `LamportClock.update`, `VectorClock.send` and
  `receive`, `BloomFilter.merge`: only tests call them.
* `run_mapreduce` beyond which results it is given: sums and means of a list.
* Page contents and latencies (pseudo-random data), histories kept for display,
  rendering in `dashboard.py` (pure output), its Reset (which imports a module
  that does not exist), package glue, tests and build files.

Nothing that a passing run checks is left without a theorem but the liveness.
Not stated anywhere yet: that the breaker and the bucket of `Gates` implement
what `Fleet` leaves to chance, and that what `Boot` ends in satisfies
`FleetAssumption` as an implication between the modules.
