-------------------------------- MODULE Race --------------------------------
(***************************************************************************)
(* The control plane of one SimulationEngine: start_race on the browser    *)
(* tab that pressed Start; _end_race on the timer thread and on any tab    *)
(* that presses Stop, possibly at the same time; and the threads that they *)
(* start and stop, or that read the fleet's dict of workers while the      *)
(* autoscaler grows it.                                                    *)
(*                                                                         *)
(* What workers do in an iteration is the subject of Fleet, and what       *)
(* coordinators do that of Raft; here a worker either scrapes a URL or     *)
(* finds none, and a coordinator is between the start and the end of its   *)
(* thread.  Abstracted: durations, the gossip table, event log and history *)
(* that the loops write.                                                   *)
(***************************************************************************)
EXTENDS Integers, FiniteSets, Totals

CONSTANTS
  Tab,          \* the browser tabs where Stop may be pressed
  Timer,        \* the race timer's thread
  Gossiper,     \* the thread of _gossip_loop
  Historian,    \* the thread of _snapshot_loop
  Coordinator,
  Worker,       \* node ids the fleet may ever give out
  Initial,      \* those of the workers the constructor spawns
  None,
  MaxScraped    \* bound on the URLs one worker scrapes

Ender == Tab \cup {Timer}
Reader == Ender \cup {Gossiper, Historian}

ASSUME RaceAssumption ==
  /\ IsFiniteSet(Worker) /\ Initial \subseteq Worker
  /\ Timer \notin Tab /\ Gossiper \notin Ender /\ Historian \notin Ender \cup {Gossiper}
  /\ MaxScraped \in Nat

VARIABLES
  raceRunning, raceFinished,
  starter,    \* where start_race is
  pc,         \* reader -> where its thread is
  seen,       \* reader -> the workers its loop over _workers has visited
  size,       \* reader -> the size of the dict when the loop began
  sum,        \* reader -> the sum of their counters
  got,        \* ender -> its local copy of the results, per worker
  reduced,    \* _mapreduce_results: the results it counts, per worker
  singleUp,   \* _running of the single scraper
  fleetUp,    \* _running of the fleet
  coordUp,    \* coordinator -> _running
  coord,      \* coordinator -> its thread: "none", "ready", "running", "ended"
  members,    \* the keys of _workers
  spawning,   \* where the autoscaler's _spawn_worker is, and its worker
  up,         \* worker -> _running
  work,       \* worker -> where its thread is
  counted,    \* worker -> urls_scraped
  results,    \* worker -> entries in the result list with its node_id
  late        \* history: whatever raised its flag with race_running down

raceVars   == <<raceRunning, raceFinished>>
readerVars == <<seen, size, sum>>
endVars    == <<got, reduced>>
coordVars  == <<coordUp, coord>>
fleetVars  == <<members, spawning, up>>
workVars   == <<work, counted, results>>
vars == <<raceVars, starter, pc, readerVars, endVars, singleUp, fleetUp,
          coordVars, fleetVars, workVars, late>>

Resting == [step |-> "rest", node |-> None]

Init ==
  /\ raceRunning = FALSE /\ raceFinished = FALSE
  /\ starter = "open"
  /\ pc = [r \in Reader |-> IF r \in Tab THEN "idle" ELSE "none"]
  /\ seen = [r \in Reader |-> {}]
  /\ size = [r \in Reader |-> 0]
  /\ sum = [r \in Reader |-> 0]
  /\ got = [e \in Ender |-> None]
  /\ reduced = None
  /\ singleUp = FALSE /\ fleetUp = FALSE
  /\ coordUp = [c \in Coordinator |-> FALSE]
  /\ coord = [c \in Coordinator |-> "none"]
  /\ members = Initial
  /\ spawning = Resting
  /\ up = [w \in Worker |-> FALSE]
  /\ work = [w \in Worker |-> "none"]
  /\ counted = [w \in Worker |-> 0]
  /\ results = [w \in Worker |-> 0]
  /\ late = {}

-----------------------------------------------------------------------------
(* start_race.  The engine is a module global, so another tab may press    *)
(* Stop as soon as race_running is set.                                    *)

Late(S) == late' = IF raceRunning THEN late ELSE late \cup S

OpenRace ==
  /\ starter = "open" /\ starter' = "fresh"
  /\ raceRunning' = TRUE
  /\ UNCHANGED <<raceFinished, pc, readerVars, endVars, singleUp, fleetUp,
                 coordVars, fleetVars, workVars, late>>

StartCoordinators ==
  /\ starter = "fresh" /\ starter' = "single"
  /\ raceFinished' = FALSE
  /\ coord' = [c \in Coordinator |-> "ready"]
  /\ UNCHANGED <<raceRunning, pc, readerVars, endVars, singleUp, fleetUp, coordUp,
                 fleetVars, workVars, late>>

StartSingle ==
  /\ starter = "single" /\ starter' = "fleet"
  /\ singleUp' = TRUE
  /\ Late({"single"})
  /\ UNCHANGED <<raceVars, pc, readerVars, endVars, fleetUp, coordVars, fleetVars,
                 workVars>>

RaiseFleet ==
  /\ starter = "fleet" /\ starter' = "workers"
  /\ fleetUp' = TRUE
  /\ Late({"fleet"})
  /\ UNCHANGED <<raceVars, pc, readerVars, endVars, singleUp, coordVars, fleetVars,
                 workVars>>

\* Under the worker lock; then the fleet's own loops.
StartWorkers ==
  /\ starter = "workers" /\ starter' = "loops"
  /\ up' = [w \in Worker |-> w \in members]
  /\ work' = [w \in Worker |-> IF w \in members THEN "top" ELSE "none"]
  /\ Late(members)
  /\ pc' = [pc EXCEPT ![Historian] = "check"]
  /\ UNCHANGED <<raceVars, readerVars, endVars, singleUp, fleetUp, coordVars,
                 members, spawning, counted, results>>

StartLoops ==
  /\ starter = "loops" /\ starter' = "done"
  /\ pc' = [pc EXCEPT ![Gossiper] = "check", ![Timer] = "watch"]
  /\ UNCHANGED <<raceVars, readerVars, endVars, singleUp, fleetUp, coordVars,
                 fleetVars, workVars, late>>

Start ==
  \/ OpenRace   \/ StartCoordinators \/ StartSingle
  \/ RaiseFleet \/ StartWorkers      \/ StartLoops

-----------------------------------------------------------------------------
(* Loops over _workers.  Python raises RuntimeError at the next step of an *)
(* iteration over a dict whose size has changed since it began.            *)

Goto(r, from, to) == pc[r] = from /\ pc' = [pc EXCEPT ![r] = to]

Begin(r) ==
  /\ seen' = [seen EXCEPT ![r] = {}]
  /\ size' = [size EXCEPT ![r] = Cardinality(members)]
  /\ sum' = [sum EXCEPT ![r] = 0]

Resized(r) == Cardinality(members) # size[r]

\* Where a reader goes when its loop over the workers is over.
AfterLoop(r) == IF r \in Ender THEN "reported" ELSE "check"

Visit(r) ==
  \E w \in members \ seen[r] :
    /\ Goto(r, "loop", "loop")
    /\ ~Resized(r)
    /\ seen' = [seen EXCEPT ![r] = @ \cup {w}]
    /\ sum' = [sum EXCEPT ![r] = @ + counted[w]]
    /\ UNCHANGED <<raceVars, starter, size, endVars, singleUp, fleetUp, coordVars,
                   fleetVars, workVars, late>>

FinishLoop(r) ==
  /\ Goto(r, "loop", AfterLoop(r))
  /\ ~Resized(r)
  /\ members = seen[r]
  /\ UNCHANGED <<raceVars, starter, readerVars, endVars, singleUp, fleetUp,
                 coordVars, fleetVars, workVars, late>>

RaiseError(r) ==
  /\ Goto(r, "loop", "raised")
  /\ Resized(r)
  /\ UNCHANGED <<raceVars, starter, readerVars, endVars, singleUp, fleetUp,
                 coordVars, fleetVars, workVars, late>>

\* One round of _gossip_loop or of _snapshot_loop, while its flag is up.
LoopFlag(r) == IF r = Gossiper THEN raceRunning ELSE fleetUp

NextRound(r) ==
  /\ r \in {Gossiper, Historian}
  /\ Goto(r, "check", "loop")
  /\ LoopFlag(r)
  /\ Begin(r)
  /\ UNCHANGED <<raceVars, starter, endVars, singleUp, fleetUp, coordVars,
                 fleetVars, workVars, late>>

LastRound(r) ==
  /\ r \in {Gossiper, Historian}
  /\ Goto(r, "check", "ended")
  /\ ~LoopFlag(r)
  /\ UNCHANGED <<raceVars, starter, readerVars, endVars, singleUp, fleetUp,
                 coordVars, fleetVars, workVars, late>>

-----------------------------------------------------------------------------
(* _end_race.                                                              *)

PressStop(t) ==
  /\ t \in Tab
  /\ Goto(t, "idle", "end")
  /\ raceRunning
  /\ UNCHANGED <<raceVars, starter, readerVars, endVars, singleUp, fleetUp,
                 coordVars, fleetVars, workVars, late>>

\* The timer finds the time elapsed, or the race over: either way it reads
\* race_running again before it ends the race.
TimerWakes ==
  /\ Goto(Timer, "watch", "recheck")
  /\ UNCHANGED <<raceVars, starter, readerVars, endVars, singleUp, fleetUp,
                 coordVars, fleetVars, workVars, late>>

\* Mutant: the second look at race_running is inverted.
MutTimerRechecks ==
  /\ Goto(Timer, "recheck", IF raceRunning THEN "over" ELSE "end")
  /\ UNCHANGED <<raceVars, starter, readerVars, endVars, singleUp, fleetUp,
                 coordVars, fleetVars, workVars, late>>

TimerRechecks ==
  /\ Goto(Timer, "recheck", IF raceRunning THEN "end" ELSE "over")
  /\ UNCHANGED <<raceVars, starter, readerVars, endVars, singleUp, fleetUp,
                 coordVars, fleetVars, workVars, late>>

LowerRaceFlag(e) ==
  /\ Goto(e, "end", "single")
  /\ raceRunning' = FALSE /\ raceFinished' = TRUE
  /\ UNCHANGED <<starter, readerVars, endVars, singleUp, fleetUp, coordVars,
                 fleetVars, workVars, late>>

StopSingle(e) ==
  /\ Goto(e, "single", "fleet")
  /\ singleUp' = FALSE
  /\ UNCHANGED <<raceVars, starter, readerVars, endVars, fleetUp, coordVars,
                 fleetVars, workVars, late>>

\* Mutant: the workers' own flags are forgotten.
MutLowerFleetFlag(e) ==
  /\ Goto(e, "fleet", "coords")
  /\ fleetUp' = FALSE
  /\ UNCHANGED <<raceVars, starter, readerVars, endVars, singleUp, coordVars,
                 fleetVars, workVars, late>>

LowerFleetFlag(e) ==
  /\ Goto(e, "fleet", "sweep")
  /\ fleetUp' = FALSE
  /\ UNCHANGED <<raceVars, starter, readerVars, endVars, singleUp, coordVars,
                 fleetVars, workVars, late>>

\* Mutant: workers that the autoscaler added are not stopped.
MutSweepWorkers(e) ==
  /\ Goto(e, "sweep", "coords")
  /\ up' = [w \in Worker |-> up[w] /\ w \notin Initial]
  /\ UNCHANGED <<raceVars, starter, readerVars, endVars, singleUp, fleetUp,
                 coordVars, members, spawning, workVars, late>>

SweepWorkers(e) ==
  /\ Goto(e, "sweep", "coords")
  /\ up' = [w \in Worker |-> up[w] /\ w \notin members]
  /\ UNCHANGED <<raceVars, starter, readerVars, endVars, singleUp, fleetUp,
                 coordVars, members, spawning, workVars, late>>

\* Mutant: the coordinators are left running.
MutStopCoordinators(e) ==
  /\ Goto(e, "coords", "collect")
  /\ UNCHANGED <<raceVars, starter, readerVars, endVars, singleUp, fleetUp,
                 coordVars, fleetVars, workVars, late>>

StopCoordinators(e) ==
  /\ Goto(e, "coords", "collect")
  /\ coordUp' = [c \in Coordinator |-> FALSE]
  /\ UNCHANGED <<raceVars, starter, readerVars, endVars, singleUp, fleetUp, coord,
                 fleetVars, workVars, late>>

\* get_results copies the list under its lock...
Collect(e) ==
  /\ Goto(e, "collect", "reduce")
  /\ got' = [got EXCEPT ![e] = results]
  /\ UNCHANGED <<raceVars, starter, readerVars, reduced, singleUp, fleetUp,
                 coordVars, fleetVars, workVars, late>>

\* ...what MapReduce makes of it is stored later, without one.
Reduce(e) ==
  /\ Goto(e, "reduce", "loop")
  /\ reduced' = got[e]
  /\ Begin(e)
  /\ UNCHANGED <<raceVars, starter, got, singleUp, fleetUp, coordVars, fleetVars,
                 workVars, late>>

EndStep(e) ==
  \/ LowerRaceFlag(e) \/ StopSingle(e)       \/ LowerFleetFlag(e)
  \/ SweepWorkers(e)  \/ StopCoordinators(e) \/ Collect(e) \/ Reduce(e)

ReaderStep(r) ==
  \/ Visit(r) \/ FinishLoop(r) \/ RaiseError(r) \/ NextRound(r) \/ LastRound(r)

-----------------------------------------------------------------------------
(* The threads that are started and stopped.                               *)

\* RaftNode.run raises its own flag when its thread gets to run.
BeginRun(c) ==
  /\ coord[c] = "ready"
  /\ coord' = [coord EXCEPT ![c] = "running"]
  /\ coordUp' = [coordUp EXCEPT ![c] = TRUE]
  /\ Late({c})
  /\ UNCHANGED <<raceVars, starter, pc, readerVars, endVars, singleUp, fleetUp,
                 fleetVars, workVars>>

EndRun(c) ==
  /\ coord[c] = "running" /\ ~coordUp[c]
  /\ coord' = [coord EXCEPT ![c] = "ended"]
  /\ UNCHANGED <<raceVars, starter, pc, readerVars, endVars, singleUp, fleetUp,
                 coordUp, fleetVars, workVars, late>>

\* The autoscaler, its loop's flag up, decides to grow the fleet:
\* _spawn_worker registers a worker, looks at the flag again and, if it is
\* still up, starts the worker.
PickNew(w) ==
  /\ starter \in {"loops", "done"} /\ fleetUp
  /\ spawning = Resting
  /\ w \notin members
  /\ spawning' = [step |-> "add", node |-> w]
  /\ UNCHANGED <<raceVars, starter, pc, readerVars, endVars, singleUp, fleetUp,
                 coordVars, members, up, workVars, late>>

\* Mutant: the new worker is started but not put into the dict.
MutRegister(w) ==
  /\ spawning = [step |-> "add", node |-> w]
  /\ spawning' = IF fleetUp THEN [step |-> "start", node |-> w] ELSE Resting
  /\ UNCHANGED <<raceVars, starter, pc, readerVars, endVars, singleUp, fleetUp,
                 coordVars, members, up, workVars, late>>

Register(w) ==
  /\ spawning = [step |-> "add", node |-> w]
  /\ members' = members \cup {w}
  /\ spawning' = IF fleetUp THEN [step |-> "start", node |-> w] ELSE Resting
  /\ UNCHANGED <<raceVars, starter, pc, readerVars, endVars, singleUp, fleetUp,
                 coordVars, up, workVars, late>>

StartSpawned(w) ==
  /\ spawning = [step |-> "start", node |-> w]
  /\ spawning' = Resting
  /\ up' = [up EXCEPT ![w] = TRUE]
  /\ work' = [work EXCEPT ![w] = "top"]
  /\ Late({w})
  /\ UNCHANGED <<raceVars, starter, pc, readerVars, endVars, singleUp, fleetUp,
                 coordVars, members, counted, results>>

Work(w, from, to) == work[w] = from /\ work' = [work EXCEPT ![w] = to]

BeginIteration(w) ==
  /\ Work(w, "top", "busy")
  /\ up[w]
  /\ UNCHANGED <<raceVars, starter, pc, readerVars, endVars, singleUp, fleetUp,
                 coordVars, fleetVars, counted, results, late>>

\* No URL, no token or a block.
ScrapeNothing(w) ==
  /\ Work(w, "busy", "top")
  /\ UNCHANGED <<raceVars, starter, pc, readerVars, endVars, singleUp, fleetUp,
                 coordVars, fleetVars, counted, results, late>>

\* Mutant: an update of the counter is lost.
MutCountUrl(w) ==
  /\ Work(w, "busy", "counted")
  /\ counted[w] < MaxScraped
  /\ \E n \in {counted[w], counted[w] + 1} : counted' = [counted EXCEPT ![w] = n]
  /\ UNCHANGED <<raceVars, starter, pc, readerVars, endVars, singleUp, fleetUp,
                 coordVars, fleetVars, results, late>>

CountUrl(w) ==
  /\ Work(w, "busy", "counted")
  /\ counted[w] < MaxScraped
  /\ counted' = [counted EXCEPT ![w] = @ + 1]
  /\ UNCHANGED <<raceVars, starter, pc, readerVars, endVars, singleUp, fleetUp,
                 coordVars, fleetVars, results, late>>

AppendResult(w) ==
  /\ Work(w, "counted", "top")
  /\ results' = [results EXCEPT ![w] = @ + 1]
  /\ UNCHANGED <<raceVars, starter, pc, readerVars, endVars, singleUp, fleetUp,
                 coordVars, fleetVars, counted, late>>

EndWork(w) ==
  /\ Work(w, "top", "ended")
  /\ ~up[w]
  /\ UNCHANGED <<raceVars, starter, pc, readerVars, endVars, singleUp, fleetUp,
                 coordVars, fleetVars, counted, results, late>>

WorkerStep(w) ==
  BeginIteration(w) \/ ScrapeNothing(w) \/ CountUrl(w) \/ AppendResult(w) \/ EndWork(w)

Next ==
  \/ Start
  \/ \E t \in Tab : PressStop(t)
  \/ TimerWakes \/ TimerRechecks
  \/ \E e \in Ender : EndStep(e)
  \/ \E r \in Reader : ReaderStep(r)
  \/ \E c \in Coordinator : BeginRun(c) \/ EndRun(c)
  \/ \E w \in Worker : PickNew(w) \/ Register(w) \/ StartSpawned(w) \/ WorkerStep(w)

Spec == Init /\ [][Next]_vars

\* Threads are scheduled and the race's duration is finite; nobody has to
\* press Stop.
FairSpec ==
  /\ Spec
  /\ WF_vars(Start)
  /\ WF_vars(TimerWakes \/ TimerRechecks)
  /\ \A e \in Ender : WF_vars(EndStep(e) \/ ReaderStep(e))

-----------------------------------------------------------------------------
(* Properties.                                                             *)

Stopped == {"collect", "reduce", "loop", "reported", "raised"}

ReaderSteps == {"none", "idle", "watch", "recheck", "over", "end", "single", "fleet",
                "sweep", "coords", "check", "ended"} \cup Stopped

\* Type invariant; only a registered worker's thread runs.
TypeOK ==
  /\ raceRunning \in BOOLEAN /\ raceFinished \in BOOLEAN
  /\ starter \in {"open", "fresh", "single", "fleet", "workers", "loops", "done"}
  /\ pc \in [Reader -> ReaderSteps]
  /\ seen \in [Reader -> SUBSET members]
  /\ size \in [Reader -> Nat]
  /\ sum \in [Reader -> Nat]
  /\ got \in [Ender -> [Worker -> Nat] \cup {None}]
  /\ reduced \in [Worker -> Nat] \cup {None}
  /\ singleUp \in BOOLEAN /\ fleetUp \in BOOLEAN
  /\ coordUp \in [Coordinator -> BOOLEAN]
  /\ coord \in [Coordinator -> {"none", "ready", "running", "ended"}]
  /\ members \subseteq Worker
  /\ spawning \in [step : {"add", "start"}, node : Worker] \cup {Resting}
  /\ up \in [Worker -> BOOLEAN]
  /\ work \in [Worker -> {"none", "top", "busy", "counted", "ended"}]
  /\ counted \in [Worker -> Nat]
  /\ results \in [Worker -> Nat]
  /\ late \subseteq Worker \cup Coordinator \cup {"single", "fleet"}
  /\ \A w \in Worker \ members : work[w] = "none"

\* Once _end_race has been through its stops, on whichever thread and
\* however it raced with the other one, with start_race and with the
\* autoscaler, nothing is still up but what was raised after race_running
\* was lowered.
StopIsFinal ==
  (\E e \in Ender : pc[e] \in Stopped) =>
    /\ singleUp => "single" \in late
    /\ fleetUp => "fleet" \in late
    /\ \A w \in Worker : up[w] => w \in late
    /\ \A c \in Coordinator : coordUp[c] => c \in late

\* MapReduce runs while the workers it does not wait for finish their last
\* iteration: of each worker it misses at most one result, also when the
\* timer and a tab both run it and the older copy is stored last.
MissesAtMostOneEach ==
  reduced # None => \A w \in Worker \ late : results[w] <= reduced[w] + 1

\* The total that "Race finished!" reports is at least the number of items
\* MapReduce was given: a result is counted before it is appended, and the
\* results are copied before the counters are summed.
TotalCoversSummary ==
  \A e \in Ender : pc[e] = "reported" => sum[e] >= Tally(got[e], Worker)

\* Every race that is started ends with everything stopped and a MapReduce
\* outcome stored, by the timer if nobody stops it.  The last loop may still
\* raise, and then "Race finished!" is not logged.
RaceEnds == (starter = "done") ~> (\E e \in Ender : pc[e] \in {"reported", "raised"})

\* "Gossip round every 2 seconds", "Record cumulative throughput [...] every
\* second": the two loops live as long as the race.
LoopsSurvive == \A r \in {Gossiper, Historian} : pc[r] # "raised"
=============================================================================
