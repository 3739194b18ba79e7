----------------------------- MODULE RaceProofs -----------------------------
(***************************************************************************)
(* Proofs about the control plane, for every number of tabs, coordinators  *)
(* and workers: what _end_race has stopped stays stopped, MapReduce misses *)
(* at most one result of each worker, and the reported total covers what   *)
(* it was given.                                                           *)
(***************************************************************************)
EXTENDS Race, Lemmas

USE DEF raceVars, readerVars, endVars, coordVars, fleetVars, workVars

-----------------------------------------------------------------------------
(* Type correctness.                                                       *)

\* The autoscaler starts what it has registered, and only that runs.
Spawned ==
  /\ spawning.step = "start" => spawning.node \in members
  /\ \A w \in Worker : up[w] => w \in members

Sound == TypeOK /\ Spawned

LEMMA Threads ==
  /\ Ender \subseteq Reader /\ Tab \subseteq Ender /\ Timer \in Ender
  /\ Gossiper \in Reader /\ Gossiper \notin Ender
  /\ Historian \in Reader /\ Historian \notin Ender
BY RaceAssumption DEF Ender, Reader

LEMMA FiniteFleet == TypeOK => IsFiniteSet(members) /\ Cardinality(members) \in Nat
BY RaceAssumption, FS_Subset, FS_CardinalityType DEF TypeOK

\* A thread goes on to its next step, and no other moves.
LEMMA Goes ==
  ASSUME TypeOK, NEW r \in Reader, NEW from, NEW to \in ReaderSteps, Goto(r, from, to)
  PROVE  /\ pc' \in [Reader -> ReaderSteps] /\ pc[r] = from
         /\ \A q \in Reader : pc'[q] = IF q = r THEN to ELSE pc[q]
BY DEF TypeOK, Goto

\* What the rest of the state is but pc and the readers' variables.
Rest == <<raceVars, starter, endVars, singleUp, fleetUp, coordVars, fleetVars, workVars, late>>

LEMMA ReadSound ==
  ASSUME Sound, UNCHANGED Rest, pc' \in [Reader -> ReaderSteps],
         seen' \in [Reader -> SUBSET members], size' \in [Reader -> Nat],
         sum' \in [Reader -> Nat]
  PROVE  Sound'
BY DEF Rest, Sound, TypeOK, Spawned

LEMMA StartSound ==
  ASSUME Sound, Start
  PROVE  Sound'
<1>1. CASE OpenRace
  BY <1>1 DEF OpenRace, Sound, TypeOK, Spawned
<1>2. CASE StartCoordinators
  BY <1>2 DEF StartCoordinators, Sound, TypeOK, Spawned
<1>3. CASE StartSingle
  BY <1>3 DEF StartSingle, Late, Sound, TypeOK, Spawned
<1>4. CASE RaiseFleet
  BY <1>4 DEF RaiseFleet, Late, Sound, TypeOK, Spawned
<1>5. CASE StartWorkers
  <2>1. pc' \in [Reader -> ReaderSteps]
    BY <1>5, Threads DEF StartWorkers, ReaderSteps, Sound, TypeOK
  <2>2. late' \subseteq Worker \cup Coordinator \cup {"single", "fleet"}
    BY <1>5 DEF StartWorkers, Late, Sound, TypeOK
  <2>3. /\ up' = [w \in Worker |-> w \in members]
        /\ work' = [w \in Worker |-> IF w \in members THEN "top" ELSE "none"]
        /\ starter' = "loops" /\ members' = members /\ members \subseteq Worker
    BY <1>5 DEF StartWorkers, Sound, TypeOK
  <2>4. up' \in [Worker -> BOOLEAN] /\ \A w \in Worker : up'[w] => w \in members
    <3>1. \A w \in Worker : (w \in members) = TRUE \/ (w \in members) = FALSE
      OBVIOUS
    <3>2. up' \in [Worker -> BOOLEAN]
      BY <2>3, <3>1
    <3>3. \A w \in Worker : up'[w] = (w \in members)
      BY <2>3, Zenon
    <3>4. QED
      BY <3>2, <3>3, Zenon
  <2>5. /\ work' \in [Worker -> {"none", "top", "busy", "counted", "ended"}]
        /\ \A w \in Worker \ members : work'[w] = "none"
    BY <2>3
  <2>6. UNCHANGED <<raceVars, readerVars, endVars, singleUp, fleetUp, coordVars,
                    members, spawning, counted, results>>
    BY <1>5 DEF StartWorkers
  <2>7. QED
    BY <2>1, <2>2, <2>3, <2>4, <2>5, <2>6 DEF Sound, TypeOK, Spawned
<1>6. CASE StartLoops
  <2>1. pc' \in [Reader -> ReaderSteps]
    BY <1>6, Threads DEF StartLoops, ReaderSteps, Sound, TypeOK
  <2>2. QED
    BY <1>6, <2>1 DEF StartLoops, Sound, TypeOK, Spawned
<1>7. QED
  BY <1>1, <1>2, <1>3, <1>4, <1>5, <1>6 DEF Start

\* The steps that move a reader only.
LEMMA WalkSound ==
  ASSUME Sound,
         \/ \E t \in Tab : PressStop(t)
         \/ TimerWakes \/ TimerRechecks
         \/ \E r \in Reader : ReaderStep(r)
  PROVE  Sound'
<1>0. /\ seen \in [Reader -> SUBSET members] /\ size \in [Reader -> Nat]
      /\ sum \in [Reader -> Nat] /\ counted \in [Worker -> Nat] /\ members \subseteq Worker
      /\ TypeOK
  BY DEF Sound, TypeOK
<1>1. ASSUME NEW t \in Tab, PressStop(t) PROVE Sound'
  <2>1. pc' \in [Reader -> ReaderSteps]
    BY <1>0, <1>1, Goes, Threads DEF PressStop, ReaderSteps
  <2>2. QED
    BY <1>0, <1>1, <2>1, ReadSound DEF PressStop, Rest
<1>2. CASE TimerWakes \/ TimerRechecks
  <2>1. pc' \in [Reader -> ReaderSteps]
    BY <1>0, <1>2, Goes, Threads DEF TimerWakes, TimerRechecks, ReaderSteps
  <2>2. QED
    BY <1>0, <1>2, <2>1, ReadSound DEF TimerWakes, TimerRechecks, Rest
<1>3. ASSUME NEW r \in Reader, Visit(r) PROVE Sound'
  <2>1. pc' \in [Reader -> ReaderSteps]
    BY <1>0, <1>3, Goes DEF Visit, ReaderSteps, Stopped
  <2>2. PICK w \in members :
          /\ seen' = [seen EXCEPT ![r] = @ \cup {w}]
          /\ sum' = [sum EXCEPT ![r] = @ + counted[w]]
    BY <1>3 DEF Visit
  <2>3. seen' \in [Reader -> SUBSET members] /\ sum' \in [Reader -> Nat]
    BY <1>0, <2>2
  <2>4. UNCHANGED Rest /\ size' = size
    BY <1>3 DEF Visit, Rest
  <2>5. QED
    BY <1>0, <2>1, <2>3, <2>4, ReadSound
<1>4. ASSUME NEW r \in Reader, FinishLoop(r) \/ RaiseError(r) \/ LastRound(r) PROVE Sound'
  <2>1. pc' \in [Reader -> ReaderSteps]
    BY <1>0, <1>4, Goes DEF FinishLoop, AfterLoop, RaiseError, LastRound, ReaderSteps, Stopped
  <2>2. QED
    BY <1>0, <1>4, <2>1, ReadSound DEF FinishLoop, RaiseError, LastRound, Rest
<1>5. ASSUME NEW r \in Reader, NextRound(r) PROVE Sound'
  <2>1. pc' \in [Reader -> ReaderSteps]
    BY <1>0, <1>5, Goes DEF NextRound, ReaderSteps, Stopped
  <2>2. /\ seen' \in [Reader -> SUBSET members] /\ size' \in [Reader -> Nat]
        /\ sum' \in [Reader -> Nat]
    BY <1>0, <1>5, FiniteFleet DEF NextRound, Begin
  <2>3. QED
    BY <1>5, <2>1, <2>2, ReadSound DEF NextRound, Rest
<1>6. QED
  BY <1>1, <1>2, <1>3, <1>4, <1>5 DEF ReaderStep

LEMMA EndSound ==
  ASSUME Sound, NEW e \in Ender, EndStep(e)
  PROVE  Sound'
<1>0. TypeOK /\ e \in Reader
  BY Threads DEF Sound
<1>1. pc' \in [Reader -> ReaderSteps]
  BY <1>0, Goes DEF EndStep, LowerRaceFlag, StopSingle, LowerFleetFlag, SweepWorkers,
     StopCoordinators, Collect, Reduce, ReaderSteps, Stopped
<1>2. CASE LowerRaceFlag(e)
  BY <1>1, <1>2 DEF LowerRaceFlag, Sound, TypeOK, Spawned
<1>3. CASE StopSingle(e)
  BY <1>1, <1>3 DEF StopSingle, Sound, TypeOK, Spawned
<1>4. CASE LowerFleetFlag(e)
  BY <1>1, <1>4 DEF LowerFleetFlag, Sound, TypeOK, Spawned
<1>5. CASE SweepWorkers(e)
  <2>1. up' \in [Worker -> BOOLEAN] /\ \A w \in Worker : up'[w] => w \in members
    BY <1>5, Zenon DEF SweepWorkers, Sound, TypeOK, Spawned
  <2>2. UNCHANGED <<raceVars, starter, readerVars, endVars, singleUp, fleetUp,
                    coordVars, members, spawning, workVars, late>>
    BY <1>5 DEF SweepWorkers
  <2>3. QED
    BY <1>1, <2>1, <2>2 DEF Sound, TypeOK, Spawned
<1>6. CASE StopCoordinators(e)
  BY <1>1, <1>6 DEF StopCoordinators, Sound, TypeOK, Spawned
<1>7. CASE Collect(e)
  BY <1>1, <1>7 DEF Collect, Sound, TypeOK, Spawned
<1>8. CASE Reduce(e)
  <2>1. /\ seen' \in [Reader -> SUBSET members] /\ size' \in [Reader -> Nat]
        /\ sum' \in [Reader -> Nat]
    BY <1>0, <1>8, FiniteFleet DEF Reduce, Begin, TypeOK
  <2>2. reduced' \in [Worker -> Nat] \cup {None}
    BY <1>8 DEF Reduce, Sound, TypeOK
  <2>3. QED
    BY <1>1, <1>8, <2>1, <2>2 DEF Reduce, Sound, TypeOK, Spawned
<1>9. QED
  BY <1>2, <1>3, <1>4, <1>5, <1>6, <1>7, <1>8 DEF EndStep

LEMMA WorkSound ==
  ASSUME Sound, NEW w \in Worker, WorkerStep(w)
  PROVE  Sound'
<1>0. /\ work \in [Worker -> {"none", "top", "busy", "counted", "ended"}]
      /\ counted \in [Worker -> Nat] /\ results \in [Worker -> Nat]
      /\ \A v \in Worker \ members : work[v] = "none"
  BY DEF Sound, TypeOK
<1>1. /\ work' \in [Worker -> {"none", "top", "busy", "counted", "ended"}]
      /\ \A v \in Worker \ members : work'[v] = "none"
  BY <1>0 DEF WorkerStep, BeginIteration, ScrapeNothing, CountUrl, AppendResult, EndWork, Work
<1>2. counted' \in [Worker -> Nat] /\ results' \in [Worker -> Nat]
  BY <1>0 DEF WorkerStep, BeginIteration, ScrapeNothing, CountUrl, AppendResult, EndWork
<1>3. UNCHANGED <<raceVars, starter, pc, readerVars, endVars, singleUp, fleetUp,
                  coordVars, fleetVars, late>>
  BY DEF WorkerStep, BeginIteration, ScrapeNothing, CountUrl, AppendResult, EndWork
<1>4. QED
  BY <1>1, <1>2, <1>3 DEF Sound, TypeOK, Spawned

LEMMA GrowSound ==
  ASSUME Sound, NEW w \in Worker, PickNew(w) \/ Register(w) \/ StartSpawned(w)
  PROVE  Sound'
<1>1. CASE PickNew(w)
  BY <1>1 DEF PickNew, Sound, TypeOK, Spawned
<1>2. CASE Register(w)
  <2>1. /\ members' = members \cup {w} /\ members \subseteq Worker
        /\ seen' = seen /\ seen \in [Reader -> SUBSET members]
    BY <1>2 DEF Register, Sound, TypeOK
  <2>2. members' \subseteq Worker /\ seen' \in [Reader -> SUBSET members']
    BY <2>1
  <2>3. /\ spawning' \in [step : {"add", "start"}, node : Worker] \cup {Resting}
        /\ spawning'.step = "start" => spawning'.node \in members'
    BY <1>2, <2>1 DEF Register, Resting
  <2>4. UNCHANGED <<raceVars, starter, pc, readerVars, endVars, singleUp, fleetUp,
                    coordVars, up, workVars, late>>
    BY <1>2 DEF Register
  <2>5. QED
    BY <2>1, <2>2, <2>3, <2>4 DEF Sound, TypeOK, Spawned
<1>3. CASE StartSpawned(w)
  <2>1. w \in members
    BY <1>3 DEF StartSpawned, Sound, Spawned
  <2>2. /\ up' = [up EXCEPT ![w] = TRUE] /\ up \in [Worker -> BOOLEAN]
        /\ \A v \in Worker : up[v] => v \in members
    BY <1>3 DEF StartSpawned, Sound, TypeOK, Spawned
  <2>3. up' \in [Worker -> BOOLEAN] /\ \A v \in Worker : up'[v] => v \in members
    BY <2>1, <2>2
  <2>4. /\ work' \in [Worker -> {"none", "top", "busy", "counted", "ended"}]
        /\ \A v \in Worker \ members : work'[v] = "none"
    BY <1>3, <2>1 DEF StartSpawned, Sound, TypeOK
  <2>5. late' \subseteq Worker \cup Coordinator \cup {"single", "fleet"}
    BY <1>3 DEF StartSpawned, Late, Sound, TypeOK
  <2>6. UNCHANGED <<raceVars, starter, pc, readerVars, endVars, singleUp, fleetUp,
                    coordVars, members, counted, results>> /\ spawning' = Resting
    BY <1>3 DEF StartSpawned
  <2>7. QED
    BY <2>3, <2>4, <2>5, <2>6 DEF Sound, TypeOK, Spawned, Resting
<1>4. QED
  BY <1>1, <1>2, <1>3

LEMMA RunSound ==
  ASSUME Sound, NEW c \in Coordinator, BeginRun(c) \/ EndRun(c)
  PROVE  Sound'
<1>1. CASE BeginRun(c)
  BY <1>1 DEF BeginRun, Late, Sound, TypeOK, Spawned
<1>2. CASE EndRun(c)
  BY <1>2 DEF EndRun, Sound, TypeOK, Spawned
<1>3. QED
  BY <1>1, <1>2

LEMMA InitSound == Init => Sound
<1> SUFFICES ASSUME Init PROVE Sound
  OBVIOUS
<1>1. pc \in [Reader -> ReaderSteps]
  BY DEF Init, ReaderSteps
<1>2. QED
  BY <1>1, RaceAssumption DEF Init, Sound, TypeOK, Spawned, Resting

LEMMA StepSound == Sound /\ [Next]_vars => Sound'
<1> SUFFICES ASSUME Sound, [Next]_vars PROVE Sound'
  OBVIOUS
<1>1. CASE UNCHANGED vars
  BY <1>1 DEF vars, Sound, TypeOK, Spawned
<1>2. QED
  BY <1>1, StartSound, WalkSound, EndSound, WorkSound, GrowSound, RunSound DEF Next

\* Every reachable state is well typed, and only a registered worker runs.
THEOREM TypeCorrect == Spec => []TypeOK
<1>1. Sound => TypeOK
  BY DEF Sound
<1>2. QED
  BY <1>1, InitSound, StepSound, PTL DEF Spec

-----------------------------------------------------------------------------
(* What is stopped stays stopped.                                          *)

\* Where _end_race is once it has been through each of its stops.
AfterSweep  == {"coords"} \cup Stopped
AfterFleet  == {"sweep"} \cup AfterSweep
AfterSingle == {"fleet"} \cup AfterFleet
AfterFlag   == {"single"} \cup AfterSingle

\* Nobody ends a race that has not begun.
Begun ==
  /\ starter = "open" => ~raceRunning /\ \A e \in Ender : pc[e] \in {"idle", "none"}
  /\ starter # "done" => pc[Timer] = "none"

\* What is up behind an ender was raised when it had lowered race_running.
Down(e) ==
  /\ pc[e] \in AfterFlag => ~raceRunning
  /\ pc[e] \in AfterSingle /\ singleUp => "single" \in late
  /\ pc[e] \in AfterFleet /\ fleetUp => "fleet" \in late
  /\ pc[e] \in AfterSweep => \A w \in Worker : up[w] => w \in late
  /\ pc[e] \in Stopped => \A c \in Coordinator : coordUp[c] => c \in late

AllDown == \A e \in Ender : Down(e)

LEMMA Stages ==
  /\ Stopped \subseteq AfterSweep /\ AfterSweep \subseteq AfterFleet
  /\ AfterFleet \subseteq AfterSingle /\ AfterSingle \subseteq AfterFlag
  /\ \A s \in AfterFlag : s \notin {"idle", "none", "watch", "recheck", "end", "over"}
BY DEF AfterSweep, AfterFleet, AfterSingle, AfterFlag, Stopped

\* An ender where it was, or not gone through another stop, with nothing raised.
LEMMA StaysDown ==
  ASSUME NEW e, Down(e),
         UNCHANGED <<raceRunning, singleUp, fleetUp, up, coordUp, late>>,
         \A S \in {AfterFlag, AfterSingle, AfterFleet, AfterSweep, Stopped} :
           pc'[e] \in S => pc[e] \in S
  PROVE  Down(e)'
BY DEF Down

LEMMA StepBegun == Sound /\ Begun /\ [Next]_vars => Begun'
<1> SUFFICES ASSUME Sound, Begun, [Next]_vars PROVE Begun'
  OBVIOUS
<1>0. TypeOK /\ pc \in [Reader -> ReaderSteps]
  BY DEF Sound, TypeOK
<1>1. CASE Start
  <2>1. CASE StartWorkers
    BY <1>0, <2>1, Threads DEF StartWorkers, Begun
  <2>2. CASE StartLoops
    BY <1>0, <2>2 DEF StartLoops, Begun
  <2>3. QED
    BY <1>1, <2>1, <2>2 DEF Start, OpenRace, StartCoordinators, StartSingle, RaiseFleet, Begun
<1>2. ASSUME NEW r \in Reader, NEW s, pc' = [pc EXCEPT ![r] = s], starter' = starter,
             raceRunning' = raceRunning \/ ~raceRunning',
             r \in Ender => pc[r] \notin {"idle", "none"} \/ (raceRunning /\ pc[r] = "idle")
      PROVE  Begun'
  BY <1>0, <1>2, Threads DEF Begun
<1>3. ASSUME NEW t \in Tab, PressStop(t) PROVE Begun'
  BY <1>2, <1>3, Threads DEF PressStop, Goto
<1>4. CASE TimerWakes \/ TimerRechecks
  BY <1>2, <1>4, Threads DEF TimerWakes, TimerRechecks, Goto
<1>5. ASSUME NEW r \in Reader, ReaderStep(r) PROVE Begun'
  BY <1>2, <1>5 DEF ReaderStep, Visit, FinishLoop, RaiseError, NextRound, LastRound, Goto
<1>6. ASSUME NEW e \in Ender, EndStep(e) PROVE Begun'
  BY <1>2, <1>6, Threads DEF EndStep, LowerRaceFlag, StopSingle, LowerFleetFlag,
     SweepWorkers, StopCoordinators, Collect, Reduce, Goto
<1>7. CASE UNCHANGED <<starter, raceRunning, pc>>
  BY <1>7 DEF Begun
<1>8. QED
  BY <1>1, <1>3, <1>4, <1>5, <1>6, <1>7 DEF Next, vars, BeginRun, EndRun, PickNew, Register,
     StartSpawned, WorkerStep, BeginIteration, ScrapeNothing, CountUrl, AppendResult, EndWork

LEMMA StepDown == Sound /\ Begun /\ AllDown /\ [Next]_vars => AllDown'
<1> SUFFICES ASSUME Sound, Begun, AllDown, [Next]_vars, NEW e \in Ender PROVE Down(e)'
  BY DEF AllDown
<1>0. /\ TypeOK /\ pc \in [Reader -> ReaderSteps] /\ Down(e) /\ e \in Reader
      /\ up \in [Worker -> BOOLEAN] /\ coordUp \in [Coordinator -> BOOLEAN]
  BY Threads DEF Sound, TypeOK, AllDown
<1>1. CASE Start
  <2>1. CASE OpenRace
    <3>1. pc[e] \in {"idle", "none"} /\ pc' = pc
      BY <2>1 DEF OpenRace, Begun
    <3>2. QED
      BY <3>1, Stages DEF Down
  <2>2. CASE StartCoordinators
    BY <1>0, <2>2, StaysDown DEF StartCoordinators
  <2>3. CASE StartSingle \/ RaiseFleet
    BY <1>0, <2>3, Stages DEF StartSingle, RaiseFleet, Late, Down
  <2>4. CASE StartWorkers
    <3>1. pc'[e] = pc[e]
      BY <1>0, <2>4, Threads DEF StartWorkers
    <3>2. \A w \in Worker : up'[w] => w \in members
      BY <2>4, Zenon DEF StartWorkers
    <3>3. /\ UNCHANGED <<raceRunning, singleUp, fleetUp, coordUp>>
          /\ late' = IF raceRunning THEN late ELSE late \cup members
      BY <2>4 DEF StartWorkers, Late
    <3>4. QED
      BY <1>0, <3>1, <3>2, <3>3, Stages DEF Down
  <2>5. CASE StartLoops
    <3>1. pc'[e] = pc[e] \/ pc'[e] = "watch"
      BY <1>0, <2>5, Threads DEF StartLoops
    <3>2. \A S \in {AfterFlag, AfterSingle, AfterFleet, AfterSweep, Stopped} :
            pc'[e] \in S => pc[e] \in S
      BY <3>1, Stages
    <3>3. QED
      BY <1>0, <2>5, <3>2, StaysDown DEF StartLoops
  <2>6. QED
    BY <1>1, <2>1, <2>2, <2>3, <2>4, <2>5 DEF Start
<1>2. ASSUME NEW r \in Reader, NEW to \in ReaderSteps, Goto(r, pc[r], to),
             UNCHANGED <<raceRunning, singleUp, fleetUp, up, coordUp, late>>,
             \/ r \notin Ender
             \/ to \in {"watch", "recheck", "over", "end"}
             \/ pc[r] \in Stopped
      PROVE  Down(e)'
  <2>1. pc'[e] = IF e = r THEN to ELSE pc[e]
    BY <1>0, <1>2, Goes
  <2>2. \A S \in {AfterFlag, AfterSingle, AfterFleet, AfterSweep, Stopped} :
          pc'[e] \in S => pc[e] \in S
    BY <1>2, <2>1, Stages
  <2>3. QED
    BY <1>0, <1>2, <2>2, StaysDown
<1>3. ASSUME NEW t \in Tab, PressStop(t) PROVE Down(e)'
  BY <1>2, <1>3, Threads DEF PressStop, Goto, ReaderSteps
<1>4. CASE TimerWakes \/ TimerRechecks
  BY <1>2, <1>4, Threads DEF TimerWakes, TimerRechecks, Goto, ReaderSteps
<1>5. ASSUME NEW r \in Reader, ReaderStep(r) PROVE Down(e)'
  <2>1. r \in Ender => pc[r] \in Stopped
    BY <1>5, Threads DEF ReaderStep, Visit, FinishLoop, RaiseError, NextRound, LastRound,
       Goto, Stopped
  <2>2. PICK to \in ReaderSteps : Goto(r, pc[r], to)
    BY <1>5 DEF ReaderStep, Visit, FinishLoop, RaiseError, NextRound, LastRound, AfterLoop,
       Goto, Stopped, ReaderSteps
  <2>3. UNCHANGED <<raceRunning, singleUp, fleetUp, up, coordUp, late>>
    BY <1>5 DEF ReaderStep, Visit, FinishLoop, RaiseError, NextRound, LastRound
  <2>4. QED
    BY <1>2, <2>1, <2>2, <2>3
<1>6. ASSUME NEW f \in Ender, EndStep(f) PROVE Down(e)'
  <2>0. f \in Reader
    BY Threads
  <2>1. CASE LowerRaceFlag(f)
    <3>1. pc'[e] = pc[e] \/ pc'[e] = "single"
      BY <1>0, <2>0, <2>1, Goes DEF LowerRaceFlag, ReaderSteps
    <3>2. "single" \notin AfterSingle
      BY DEF AfterSingle, AfterFleet, AfterSweep, Stopped
    <3>3. QED
      BY <1>0, <2>1, <3>1, <3>2, Stages DEF LowerRaceFlag, Down
  <2>2. CASE StopSingle(f)
    <3>1. pc'[e] = pc[e] \/ (pc'[e] = "fleet" /\ pc[e] \in AfterFlag)
      BY <1>0, <2>0, <2>2, Goes DEF StopSingle, ReaderSteps, AfterFlag
    <3>2. "fleet" \notin AfterFleet
      BY DEF AfterFleet, AfterSweep, Stopped
    <3>3. QED
      BY <1>0, <2>2, <3>1, <3>2, Stages DEF StopSingle, Down
  <2>3. CASE LowerFleetFlag(f)
    <3>1. pc'[e] = pc[e] \/ (pc'[e] = "sweep" /\ pc[e] \in AfterSingle)
      BY <1>0, <2>0, <2>3, Goes DEF LowerFleetFlag, ReaderSteps, AfterSingle
    <3>2. "sweep" \notin AfterSweep
      BY DEF AfterSweep, Stopped
    <3>3. QED
      BY <1>0, <2>3, <3>1, <3>2, Stages DEF LowerFleetFlag, Down
  <2>4. CASE SweepWorkers(f)
    <3>1. pc'[e] = pc[e] \/ (pc'[e] = "coords" /\ pc[e] \in AfterFleet)
      BY <1>0, <2>0, <2>4, Goes DEF SweepWorkers, ReaderSteps, AfterFleet
    <3>2. "coords" \notin Stopped
      BY DEF Stopped
    <3>3. \A w \in Worker : ~up'[w]
      BY <2>4, Zenon DEF SweepWorkers, Sound, Spawned
    <3>4. UNCHANGED <<raceRunning, singleUp, fleetUp, coordUp, late>>
      BY <2>4 DEF SweepWorkers
    <3>5. QED
      BY <1>0, <3>1, <3>2, <3>3, <3>4, Stages DEF Down
  <2>5. CASE StopCoordinators(f)
    <3>1. pc'[e] = pc[e] \/ pc[e] \in AfterSweep
      BY <1>0, <2>0, <2>5, Goes DEF StopCoordinators, ReaderSteps, Stopped, AfterSweep
    <3>2. \A c \in Coordinator : ~coordUp'[c]
      BY <2>5, Zenon DEF StopCoordinators
    <3>3. QED
      BY <1>0, <2>5, <3>1, <3>2, Stages DEF StopCoordinators, Down
  <2>6. CASE Collect(f) \/ Reduce(f)
    BY <1>2, <2>0, <2>6 DEF Collect, Reduce, Goto, Stopped, ReaderSteps
  <2>7. QED
    BY <1>6, <2>1, <2>2, <2>3, <2>4, <2>5, <2>6 DEF EndStep
<1>7. ASSUME NEW c \in Coordinator, BeginRun(c) \/ EndRun(c) PROVE Down(e)'
  <2>1. CASE BeginRun(c)
    <3>1. /\ coordUp' = [coordUp EXCEPT ![c] = TRUE] /\ late' = IF raceRunning THEN late ELSE late \cup {c}
          /\ UNCHANGED <<raceRunning, pc, singleUp, fleetUp, up>>
      BY <2>1 DEF BeginRun, Late
    <3>2. \A d \in Coordinator : coordUp'[d] => coordUp[d] \/ d = c
      BY <1>0, <3>1
    <3>3. QED
      BY <1>0, <3>1, <3>2, Stages DEF Down
  <2>2. CASE EndRun(c)
    BY <1>0, <2>2, StaysDown DEF EndRun
  <2>3. QED
    BY <1>7, <2>1, <2>2
<1>8. ASSUME NEW w \in Worker, PickNew(w) \/ Register(w) \/ StartSpawned(w) PROVE Down(e)'
  <2>1. CASE StartSpawned(w)
    <3>1. /\ up' = [up EXCEPT ![w] = TRUE] /\ late' = IF raceRunning THEN late ELSE late \cup {w}
          /\ UNCHANGED <<raceRunning, pc, singleUp, fleetUp, coordUp>>
      BY <2>1 DEF StartSpawned, Late
    <3>2. \A v \in Worker : up'[v] => up[v] \/ v = w
      BY <1>0, <3>1
    <3>3. QED
      BY <1>0, <3>1, <3>2, Stages DEF Down
  <2>2. CASE PickNew(w) \/ Register(w)
    BY <1>0, <2>2, StaysDown DEF PickNew, Register
  <2>3. QED
    BY <1>8, <2>1, <2>2
<1>9. ASSUME NEW w \in Worker, WorkerStep(w) PROVE Down(e)'
  BY <1>0, <1>9, StaysDown DEF WorkerStep, BeginIteration, ScrapeNothing, CountUrl,
     AppendResult, EndWork
<1>10. CASE UNCHANGED vars
  BY <1>0, <1>10, StaysDown DEF vars
<1>11. QED
  BY <1>1, <1>3, <1>4, <1>5, <1>6, <1>7, <1>8, <1>9, <1>10 DEF Next

LEMMA InitDown == Init => Begun /\ AllDown
<1> SUFFICES ASSUME Init PROVE Begun /\ AllDown
  OBVIOUS
<1>1. \A e \in Ender : pc[e] \in {"idle", "none"}
  BY Threads DEF Init
<1>2. pc[Timer] = "none"
  BY Threads, RaceAssumption DEF Init
<1>3. QED
  BY <1>1, <1>2, Stages DEF Init, Begun, AllDown, Down

\* When _end_race has been through its stops nothing is still up but what was
\* raised after race_running was lowered, for every number of threads that
\* end the race, of coordinators and of workers.
THEOREM StopHolds == Spec => []StopIsFinal
<1>1. AllDown => StopIsFinal
  <2> SUFFICES ASSUME NEW e \in Ender, Down(e), pc[e] \in Stopped
               PROVE  /\ singleUp => "single" \in late
                      /\ fleetUp => "fleet" \in late
                      /\ \A w \in Worker : up[w] => w \in late
                      /\ \A c \in Coordinator : coordUp[c] => c \in late
    BY DEF AllDown, StopIsFinal
  <2>1. QED
    BY Stages DEF Down
<1>2. QED
  BY <1>1, InitSound, InitDown, StepSound, StepBegun, StepDown, PTL DEF Spec

-----------------------------------------------------------------------------
(* What MapReduce misses.                                                  *)

\* An ender that has its copy of the results.
Has(e) == pc[e] \in Stopped \ {"collect"}

\* The moves of an ender from there, and to there.
LEMMA EnderMoves ==
  ASSUME TypeOK, Begun, [Next]_vars, NEW e \in Ender
  PROVE  /\ Has(e) => Has(e)'
         /\ Has(e)' => Has(e) \/ Collect(e)
         /\ got'[e] = got[e] \/ Collect(e)
         /\ reduced' = reduced \/ \E f \in Ender : Reduce(f)
         /\ pc'[e] = "loop" => \/ Reduce(e) \/ Visit(e)
                               \/ pc[e] = "loop" /\ seen'[e] = seen[e] /\ sum'[e] = sum[e]
         /\ pc'[e] = "reported" => \/ FinishLoop(e)
                                   \/ pc[e] = "reported" /\ sum'[e] = sum[e]
<1> DEFINE Goal == /\ Has(e) => Has(e)'
                   /\ Has(e)' => Has(e) \/ Collect(e)
                   /\ got'[e] = got[e] \/ Collect(e)
                   /\ reduced' = reduced \/ \E f \in Ender : Reduce(f)
                   /\ pc'[e] = "loop" =>
                        \/ Reduce(e) \/ Visit(e)
                        \/ pc[e] = "loop" /\ seen'[e] = seen[e] /\ sum'[e] = sum[e]
                   /\ pc'[e] = "reported" =>
                        FinishLoop(e) \/ (pc[e] = "reported" /\ sum'[e] = sum[e])
<1>0. /\ pc \in [Reader -> ReaderSteps] /\ seen \in [Reader -> SUBSET members]
      /\ sum \in [Reader -> Nat] /\ got \in [Ender -> [Worker -> Nat] \cup {None}]
      /\ e \in Reader
  BY Threads DEF TypeOK
<1>1. ASSUME pc'[e] = pc[e], seen'[e] = seen[e], sum'[e] = sum[e], got'[e] = got[e],
             reduced' = reduced \/ \E f \in Ender : Reduce(f)
      PROVE  Goal
  BY <1>1 DEF Has
<1>2. ASSUME pc'[e] \notin Stopped \ {"collect"}, pc[e] \notin Stopped \ {"collect"},
             UNCHANGED <<got, reduced>>
      PROVE  Goal
  BY <1>2 DEF Has, Stopped
<1>3. CASE Start
  <2>1. CASE StartLoops
    <3>1. IF e = Timer THEN pc[e] = "none" /\ pc'[e] = "watch" ELSE pc'[e] = pc[e]
      BY <1>0, <2>1, Threads DEF StartLoops, Begun
    <3>2. UNCHANGED <<seen, sum, got, reduced>>
      BY <2>1 DEF StartLoops
    <3>3. QED
      BY <1>1, <1>2, <3>1, <3>2 DEF Stopped
  <2>2. CASE StartWorkers
    <3>1. pc'[e] = pc[e]
      BY <1>0, <2>2, Threads DEF StartWorkers
    <3>2. QED
      BY <1>1, <2>2, <3>1 DEF StartWorkers
  <2>3. QED
    BY <1>1, <1>3, <2>1, <2>2 DEF Start, OpenRace, StartCoordinators, StartSingle, RaiseFleet
<1>4. ASSUME NEW t \in Tab, PressStop(t) PROVE Goal
  <2>1. pc'[e] = pc[e] \/ (pc[e] = "idle" /\ pc'[e] = "end")
    BY <1>0, <1>4, Goes, Threads DEF PressStop, ReaderSteps
  <2>2. UNCHANGED <<seen, sum, got, reduced>>
    BY <1>4 DEF PressStop
  <2>3. QED
    BY <1>1, <1>2, <2>1, <2>2 DEF Stopped
<1>5. CASE TimerWakes \/ TimerRechecks
  <2>1. \/ pc'[e] = pc[e]
        \/ pc[e] \in {"watch", "recheck"} /\ pc'[e] \in {"recheck", "end", "over"}
    BY <1>0, <1>5, Goes, Threads DEF TimerWakes, TimerRechecks, ReaderSteps
  <2>2. UNCHANGED <<seen, sum, got, reduced>>
    BY <1>5 DEF TimerWakes, TimerRechecks
  <2>3. QED
    BY <1>1, <1>2, <2>1, <2>2 DEF Stopped
<1>6. ASSUME NEW r \in Reader, ReaderStep(r) PROVE Goal
  <2>1. CASE r # e
    <3>1. pc'[e] = pc[e] /\ seen'[e] = seen[e] /\ sum'[e] = sum[e]
      BY <1>0, <1>6, <2>1 DEF ReaderStep, Visit, FinishLoop, RaiseError, NextRound,
         LastRound, Goto, Begin
    <3>2. UNCHANGED <<got, reduced>>
      BY <1>6 DEF ReaderStep, Visit, FinishLoop, RaiseError, NextRound, LastRound
    <3>3. QED
      BY <1>1, <3>1, <3>2
  <2>2. CASE r = e
    <3>1. Visit(e) \/ FinishLoop(e) \/ RaiseError(e)
      BY <1>6, <2>2, Threads DEF ReaderStep, NextRound, LastRound
    <3>2. /\ pc[e] = "loop" /\ UNCHANGED <<got, reduced>>
          /\ Visit(e) => pc'[e] = "loop"
          /\ FinishLoop(e) => pc'[e] = "reported"
          /\ RaiseError(e) => pc'[e] = "raised"
      BY <1>0, <3>1 DEF Visit, FinishLoop, AfterLoop, RaiseError, Goto
    <3>3. QED
      BY <3>1, <3>2 DEF Has, Stopped
  <2>3. QED
    BY <2>1, <2>2
<1>7. ASSUME NEW f \in Ender, EndStep(f) PROVE Goal
  <2>0. f \in Reader
    BY Threads
  <2>1. CASE f # e
    <3>1. /\ pc'[e] = pc[e] /\ seen'[e] = seen[e] /\ sum'[e] = sum[e] /\ got'[e] = got[e]
          /\ reduced' = reduced \/ Reduce(f)
      BY <1>0, <1>7, <2>0, <2>1 DEF EndStep, LowerRaceFlag, StopSingle, LowerFleetFlag,
         SweepWorkers, StopCoordinators, Collect, Reduce, Goto, Begin
    <3>2. QED
      BY <1>1, <3>1
  <2>2. CASE f = e
    <3>1. CASE Collect(e)
      <4>1. pc[e] = "collect" /\ pc'[e] = "reduce" /\ reduced' = reduced
        BY <1>0, <3>1 DEF Collect, Goto
      <4>2. QED
        BY <3>1, <4>1 DEF Has, Stopped
    <3>2. CASE Reduce(e)
      <4>1. pc[e] = "reduce" /\ pc'[e] = "loop" /\ got' = got
        BY <1>0, <3>2 DEF Reduce, Goto
      <4>2. QED
        BY <3>2, <4>1 DEF Has, Stopped
    <3>3. CASE ~Collect(e) /\ ~Reduce(e)
      <4>1. /\ UNCHANGED <<got, reduced>>
            /\ pc[e] \in {"end", "single", "fleet", "sweep", "coords"}
            /\ pc'[e] \in {"single", "fleet", "sweep", "coords", "collect"}
        BY <1>0, <1>7, <2>2, <3>3 DEF EndStep, LowerRaceFlag, StopSingle, LowerFleetFlag,
           SweepWorkers, StopCoordinators, Goto
      <4>2. QED
        BY <1>2, <4>1 DEF Stopped
    <3>4. QED
      BY <3>1, <3>2, <3>3
  <2>3. QED
    BY <2>1, <2>2
<1>8. CASE UNCHANGED <<pc, seen, sum, got, reduced>>
  BY <1>1, <1>8
<1>9. Goal
  BY <1>3, <1>4, <1>5, <1>6, <1>7, <1>8 DEF Next, vars, BeginRun, EndRun, PickNew, Register,
     StartSpawned, WorkerStep, BeginIteration, ScrapeNothing, CountUrl, AppendResult, EndWork
<1>10. QED
  BY <1>9

InFlight(w) == work[w] \in {"busy", "counted"}

\* A copy misses one result of a stopped worker at most, and none while the
\* worker's last iteration may still bring it.
Close(g) == \A w \in Worker \ late : results[w] <= IF InFlight(w) THEN g[w] ELSE g[w] + 1

Copies ==
  /\ \A e \in Ender : Has(e) => got[e] \in [Worker -> Nat] /\ Close(got[e])
  /\ reduced # None => Close(reduced) /\ \E e \in Ender : Has(e)

\* A stopped worker begins no iteration.
LEMMA StaysClose ==
  ASSUME Sound, AllDown, [Next]_vars, NEW e \in Ender, Has(e), NEW g \in [Worker -> Nat], Close(g)
  PROVE  Close(g)'
<1>0. /\ work \in [Worker -> {"none", "top", "busy", "counted", "ended"}]
      /\ results \in [Worker -> Nat]
      /\ \A w \in Worker : up[w] => w \in late
  BY Stages DEF Sound, TypeOK, AllDown, Down, Has
<1> SUFFICES ASSUME NEW w \in Worker, w \notin late'
             PROVE  results'[w] <= IF work'[w] \in {"busy", "counted"} THEN g[w] ELSE g[w] + 1
  BY DEF Close, InFlight
<1>1. late \subseteq late'
  BY DEF Next, vars, Start, OpenRace, StartCoordinators, StartSingle, RaiseFleet, StartWorkers,
     StartLoops, PressStop, TimerWakes, TimerRechecks, EndStep, LowerRaceFlag, StopSingle,
     LowerFleetFlag, SweepWorkers, StopCoordinators, Collect, Reduce, ReaderStep, Visit,
     FinishLoop, RaiseError, NextRound, LastRound, BeginRun, EndRun, PickNew, Register,
     StartSpawned, WorkerStep, BeginIteration, ScrapeNothing, CountUrl, AppendResult, EndWork, Late
<1>2. /\ results[w] \in Nat /\ g[w] \in Nat /\ ~up[w]
      /\ results[w] <= IF work[w] \in {"busy", "counted"} THEN g[w] ELSE g[w] + 1
  BY <1>0, <1>1 DEF Close, InFlight
<1>3. CASE results'[w] = results[w] /\ (work'[w] = work[w] \/ work'[w] \notin {"busy", "counted"})
  BY <1>2, <1>3
<1>4. ASSUME NEW v \in Worker, WorkerStep(v)
      PROVE  results'[w] <= IF work'[w] \in {"busy", "counted"} THEN g[w] ELSE g[w] + 1
  <2>1. CASE v # w
    <3>1. results'[w] = results[w] /\ work'[w] = work[w]
      BY <1>0, <1>4, <2>1 DEF WorkerStep, BeginIteration, ScrapeNothing, CountUrl,
         AppendResult, EndWork, Work
    <3>2. QED
      BY <1>3, <3>1
  <2>2. CASE v = w
    <3>1. CASE BeginIteration(w)
      BY <1>2, <3>1 DEF BeginIteration
    <3>2. CASE ScrapeNothing(w) \/ EndWork(w)
      BY <1>0, <1>3, <3>2 DEF ScrapeNothing, EndWork, Work
    <3>3. CASE CountUrl(w)
      BY <1>0, <1>2, <3>3 DEF CountUrl, Work
    <3>4. CASE AppendResult(w)
      BY <1>0, <1>2, <3>4 DEF AppendResult, Work
    <3>5. QED
      BY <1>4, <2>2, <3>1, <3>2, <3>3, <3>4 DEF WorkerStep
  <2>3. QED
    BY <2>1, <2>2
<1>5. CASE StartWorkers
  <2>1. results' = results /\ work' = [v \in Worker |-> IF v \in members THEN "top" ELSE "none"]
    BY <1>5 DEF StartWorkers
  <2>2. work'[w] \in {"top", "none"}
    BY <2>1
  <2>3. QED
    BY <1>3, <2>1, <2>2
<1>6. ASSUME NEW v \in Worker, StartSpawned(v)
      PROVE  results'[w] <= IF work'[w] \in {"busy", "counted"} THEN g[w] ELSE g[w] + 1
  <2>1. results' = results /\ (work'[w] = work[w] \/ work'[w] = "top")
    BY <1>0, <1>6 DEF StartSpawned
  <2>2. QED
    BY <1>3, <2>1
<1>7. CASE UNCHANGED <<work, results>>
  BY <1>3, <1>7
<1>8. QED
  BY <1>4, <1>5, <1>6, <1>7 DEF Next, vars, Start, OpenRace, StartCoordinators, StartSingle,
     RaiseFleet, StartLoops, PressStop, TimerWakes, TimerRechecks, EndStep, LowerRaceFlag,
     StopSingle, LowerFleetFlag, SweepWorkers, StopCoordinators, Collect, Reduce, ReaderStep,
     Visit, FinishLoop, RaiseError, NextRound, LastRound, BeginRun, EndRun, PickNew, Register

LEMMA StepCopies == Sound /\ Begun /\ AllDown /\ Copies /\ [Next]_vars => Copies'
<1> SUFFICES ASSUME Sound, Begun, AllDown, Copies, [Next]_vars PROVE Copies'
  OBVIOUS
<1>0. /\ TypeOK /\ got \in [Ender -> [Worker -> Nat] \cup {None}]
      /\ reduced \in [Worker -> Nat] \cup {None} /\ results \in [Worker -> Nat]
  BY DEF Sound, TypeOK
<1>1. ASSUME NEW e \in Ender, Has(e)'
      PROVE  got'[e] \in [Worker -> Nat] /\ Close(got[e])'
  <2>1. CASE Collect(e)
    <3>1. got'[e] = results /\ UNCHANGED <<results, work, late>>
      BY <1>0, <2>1 DEF Collect
    <3>2. QED
      BY <1>0, <3>1 DEF Close
  <2>2. CASE ~Collect(e)
    <3>1. Has(e) /\ got'[e] = got[e]
      BY <1>0, <1>1, <2>2, EnderMoves
    <3>2. got[e] \in [Worker -> Nat] /\ Close(got[e])
      BY <3>1 DEF Copies
    <3>3. PICK g \in [Worker -> Nat] : g = got[e]
      BY <3>2
    <3>4. Close(g)'
      BY <3>1, <3>2, <3>3, StaysClose
    <3>5. QED
      BY <3>1, <3>2, <3>3, <3>4 DEF Close
  <2>3. QED
    BY <2>1, <2>2
<1>2. ASSUME reduced' # None
      PROVE  Close(reduced)' /\ \E e \in Ender : Has(e)'
  <2>1. ASSUME NEW f \in Ender, Reduce(f) PROVE Close(reduced)' /\ \E e \in Ender : Has(e)'
    <3>1. /\ reduced' = got[f] /\ got' = got /\ pc[f] = "reduce" /\ Has(f)
      BY <2>1 DEF Reduce, Goto, Has, Stopped
    <3>2. Has(f)'
      BY <1>0, <3>1, EnderMoves
    <3>3. Close(got[f])'
      BY <1>1, <3>2
    <3>4. QED
      BY <3>1, <3>2, <3>3 DEF Close
  <2>2. CASE ~ \E f \in Ender : Reduce(f)
    <3>1. reduced' = reduced
      BY <1>0, <2>2, EnderMoves, Threads
    <3>2. PICK e \in Ender : Has(e) /\ Close(reduced) /\ reduced \in [Worker -> Nat]
      BY <1>0, <1>2, <3>1 DEF Copies
    <3>3. PICK g \in [Worker -> Nat] : g = reduced
      BY <3>2
    <3>4. Has(e)' /\ Close(g)'
      BY <1>0, <3>2, <3>3, EnderMoves, StaysClose
    <3>5. QED
      BY <3>1, <3>3, <3>4 DEF Close
  <2>3. QED
    BY <2>1, <2>2
<1>3. QED
  BY <1>1, <1>2 DEF Copies

LEMMA InitCopies == Init => Copies
<1> SUFFICES ASSUME Init PROVE Copies
  OBVIOUS
<1>1. \A e \in Ender : ~Has(e)
  BY Threads DEF Init, Has, Stopped
<1>2. QED
  BY <1>1 DEF Init, Copies

\* MapReduce misses at most one result of each worker that was stopped, for
\* every number of workers, of results and of threads that run it.
THEOREM MissesHold == Spec => []MissesAtMostOneEach
<1>1. Sound /\ Copies => MissesAtMostOneEach
  <2> SUFFICES ASSUME Sound, Copies, reduced # None, NEW w \in Worker \ late
               PROVE  results[w] <= reduced[w] + 1
    BY DEF MissesAtMostOneEach
  <2>1. results[w] \in Nat /\ reduced[w] \in Nat
    BY DEF Sound, TypeOK
  <2>2. QED
    BY <2>1 DEF Copies, Close
<1>2. QED
  BY <1>1, InitSound, InitDown, InitCopies, StepSound, StepBegun, StepDown, StepCopies, PTL DEF Spec

-----------------------------------------------------------------------------
(* What the reported total covers.                                         *)

\* A result is counted before it is in the list.
Counted ==
  /\ \A w \in Worker : /\ results[w] <= counted[w]
                       /\ work[w] = "counted" => results[w] < counted[w]
  /\ \A w \in Worker \ members : results[w] = 0

\* A copy holds nothing that is not counted or not of a registered worker,
\* and the loop's sum covers the part of it that the loop has visited.
Covers(e) ==
  Has(e) =>
    /\ \A w \in Worker : got[e][w] <= counted[w]
    /\ \A w \in Worker \ members : got[e][w] = 0
    /\ pc[e] = "loop" => sum[e] >= Tally(got[e], seen[e])
    /\ pc[e] = "reported" => sum[e] >= Tally(got[e], Worker)

LEMMA CountersGrow ==
  ASSUME Sound, [Next]_vars
  PROVE  members \subseteq members' /\ \A w \in Worker : counted[w] <= counted'[w]
<1>1. counted \in [Worker -> Nat]
  BY DEF Sound, TypeOK
<1>2. members \subseteq members'
  BY DEF Next, vars, Start, OpenRace, StartCoordinators, StartSingle, RaiseFleet,
     StartWorkers, StartLoops, PressStop, TimerWakes, TimerRechecks, EndStep, LowerRaceFlag,
     StopSingle, LowerFleetFlag, SweepWorkers, StopCoordinators, Collect, Reduce, ReaderStep,
     Visit, FinishLoop, RaiseError, NextRound, LastRound, BeginRun, EndRun, PickNew, Register,
     StartSpawned, WorkerStep, BeginIteration, ScrapeNothing, CountUrl, AppendResult, EndWork
<1>3. counted' = counted \/ \E v \in Worker : CountUrl(v)
  BY DEF Next, vars, Start, OpenRace, StartCoordinators, StartSingle, RaiseFleet,
     StartWorkers, StartLoops, PressStop, TimerWakes, TimerRechecks, EndStep, LowerRaceFlag,
     StopSingle, LowerFleetFlag, SweepWorkers, StopCoordinators, Collect, Reduce, ReaderStep,
     Visit, FinishLoop, RaiseError, NextRound, LastRound, BeginRun, EndRun, PickNew, Register,
     StartSpawned, WorkerStep, BeginIteration, ScrapeNothing, AppendResult, EndWork
<1>4. \A w \in Worker : counted[w] <= counted'[w]
  BY <1>1, <1>3 DEF CountUrl
<1>5. QED
  BY <1>2, <1>4

LEMMA StepCounted == Sound /\ Counted /\ [Next]_vars => Counted'
<1> SUFFICES ASSUME Sound, Counted, [Next]_vars PROVE Counted'
  OBVIOUS
<1>0. /\ work \in [Worker -> {"none", "top", "busy", "counted", "ended"}]
      /\ counted \in [Worker -> Nat] /\ results \in [Worker -> Nat]
      /\ \A v \in Worker \ members : work[v] = "none"
      /\ members \subseteq members'
  BY CountersGrow DEF Sound, TypeOK
<1>1. ASSUME NEW v \in Worker, WorkerStep(v) PROVE Counted'
  <2>1. members' = members /\ v \in members
    BY <1>0, <1>1 DEF WorkerStep, BeginIteration, ScrapeNothing, CountUrl, AppendResult,
       EndWork, Work
  <2>2. CASE BeginIteration(v) \/ ScrapeNothing(v) \/ EndWork(v)
    BY <1>0, <2>1, <2>2 DEF BeginIteration, ScrapeNothing, EndWork, Work, Counted
  <2>3. CASE CountUrl(v)
    BY <1>0, <2>1, <2>3 DEF CountUrl, Work, Counted
  <2>4. CASE AppendResult(v)
    BY <1>0, <2>1, <2>4 DEF AppendResult, Work, Counted
  <2>5. QED
    BY <1>1, <2>2, <2>3, <2>4 DEF WorkerStep
<1>2. ASSUME UNCHANGED <<counted, results>>,
             \A w \in Worker : work'[w] = work[w] \/ work'[w] # "counted"
      PROVE  Counted'
  BY <1>0, <1>2 DEF Counted
<1>3. CASE StartWorkers
  <2>1. work' = [w \in Worker |-> IF w \in members THEN "top" ELSE "none"]
    BY <1>3 DEF StartWorkers
  <2>2. QED
    BY <1>2, <1>3, <2>1 DEF StartWorkers
<1>4. ASSUME NEW v \in Worker, StartSpawned(v) PROVE Counted'
  BY <1>0, <1>2, <1>4 DEF StartSpawned
<1>5. CASE UNCHANGED <<work, counted, results>>
  BY <1>2, <1>5
<1>6. QED
  BY <1>1, <1>3, <1>4, <1>5 DEF Next, vars, Start, OpenRace, StartCoordinators, StartSingle,
     RaiseFleet, StartLoops, PressStop, TimerWakes, TimerRechecks, EndStep, LowerRaceFlag,
     StopSingle, LowerFleetFlag, SweepWorkers, StopCoordinators, Collect, Reduce, ReaderStep,
     Visit, FinishLoop, RaiseError, NextRound, LastRound, BeginRun, EndRun, PickNew, Register

\* The counters the loop reads are read after the results were copied.
LEMMA StepCovers ==
  ASSUME Sound, Begun, Copies, Counted, [Next]_vars, NEW e \in Ender, Covers(e)
  PROVE  Covers(e)'
<1>0. /\ TypeOK /\ e \in Reader /\ IsFiniteSet(Worker) /\ members \subseteq Worker
      /\ results \in [Worker -> Nat] /\ counted \in [Worker -> Nat]
      /\ got \in [Ender -> [Worker -> Nat] \cup {None}]
      /\ seen \in [Reader -> SUBSET members] /\ sum \in [Reader -> Nat]
      /\ pc \in [Reader -> ReaderSteps]
      /\ counted' \in [Worker -> Nat] /\ members' \subseteq Worker
  BY RaceAssumption, Threads, StepSound DEF Sound, TypeOK
<1> SUFFICES ASSUME Has(e)' PROVE Covers(e)'
  BY DEF Covers
<1>1. CASE Collect(e)
  <2>1. got'[e] = results /\ pc'[e] = "reduce" /\ UNCHANGED <<members, counted>>
    BY <1>0, <1>1 DEF Collect, Goto
  <2>2. QED
    BY <2>1 DEF Covers, Counted
<1>2. CASE ~Collect(e)
  <2>1. Has(e) /\ got'[e] = got[e] /\ got[e] \in [Worker -> Nat]
    BY <1>0, <1>2, EnderMoves DEF Copies
  <2>2. PICK g \in [Worker -> Nat] : g = got[e] /\ g = got'[e]
    BY <2>1
  <2>3. \A w \in Worker : g[w] <= counted'[w]
    <3>1. \A w \in Worker : g[w] <= counted[w] /\ counted[w] <= counted'[w]
      BY <2>1, <2>2, CountersGrow DEF Covers
    <3>2. QED
      BY <1>0, <3>1
  <2>4. \A w \in Worker \ members' : g[w] = 0
    BY <2>1, <2>2, CountersGrow DEF Covers
  <2>5. ASSUME pc'[e] = "loop" PROVE sum'[e] >= Tally(g, seen'[e])
    <3>1. CASE Reduce(e)
      <4>1. sum'[e] = 0 /\ seen'[e] = {}
        BY <1>0, <3>1 DEF Reduce, Begin
      <4>2. QED
        BY <4>1, TallyOfNone
    <3>2. CASE Visit(e)
      <4>1. PICK w \in members \ seen[e] :
              /\ seen' = [seen EXCEPT ![e] = @ \cup {w}]
              /\ sum' = [sum EXCEPT ![e] = @ + counted[w]]
        BY <3>2 DEF Visit
      <4>2. pc[e] = "loop"
        BY <3>2 DEF Visit, Goto
      <4>3. /\ seen[e] \subseteq Worker /\ w \in Worker /\ w \notin seen[e]
            /\ seen'[e] = seen[e] \cup {w} /\ sum'[e] = sum[e] + counted[w]
        BY <1>0, <4>1
      <4>4. IsFiniteSet(seen[e])
        BY <1>0, <4>3, FS_Subset
      <4>5. IsFiniteSet(Units(g, seen[e])) /\ Tally(g, seen[e]) \in Nat
        BY <4>3, <4>4, TallyOfAll
      <4>6. Tally(g, seen'[e]) = Tally(g, seen[e]) + g[w]
        BY <4>3, <4>5, TallyOfOneMore
      <4>7. sum[e] >= Tally(g, seen[e]) /\ g[w] <= counted[w]
        BY <2>1, <2>2, <4>2, <4>3 DEF Covers
      <4>8. sum[e] \in Nat /\ counted[w] \in Nat /\ g[w] \in Nat
        BY <1>0, <4>3
      <4>9. QED
        BY <4>3, <4>5, <4>6, <4>7, <4>8
    <3>3. CASE pc[e] = "loop" /\ seen'[e] = seen[e] /\ sum'[e] = sum[e]
      BY <2>1, <2>2, <3>3 DEF Covers
    <3>4. QED
      BY <1>0, <2>5, <3>1, <3>2, <3>3, EnderMoves
  <2>6. ASSUME pc'[e] = "reported" PROVE sum'[e] >= Tally(g, Worker)
    <3>1. CASE FinishLoop(e)
      <4>1. pc[e] = "loop" /\ members = seen[e] /\ sum' = sum /\ members' = members
        BY <3>1 DEF FinishLoop, Goto
      <4>2. sum[e] >= Tally(g, members)
        BY <2>1, <2>2, <4>1 DEF Covers
      <4>3. Tally(g, Worker) = Tally(g, members)
        BY <1>0, <2>4, <4>1, TallyOfSome
      <4>4. QED
        BY <4>1, <4>2, <4>3
    <3>2. CASE pc[e] = "reported" /\ sum'[e] = sum[e]
      BY <2>1, <2>2, <3>2 DEF Covers
    <3>3. QED
      BY <1>0, <2>6, <3>1, <3>2, EnderMoves
  <2>7. QED
    BY <2>2, <2>3, <2>4, <2>5, <2>6 DEF Covers
<1>3. QED
  BY <1>1, <1>2

\* The reported total is at least the number of results MapReduce was given,
\* for every number of workers and results.
THEOREM TotalHolds == Spec => []TotalCoversSummary
<1> DEFINE AllCover == \A e \in Ender : Covers(e)
<1>1. Init => Counted /\ AllCover
  <2> SUFFICES ASSUME Init PROVE Counted /\ AllCover
    OBVIOUS
  <2>1. \A e \in Ender : ~Has(e)
    BY Threads DEF Init, Has, Stopped
  <2>2. QED
    BY <2>1 DEF Init, Counted, Covers
<1>2. Sound /\ Begun /\ Copies /\ Counted /\ AllCover /\ [Next]_vars => AllCover'
  BY StepCovers
<1>3. AllCover => TotalCoversSummary
  <2> SUFFICES ASSUME NEW e \in Ender, Covers(e), pc[e] = "reported"
               PROVE  sum[e] >= Tally(got[e], Worker)
    BY DEF TotalCoversSummary
  <2>1. QED
    BY DEF Covers, Has, Stopped
<1>4. QED
  BY <1>1, <1>2, <1>3, InitSound, InitDown, InitCopies, StepSound, StepBegun, StepDown,
     StepCopies, StepCounted, PTL DEF Spec
=============================================================================
