----------------------------- MODULE Observers ------------------------------
(***************************************************************************)
(* What a race leaves for its reader: the event log, and the list of       *)
(* results, stamped by the shared LamportClock and by each worker's        *)
(* VectorClock.                                                            *)
(*                                                                         *)
(* A stamp is drawn under the clock's lock and used under another one, the *)
(* log's or the result list's, so threads overtake each other in between.  *)
(* A URL goes from worker to worker through the shards' deques, here the   *)
(* set of the URLs that wait: Fleet models the deques, and what the gates  *)
(* and the site do to a request is left to chance.  A worker that is       *)
(* stopped or killed finishes its iteration and takes no other step.       *)
(***************************************************************************)
EXTENDS Integers, Sequences, FiniteSets

CONSTANTS
  Worker,   \* node ids
  Logger,   \* the threads that only log: scaler, engine, dashboard
  Url, NoUrl,
  MaxNodes, \* length of a vector clock
  Keep,     \* events the log keeps: 500
  MaxStamp  \* bound: no thread begins to publish once the clock is there

ASSUME ObserversAssumption ==
  /\ Worker \subseteq Nat /\ Worker \cap Logger = {}
  /\ IsFiniteSet(Worker \cup Logger) /\ NoUrl \notin Url
  /\ MaxNodes \in Nat \ {0} /\ Keep \in Nat \ {0} /\ MaxStamp \in Nat

VARIABLES
  clock,    \* LamportClock._value
  vc,       \* worker -> its VectorClock._vector
  at,       \* thread -> what it does next
  url,      \* worker -> the URL it holds, or NoUrl
  stamp,    \* thread -> the stamp it has drawn and not used yet, or 0
  waiting,  \* the URLs in the deques
  log,      \* EventLog._events: the stamps of the entries, as inserted
  results,  \* DistributedFleet._results
  chapter,  \* history: URL -> how many of its events are known to some worker
  told,     \* history: what was ever published of a URL, with its stamp
  dropped   \* history: the stamps of the entries the log has let go

pageVars == <<url, waiting, chapter>>
logVars  == <<log, dropped>>
vars == <<clock, vc, at, stamp, results, told, pageVars, logVars>>

Thread == Worker \cup Logger

-----------------------------------------------------------------------------
(* VectorClock.                                                            *)

\* Mutant: the workers beyond the last slot share it.
MutSlot(w) == IF w < MaxNodes THEN w ELSE MaxNodes - 1

\* The slot a worker is given: two ids that differ by MaxNodes share one.
Slot(w) == w % MaxNodes

AllZero == [i \in 0 .. MaxNodes - 1 |-> 0]

\* Mutant: the slot does not move.
MutTick(v, w) == [v EXCEPT ![Slot(w)] = IF @ = 0 THEN 1 ELSE @]

Tick(v, w) == [v EXCEPT ![Slot(w)] = @ + 1]

Compare(a, b) ==
  LET le == \A i \in DOMAIN a : a[i] <= b[i]
      ge == \A i \in DOMAIN a : a[i] >= b[i]
  IN  IF le /\ ge THEN "equal"
      ELSE IF le THEN "before"
      ELSE IF ge THEN "after"
      ELSE "concurrent"

-----------------------------------------------------------------------------
(* EventLog.                                                               *)

\* Mutant: the trim keeps the oldest entries.
MutTrimmed(s) == IF Len(s) > Keep THEN SubSeq(s, 1, Keep) ELSE s

\* The entries inserted last are kept, whatever their stamps.
Trimmed(s) == IF Len(s) > Keep THEN SubSeq(s, Len(s) - Keep + 1, Len(s)) ELSE s

Entries(s) == {s[i] : i \in 1 .. Len(s)}

LogStamp(n) ==
  /\ log' = Trimmed(Append(log, n))
  /\ dropped' = dropped \cup (Entries(Append(log, n)) \ Entries(log'))

-----------------------------------------------------------------------------
Init ==
  /\ clock = 0
  /\ vc = [w \in Worker |-> AllZero]
  /\ at = [t \in Thread |-> "idle"]
  /\ url = [w \in Worker |-> NoUrl]
  /\ stamp = [t \in Thread |-> 0]
  /\ waiting = Url
  /\ log = <<>> /\ dropped = {}
  /\ results = <<>>
  /\ chapter = [u \in Url |-> 0]
  /\ told = {}

Goto(t, from, to) == at[t] = from /\ at' = [at EXCEPT ![t] = to]

\* Something worth an entry happens to a URL.
Turn(u) == chapter' = [chapter EXCEPT ![u] = @ + 1]

\* A thread uses its stamp.
Use(t) == stamp' = [stamp EXCEPT ![t] = 0]

Publish(w) ==
  told' = told \cup {[url |-> url[w], chapter |-> chapter[url[w]], stamp |-> stamp[w]]}

Take(w, u) ==
  /\ u \in waiting /\ waiting' = waiting \ {u}
  /\ url' = [url EXCEPT ![w] = u]
  /\ UNCHANGED <<clock, vc, stamp, results, told, logVars>>

PutBack(w) ==
  /\ waiting' = waiting \cup {url[w]}
  /\ url' = [url EXCEPT ![w] = NoUrl]
  /\ UNCHANGED <<clock, vc, stamp, results, told, chapter, logVars>>

\* popleft of its own deque: nothing is logged.
TakeOwn(w, u) ==
  /\ Goto(w, "idle", "fetch")
  /\ Take(w, u)
  /\ UNCHANGED chapter

\* _steal: the pop, which its entry follows.
Steal(w, u) ==
  /\ Goto(w, "idle", "draw stole")
  /\ clock < MaxStamp
  /\ Take(w, u)
  /\ Turn(u)

\* The bucket has no token: the URL goes back and nothing is logged.
Refused(w) == Goto(w, "fetch", "idle") /\ PutBack(w)

\* Mutant: a blocked URL is put back before its block is logged.
MutBlocked(w) ==
  /\ Goto(w, "fetch", "draw blocked")
  /\ clock < MaxStamp
  /\ Turn(url[w])
  /\ waiting' = waiting \cup {url[w]}
  /\ UNCHANGED <<clock, vc, stamp, results, told, url, logVars>>

\* The site blocks the request; the breaker has recorded it.
Blocked(w) ==
  /\ Goto(w, "fetch", "draw blocked")
  /\ clock < MaxStamp
  /\ Turn(url[w])
  /\ UNCHANGED <<clock, vc, stamp, results, told, url, waiting, logVars>>

\* After the entry is in the log the URL goes back.
Requeue(w) == Goto(w, "requeue", "idle") /\ PutBack(w)

\* The site answers: the worker's vector ticks, then the shared clock.
Succeed(w) ==
  /\ Goto(w, "fetch", "draw result")
  /\ clock < MaxStamp
  /\ vc' = [vc EXCEPT ![w] = Tick(@, w)]
  /\ Turn(url[w])
  /\ UNCHANGED <<clock, stamp, results, told, url, waiting, logVars>>

\* Another thread has something to say.
Announce(l) ==
  /\ Goto(l, "idle", "draw")
  /\ clock < MaxStamp
  /\ UNCHANGED <<clock, vc, stamp, results, told, pageVars, logVars>>

\* LamportClock.increment, the argument of the call of log...
Draw(t) ==
  /\ \/ Goto(t, "draw", "log")
     \/ Goto(t, "draw stole", "log stole")
     \/ Goto(t, "draw blocked", "log blocked")
     \/ Goto(t, "draw result", "append")
  /\ clock' = clock + 1
  /\ stamp' = [stamp EXCEPT ![t] = clock + 1]
  /\ UNCHANGED <<vc, results, told, pageVars, logVars>>

\* ...and the insertion, under the log's own lock.
LogEvent(l) ==
  /\ Goto(l, "log", "idle")
  /\ LogStamp(stamp[l]) /\ Use(l)
  /\ UNCHANGED <<clock, vc, results, told, pageVars>>

LogPage(w) ==
  /\ \/ Goto(w, "log stole", "fetch")
     \/ Goto(w, "log blocked", "requeue")
  /\ LogStamp(stamp[w]) /\ Publish(w) /\ Use(w)
  /\ UNCHANGED <<clock, vc, results, pageVars>>

\* The result is appended under the list's lock; the URL is done with.
AppendResult(w) ==
  /\ Goto(w, "append", "idle")
  /\ results' = Append(results,
       [worker |-> w, stamp |-> stamp[w], vec |-> vc[w]])
  /\ url' = [url EXCEPT ![w] = NoUrl]
  /\ Publish(w) /\ Use(w)
  /\ UNCHANGED <<clock, vc, waiting, chapter, logVars>>

Next ==
  \/ \E w \in Worker : \/ \E u \in Url : TakeOwn(w, u) \/ Steal(w, u)
                       \/ Refused(w) \/ Blocked(w) \/ Requeue(w)
                       \/ Succeed(w) \/ LogPage(w) \/ AppendResult(w)
  \/ \E l \in Logger : Announce(l) \/ LogEvent(l)
  \/ \E t \in Thread : Draw(t)

Spec == Init /\ [][Next]_vars

-----------------------------------------------------------------------------
Steps == {"idle", "draw", "log", "draw stole", "log stole", "fetch",
          "draw blocked", "log blocked", "requeue", "draw result", "append"}

Vector == [0 .. MaxNodes - 1 -> Nat]

\* Every variable has its type; a worker that is not between two iterations
\* holds a URL, and no two hold the same.
TypeOK ==
  /\ clock \in Nat
  /\ vc \in [Worker -> Vector]
  /\ at \in [Thread -> Steps]
  /\ url \in [Worker -> Url \cup {NoUrl}]
  /\ stamp \in [Thread -> 0 .. clock]
  /\ waiting \subseteq Url
  /\ log \in Seq(1 .. clock) /\ Len(log) <= Keep
  /\ dropped \subseteq 1 .. clock
  /\ results \in Seq([worker : Worker, stamp : 1 .. clock, vec : Vector])
  /\ chapter \in [Url -> Nat]
  /\ told \subseteq [url : Url, chapter : Nat, stamp : 1 .. clock]
  /\ \A w \in Worker : at[w] = "idle" <=> url[w] = NoUrl
  /\ \A w \in Worker : url[w] # NoUrl =>
       url[w] \notin waiting /\ \A v \in Worker \ {w} : url[v] # url[w]

\* The story of a URL reads in the order in which it happened, whichever
\* workers it passed through: of two things published about it the later has
\* the larger stamp.  The code owes that to logging a block before it puts the
\* URL back (_run, _steal, EventLog.all).
StoryInOrder ==
  \A a, b \in told :
    a.url = b.url => (a.chapter < b.chapter <=> a.stamp < b.stamp)

\* The log keeps the last entries inserted and sorts them by their stamps: an
\* entry it has let go is newer than at most one entry of each other thread
\* that it still shows, however long the threads wait between drawing a stamp
\* and logging with it (log, all, increment).
FewNewerLost ==
  \A d \in dropped :
    Cardinality({n \in Entries(log) : n < d}) <= Cardinality(Thread) - 1

\* The list of results holds every worker's results in the order of both of
\* its clocks, and no stamp twice, though it is in the order of neither
\* (_run, increment, tick).
ResultsInOrder ==
  \A i, j \in 1 .. Len(results) :
    LET a == results[i]  b == results[j] IN
    /\ i # j => a.stamp # b.stamp
    /\ i < j /\ a.worker = b.worker =>
         a.stamp < b.stamp /\ Compare(a.vec, b.vec) = "before"

\* No worker ever receives another's vector: the vectors of two workers'
\* results are incomparable unless their ids differ by a multiple of
\* max_nodes, whatever happened before what (VectorClock, max_nodes).
ComparableIffSlotShared ==
  \A i, j \in 1 .. Len(results) :
    LET a == results[i]  b == results[j] IN
    a.worker # b.worker =>
      (Compare(a.vec, b.vec) = "concurrent" <=> (a.worker - b.worker) % MaxNodes # 0)
=============================================================================
