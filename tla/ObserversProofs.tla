-------------------------- MODULE ObserversProofs ---------------------------
(***************************************************************************)
(* Proofs about the log and the result list, for every number of threads,  *)
(* URLs and stamps: the story of a URL, and each worker's results, are in  *)
(* the order in which they happened.                                       *)
(***************************************************************************)
EXTENDS Observers, Lemmas

USE DEF pageVars, logVars

Pending == {"draw stole", "log stole", "draw blocked", "log blocked",
            "draw result", "append"}

Drawn == {"log", "log stole", "log blocked", "append"}

\* A thread that is about to use its stamp has drawn one.
Stamped == \A t \in Thread : at[t] \in Drawn => stamp[t] # 0

Held ==
  /\ \A w \in Worker : at[w] = "idle" <=> url[w] = NoUrl
  /\ \A w \in Worker : url[w] # NoUrl =>
       url[w] \notin waiting /\ \A v \in Worker \ {w} : url[v] # url[w]

Sound == TypeOK /\ Stamped

-----------------------------------------------------------------------------
(* Type correctness.                                                       *)

LEMMA InsertType ==
  ASSUME NEW c \in Nat, NEW s \in Seq(1 .. c), NEW n \in 1 .. c
  PROVE  /\ Trimmed(Append(s, n)) \in Seq(1 .. c)
         /\ Len(Trimmed(Append(s, n))) <= Keep
         /\ Entries(Append(s, n)) \subseteq 1 .. c
<1> DEFINE r == Append(s, n)
<1>1. r \in Seq(1 .. c) /\ Len(r) \in Nat /\ \A i \in 1 .. Len(r) : r[i] \in 1 .. c
  OBVIOUS
<1> HIDE DEF r
<1>2. Keep \in Nat \ {0}
  BY ObserversAssumption
<1>3. CASE Len(r) > Keep
  <2> DEFINE m == Len(r) - Keep + 1
  <2>1. m \in Int /\ Len(r) \in Int /\ \A i \in m .. Len(r) : r[i] \in 1 .. c
    BY <1>1, <1>2, <1>3
  <2>2. /\ SubSeq(r, m, Len(r)) \in Seq(1 .. c)
        /\ Len(SubSeq(r, m, Len(r))) = IF m <= Len(r) THEN Len(r) - m + 1 ELSE 0
    BY <2>1, SubSeqProperties
  <2>3. QED
    BY <1>1, <1>2, <1>3, <2>2 DEF Trimmed, Entries, r
<1>4. CASE ~(Len(r) > Keep)
  BY <1>1, <1>2, <1>4 DEF Trimmed, Entries, r
<1>5. QED
  BY <1>3, <1>4

LEMMA LongerStamps ==
  ASSUME NEW c \in Nat
  PROVE  /\ 0 .. c \subseteq 0 .. c + 1 /\ 1 .. c \subseteq 1 .. c + 1
         /\ Seq(1 .. c) \subseteq Seq(1 .. c + 1)
         /\ \A S, V : Seq([worker : S, stamp : 1 .. c, vec : V])
                        \subseteq Seq([worker : S, stamp : 1 .. c + 1, vec : V])
         /\ \A S : [url : S, chapter : Nat, stamp : 1 .. c]
                     \subseteq [url : S, chapter : Nat, stamp : 1 .. c + 1]
<1>1. 0 .. c \subseteq 0 .. c + 1 /\ 1 .. c \subseteq 1 .. c + 1
  OBVIOUS
<1>2. \A S : [url : S, chapter : Nat, stamp : 1 .. c]
               \subseteq [url : S, chapter : Nat, stamp : 1 .. c + 1]
  BY <1>1
<1>3. \A S, V : [worker : S, stamp : 1 .. c, vec : V]
                  \subseteq [worker : S, stamp : 1 .. c + 1, vec : V]
  BY <1>1
<1>4. ASSUME NEW A, NEW B, A \subseteq B PROVE Seq(A) \subseteq Seq(B)
  BY <1>4
<1>5. QED
  BY <1>1, <1>2, <1>3, <1>4

LEMMA TickType ==
  ASSUME NEW v \in Vector, NEW w \in Worker
  PROVE  Tick(v, w) \in Vector /\ Slot(w) \in 0 .. MaxNodes - 1
<1>1. w \in Nat /\ MaxNodes \in Nat \ {0}
  BY ObserversAssumption
<1>2. Slot(w) \in 0 .. MaxNodes - 1
  BY <1>1 DEF Slot
<1>3. QED
  BY <1>2 DEF Tick, Vector

LEMMA Threads ==
  /\ \A w \in Worker : w \in Thread
  /\ \A l \in Logger : l \in Thread /\ l \notin Worker
  /\ NoUrl \notin Url
  BY ObserversAssumption DEF Thread

\* What each thread does next, and which URLs wait or are held.
LEMMA StepHeld ==
  TypeOK /\ [Next]_vars => /\ at' \in [Thread -> Steps]
                           /\ url' \in [Worker -> Url \cup {NoUrl}]
                           /\ waiting' \subseteq Url
                           /\ Held'
<1> DEFINE Goal == /\ at' \in [Thread -> Steps]
                   /\ url' \in [Worker -> Url \cup {NoUrl}]
                   /\ waiting' \subseteq Url
                   /\ Held'
<1> SUFFICES ASSUME TypeOK, [Next]_vars PROVE Goal
  OBVIOUS
<1>0. /\ at \in [Thread -> Steps]
      /\ url \in [Worker -> Url \cup {NoUrl}]
      /\ waiting \subseteq Url
      /\ Held
  BY DEF TypeOK, Held
<1>1. ASSUME NEW w \in Worker, NEW u \in Url, Take(w, u), NEW s \in Steps \ {"idle"},
             Goto(w, "idle", s)
      PROVE  Goal
  <2>1. at' = [at EXCEPT ![w] = s] /\ url' = [url EXCEPT ![w] = u]
        /\ waiting' = waiting \ {u} /\ u \in waiting
    BY <1>1 DEF Take, Goto
  <2>2. at' \in [Thread -> Steps] /\ url' \in [Worker -> Url \cup {NoUrl}]
        /\ waiting' \subseteq Url
    BY <1>0, <2>1
  <2>3. \A v \in Worker : v # w => url'[v] = url[v] /\ at'[v] = at[v] /\ url[v] # u
    BY <1>0, <2>1, Threads DEF Held
  <2>4. url'[w] = u /\ at'[w] = s
    BY <1>0, <2>1, Threads
  <2>5. QED
    BY <1>0, <2>1, <2>2, <2>3, <2>4, Threads DEF Held
<1>2. ASSUME NEW w \in Worker, PutBack(w), at[w] # "idle", at' = [at EXCEPT ![w] = "idle"]
      PROVE  Goal
  <2>1. url' = [url EXCEPT ![w] = NoUrl] /\ waiting' = waiting \cup {url[w]}
    BY <1>2 DEF PutBack
  <2>2. at' \in [Thread -> Steps] /\ url' \in [Worker -> Url \cup {NoUrl}]
    BY <1>0, <1>2, <2>1 DEF Steps
  <2>3. url[w] \in Url /\ waiting' \subseteq Url
    BY <1>0, <1>2, <2>1 DEF Held
  <2>4. \A v \in Worker : v # w => url'[v] = url[v] /\ at'[v] = at[v] /\ url[v] # url[w]
    BY <1>0, <1>2, <2>1, <2>3, Threads DEF Held
  <2>5. url'[w] = NoUrl /\ at'[w] = "idle"
    BY <1>0, <1>2, <2>1, Threads
  <2>6. QED
    BY <1>0, <2>1, <2>2, <2>3, <2>4, <2>5, Threads DEF Held
<1>3. ASSUME NEW w \in Worker, AppendResult(w) PROVE Goal
  <2>1. at[w] = "append" /\ at' = [at EXCEPT ![w] = "idle"]
        /\ url' = [url EXCEPT ![w] = NoUrl] /\ waiting' = waiting
    BY <1>3 DEF AppendResult, Goto
  <2>2. at' \in [Thread -> Steps] /\ url' \in [Worker -> Url \cup {NoUrl}]
    BY <1>0, <2>1 DEF Steps
  <2>3. \A v \in Worker : v # w => url'[v] = url[v] /\ at'[v] = at[v]
    BY <1>0, <2>1, Threads
  <2>4. url'[w] = NoUrl /\ at'[w] = "idle"
    BY <1>0, <2>1, Threads
  <2>5. QED
    BY <1>0, <2>1, <2>2, <2>3, <2>4 DEF Held
<1>4. ASSUME NEW t \in Thread, NEW s \in Steps, at' = [at EXCEPT ![t] = s],
             t \in Worker => at[t] # "idle" /\ s # "idle",
             UNCHANGED <<url, waiting>>
      PROVE  Goal
  <2>1. \A w \in Worker : at'[w] = "idle" <=> at[w] = "idle"
    BY <1>0, <1>4, Threads
  <2>2. QED
    BY <1>0, <1>4, <2>1 DEF Held
<1>5. ASSUME NEW w \in Worker, NEW u \in Url, TakeOwn(w, u) \/ Steal(w, u) PROVE Goal
  BY <1>1, <1>5 DEF TakeOwn, Steal, Steps
<1>6. ASSUME NEW w \in Worker, Refused(w) \/ Requeue(w) PROVE Goal
  BY <1>2, <1>6 DEF Refused, Requeue, Goto
<1>7. ASSUME NEW w \in Worker, Blocked(w) \/ Succeed(w) \/ LogPage(w) PROVE Goal
  BY <1>4, <1>7, Threads DEF Blocked, Succeed, LogPage, Goto, Steps
<1>8. ASSUME NEW l \in Logger, Announce(l) \/ LogEvent(l) PROVE Goal
  BY <1>4, <1>8, Threads DEF Announce, LogEvent, Goto, Steps
<1>9. ASSUME NEW t \in Thread, Draw(t) PROVE Goal
  BY <1>4, <1>9 DEF Draw, Goto, Steps
<1>10. CASE UNCHANGED vars
  BY <1>0, <1>10 DEF vars, Held
<1>11. QED
  BY <1>3, <1>5, <1>6, <1>7, <1>8, <1>9, <1>10 DEF Next

\* The stamps: those drawn, those used, and what is published with them.
Stamps ==
  /\ clock \in Nat
  /\ stamp \in [Thread -> 0 .. clock]
  /\ Stamped
  /\ log \in Seq(1 .. clock) /\ Len(log) <= Keep
  /\ dropped \subseteq 1 .. clock
  /\ results \in Seq([worker : Worker, stamp : 1 .. clock, vec : Vector])
  /\ told \subseteq [url : Url, chapter : Nat, stamp : 1 .. clock]

LEMMA StepStamps == Sound /\ [Next]_vars => Stamps'
<1> SUFFICES ASSUME Sound, [Next]_vars PROVE Stamps'
  OBVIOUS
<1>0. /\ Stamps /\ at \in [Thread -> Steps] /\ chapter \in [Url -> Nat]
      /\ vc \in [Worker -> Vector]
      /\ \A w \in Worker : at[w] # "idle" => url[w] \in Url
  BY DEF Sound, TypeOK, Stamps
<1>1. ASSUME UNCHANGED <<clock, stamp, log, dropped, results, told>>,
             NEW t \in Thread, NEW s \in Steps \ Drawn, at' = [at EXCEPT ![t] = s]
      PROVE  Stamps'
  BY <1>0, <1>1 DEF Stamps, Stamped
<1>2. ASSUME NEW t \in Thread, at[t] \in Drawn, NEW s \in Steps \ Drawn,
             at' = [at EXCEPT ![t] = s], Use(t), UNCHANGED clock
      PROVE  /\ stamp[t] \in 1 .. clock
             /\ stamp' \in [Thread -> 0 .. clock'] /\ Stamped'
  BY <1>0, <1>2 DEF Stamps, Stamped, Use
<1>3. ASSUME NEW n \in 1 .. clock, LogStamp(n)
      PROVE  /\ log' \in Seq(1 .. clock) /\ Len(log') <= Keep
             /\ dropped' \subseteq 1 .. clock
  BY <1>0, <1>3, InsertType DEF Stamps, LogStamp
<1>4. ASSUME NEW w \in Worker, at[w] # "idle", stamp[w] \in 1 .. clock, Publish(w)
      PROVE  told' \subseteq [url : Url, chapter : Nat, stamp : 1 .. clock]
  BY <1>0, <1>4 DEF Stamps, Publish
<1>5. ASSUME NEW w \in Worker, NEW u \in Url, TakeOwn(w, u) \/ Steal(w, u)
      PROVE  Stamps'
  BY <1>1, <1>5, Threads DEF TakeOwn, Steal, Take, Goto, Steps, Drawn
<1>6. ASSUME NEW w \in Worker, Refused(w) \/ Requeue(w) \/ Blocked(w) \/ Succeed(w)
       PROVE  Stamps'
  BY <1>1, <1>6, Threads DEF Refused, Requeue, PutBack, Blocked, Succeed, Goto,
     Steps, Drawn
<1>7. ASSUME NEW w \in Worker, LogPage(w) PROVE Stamps'
  <2>1. PICK s \in {"fetch", "requeue"} :
          at[w] \in {"log stole", "log blocked"} /\ at' = [at EXCEPT ![w] = s]
    BY <1>7 DEF LogPage, Goto
  <2>2. /\ stamp[w] \in 1 .. clock /\ clock' = clock
        /\ stamp' \in [Thread -> 0 .. clock'] /\ Stamped'
    BY <1>2, <1>7, <2>1, Threads DEF LogPage, Steps, Drawn
  <2>3. QED
    BY <1>0, <1>3, <1>4, <1>7, <2>1, <2>2 DEF LogPage, Stamps
<1>8. ASSUME NEW w \in Worker, AppendResult(w) PROVE Stamps'
  <2>1. at[w] = "append" /\ at' = [at EXCEPT ![w] = "idle"]
    BY <1>8 DEF AppendResult, Goto
  <2>2. /\ stamp[w] \in 1 .. clock /\ clock' = clock
        /\ stamp' \in [Thread -> 0 .. clock'] /\ Stamped'
    BY <1>2, <1>8, <2>1, Threads DEF AppendResult, Steps, Drawn
  <2>3. results' \in Seq([worker : Worker, stamp : 1 .. clock, vec : Vector])
    BY <1>0, <1>8, <2>2 DEF AppendResult, Stamps
  <2>4. QED
    BY <1>0, <1>4, <1>8, <2>1, <2>2, <2>3 DEF AppendResult, Stamps
<1>9. ASSUME NEW l \in Logger, Announce(l) PROVE Stamps'
  BY <1>1, <1>9, Threads DEF Announce, Goto, Steps, Drawn
<1>10. ASSUME NEW l \in Logger, LogEvent(l) PROVE Stamps'
  <2>1. at[l] = "log" /\ at' = [at EXCEPT ![l] = "idle"]
    BY <1>10 DEF LogEvent, Goto
  <2>2. /\ stamp[l] \in 1 .. clock /\ clock' = clock
        /\ stamp' \in [Thread -> 0 .. clock'] /\ Stamped'
    BY <1>2, <1>10, <2>1, Threads DEF LogEvent, Steps, Drawn
  <2>3. QED
    BY <1>0, <1>3, <1>10, <2>2 DEF LogEvent, Stamps
<1>11. ASSUME NEW t \in Thread, Draw(t) PROVE Stamps'
  <2>1. clock \in Nat /\ clock' = clock + 1
    BY <1>0, <1>11 DEF Draw, Stamps
  <2>2. stamp' = [stamp EXCEPT ![t] = clock + 1] /\ stamp \in [Thread -> 0 .. clock]
    BY <1>0, <1>11 DEF Draw, Stamps
  <2>3. stamp' \in [Thread -> 0 .. clock'] /\ stamp'[t] # 0
    BY <2>1, <2>2
  <2>4. \A v \in Thread : v # t => stamp'[v] = stamp[v] /\ at'[v] = at[v]
    BY <1>0, <1>11, <2>2 DEF Draw, Goto
  <2>5. Stamped'
    BY <1>0, <2>3, <2>4 DEF Stamps, Stamped
  <2>6. /\ log' \in Seq(1 .. clock') /\ Len(log') <= Keep
        /\ dropped' \subseteq 1 .. clock'
        /\ results' \in Seq([worker : Worker, stamp : 1 .. clock', vec : Vector])
        /\ told' \subseteq [url : Url, chapter : Nat, stamp : 1 .. clock']
    BY <1>0, <1>11, <2>1, LongerStamps DEF Draw, Stamps
  <2>7. QED
    BY <2>1, <2>3, <2>5, <2>6 DEF Stamps
<1>12. CASE UNCHANGED vars
  BY <1>0, <1>12 DEF vars, Stamps, Stamped
<1>13. QED
  BY <1>5, <1>6, <1>7, <1>8, <1>9, <1>10, <1>11, <1>12 DEF Next

LEMMA StepSound == Sound /\ [Next]_vars => Sound'
<1> SUFFICES ASSUME Sound, [Next]_vars PROVE Sound'
  OBVIOUS
<1>1. /\ vc \in [Worker -> Vector] /\ chapter \in [Url -> Nat]
      /\ url \in [Worker -> Url \cup {NoUrl}]
      /\ \A w \in Worker : at[w] = "idle" <=> url[w] = NoUrl
  BY DEF Sound, TypeOK
<1>2. vc' \in [Worker -> Vector]
  <2>1. \A w \in Worker : Tick(vc[w], w) \in Vector
    BY <1>1, TickType
  <2>2. vc' = vc \/ \E w \in Worker : vc' = [vc EXCEPT ![w] = Tick(@, w)]
    BY DEF Next, vars, TakeOwn, Steal, Take, Refused, Requeue, PutBack, Blocked,
       Succeed, LogPage, AppendResult, Announce, LogEvent, Draw
  <2>3. QED
    BY <1>1, <2>1, <2>2
<1>3. chapter' \in [Url -> Nat]
  <2>1. \A u \in Url : Turn(u) => chapter' \in [Url -> Nat]
    BY <1>1 DEF Turn
  <2>2. chapter' = chapter \/ \E u \in Url : Turn(u)
    BY <1>1 DEF Next, vars, TakeOwn, Steal, Take, Refused, Requeue, PutBack, Blocked,
       Succeed, LogPage, AppendResult, Announce, LogEvent, Draw, Goto
  <2>3. QED
    BY <1>1, <2>1, <2>2
<1>4. QED
  BY <1>2, <1>3, StepHeld, StepStamps DEF Sound, TypeOK, Held, Stamps

\* Every variable keeps its type, and no URL is ever held twice.
THEOREM TypeCorrect == Spec => []TypeOK
<1>1. Init => Sound
  BY ObserversAssumption DEF Init, Sound, TypeOK, Stamped, Drawn, Steps, AllZero, Vector
<1>2. Sound => TypeOK
  BY DEF Sound
<1>3. QED
  BY <1>1, <1>2, StepSound, PTL DEF Spec

-----------------------------------------------------------------------------
(* The story of a URL.                                                     *)

\* Nothing published of a URL is later than what its worker is about to
\* publish, in either order.
Told ==
  /\ \A e \in told : e.chapter <= chapter[e.url]
  /\ \A w \in Worker : \A e \in told :
       e.url = url[w] => /\ at[w] \in Pending => e.chapter < chapter[e.url]
                         /\ at[w] \in Drawn => e.stamp < stamp[w]
  /\ StoryInOrder

LEMMA StepTold == Sound /\ Told /\ [Next]_vars => Told'
<1> SUFFICES ASSUME Sound, Told, [Next]_vars PROVE Told'
  OBVIOUS
<1>0. /\ at \in [Thread -> Steps] /\ url \in [Worker -> Url \cup {NoUrl}]
      /\ clock \in Nat /\ stamp \in [Thread -> 0 .. clock] /\ chapter \in [Url -> Nat]
      /\ told \subseteq [url : Url, chapter : Nat, stamp : 1 .. clock]
      /\ waiting \subseteq Url /\ Held
  BY DEF Sound, TypeOK, Held
<1>13. ASSUME NEW v \in Worker, NEW e \in told, e.url = url[v]
       PROVE  /\ at[v] \in Pending => e.chapter < chapter[e.url]
              /\ at[v] \in Drawn => e.stamp < stamp[v]
  BY <1>13 DEF Told
<1>14. /\ \A e \in told : e.chapter <= chapter[e.url]
       /\ \A e \in told : e.url \in Url /\ e.chapter \in Nat /\ e.stamp \in Nat
  BY <1>0 DEF Told
<1>1. ASSUME NEW w \in Worker, NEW s \in Steps \ (Pending \cup Drawn),
             at' = [at EXCEPT ![w] = s],
             NEW u, url' = [url EXCEPT ![w] = u], UNCHANGED <<told, stamp, chapter>>
      PROVE  Told'
  <2>1. \A v \in Worker : v # w => at'[v] = at[v] /\ url'[v] = url[v]
    BY <1>0, <1>1, Threads
  <2>2. at'[w] = s
    BY <1>0, <1>1, Threads
  <2>3. QED
    BY <1>1, <2>1, <2>2 DEF Told, StoryInOrder
<1>2. ASSUME NEW w \in Worker, NEW s \in Pending \ Drawn, at' = [at EXCEPT ![w] = s],
             NEW u \in Url, url' = [url EXCEPT ![w] = u], Turn(u),
             \A v \in Worker \ {w} : url[v] # u, UNCHANGED <<told, stamp>>
      PROVE  Told'
  <2>1. \A v \in Worker : v # w => at'[v] = at[v] /\ url'[v] = url[v] /\ url[v] # u
    BY <1>0, <1>2, Threads
  <2>2. at'[w] = s /\ url'[w] = u
    BY <1>0, <1>2, Threads
  <2>3. chapter'[u] = chapter[u] + 1 /\ \A x \in Url : x # u => chapter'[x] = chapter[x]
    BY <1>0, <1>2 DEF Turn
  <2>4. \A e \in told : e.url \in Url /\ e.chapter \in Nat /\ chapter[e.url] \in Nat
    BY <1>0
  <2>5. \A e \in told : e.chapter <= chapter'[e.url]
    BY <1>2, <2>3, <2>4 DEF Told
  <2>6. \A e \in told : e.url = u => e.chapter < chapter'[e.url]
    BY <1>2, <2>3, <2>4 DEF Told
  <2>7. ASSUME NEW v \in Worker, NEW e \in told, e.url = url'[v]
        PROVE  /\ at'[v] \in Pending => e.chapter < chapter'[e.url]
               /\ at'[v] \in Drawn => e.stamp < stamp'[v]
    <3>1. CASE v = w
      BY <1>2, <2>2, <2>6, <2>7, <3>1
    <3>2. CASE v # w
      <4>1. e.url = url[v] /\ chapter'[e.url] = chapter[e.url]
        BY <1>14, <2>1, <2>3, <2>7, <3>2
      <4>2. at'[v] = at[v] /\ stamp'[v] = stamp[v]
        BY <1>2, <2>1, <3>2
      <4>3. QED
        BY <1>13, <4>1, <4>2
    <3>3. QED
      BY <3>1, <3>2
  <2>8. QED
    BY <1>2, <2>5, <2>7 DEF Told, StoryInOrder
<1>3. ASSUME NEW w \in Worker, NEW s \in Steps \ (Pending \cup Drawn), at' = [at EXCEPT ![w] = s],
             at[w] \in Pending \cap Drawn,
             Publish(w), UNCHANGED chapter, url[w] \in Url,
             \A v \in Worker \ {w} : url'[v] = url[v] /\ stamp'[v] = stamp[v]
      PROVE  Told'
  <2> DEFINE n == [url |-> url[w], chapter |-> chapter[url[w]], stamp |-> stamp[w]]
  <2>1. told' = told \cup {n}
    BY <1>3 DEF Publish
  <2>2. /\ n.url = url[w] /\ n.chapter = chapter[url[w]] /\ n.stamp = stamp[w]
        /\ n.chapter \in Nat /\ n.stamp \in Nat
    BY <1>0, <1>3, Threads
  <2> HIDE DEF n
  <2>3. \A e \in told : /\ e.url \in Url /\ e.chapter \in Nat /\ e.stamp \in Nat
                        /\ e.url = n.url => e.chapter < n.chapter /\ e.stamp < n.stamp
    BY <1>3, <1>13, <1>14, <2>2
  <2>4. StoryInOrder'
    <3> SUFFICES ASSUME NEW a \in told', NEW b \in told', a.url = b.url
                 PROVE  a.chapter < b.chapter <=> a.stamp < b.stamp
      BY DEF StoryInOrder
    <3>1. CASE a \in told /\ b \in told
      BY <3>1 DEF Told, StoryInOrder
    <3>2. CASE a \in told /\ b = n
      BY <2>3, <3>2
    <3>3. CASE a = n /\ b \in told
      BY <2>2, <2>3, <3>3
    <3>4. CASE a = n /\ b = n
      BY <2>2, <3>4
    <3>5. QED
      BY <2>1, <3>1, <3>2, <3>3, <3>4
  <2>5. \A e \in told' : e.chapter <= chapter'[e.url]
    BY <1>3, <2>1, <2>2 DEF Told
  <2>6. ASSUME NEW v \in Worker, NEW e \in told', e.url = url'[v]
        PROVE  /\ at'[v] \in Pending => e.chapter < chapter'[e.url]
               /\ at'[v] \in Drawn => e.stamp < stamp'[v]
    <3>1. CASE v = w
      <4>1. at'[v] = s
        BY <1>0, <1>3, <3>1, Threads
      <4>2. QED
        BY <1>3, <4>1
    <3>2. CASE v # w
      <4>1. at'[v] = at[v] /\ url'[v] = url[v] /\ stamp'[v] = stamp[v]
        BY <1>0, <1>3, <3>2, Threads
      <4>2. CASE e = n
        <5>1. url[v] = url[w] /\ url[w] # NoUrl
          BY <1>3, <2>2, <2>6, <4>1, <4>2, Threads
        <5>2. QED
          BY <1>0, <3>2, <5>1 DEF Held
      <4>3. CASE e \in told
        BY <1>3, <1>13, <2>6, <4>1, <4>3
      <4>4. QED
        BY <2>1, <4>2, <4>3
    <3>3. QED
      BY <3>1, <3>2
  <2>7. QED
    BY <2>4, <2>5, <2>6 DEF Told
<1>4. ASSUME NEW w \in Worker, NEW u \in Url, TakeOwn(w, u) PROVE Told'
  BY <1>1, <1>4 DEF TakeOwn, Take, Goto, Steps, Pending, Drawn
<1>5. ASSUME NEW w \in Worker, NEW u \in Url, Steal(w, u) PROVE Told'
  <2>1. \A v \in Worker \ {w} : url[v] # u
    BY <1>0, <1>5, Threads DEF Steal, Take, Held
  <2>2. QED
    BY <1>2, <1>5, <2>1 DEF Steal, Take, Goto, Pending, Drawn
<1>6. ASSUME NEW w \in Worker, Refused(w) \/ Requeue(w) PROVE Told'
  BY <1>1, <1>6 DEF Refused, Requeue, PutBack, Goto, Steps, Pending, Drawn
<1>7. ASSUME NEW w \in Worker, Blocked(w) \/ Succeed(w) PROVE Told'
  <2>1. PICK s \in Pending \ Drawn : at[w] = "fetch" /\ at' = [at EXCEPT ![w] = s]
    BY <1>7 DEF Blocked, Succeed, Goto, Pending, Drawn
  <2>2. url[w] \in Url /\ \A v \in Worker \ {w} : url[v] # url[w]
    BY <1>0, <2>1 DEF Held
  <2>3. url' = [url EXCEPT ![w] = url[w]] /\ Turn(url[w]) /\ UNCHANGED <<told, stamp>>
    BY <1>0, <1>7 DEF Blocked, Succeed
  <2>4. \A u \in Url : u = url[w] => Told'
    BY <1>2, <2>1, <2>2, <2>3
  <2>5. QED
    BY <2>2, <2>4
<1>8. ASSUME NEW w \in Worker, LogPage(w) \/ AppendResult(w) PROVE Told'
  <2>1. PICK s \in Steps \ (Pending \cup Drawn) :
          at[w] \in Pending \cap Drawn /\ at' = [at EXCEPT ![w] = s]
    BY <1>8 DEF LogPage, AppendResult, Goto, Pending, Drawn, Steps
  <2>2. url[w] \in Url
    BY <1>0, <2>1 DEF Held, Pending
  <2>3. /\ Publish(w) /\ UNCHANGED chapter
        /\ \A v \in Worker \ {w} : url'[v] = url[v] /\ stamp'[v] = stamp[v]
    BY <1>0, <1>8, Threads DEF LogPage, AppendResult, Use
  <2>4. QED
    BY <1>3, <2>1, <2>2, <2>3
<1>9. ASSUME NEW l \in Logger, Announce(l) \/ LogEvent(l) PROVE Told'
  <2>1. \A w \in Worker : at'[w] = at[w] /\ stamp'[w] = stamp[w]
    BY <1>0, <1>9, Threads DEF Announce, LogEvent, Goto, Use
  <2>2. UNCHANGED <<told, chapter, url>>
    BY <1>9 DEF Announce, LogEvent
  <2>3. QED
    BY <2>1, <2>2 DEF Told, StoryInOrder
<1>10. ASSUME NEW t \in Thread, Draw(t) PROVE Told'
  <2>1. UNCHANGED <<told, chapter, url>> /\ stamp' = [stamp EXCEPT ![t] = clock + 1]
    BY <1>10 DEF Draw
  <2>2. \A v \in Worker : v # t => at'[v] = at[v] /\ stamp'[v] = stamp[v]
    BY <1>0, <1>10, <2>1, Threads DEF Draw, Goto
  <2>3. stamp'[t] = clock + 1 /\ \A e \in told : e.stamp < clock + 1
    BY <1>0, <2>1
  <2>4. t \in Worker /\ at'[t] \in Pending => at[t] \in Pending
    BY <1>0, <1>10 DEF Draw, Goto, Pending
  <2>5. ASSUME NEW v \in Worker, NEW e \in told, e.url = url[v]
        PROVE  /\ at'[v] \in Pending => e.chapter < chapter[e.url]
               /\ at'[v] \in Drawn => e.stamp < stamp'[v]
    <3>1. CASE v = t
      BY <1>13, <2>3, <2>4, <2>5, <3>1
    <3>2. CASE v # t
      BY <1>13, <2>2, <2>5, <3>2
    <3>3. QED
      BY <3>1, <3>2
  <2>6. QED
    BY <2>1, <2>5 DEF Told, StoryInOrder
<1>11. CASE UNCHANGED vars
  BY <1>11 DEF vars, Told, StoryInOrder
<1>12. QED
  BY <1>4, <1>5, <1>6, <1>7, <1>8, <1>9, <1>10, <1>11 DEF Next

LEMMA InitSound == Init => Sound
  BY ObserversAssumption DEF Init, Sound, TypeOK, Stamped, Drawn, Steps, AllZero, Vector

\* Whatever is published about one URL is stamped in the order in which it
\* happened.
THEOREM StoryHolds == Spec => []StoryInOrder
<1>1. Init => Told
  BY DEF Init, Told, StoryInOrder
<1>2. Told => StoryInOrder
  BY DEF Told
<1>3. QED
  BY <1>1, <1>2, InitSound, StepSound, StepTold, PTL DEF Spec

-----------------------------------------------------------------------------
(* The results.                                                            *)

\* The other workers' slots of a vector stay zero.
OwnOnly(v, w) == \A k \in 0 .. MaxNodes - 1 : k # Slot(w) => v[k] = 0

\* What a result has to do with the clocks of its worker and with the stamps
\* drawn and not used yet.
Behind(r) ==
  /\ \A t \in Thread : at[t] \in Drawn =>
       r.stamp # stamp[t] /\ (r.worker = t => r.stamp < stamp[t])
  /\ OwnOnly(r.vec, r.worker)
  /\ 0 < r.vec[Slot(r.worker)]
  /\ r.vec[Slot(r.worker)] <= vc[r.worker][Slot(r.worker)]
  /\ at[r.worker] \in {"draw result", "append"} =>
       r.vec[Slot(r.worker)] < vc[r.worker][Slot(r.worker)]

InOrder(a, b) ==
  /\ a.stamp # b.stamp
  /\ a.worker = b.worker =>
       a.stamp < b.stamp /\ a.vec[Slot(a.worker)] < b.vec[Slot(a.worker)]

Listed ==
  /\ \A t, u \in Thread :
       t # u /\ at[t] \in Drawn /\ at[u] \in Drawn => stamp[t] # stamp[u]
  /\ \A w \in Worker : OwnOnly(vc[w], w)
  /\ \A w \in Worker : at[w] \in {"draw result", "append"} => 0 < vc[w][Slot(w)]
  /\ \A i \in 1 .. Len(results) : Behind(results[i])
  /\ \A i, j \in 1 .. Len(results) : i < j => InOrder(results[i], results[j])

LEMMA ResultType ==
  TypeOK => \A i \in 1 .. Len(results) :
              /\ results[i].worker \in Worker /\ results[i].stamp \in 1 .. clock
              /\ results[i].vec \in Vector
              /\ Slot(results[i].worker) \in 0 .. MaxNodes - 1
<1> SUFFICES ASSUME TypeOK, NEW i \in 1 .. Len(results)
             PROVE  /\ results[i].worker \in Worker /\ results[i].stamp \in 1 .. clock
                    /\ results[i].vec \in Vector
                    /\ Slot(results[i].worker) \in 0 .. MaxNodes - 1
  OBVIOUS
<1>1. results \in Seq([worker : Worker, stamp : 1 .. clock, vec : Vector])
  BY DEF TypeOK
<1>2. results[i] \in [worker : Worker, stamp : 1 .. clock, vec : Vector]
  BY <1>1, ElementOfSeq
<1>3. QED
  BY <1>2, TickType

LEMMA StepListed == Sound /\ Listed /\ [Next]_vars => Listed'
<1> SUFFICES ASSUME Sound, Listed, [Next]_vars PROVE Listed'
  OBVIOUS
<1>0. /\ at \in [Thread -> Steps] /\ clock \in Nat /\ stamp \in [Thread -> 0 .. clock]
      /\ vc \in [Worker -> Vector]
      /\ results \in Seq([worker : Worker, stamp : 1 .. clock, vec : Vector])
      /\ \A w \in Worker : Slot(w) \in 0 .. MaxNodes - 1
  BY TickType DEF Sound, TypeOK
<1>11. \A i \in 1 .. Len(results) :
         /\ results[i].worker \in Worker /\ results[i].stamp \in 1 .. clock
         /\ results[i].vec \in Vector
  BY ResultType DEF Sound
<1>13. /\ at \in [Thread -> Steps] /\ clock \in Nat
       /\ stamp \in [Thread -> Nat] /\ \A t \in Thread : stamp[t] <= clock
  BY <1>0
<1>12. ASSUME NEW i \in 1 .. Len(results), results'[i] = results[i],
              vc'[results[i].worker] = vc[results[i].worker],
              \A v \in Thread : at'[v] \in Drawn => at[v] \in Drawn /\ stamp'[v] = stamp[v],
              at'[results[i].worker] \in {"draw result", "append"} =>
                at[results[i].worker] \in {"draw result", "append"}
       PROVE  Behind(results[i])'
  <2>1. Behind(results[i])
    BY DEF Listed
  <2> DEFINE q == results[i]
  <2>2. \A v \in Thread : at'[v] \in Drawn =>
          q.stamp # stamp'[v] /\ (q.worker = v => q.stamp < stamp'[v])
    BY <1>12, <2>1 DEF Behind
  <2>3. /\ OwnOnly(q.vec, q.worker) /\ 0 < q.vec[Slot(q.worker)]
        /\ q.vec[Slot(q.worker)] <= vc[q.worker][Slot(q.worker)]
        /\ at[q.worker] \in {"draw result", "append"} =>
             q.vec[Slot(q.worker)] < vc[q.worker][Slot(q.worker)]
    BY <2>1 DEF Behind
  <2>4. q' = q
    BY <1>12
  <2> HIDE DEF q
  <2>5. Behind(q)'
    BY <1>12, <2>2, <2>3, <2>4 DEF Behind, OwnOnly, q
  <2>6. QED
    BY <2>5 DEF q
\* Steps that draw nothing, and leave the clocks and the results alone.
<1>1. ASSUME NEW t \in Thread, NEW s \in Steps \ Drawn, at' = [at EXCEPT ![t] = s],
             s # "draw result", UNCHANGED <<vc, results>>,
             \A v \in Thread \ {t} : stamp'[v] = stamp[v]
      PROVE  Listed'
  <2>1. at'[t] = s /\ \A v \in Thread \ {t} : at'[v] = at[v] /\ stamp'[v] = stamp[v]
    BY <1>0, <1>1
  <2>2. ASSUME NEW i \in 1 .. Len(results) PROVE Behind(results[i])'
    <3>1. results[i].worker \in Thread
      BY <1>11, Threads
    <3>2. at'[results[i].worker] \in {"draw result", "append"} =>
            at[results[i].worker] \in {"draw result", "append"}
      BY <1>1, <2>1, <3>1 DEF Drawn
    <3>3. \A v \in Thread : at'[v] \in Drawn => at[v] \in Drawn /\ stamp'[v] = stamp[v]
      BY <1>1, <2>1
    <3>4. QED
      BY <1>1, <1>12, <3>2, <3>3
  <2>3. \A w \in Worker : at'[w] \in {"draw result", "append"} => 0 < vc'[w][Slot(w)]
    BY <1>1, <2>1, Threads DEF Listed, Drawn
  <2>4. \A v, u \in Thread :
          v # u /\ at'[v] \in Drawn /\ at'[u] \in Drawn => stamp'[v] # stamp'[u]
    BY <1>1, <2>1 DEF Listed
  <2>5. QED
    BY <1>1, <2>2, <2>3, <2>4 DEF Listed, InOrder, OwnOnly
<1>2. ASSUME NEW w \in Worker, NEW u \in Url, TakeOwn(w, u) \/ Steal(w, u) PROVE Listed'
  BY <1>1, <1>2, Threads DEF TakeOwn, Steal, Take, Goto, Steps, Drawn
<1>3. ASSUME NEW w \in Worker, Refused(w) \/ Requeue(w) \/ Blocked(w) PROVE Listed'
  BY <1>1, <1>3, Threads DEF Refused, Requeue, PutBack, Blocked, Goto, Steps, Drawn
<1>4. ASSUME NEW w \in Worker, LogPage(w) PROVE Listed'
  <2>1. PICK s \in Steps \ Drawn : s # "draw result" /\ at' = [at EXCEPT ![w] = s]
    BY <1>4 DEF LogPage, Goto, Steps, Drawn
  <2>2. \A v \in Thread \ {w} : stamp'[v] = stamp[v]
    BY <1>0, <1>4, Threads DEF LogPage, Use
  <2>3. QED
    BY <1>1, <1>4, <2>1, <2>2, Threads DEF LogPage
<1>5. ASSUME NEW l \in Logger, Announce(l) \/ LogEvent(l) PROVE Listed'
  <2>1. PICK s \in Steps \ Drawn : s # "draw result" /\ at' = [at EXCEPT ![l] = s]
    BY <1>5 DEF Announce, LogEvent, Goto, Steps, Drawn
  <2>2. \A v \in Thread \ {l} : stamp'[v] = stamp[v]
    BY <1>0, <1>5, Threads DEF Announce, LogEvent, Use
  <2>3. QED
    BY <1>1, <1>5, <2>1, <2>2, Threads DEF Announce, LogEvent
<1>6. ASSUME NEW w \in Worker, Succeed(w) PROVE Listed'
  <2> DEFINE k == Slot(w)
  <2>1. at[w] = "fetch" /\ at' = [at EXCEPT ![w] = "draw result"]
        /\ UNCHANGED <<stamp, results>> /\ vc' = [vc EXCEPT ![w] = Tick(vc[w], w)]
    BY <1>6 DEF Succeed, Goto
  <2>2. at'[w] = "draw result" /\ \A t \in Thread \ {w} : at'[t] = at[t]
    BY <1>0, <2>1, Threads
  <2>3. vc'[w] = Tick(vc[w], w) /\ \A v \in Worker \ {w} : vc'[v] = vc[v]
    BY <1>0, <2>1
  <2>4. /\ vc[w] \in Vector /\ k \in 0 .. MaxNodes - 1 /\ vc[w][k] \in Nat
        /\ vc'[w][k] = vc[w][k] + 1
        /\ \A j \in 0 .. MaxNodes - 1 : j # k => vc'[w][j] = vc[w][j]
    BY <1>0, <2>3 DEF Tick, Vector
  <2> HIDE DEF k
  <2>5. ASSUME NEW i \in 1 .. Len(results) PROVE Behind(results[i])'
    <3>1. Behind(results[i]) /\ results[i].worker \in Worker /\ results[i].vec \in Vector
      BY <1>11 DEF Listed
    <3>2. CASE results[i].worker = w
      <4> DEFINE q == results[i]
      <4>1. q.vec[k] \in Nat /\ q.worker = w
        BY <2>4, <3>1, <3>2 DEF Vector
      <4>2. \A t \in Thread : at'[t] \in Drawn =>
              q.stamp # stamp'[t] /\ (q.worker = t => q.stamp < stamp'[t])
        <5>1. \A t \in Thread : at'[t] \in Drawn => at[t] \in Drawn /\ stamp'[t] = stamp[t]
          BY <2>1, <2>2 DEF Drawn
        <5>2. QED
          BY <3>1, <5>1 DEF Behind
      <4>3. /\ OwnOnly(q.vec, w) /\ 0 < q.vec[k]
            /\ q.vec[k] < vc'[w][k] /\ q.vec[k] <= vc'[w][k]
        <5>1. OwnOnly(q.vec, w) /\ 0 < q.vec[k] /\ q.vec[k] <= vc[w][k]
          BY <3>1, <3>2 DEF Behind, k
        <5>2. QED
          BY <2>4, <4>1, <5>1
      <4>4. q' = q
        BY <2>1
      <4> HIDE DEF q
      <4>5. Behind(q)'
        BY <4>1, <4>2, <4>3, <4>4 DEF Behind, OwnOnly, k
      <4>6. QED
        BY <4>5 DEF q
    <3>3. CASE results[i].worker # w
      <4>1. \A t \in Thread : at'[t] \in Drawn => at[t] \in Drawn
        BY <2>2 DEF Drawn
      <4>2. at'[results[i].worker] = at[results[i].worker]
            /\ vc'[results[i].worker] = vc[results[i].worker]
        BY <2>2, <2>3, <3>1, <3>3, Threads
      <4>3. QED
        BY <1>12, <2>1, <4>1, <4>2
    <3>4. QED
      BY <3>2, <3>3
  <2>6. \A v \in Worker : OwnOnly(vc'[v], v)
    <3>1. OwnOnly(vc'[w], w)
      BY <2>4 DEF Listed, OwnOnly, k
    <3>2. QED
      BY <2>3, <3>1 DEF Listed
  <2>7. \A v \in Worker : at'[v] \in {"draw result", "append"} => 0 < vc'[v][Slot(v)]
    <3>1. 0 < vc'[w][Slot(w)]
      BY <2>4 DEF k
    <3>2. QED
      BY <2>2, <2>3, <3>1, Threads DEF Listed
  <2>8. \A v, u \in Thread :
          v # u /\ at'[v] \in Drawn /\ at'[u] \in Drawn => stamp'[v] # stamp'[u]
    BY <2>1, <2>2 DEF Listed, Drawn
  <2>9. QED
    BY <2>1, <2>5, <2>6, <2>7, <2>8 DEF Listed, InOrder, OwnOnly
<1>7. ASSUME NEW w \in Worker, AppendResult(w) PROVE Listed'
  <2> DEFINE n == [worker |-> w, stamp |-> stamp[w], vec |-> vc[w]]
             k == Slot(w)
  <2>1. at[w] = "append" /\ at' = [at EXCEPT ![w] = "idle"] /\ UNCHANGED vc
        /\ results' = Append(results, n)
    BY <1>7 DEF AppendResult, Goto
  <2>2. at'[w] = "idle"
        /\ \A t \in Thread \ {w} : at'[t] = at[t] /\ stamp'[t] = stamp[t]
    BY <1>0, <1>7, <2>1, Threads DEF AppendResult, Use
  <2>3. /\ Len(results') = Len(results) + 1 /\ Len(results) \in Nat
        /\ \A i \in 1 .. Len(results) : results'[i] = results[i]
        /\ results'[Len(results) + 1] = n
    BY <1>0, <2>1
  <2>4. n.worker = w /\ n.stamp = stamp[w] /\ n.vec = vc[w]
    OBVIOUS
  <2> HIDE DEF n, k
  <2>5. \A t \in Thread : at'[t] \in Drawn => at[t] \in Drawn /\ t # w
    BY <2>2 DEF Drawn
  <2>6. ASSUME NEW i \in 1 .. Len(results) PROVE Behind(results[i])'
    <3>1. Behind(results[i]) /\ results[i].worker \in Worker
      BY <1>11 DEF Listed
    <3>2. at'[results[i].worker] \in {"draw result", "append"} =>
            at[results[i].worker] \in {"draw result", "append"}
      BY <2>2, <3>1, Threads
    <3>3. results'[i] = results[i]
      BY <2>3
    <3>4. \A t \in Thread : at'[t] \in Drawn => at[t] \in Drawn /\ stamp'[t] = stamp[t]
      BY <2>2, <2>5
    <3>5. QED
      BY <1>12, <2>1, <3>2, <3>3, <3>4
  <2>7. ASSUME NEW i \in 1 .. Len(results'), i = Len(results) + 1
        PROVE  Behind(results[i])'
    <3>1. \A t \in Thread : at'[t] \in Drawn => stamp'[t] # stamp[w] /\ t # w
      BY <2>1, <2>2, <2>5, Threads DEF Listed, Drawn
    <3>2. OwnOnly(vc[w], w) /\ 0 < vc[w][k] /\ vc[w][k] \in Nat
      BY <1>0, <2>1 DEF Listed, Vector, k
    <3>3. results'[i].worker = w /\ results'[i].stamp = stamp[w]
          /\ results'[i].vec = vc[w] /\ vc' = vc
      BY <2>1, <2>3, <2>4, <2>7
    <3> DEFINE q == results'[i]
    <3>6. q.worker = w /\ q.stamp = stamp[w] /\ q.vec = vc[w]
      BY <3>3
    <3>7. vc'[w][k] = vc[w][k] /\ Slot(w) = k
      BY <3>3 DEF k
    <3> HIDE DEF q
    <3>4. /\ \A t \in Thread : at'[t] \in Drawn =>
               q.stamp # stamp'[t] /\ (q.worker = t => q.stamp < stamp'[t])
          /\ OwnOnly(q.vec, q.worker) /\ 0 < q.vec[Slot(q.worker)]
          /\ q.vec[Slot(q.worker)] <= vc'[q.worker][Slot(q.worker)]
          /\ at'[q.worker] \notin {"draw result", "append"}
      <4>1. \A t \in Thread : at'[t] \in Drawn =>
              q.stamp # stamp'[t] /\ (q.worker = t => q.stamp < stamp'[t])
        BY <3>1, <3>6
      <4>2. OwnOnly(q.vec, q.worker) /\ 0 < q.vec[Slot(q.worker)]
        BY <3>2, <3>6, <3>7
      <4>3. q.vec[Slot(q.worker)] <= vc'[q.worker][Slot(q.worker)]
        BY <3>2, <3>6, <3>7
      <4>4. at'[q.worker] \notin {"draw result", "append"}
        BY <2>2, <3>6
      <4>5. QED
        BY <4>1, <4>2, <4>3, <4>4
    <3>5. QED
      BY <3>4 DEF Behind, OwnOnly, q
  <2>8. ASSUME NEW i \in 1 .. Len(results) PROVE InOrder(results[i], n)
    <3>1. Behind(results[i])
      BY DEF Listed
    <3>2. w \in Thread /\ at[w] \in Drawn
      BY <2>1, Threads DEF Drawn
    <3>3. QED
      BY <2>1, <2>4, <3>1, <3>2 DEF Behind, InOrder
  <2>9. ASSUME NEW i \in 1 .. Len(results'), NEW j \in 1 .. Len(results'), i < j
        PROVE  InOrder(results'[i], results'[j])
    <3>1. i \in 1 .. Len(results) /\ results'[i] = results[i]
      BY <2>3, <2>9
    <3>2. CASE j = Len(results) + 1
      <4>1. results'[j] = n
        BY <2>3, <3>2
      <4>2. InOrder(results[i], n)
        BY <2>8, <3>1
      <4>3. QED
        BY <3>1, <4>1, <4>2
    <3>3. CASE j # Len(results) + 1
      <4>1. j \in 1 .. Len(results) /\ results'[j] = results[j]
        BY <2>3, <3>3
      <4>2. InOrder(results[i], results[j])
        BY <2>9, <3>1, <4>1 DEF Listed
      <4>3. QED
        BY <3>1, <4>1, <4>2
    <3>4. QED
      BY <3>2, <3>3
  <2>10. \A i \in 1 .. Len(results') : Behind(results[i])'
    BY <2>3, <2>6, <2>7
  <2>11. \A v, u \in Thread :
           v # u /\ at'[v] \in Drawn /\ at'[u] \in Drawn => stamp'[v] # stamp'[u]
    BY <2>2, <2>5 DEF Listed
  <2>12. \A v \in Worker : at'[v] \in {"draw result", "append"} => 0 < vc'[v][Slot(v)]
    BY <2>1, <2>2, Threads DEF Listed
  <2>13. QED
    BY <2>1, <2>9, <2>10, <2>11, <2>12 DEF Listed, InOrder, OwnOnly
<1>8. ASSUME NEW t \in Thread, Draw(t) PROVE Listed'
  <2>8. PICK s \in Drawn : at' = [at EXCEPT ![t] = s] /\ (s = "append" => at[t] = "draw result")
    BY <1>8 DEF Draw, Goto, Drawn
  <2>1. /\ UNCHANGED <<vc, results>> /\ clock' = clock + 1
        /\ stamp' = [stamp EXCEPT ![t] = clock + 1]
        /\ at' = [at EXCEPT ![t] = s]
        /\ at'[t] = s /\ (at'[t] = "append" => at[t] = "draw result")
    BY <1>13, <1>8, <2>8 DEF Draw
  <2>2. stamp'[t] = clock + 1
        /\ \A v \in Thread \ {t} : at'[v] = at[v] /\ stamp'[v] = stamp[v] /\ stamp[v] <= clock
    BY <1>13, <2>1
  <2>3. \A v, u \in Thread :
          v # u /\ at'[v] \in Drawn /\ at'[u] \in Drawn => stamp'[v] # stamp'[u]
    <3> SUFFICES ASSUME NEW v \in Thread, NEW u \in Thread, v # u,
                        at'[v] \in Drawn, at'[u] \in Drawn
                 PROVE  stamp'[v] # stamp'[u]
      OBVIOUS
    <3>1. CASE v = t
      BY <1>0, <2>2, <3>1
    <3>2. CASE u = t
      BY <1>0, <2>2, <3>2
    <3>3. CASE v # t /\ u # t
      BY <2>2, <3>3 DEF Listed
    <3>4. QED
      BY <3>1, <3>2, <3>3
  <2>4. \A w \in Worker : at'[w] \in {"draw result", "append"} =>
                            at[w] \in {"draw result", "append"}
    <3>1. at'[t] # "draw result"
      BY <2>1 DEF Drawn
    <3>2. QED
      BY <2>1, <2>2, <3>1, Threads
  <2>5. ASSUME NEW i \in 1 .. Len(results) PROVE Behind(results[i])'
    <3>1. Behind(results[i]) /\ results[i].worker \in Worker /\ results[i].stamp \in 1 .. clock
      BY <1>11 DEF Listed
    <3>2. \A v \in Thread : at'[v] \in Drawn =>
            results[i].stamp # stamp'[v] /\ (results[i].worker = v => results[i].stamp < stamp'[v])
      <4> SUFFICES ASSUME NEW v \in Thread, at'[v] \in Drawn
                   PROVE  /\ results[i].stamp # stamp'[v]
                          /\ results[i].worker = v => results[i].stamp < stamp'[v]
        OBVIOUS
      <4>1. CASE v = t
        BY <1>0, <2>2, <3>1, <4>1
      <4>2. CASE v # t
        BY <2>2, <3>1, <4>2 DEF Behind
      <4>3. QED
        BY <4>1, <4>2
    <3>3. QED
      BY <2>1, <2>4, <3>1, <3>2 DEF Behind, OwnOnly
  <2>6. \A w \in Worker : at'[w] \in {"draw result", "append"} => 0 < vc'[w][Slot(w)]
    BY <2>1, <2>4 DEF Listed
  <2>7. QED
    BY <2>1, <2>3, <2>5, <2>6 DEF Listed, InOrder, OwnOnly
<1>9. CASE UNCHANGED vars
  BY <1>9 DEF vars, Listed, Behind, InOrder, OwnOnly
<1>10. QED
  BY <1>2, <1>3, <1>4, <1>5, <1>6, <1>7, <1>8, <1>9 DEF Next

LEMMA InitListed == Init => Listed
<1> SUFFICES ASSUME Init PROVE Listed
  OBVIOUS
<1>1. \A t \in Thread : at[t] = "idle"
  BY DEF Init
<1>2. \A w \in Worker : OwnOnly(vc[w], w)
  BY DEF Init, OwnOnly, AllZero
<1>3. Len(results) = 0
  BY DEF Init
<1>4. \A t \in Thread : at[t] \notin Drawn /\ at[t] \notin {"draw result", "append"}
  BY <1>1 DEF Drawn
<1>5. 1 .. Len(results) = {}
  BY <1>3
<1>6. QED
  BY <1>2, <1>4, <1>5, Threads DEF Listed

\* Each worker's results are in the order of both of its clocks, and no two
\* results share a stamp.
THEOREM ResultsHold == Spec => []ResultsInOrder
<1>1. TypeOK /\ Listed => ResultsInOrder
  <2> SUFFICES ASSUME TypeOK, Listed, NEW i \in 1 .. Len(results),
                      NEW j \in 1 .. Len(results)
               PROVE  /\ i # j => results[i].stamp # results[j].stamp
                      /\ i < j /\ results[i].worker = results[j].worker =>
                           /\ results[i].stamp < results[j].stamp
                           /\ Compare(results[i].vec, results[j].vec) = "before"
    BY DEF ResultsInOrder
  <2> DEFINE a == results[i]
             b == results[j]
  <2>1. i < j => InOrder(a, b)
    BY DEF Listed
  <2>2. j < i => InOrder(b, a)
    BY DEF Listed
  <2>3. i # j => a.stamp # b.stamp
    BY <2>1, <2>2 DEF InOrder
  <2>4. ASSUME i < j, a.worker = b.worker PROVE Compare(a.vec, b.vec) = "before"
    <3> DEFINE k == Slot(a.worker)
    <3>1. a.vec \in Vector /\ b.vec \in Vector /\ k \in 0 .. MaxNodes - 1
      BY ResultType
    <3>2. OwnOnly(a.vec, a.worker) /\ OwnOnly(b.vec, a.worker) /\ a.vec[k] < b.vec[k]
      BY <2>1, <2>4 DEF Listed, Behind, InOrder
    <3> HIDE DEF a, b
    <3>3. /\ DOMAIN a.vec = 0 .. MaxNodes - 1
          /\ \A x \in 0 .. MaxNodes - 1 : a.vec[x] \in Nat /\ b.vec[x] \in Nat
          /\ \A x \in 0 .. MaxNodes - 1 : x # k => a.vec[x] = 0 /\ b.vec[x] = 0
      BY <3>1, <3>2 DEF Vector, OwnOnly
    <3> HIDE DEF k
    <3>4. \A x \in DOMAIN a.vec : a.vec[x] <= b.vec[x]
      BY <3>2, <3>3
    <3>5. ~ \A x \in DOMAIN a.vec : a.vec[x] >= b.vec[x]
      BY <3>1, <3>2, <3>3
    <3>6. QED
      BY <3>4, <3>5 DEF Compare
  <2>5. QED
    BY <2>1, <2>3, <2>4 DEF InOrder
<1>2. Spec => []TypeOK
  BY TypeCorrect
<1>3. QED
  BY <1>1, <1>2, InitSound, StepSound, InitListed, StepListed, PTL DEF Spec

SlotsTell ==
  \A i, j \in 1 .. Len(results) :
    results[i].worker # results[j].worker =>
      (Compare(results[i].vec, results[j].vec) = "concurrent"
         <=> Slot(results[i].worker) # Slot(results[j].worker))

\* The vectors of two workers' results are comparable when the ids differ by a
\* multiple of max_nodes, and only then.
THEOREM SlotsDecide == Spec => []ComparableIffSlotShared
<1>1. TypeOK /\ Listed => SlotsTell
  <2> SUFFICES ASSUME TypeOK, Listed, NEW i \in 1 .. Len(results),
                      NEW j \in 1 .. Len(results)
               PROVE  Compare(results[i].vec, results[j].vec) = "concurrent"
                        <=> Slot(results[i].worker) # Slot(results[j].worker)
    BY DEF SlotsTell
  <2> DEFINE a == results[i].vec
             b == results[j].vec
             k == Slot(results[i].worker)
             m == Slot(results[j].worker)
  <2>1. /\ a \in Vector /\ b \in Vector
        /\ k \in 0 .. MaxNodes - 1 /\ m \in 0 .. MaxNodes - 1
    BY ResultType
  <2>2. /\ \A x \in 0 .. MaxNodes - 1 : x # k => a[x] = 0
        /\ \A x \in 0 .. MaxNodes - 1 : x # m => b[x] = 0
        /\ 0 < a[k] /\ 0 < b[m]
    BY DEF Listed, Behind, OwnOnly
  <2> HIDE DEF a, b, k, m
  <2>3. DOMAIN a = 0 .. MaxNodes - 1
        /\ \A x \in 0 .. MaxNodes - 1 : a[x] \in Nat /\ b[x] \in Nat
    BY <2>1 DEF Vector
  <2>4. CASE k = m
    <3>1. (\A x \in DOMAIN a : a[x] <= b[x]) \/ (\A x \in DOMAIN a : a[x] >= b[x])
      BY <2>1, <2>2, <2>3, <2>4
    <3>2. Compare(a, b) # "concurrent"
      BY <3>1 DEF Compare
    <3>3. QED
      BY <2>4, <3>2 DEF a, b, k, m
  <2>5. CASE k # m
    <3>1. /\ ~ \A x \in DOMAIN a : a[x] <= b[x]
          /\ ~ \A x \in DOMAIN a : a[x] >= b[x]
      BY <2>1, <2>2, <2>3, <2>5
    <3>2. Compare(a, b) = "concurrent"
      BY <3>1 DEF Compare
    <3>3. QED
      BY <2>5, <3>2 DEF a, b, k, m
  <2>6. QED
    BY <2>4, <2>5
<1>2. TypeOK /\ SlotsTell => ComparableIffSlotShared
  <2> SUFFICES ASSUME TypeOK, SlotsTell, NEW i \in 1 .. Len(results),
                      NEW j \in 1 .. Len(results), results[i].worker # results[j].worker
               PROVE  Compare(results[i].vec, results[j].vec) = "concurrent"
                        <=> (results[i].worker - results[j].worker) % MaxNodes # 0
    BY DEF ComparableIffSlotShared
  <2>1. PICK v \in Int, w \in Int : v = results[i].worker /\ w = results[j].worker
    <3>1. results[i].worker \in Worker /\ results[j].worker \in Worker
      BY ResultType
    <3>2. \A w \in Worker : w \in Int
      BY ObserversAssumption
    <3>3. QED
      BY <3>1, <3>2
  <2>2. (v - w) % MaxNodes = 0 <=> Slot(v) = Slot(w)
    BY ObserversAssumption, SameRemainder DEF Slot
  <2>3. QED
    BY <2>1, <2>2 DEF SlotsTell
<1>3. Spec => []TypeOK
  BY TypeCorrect
<1>4. QED
  BY <1>1, <1>2, <1>3, InitSound, StepSound, InitListed, StepListed, PTL DEF Spec

-----------------------------------------------------------------------------
(* What the log lets go.                                                   *)

\* One for each other thread at most.
Few(S) == IsFiniteSet(S) /\ Cardinality(S) <= Cardinality(Thread) - 1

\* The stamps drawn and not used yet.
Late == {stamp[t] : t \in Thread} \ {0}

\* The entries inserted after the i-th.
After(s, i) == {s[j] : j \in i + 1 .. Len(s)}

\* What was inserted after an entry, or will be with a stamp drawn already,
\* and is older, is of another thread and one for each; a trim drops the
\* entry inserted first.
FewOvertake ==
  /\ \A i \in 1 .. Len(log) : Few({m \in After(log, i) \cup Late : m < log[i]})
  /\ \A d \in dropped : Few({m \in Entries(log) \cup Late : m < d})

LEMMA FewSmaller ==
  ASSUME NEW S, NEW T, Few(T), S \subseteq T
  PROVE  Few(S)
<1>1. IsFiniteSet(S) /\ Cardinality(S) <= Cardinality(T)
  BY FS_Subset DEF Few
<1>2. Cardinality(S) \in Nat /\ Cardinality(T) \in Nat /\ Cardinality(Thread) \in Nat
  BY <1>1, FS_CardinalityType, ObserversAssumption DEF Few, Thread
<1>3. QED
  BY <1>1, <1>2 DEF Few

\* The other threads have one stamp each.
LEMMA FewOthers ==
  ASSUME NEW t \in Thread
  PROVE  Few({stamp[v] : v \in Thread \ {t}})
<1> DEFINE S == {stamp[v] : v \in Thread \ {t}}
           f == [v \in Thread \ {t} |-> stamp[v]]
<1>1. IsFiniteSet(Thread)
  BY ObserversAssumption DEF Thread
<1>2. IsFiniteSet(Thread \ {t}) /\ Cardinality(Thread \ {t}) = Cardinality(Thread) - 1
  BY <1>1, FS_RemoveElement
<1>3. f \in Surjection(Thread \ {t}, S)
  BY DEF Surjection
<1>4. IsFiniteSet(S) /\ Cardinality(S) <= Cardinality(Thread \ {t})
  BY <1>2, <1>3, FS_Surjection
<1>5. QED
  BY <1>2, <1>4 DEF Few

\* An entry overtakes no entry that its stamp had not overtaken already, and
\* the other threads may still overtake it.
LEMMA StepInserted ==
  ASSUME Stamps, FewOvertake, NEW t \in Thread, stamp[t] \in 1 .. clock,
         LogStamp(stamp[t]), Use(t)
  PROVE  FewOvertake'
<1> DEFINE n == stamp[t]
           r == Append(log, n)
<1>0. /\ log \in Seq(1 .. clock) /\ Len(log) <= Keep /\ Keep \in Nat \ {0} /\ clock \in Nat
      /\ stamp \in [Thread -> 0 .. clock] /\ n \in 1 .. clock
  BY ObserversAssumption DEF Stamps
<1>1. /\ r \in Seq(1 .. clock) /\ Len(r) = Len(log) + 1 /\ Len(log) \in Nat
      /\ \A i \in 1 .. Len(log) : r[i] = log[i]
      /\ r[Len(log) + 1] = n
  BY <1>0, AppendProperties
<1>2. /\ stamp' = [stamp EXCEPT ![t] = 0]
      /\ log' = Trimmed(r) /\ dropped' = dropped \cup (Entries(r) \ Entries(log'))
  BY DEF LogStamp, Use
<1> HIDE DEF r
<1>3. Late' \subseteq Late /\ Late' \subseteq {stamp[v] : v \in Thread \ {t}} /\ n \in Late
  BY <1>0, <1>2 DEF Late
<1> HIDE DEF n
<1>4. ASSUME NEW i \in 1 .. Len(r)
      PROVE  Few({m \in After(r, i) \cup Late' : m < r[i]})
  <2>1. CASE i \in 1 .. Len(log)
    <3>1. After(r, i) \subseteq After(log, i) \cup {n}
      BY <1>1, <2>1 DEF After
    <3>2. Few({m \in After(log, i) \cup Late : m < log[i]}) /\ r[i] = log[i]
      BY <1>1, <2>1 DEF FewOvertake
    <3>3. {m \in After(r, i) \cup Late' : m < r[i]} \subseteq {m \in After(log, i) \cup Late : m < log[i]}
      BY <1>3, <3>1, <3>2
    <3>4. QED
      BY <3>2, <3>3, FewSmaller
  <2>2. CASE i \notin 1 .. Len(log)
    <3>1. i = Len(r)
      BY <1>1, <2>2
    <3>2. After(r, i) = {}
      BY <1>1, <3>1 DEF After
    <3>3. {m \in After(r, i) \cup Late' : m < r[i]} \subseteq {stamp[v] : v \in Thread \ {t}}
      BY <1>3, <3>2
    <3>4. QED
      BY <3>3, FewOthers, FewSmaller
  <2>3. QED
    BY <2>1, <2>2
<1>5. /\ Entries(log') \subseteq Entries(r)
      /\ \A i \in 1 .. Len(log') :
           \E k \in 1 .. Len(r) : log'[i] = r[k] /\ After(log', i) \subseteq After(r, k)
      /\ \A d \in Entries(r) \ Entries(log') : d = r[1] /\ Entries(log') \subseteq After(r, 1)
  <2>1. CASE Len(r) > Keep
    <3>1. Len(r) \in Nat /\ Len(r) = Keep + 1 /\ log' = SubSeq(r, 2, Len(r))
      <4>1. Len(r) \in Nat /\ Len(r) = Keep + 1 /\ Len(r) - Keep + 1 = 2
        BY <1>0, <1>1, <2>1
      <4>2. log' = SubSeq(r, Len(r) - Keep + 1, Len(r))
        BY <1>2, <2>1 DEF Trimmed
      <4>3. QED
        BY <4>1, <4>2
    <3>2. /\ Len(log') = Len(r) - 1
          /\ \A i \in 1 .. Len(r) - 1 : log'[i] = r[i + 1]
      <4>1. 2 \in Int /\ Len(r) \in Int /\ \A i \in 2 .. Len(r) : r[i] \in 1 .. clock
        BY <1>0, <1>1, <3>1
      <4>2. /\ Len(SubSeq(r, 2, Len(r))) = IF 2 <= Len(r) THEN Len(r) - 2 + 1 ELSE 0
            /\ \A i \in 1 .. Len(r) - 2 + 1 : SubSeq(r, 2, Len(r))[i] = r[2 + i - 1]
        BY <4>1, SubSeqProperties
      <4>3. \A i \in 1 .. Len(r) - 1 : i \in 1 .. Len(r) - 2 + 1 /\ 2 + i - 1 = i + 1
        BY <3>1
      <4>4. Len(log') = Len(r) - 1
        BY <1>0, <3>1, <4>2
      <4>5. QED
        BY <3>1, <4>2, <4>3, <4>4
    <3>3. \A i \in 1 .. Len(log') : i + 1 \in 1 .. Len(r) /\ log'[i] = r[i + 1]
      BY <3>1, <3>2
    <3>4. \A i \in 1 .. Len(log') : After(log', i) \subseteq After(r, i + 1)
      <4>1. SUFFICES ASSUME NEW i \in 1 .. Len(log'), NEW j \in i + 1 .. Len(log')
                     PROVE  log'[j] \in After(r, i + 1)
        BY DEF After
      <4>2. j + 1 \in (i + 1) + 1 .. Len(r) /\ log'[j] = r[j + 1]
        BY <3>1, <3>2
      <4>3. QED
        BY <4>2 DEF After
    <3>5. Entries(log') = After(r, 1)
      <4>1. \A j \in 1 + 1 .. Len(r) : j - 1 \in 1 .. Len(log') /\ r[j] = log'[j - 1]
        BY <3>1, <3>2
      <4>2. \A i \in 1 .. Len(log') : i + 1 \in 1 + 1 .. Len(r) /\ log'[i] = r[i + 1]
        BY <3>1, <3>2
      <4>3. QED
        BY <4>1, <4>2 DEF Entries, After
    <3>6. Entries(r) = {r[1]} \cup After(r, 1)
      <4>1. 1 \in 1 .. Len(r)
        BY <1>0, <3>1
      <4>2. \A i \in 1 .. Len(r) : i = 1 \/ i \in 1 + 1 .. Len(r)
        BY <3>1
      <4>3. \A i \in 1 + 1 .. Len(r) : i \in 1 .. Len(r)
        BY <3>1
      <4>4. QED
        BY <4>1, <4>2, <4>3 DEF Entries, After
    <3>7. QED
      BY <3>3, <3>4, <3>5, <3>6
  <2>2. CASE ~(Len(r) > Keep)
    BY <1>2, <2>2 DEF Trimmed
  <2>3. QED
    BY <2>1, <2>2
<1>6. ASSUME NEW i \in 1 .. Len(log')
      PROVE  Few({m \in After(log', i) \cup Late' : m < log'[i]})
  <2>1. PICK k \in 1 .. Len(r) : log'[i] = r[k] /\ After(log', i) \subseteq After(r, k)
    BY <1>5
  <2>2. {m \in After(log', i) \cup Late' : m < log'[i]} \subseteq {m \in After(r, k) \cup Late' : m < r[k]}
    BY <2>1
  <2>3. QED
    BY <1>4, <2>2, FewSmaller
<1>7. ASSUME NEW d \in dropped'
      PROVE  Few({m \in Entries(log') \cup Late' : m < d})
  <2>1. CASE d \in dropped
    <3>1. Entries(r) \subseteq Entries(log) \cup {n}
      BY <1>1 DEF Entries
    <3>2. {m \in Entries(log') \cup Late' : m < d} \subseteq {m \in Entries(log) \cup Late : m < d}
      BY <1>3, <1>5, <3>1
    <3>3. QED
      BY <2>1, <3>2, FewSmaller DEF FewOvertake
  <2>2. CASE d \in Entries(r) \ Entries(log')
    <3>1. d = r[1] /\ Entries(log') \subseteq After(r, 1)
      BY <1>5, <2>2
    <3>2. {m \in Entries(log') \cup Late' : m < d} \subseteq {m \in After(r, 1) \cup Late' : m < r[1]}
      BY <3>1
    <3>3. 1 \in 1 .. Len(r)
      BY <1>0, <1>1
    <3>4. QED
      BY <1>4, <3>2, <3>3, FewSmaller
  <2>3. QED
    BY <1>2, <2>1, <2>2
<1>8. QED
  BY <1>6, <1>7 DEF FewOvertake

\* A stamp drawn now is newer than every entry.
LEMMA StepOvertake == Sound /\ FewOvertake /\ [Next]_vars => FewOvertake'
<1> SUFFICES ASSUME Sound, FewOvertake, [Next]_vars PROVE FewOvertake'
  OBVIOUS
<1>0. /\ Stamps /\ clock \in Nat /\ stamp \in [Thread -> 0 .. clock]
      /\ log \in Seq(1 .. clock) /\ dropped \subseteq 1 .. clock
  BY DEF Sound, TypeOK, Stamps
<1>1. ASSUME UNCHANGED <<log, dropped>>, Late' \subseteq Late \cup {clock + 1}
      PROVE  FewOvertake'
  <2>1. ASSUME NEW S, NEW d \in 1 .. clock
        PROVE  {m \in S \cup Late' : m < d} \subseteq {m \in S \cup Late : m < d}
    BY <1>0, <1>1
  <2>2. ASSUME NEW i \in 1 .. Len(log)
        PROVE  Few({m \in After(log, i) \cup Late' : m < log[i]})
    <3>1. log[i] \in 1 .. clock
      BY <1>0, ElementOfSeq
    <3>2. Few({m \in After(log, i) \cup Late : m < log[i]})
      BY DEF FewOvertake
    <3>3. QED
      BY <2>1, <3>1, <3>2, FewSmaller
  <2>3. ASSUME NEW d \in dropped
        PROVE  Few({m \in Entries(log) \cup Late' : m < d})
    <3>1. Few({m \in Entries(log) \cup Late : m < d}) /\ d \in 1 .. clock
      BY <1>0 DEF FewOvertake
    <3>2. QED
      BY <2>1, <3>1, FewSmaller
  <2>4. After(log, 0)' = After(log, 0) /\ log' = log /\ dropped' = dropped
    BY <1>1 DEF After
  <2>5. QED
    BY <2>2, <2>3, <2>4 DEF FewOvertake, After, Entries
<1>2. ASSUME NEW t \in Thread, at[t] \in Drawn, LogStamp(stamp[t]), Use(t)
      PROVE  FewOvertake'
  <2>1. stamp[t] \in 1 .. clock
    BY <1>0, <1>2 DEF Stamps, Stamped
  <2>2. QED
    BY <1>0, <1>2, <2>1, StepInserted
<1>3. ASSUME NEW t \in Thread, Draw(t) PROVE FewOvertake'
  <2>1. Late' \subseteq Late \cup {clock + 1} /\ UNCHANGED <<log, dropped>>
    BY <1>0, <1>3 DEF Draw, Late
  <2>2. QED
    BY <1>1, <2>1
<1>4. ASSUME NEW w \in Worker, LogPage(w) PROVE FewOvertake'
  BY <1>2, <1>4, Threads DEF LogPage, Goto, Drawn
<1>5. ASSUME NEW l \in Logger, LogEvent(l) PROVE FewOvertake'
  BY <1>2, <1>5, Threads DEF LogEvent, Goto, Drawn
<1>6. ASSUME NEW w \in Worker, AppendResult(w) PROVE FewOvertake'
  <2>1. Late' \subseteq Late /\ UNCHANGED <<log, dropped>>
    BY <1>0, <1>6 DEF AppendResult, Use, Late
  <2>2. QED
    BY <1>1, <2>1
<1>7. CASE UNCHANGED <<stamp, log, dropped>>
  <2>1. Late' \subseteq Late
    BY <1>7 DEF Late
  <2>2. QED
    BY <1>1, <1>7, <2>1
<1>8. QED
  BY <1>3, <1>4, <1>5, <1>6, <1>7 DEF Next, vars, TakeOwn, Steal, Take, Refused, Requeue,
     PutBack, Blocked, Succeed, Announce

\* An entry that the log has let go is newer than one entry of each other
\* thread that it still shows, at most, for every number of threads, of
\* entries it keeps and of stamps.
THEOREM LogHolds == Spec => []FewNewerLost
<1>1. Init => FewOvertake
  BY DEF Init, FewOvertake
<1>2. FewOvertake => FewNewerLost
  <2> SUFFICES ASSUME FewOvertake, NEW d \in dropped
               PROVE  Few({n \in Entries(log) : n < d})
    BY DEF FewNewerLost, Few
  <2>1. {n \in Entries(log) : n < d} \subseteq {m \in Entries(log) \cup Late : m < d}
    OBVIOUS
  <2>2. QED
    BY <2>1, FewSmaller DEF FewOvertake
<1>3. QED
  BY <1>1, <1>2, InitSound, StepSound, StepOvertake, PTL DEF Spec
=============================================================================
