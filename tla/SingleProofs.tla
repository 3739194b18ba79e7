---------------------------- MODULE SingleProofs ----------------------------
(***************************************************************************)
(* Proofs about the single scraper: no URL is lost or repeated, none meets *)
(* more than one block, and every block follows a success of its own, for  *)
(* every pool of URLs and every order of the categories.                   *)
(***************************************************************************)
EXTENDS Single, Lemmas

-----------------------------------------------------------------------------
(* Type correctness.                                                       *)

\* A scan looks at positions of Order only.
LEMMA AtType ==
  ASSUME NEW k \in 0 .. Len(Order), turn \in 1 .. Len(Order)
  PROVE  At(k) \in 1 .. Len(Order) /\ Order[At(k)] \in Category
<1>1. Len(Order) \in Nat \ {0} /\ Order \in Seq(Category)
  BY SingleAssumption
<1>2. \A n \in Nat \ {0} : \A i \in Nat : 1 + (i % n) \in 1 .. n
  OBVIOUS
<1>3. turn - 1 + k \in Nat
  BY <1>1
<1>4. At(k) \in 1 .. Len(Order)
  BY <1>1, <1>2, <1>3 DEF At
<1>5. QED
  BY <1>1, <1>4

\* What a fetch does: it takes the first URL of a deque with work.
LEMMA FetchFacts ==
  ASSUME TypeOK, Fetch
  PROVE  \E c \in Category :
           /\ queue[c] \in Seq(Url) /\ queue[c] # <<>>
           /\ hand' = Head(queue[c]) /\ hand' \in Url
           /\ queue' = [queue EXCEPT ![c] = Tail(queue[c])]
           /\ Tail(queue[c]) \in Seq(Url)
           /\ turn' \in 1 .. Len(Order)
           /\ status' = Says("scraping", c)
<1>1. PICK k \in 0 .. Rounds - 1 :
        LET c == Order[At(k)] IN
        /\ queue[c] # <<>>
        /\ turn' = At(k + 1)
        /\ hand' = Head(queue[c])
        /\ queue' = [queue EXCEPT ![c] = Tail(@)]
        /\ status' = Says("scraping", c)
  BY DEF Fetch, FoundAt, At, Rounds
<1>2. k \in 0 .. Len(Order) /\ k + 1 \in 0 .. Len(Order)
  BY SingleAssumption DEF Rounds
<1>3. PICK c \in Category : c = Order[At(k)]
  BY <1>2, AtType DEF TypeOK
<1>4. turn' \in 1 .. Len(Order)
  BY <1>1, <1>2, AtType DEF TypeOK
<1>5. queue[c] \in Seq(Url) /\ queue[c] # <<>>
  BY <1>1, <1>3 DEF TypeOK
<1>6. Head(queue[c]) \in Url /\ Tail(queue[c]) \in Seq(Url)
  BY <1>5, PopLeft
<1>7. QED
  BY <1>1, <1>3, <1>4, <1>5, <1>6

LEMMA InitType == Init => TypeOK
<1> SUFFICES ASSUME Init PROVE TypeOK
  OBVIOUS
<1>1. queue \in [Category -> Seq(Url)] /\ turn \in 1 .. Len(Order)
  BY SingleAssumption DEF Init
<1>2. status \in Statuses
  BY DEF Init, Statuses, Says
<1>3. QED
  BY <1>1, <1>2, SingleAssumption DEF Init, TypeOK

LEMMA StepType == TypeOK /\ [Next]_vars => TypeOK'
<1> SUFFICES ASSUME TypeOK, [Next]_vars PROVE TypeOK'
  OBVIOUS
<1>0. None \notin Url
  BY SingleAssumption
<1>1. CASE Fetch
  <2>1. PICK c \in Category :
          /\ hand' \in Url /\ turn' \in 1 .. Len(Order)
          /\ queue' = [queue EXCEPT ![c] = Tail(queue[c])] /\ Tail(queue[c]) \in Seq(Url)
          /\ status' = Says("scraping", c)
    BY <1>1, FetchFacts
  <2>2. queue' \in [Category -> Seq(Url)]
    BY <2>1 DEF TypeOK
  <2>3. status' \in Statuses
    BY <2>1 DEF Statuses, Says
  <2>4. /\ pc' = "fetch"
        /\ UNCHANGED <<warm, scraped, done, blocks, running, refused>>
    BY <1>1 DEF Fetch
  <2>5. QED
    BY <1>0, <2>1, <2>2, <2>3, <2>4 DEF TypeOK
<1>2. CASE RunDry
  <2>1. status' \in Statuses
    BY <1>2 DEF RunDry, Statuses, Says
  <2>2. QED
    BY <1>2, <2>1 DEF RunDry, TypeOK
<1>3. CASE Block
  <2>1. hand \in Url /\ CatOf[hand] \in Category /\ queue[CatOf[hand]] \in Seq(Url)
    BY <1>0, <1>3, SingleAssumption DEF Block, TypeOK
  <2>2. <<hand>> \o queue[CatOf[hand]] \in Seq(Url)
    BY <2>1, PushLeft
  <2>3. queue' \in [Category -> Seq(Url)]
    BY <1>3, <2>2 DEF Block, TypeOK
  <2>4. status' \in Statuses
    BY <1>3, <2>1 DEF Block, Statuses, Says
  <2>5. refused' \in [Url -> Nat]
    <3>1. refused[hand] + 1 \in Nat
      BY <2>1 DEF TypeOK
    <3>2. QED
      BY <1>3, <3>1 DEF Block, TypeOK
  <2>6. /\ hand' = None /\ pc' = "top" /\ blocks' \in Nat /\ warm' \subseteq Domain
        /\ UNCHANGED <<turn, scraped, done, running>>
    BY <1>3 DEF Block, TypeOK
  <2>7. QED
    BY <2>3, <2>4, <2>5, <2>6 DEF TypeOK
<1>4. CASE Succeed
  <2>1. hand \in Url /\ DomainOf[hand] \in Domain
    BY <1>0, <1>4, SingleAssumption DEF Succeed, TypeOK
  <2>2. QED
    BY <1>4, <2>1 DEF Succeed, TypeOK
<1>5. CASE LeaveLoop
  BY <1>5 DEF LeaveLoop, TypeOK
<1>6. CASE Stop
  BY <1>6 DEF Stop, TypeOK
<1>7. CASE UNCHANGED vars
  BY <1>7 DEF vars, TypeOK
<1>8. QED
  BY <1>1, <1>2, <1>3, <1>4, <1>5, <1>6, <1>7 DEF Next

\* Every reachable state is well typed, and the thread has a URL in hand
\* exactly while it fetches.
THEOREM TypeCorrect == Spec => []TypeOK
<1>1. QED
  BY InitType, StepType, PTL DEF Spec

-----------------------------------------------------------------------------
(* Each URL is in one place.                                               *)

\* Steps that move no URL.
Still == queue' = queue /\ hand' = hand /\ done' = done

LEMMA StepKinds ==
  ASSUME [Next]_vars
  PROVE  Fetch \/ Block \/ Succeed \/ (Still /\ UNCHANGED <<warm, scraped, blocks, refused>>)
BY DEF Next, RunDry, LeaveLoop, Stop, vars, Still

LEMMA InitOnce == Init => EachOnce
<1> SUFFICES ASSUME Init PROVE EachOnce
  OBVIOUS
<1>1. \A c \in Category : IsInjective(queue[c]) /\ Range(queue[c]) = {u \in Url : CatOf[u] = c}
  BY SingleAssumption DEF Init
<1>2. hand = None /\ done = {} /\ None \notin Url
  BY SingleAssumption DEF Init
<1>3. QED
  BY <1>1, <1>2 DEF EachOnce

LEMMA StepOnce ==
  ASSUME TypeOK, EachOnce, [Next]_vars
  PROVE  EachOnce'
<1>0. queue \in [Category -> Seq(Url)] /\ None \notin Url /\ done \subseteq Url
  BY SingleAssumption DEF TypeOK
<1>1. CASE Fetch
  <2>1. PICK c \in Category :
          /\ queue[c] \in Seq(Url) /\ queue[c] # <<>>
          /\ hand' = Head(queue[c])
          /\ queue' = [queue EXCEPT ![c] = Tail(queue[c])]
    BY <1>1, FetchFacts
  <2>2. /\ Range(queue[c]) = {hand'} \cup Range(Tail(queue[c]))
        /\ hand' \notin Range(Tail(queue[c])) /\ IsInjective(Tail(queue[c]))
    BY <2>1, PopLeft DEF EachOnce
  <2>3. done' = done
    BY <1>1 DEF Fetch
  <2>4. \A d \in Category : queue'[d] = IF d = c THEN Tail(queue[c]) ELSE queue[d]
    BY <1>0, <2>1
  <2>5. hand' \in Range(queue[c]) /\ hand' \notin done'
    BY <2>2, <2>3 DEF EachOnce
  <2>6. ASSUME NEW d \in Category
        PROVE  /\ IsInjective(queue'[d])
               /\ \A u \in Range(queue'[d]) : CatOf[u] = d /\ u # hand' /\ u \notin done'
    <3>1. CASE d = c
      BY <2>2, <2>3, <2>4, <3>1 DEF EachOnce
    <3>2. CASE d # c
      BY <2>3, <2>4, <2>5, <3>2 DEF EachOnce
    <3>3. QED
      BY <3>1, <3>2
  <2>7. QED
    BY <2>5, <2>6 DEF EachOnce
<1>2. CASE Block
  <2> DEFINE c == CatOf[hand]
  <2>1. hand \in Url /\ c \in Category /\ queue[c] \in Seq(Url)
    BY <1>0, <1>2, SingleAssumption DEF Block, TypeOK
  <2>2. hand \notin Range(queue[c]) /\ IsInjective(queue[c])
    BY <2>1 DEF EachOnce
  <2>3. /\ Range(<<hand>> \o queue[c]) = {hand} \cup Range(queue[c])
        /\ IsInjective(<<hand>> \o queue[c])
    BY <2>1, <2>2, PushLeft
  <2>4. \A d \in Category : queue'[d] = IF d = c THEN <<hand>> \o queue[c] ELSE queue[d]
    BY <1>0, <1>2 DEF Block
  <2>5. hand' = None /\ done' = done
    BY <1>2 DEF Block
  <2>6. ASSUME NEW d \in Category
        PROVE  /\ IsInjective(queue'[d])
               /\ \A u \in Range(queue'[d]) : CatOf[u] = d /\ u # hand' /\ u \notin done'
    <3>1. \A u \in Range(queue[d]) : u \in Url
      BY <1>0, RangeEquality
    <3>2. CASE d = c
      BY <1>0, <2>1, <2>3, <2>4, <2>5, <3>1, <3>2 DEF EachOnce
    <3>3. CASE d # c
      BY <1>0, <2>4, <2>5, <3>1, <3>3 DEF EachOnce
    <3>4. QED
      BY <3>2, <3>3
  <2>7. QED
    BY <1>0, <2>5, <2>6 DEF EachOnce
<1>3. CASE Succeed
  <2>1. queue' = queue /\ hand' = None /\ done' = done \cup {hand}
    BY <1>3 DEF Succeed
  <2>2. \A d \in Category : \A u \in Range(queue[d]) : u \in Url
    BY <1>0, RangeEquality
  <2>3. hand \in Url
    BY <1>3 DEF Succeed, TypeOK
  <2>4. QED
    BY <1>0, <2>1, <2>2, <2>3 DEF EachOnce
<1>4. CASE Still
  BY <1>4 DEF Still, EachOnce
<1>5. QED
  BY <1>1, <1>2, <1>3, <1>4, StepKinds

\* Every URL waits in its category's deque once, is in hand, or is scraped.
THEOREM OncePlaced == Spec => []EachOnce
<1>1. QED
  BY InitOnce, StepOnce, TypeCorrect, PTL DEF Spec

-----------------------------------------------------------------------------
(* One block per URL.                                                      *)

LEMMA StepRefused ==
  ASSUME TypeOK, EachOnce, RefusedIsNext, [Next]_vars
  PROVE  RefusedIsNext'
<1>0. /\ queue \in [Category -> Seq(Url)] /\ refused \in [Url -> Nat] /\ None \notin Url
      /\ CatOf \in [Url -> Category]
  BY SingleAssumption DEF TypeOK
<1> SUFFICES ASSUME NEW v \in Url, refused'[v] > 0, v \notin done'
             PROVE  /\ DomainOf[v] \notin warm'
                    /\ \/ hand' = v
                       \/ /\ queue'[CatOf[v]] # <<>> /\ Head(queue'[CatOf[v]]) = v
                          /\ hand' # None => CatOf[hand'] # CatOf[v]
  BY DEF RefusedIsNext
<1>1. CASE Fetch
  <2>1. PICK c \in Category :
          /\ queue[c] \in Seq(Url) /\ queue[c] # <<>>
          /\ hand' = Head(queue[c])
          /\ queue' = [queue EXCEPT ![c] = Tail(queue[c])]
    BY <1>1, FetchFacts
  <2>2. hand = None /\ UNCHANGED <<warm, done, refused>>
    BY <1>1 DEF Fetch, TypeOK
  <2>3. /\ DomainOf[v] \notin warm
        /\ queue[CatOf[v]] # <<>> /\ Head(queue[CatOf[v]]) = v
    BY <1>0, <2>2 DEF RefusedIsNext
  <2>4. CatOf[hand'] = c
    <3>1. hand' \in Range(queue[c])
      BY <2>1, PopLeft
    <3>2. QED
      BY <3>1 DEF EachOnce
  <2>5. CASE CatOf[v] = c
    BY <2>1, <2>2, <2>3, <2>5
  <2>6. CASE CatOf[v] # c
    <3>1. queue'[CatOf[v]] = queue[CatOf[v]]
      BY <1>0, <2>1, <2>6
    <3>2. QED
      BY <2>2, <2>3, <2>4, <2>6, <3>1
  <2>7. QED
    BY <2>5, <2>6
<1>2. CASE Block
  <2> DEFINE c == CatOf[hand]
  <2>1. /\ hand \in Url /\ c \in Category /\ hand' = None /\ done' = done
        /\ warm' = warm \ {DomainOf[hand]}
        /\ queue' = [queue EXCEPT ![c] = <<hand>> \o queue[c]]
        /\ refused' = [refused EXCEPT ![hand] = refused[hand] + 1]
    BY <1>0, <1>2 DEF Block, TypeOK
  <2>2. CASE v = hand
    <3>1. queue'[c] = <<hand>> \o queue[c]
      BY <1>0, <2>1
    <3>2. <<hand>> \o queue[c] # <<>> /\ Head(<<hand>> \o queue[c]) = hand
      <4>1. queue[c] \in Seq(Url)
        BY <1>0, <2>1
      <4>2. QED
        BY <2>1, <4>1
    <3>3. QED
      BY <2>1, <2>2, <3>1, <3>2
  <2>3. CASE v # hand
    <3>1. refused'[v] = refused[v]
      BY <1>0, <2>1, <2>3
    <3>2. /\ DomainOf[v] \notin warm /\ CatOf[v] # c
          /\ queue[CatOf[v]] # <<>> /\ Head(queue[CatOf[v]]) = v
      BY <1>0, <2>1, <2>3, <3>1 DEF RefusedIsNext
    <3>3. queue'[CatOf[v]] = queue[CatOf[v]]
      BY <1>0, <2>1, <3>2
    <3>4. QED
      BY <2>1, <3>2, <3>3
  <2>4. QED
    BY <2>2, <2>3
<1>3. CASE Succeed
  <2>1. /\ hand \in Url /\ hand' = None /\ done' = done \cup {hand}
        /\ warm' = warm \cup {DomainOf[hand]} /\ UNCHANGED <<queue, refused>>
    BY <1>3 DEF Succeed, TypeOK
  <2>2. /\ DomainOf[v] \notin warm /\ CatOf[hand] # CatOf[v]
        /\ queue[CatOf[v]] # <<>> /\ Head(queue[CatOf[v]]) = v
    BY <1>0, <2>1 DEF RefusedIsNext
  <2>3. DomainOf[v] # DomainOf[hand]
    BY <2>1, <2>2, SingleAssumption
  <2>4. QED
    BY <2>1, <2>2, <2>3
<1>4. CASE Still /\ UNCHANGED <<warm, scraped, blocks, refused>>
  BY <1>4 DEF Still, RefusedIsNext
<1>5. QED
  BY <1>1, <1>2, <1>3, <1>4, StepKinds

\* Only a warm domain's URL can be blocked, so only one never blocked before.
LEMMA StepBlocked ==
  ASSUME TypeOK, EachOnce, RefusedIsNext, BlockedAtMostOnce, [Next]_vars
  PROVE  BlockedAtMostOnce'
<1>1. CASE Block
  <2>1. /\ hand \in Url /\ DomainOf[hand] \in warm
        /\ refused' = [refused EXCEPT ![hand] = refused[hand] + 1]
    BY <1>1, SingleAssumption DEF Block, TypeOK
  <2>2. refused \in [Url -> Nat]
    BY DEF TypeOK
  <2>3. refused[hand] = 0
    BY <2>1, <2>2 DEF EachOnce, RefusedIsNext
  <2>4. QED
    BY <2>1, <2>2, <2>3 DEF BlockedAtMostOnce
<1>2. CASE ~Block
  <2>1. refused' = refused
    BY <1>2, StepKinds DEF Fetch, Succeed
  <2>2. QED
    BY <2>1 DEF BlockedAtMostOnce
<1>3. QED
  BY <1>1, <1>2

\* A blocked URL is the next of its category, on a cold domain, until it has
\* been scraped.
THEOREM RetriesFirst == Spec => []RefusedIsNext
<1>1. Init => RefusedIsNext
  BY DEF Init, RefusedIsNext
<1>2. QED
  BY <1>1, StepRefused, TypeCorrect, OncePlaced, PTL DEF Spec

\* No URL is blocked twice, for every pool in which a domain belongs to one
\* category, as url_generator's do.
THEOREM OneBlockPerUrl == Spec => []BlockedAtMostOnce
<1>1. Init => RefusedIsNext /\ BlockedAtMostOnce
  BY DEF Init, RefusedIsNext, BlockedAtMostOnce
<1>2. QED
  BY <1>1, StepRefused, StepBlocked, TypeCorrect, OncePlaced, PTL DEF Spec

-----------------------------------------------------------------------------
(* Blocks are paid for.                                                    *)

\* There are finitely many warm domains: each was warmed by a URL.
WarmKnown == IsFiniteSet(warm)

LEMMA StepPaid ==
  ASSUME TypeOK, WarmKnown, BlocksPaidFor, [Next]_vars
  PROVE  WarmKnown' /\ BlocksPaidFor'
<1>0. blocks \in Nat /\ scraped \in Nat /\ Cardinality(warm) \in Nat
  BY FS_CardinalityType DEF TypeOK, WarmKnown
<1>1. CASE Block
  <2> DEFINE d == DomainOf[hand]
  <2>1. d \in warm /\ warm' = warm \ {d} /\ blocks' = blocks + 1 /\ scraped' = scraped
    BY <1>1 DEF Block
  <2>2. IsFiniteSet(warm \ {d}) /\ Cardinality(warm \ {d}) = Cardinality(warm) - 1
    BY <2>1, FS_RemoveElement DEF WarmKnown
  <2>3. QED
    BY <1>0, <2>1, <2>2 DEF WarmKnown, BlocksPaidFor
<1>2. CASE Succeed
  <2> DEFINE d == DomainOf[hand]
  <2>1. warm' = warm \cup {d} /\ blocks' = blocks /\ scraped' = scraped + 1
    BY <1>2 DEF Succeed
  <2>2. /\ IsFiniteSet(warm \cup {d})
        /\ Cardinality(warm \cup {d}) \in {Cardinality(warm), Cardinality(warm) + 1}
    BY FS_AddElement DEF WarmKnown
  <2>3. QED
    BY <1>0, <2>1, <2>2 DEF WarmKnown, BlocksPaidFor
<1>3. CASE ~Block /\ ~Succeed
  <2>1. UNCHANGED <<warm, scraped, blocks>>
    BY <1>3, StepKinds DEF Fetch
  <2>2. QED
    BY <2>1 DEF WarmKnown, BlocksPaidFor
<1>4. QED
  BY <1>1, <1>2, <1>3

\* There are never more blocks than scraped URLs, for every pool.
THEOREM BlocksPaid == Spec => []BlocksPaidFor
<1>1. Init => WarmKnown /\ BlocksPaidFor
  BY FS_EmptySet DEF Init, WarmKnown, BlocksPaidFor
<1>2. QED
  BY <1>1, StepPaid, TypeCorrect, PTL DEF Spec

-----------------------------------------------------------------------------
(* The single scraper implements the work pool.                            *)

LEMMA PoolMoves ==
  ASSUME TypeOK, EachOnce, [Next]_vars
  PROVE  [Pool!Next]_Pool!vars
<1> DEFINE pending == {u \in Url : \E c \in Category : u \in Range(queue[c])}
           held == [w \in {0} |-> hand]
<1>0. queue \in [Category -> Seq(Url)] /\ None \notin Url
  BY SingleAssumption DEF TypeOK
<1>1. CASE Fetch
  <2>1. PICK c \in Category :
          /\ queue[c] \in Seq(Url) /\ queue[c] # <<>>
          /\ hand' = Head(queue[c]) /\ hand' \in Url
          /\ queue' = [queue EXCEPT ![c] = Tail(queue[c])]
    BY <1>1, FetchFacts
  <2>2. hand = None /\ done' = done
    BY <1>1 DEF Fetch, TypeOK
  <2>3. PICK x \in Url : x = hand'
    BY <2>1
  <2>4. Range(queue[c]) = {x} \cup Range(Tail(queue[c])) /\ x \notin Range(Tail(queue[c]))
    BY <2>1, <2>3, PopLeft DEF EachOnce
  <2>5. \A d \in Category : Range(queue'[d]) = Range(queue[d]) \ {x}
    <3>1. \A d \in Category : queue'[d] = IF d = c THEN Tail(queue[c]) ELSE queue[d]
      BY <1>0, <2>1
    <3>2. \A d \in Category : d # c => x \notin Range(queue[d])
      BY <2>4 DEF EachOnce
    <3>3. QED
      BY <2>4, <3>1, <3>2
  <2>6. pending' = pending \ {x} /\ x \in pending
    BY <2>4, <2>5
  <2>7. held[0] = None /\ held' = [held EXCEPT ![0] = x]
    BY <2>2, <2>3
  <2>8. Pool!Take(0, x)
    BY <2>2, <2>6, <2>7 DEF Pool!Take
  <2>9. QED
    BY <2>8 DEF Pool!Next
<1>2. CASE Block
  <2> DEFINE c == CatOf[hand]
  <2>1. /\ hand \in Url /\ c \in Category /\ hand' = None /\ done' = done
        /\ queue' = [queue EXCEPT ![c] = <<hand>> \o queue[c]]
    BY <1>0, <1>2, SingleAssumption DEF Block, TypeOK
  <2>2. queue[c] \in Seq(Url)
    BY <1>0, <2>1
  <2>3. Range(<<hand>> \o queue[c]) = {hand} \cup Range(queue[c])
    BY <2>1, <2>2, PushLeft
  <2>4. \A d \in Category : queue'[d] = IF d = c THEN <<hand>> \o queue[c] ELSE queue[d]
    BY <1>0, <2>1
  <2>5. pending' = pending \cup {hand}
    BY <2>1, <2>3, <2>4
  <2>6. held[0] = hand /\ held' = [held EXCEPT ![0] = None]
    BY <2>1
  <2>7. Pool!GiveBack(0)
    BY <1>0, <2>1, <2>5, <2>6 DEF Pool!GiveBack
  <2>8. QED
    BY <2>7 DEF Pool!Next
<1>3. CASE Succeed
  <2>1. /\ hand \in Url /\ hand' = None /\ done' = done \cup {hand} /\ queue' = queue
    BY <1>0, <1>3 DEF Succeed, TypeOK
  <2>2. held[0] = hand /\ held' = [held EXCEPT ![0] = None] /\ pending' = pending
    BY <2>1
  <2>3. Pool!Finish(0)
    BY <1>0, <2>1, <2>2 DEF Pool!Finish
  <2>4. QED
    BY <2>3 DEF Pool!Next
<1>4. CASE Still
  BY <1>4 DEF Still, Pool!vars
<1>5. QED
  BY <1>1, <1>2, <1>3, <1>4, StepKinds

\* The single scraper implements the work pool that the fleet implements.
THEOREM Implements == Spec => ImplementsWorkPool
<1>1. Init => Pool!Init
  <2>1. ASSUME Init PROVE {u \in Url : \E c \in Category : u \in Range(queue[c])} = Url
    <3>1. \A u \in Url : u \in Range(queue[CatOf[u]]) /\ CatOf[u] \in Category
      BY <2>1, SingleAssumption DEF Init
    <3>2. QED
      BY <3>1
  <2>2. QED
    BY <2>1 DEF Init, Pool!Init
<1>2. QED
  BY <1>1, PoolMoves, TypeCorrect, OncePlaced, PTL DEF Spec, Pool!Spec, ImplementsWorkPool
-----------------------------------------------------------------------------
(* The round over the categories.                                          *)

\* The k-th position from turn on, once round and beginning again.
LEMMA AtIs ==
  ASSUME turn \in 1 .. Len(Order), NEW k \in 0 .. Len(Order)
  PROVE  At(k) = IF turn + k <= Len(Order) THEN turn + k ELSE turn + k - Len(Order)
<1> DEFINE n == Len(Order)
<1>1. n \in Nat \ {0} /\ turn \in 1 .. n /\ k \in 0 .. n
  BY SingleAssumption
<1>2. PICK a \in Int : a = turn - 1 + k /\ At(k) = 1 + (a % n)
  BY <1>1 DEF At
<1> HIDE DEF n
<1>3. a % n \in 0 .. n - 1 /\ \E q \in Int : a = n * q + (a % n)
  BY <1>1, <1>2, Division
<1>4. PICK q \in Int : a = n * q + (a % n)
  BY <1>3
<1>5. CASE turn + k <= n
  <2>1. a \in 0 .. n - 1 /\ n * q + (a % n) = n * 0 + a
    BY <1>1, <1>2, <1>4, <1>5
  <2>2. a % n = a
    BY <1>1, <1>3, <2>1, OneRemainder
  <2>3. QED
    BY <1>1, <1>2, <1>5, <2>2 DEF n
<1>6. CASE turn + k > n
  <2>1. a - n \in 0 .. n - 1 /\ n * q + (a % n) = n * 1 + (a - n)
    BY <1>1, <1>2, <1>4, <1>6
  <2>2. a % n = a - n
    BY <1>1, <1>3, <2>1, OneRemainder
  <2>3. QED
    BY <1>1, <1>2, <1>6, <2>2 DEF n
<1>7. QED
  BY <1>1, <1>5, <1>6 DEF n

\* A round looks at every category, and at each once.
LEMMA RoundSeesAll ==
  ASSUME turn \in 1 .. Len(Order)
  PROVE  /\ \A c \in Category : \E k \in 0 .. Rounds - 1 : Order[At(k)] = c
         /\ \A j, k \in 0 .. Rounds - 1 : Order[At(j)] = Order[At(k)] => j = k
<1> DEFINE n == Len(Order)
<1>1. /\ n \in Nat \ {0} /\ turn \in 1 .. n /\ Rounds = n /\ DOMAIN Order = 1 .. n
      /\ \A i, j \in 1 .. n : Order[i] = Order[j] => i = j
      /\ \A c \in Category : \E i \in 1 .. n : Order[i] = c
  BY SingleAssumption DEF Rounds, IsInjective, Range
<1>2. \A k \in 0 .. n - 1 : At(k) = IF turn + k <= n THEN turn + k ELSE turn + k - n
  BY <1>1, AtIs
<1> HIDE DEF n
<1>3. ASSUME NEW c \in Category PROVE \E k \in 0 .. Rounds - 1 : Order[At(k)] = c
  <2>1. PICK i \in 1 .. n : Order[i] = c
    BY <1>1
  <2> DEFINE k == IF i >= turn THEN i - turn ELSE i - turn + n
  <2>2. k \in 0 .. n - 1 /\ (IF turn + k <= n THEN turn + k ELSE turn + k - n) = i
    BY <1>1
  <2>3. At(k) = i
    BY <1>2, <2>2
  <2>4. QED
    BY <1>1, <2>1, <2>2, <2>3
<1>4. ASSUME NEW j \in 0 .. Rounds - 1, NEW k \in 0 .. Rounds - 1, Order[At(j)] = Order[At(k)]
      PROVE  j = k
  <2>1. j \in 0 .. n - 1 /\ k \in 0 .. n - 1
    BY <1>1
  <2>2. At(j) \in 1 .. n /\ At(k) \in 1 .. n
    BY <1>1, <1>2, <2>1
  <2>3. At(j) = At(k)
    BY <1>1, <1>4, <2>2
  <2>4. QED
    BY <1>1, <1>2, <2>1, <2>3
<1>5. QED
  BY <1>3, <1>4

\* The category that the last look of the next round is at.
LastSeen == Order[At(Rounds - 1)]

\* A fetch moves the turn past the category it takes from.
LEMMA FetchMovesOn ==
  ASSUME TypeOK, Fetch
  PROVE  \E k \in 0 .. Rounds - 1 :
           /\ FoundAt(k) /\ Order[At(k)] = LastSeen' /\ Order[At(k)] \in Category
           /\ hand' = Head(queue[Order[At(k)]]) /\ queue[Order[At(k)]] # <<>>
           /\ status'.what = "scraping" /\ pc' = "fetch"
<1> DEFINE n == Len(Order)
<1>1. n \in Nat \ {0} /\ turn \in 1 .. n /\ Rounds = n
  BY SingleAssumption DEF Rounds, TypeOK
<1>2. PICK k \in 0 .. n - 1 :
        /\ FoundAt(k) /\ turn' = At(k + 1) /\ hand' = Head(queue[Order[At(k)]])
        /\ status'.what = "scraping" /\ pc' = "fetch"
  BY <1>1 DEF Fetch, Says
<1>3. At(k) \in 1 .. n /\ Order[At(k)] \in Category
  BY <1>1, AtType
<1>4. /\ At(k) = IF turn + k <= n THEN turn + k ELSE turn + k - n
      /\ turn' = IF turn + (k + 1) <= n THEN turn + (k + 1) ELSE turn + (k + 1) - n
  BY <1>1, <1>2, AtIs
<1>5. turn' \in 1 .. n
  BY <1>1, <1>4
<1>6. At(n - 1)' = IF turn' + (n - 1) <= n THEN turn' + (n - 1) ELSE turn' + (n - 1) - n
  <2>1. ASSUME NEW t \in 1 .. n
        PROVE  1 + ((t - 1 + (n - 1)) % n) = IF t + (n - 1) <= n THEN t + (n - 1) ELSE t + (n - 1) - n
    <3>1. CASE t = 1
      <4>1. PICK a \in Int : a = t - 1 + (n - 1) /\ a = n - 1
        BY <1>1, <3>1
      <4>2. a % n \in 0 .. n - 1 /\ \E q \in Int : a = n * q + (a % n)
        BY <1>1, <4>1, Division
      <4>3. PICK q \in Int : a = n * q + (a % n)
        BY <4>2
      <4>4. a \in 0 .. n - 1 /\ n * q + (a % n) = n * 0 + a
        BY <1>1, <4>1, <4>3
      <4>5. a % n = a
        BY <1>1, <4>2, <4>4, OneRemainder
      <4>6. QED
        BY <1>1, <3>1, <4>1, <4>5
    <3>2. CASE t # 1
      <4>1. PICK a \in Int : a = t - 1 + (n - 1) /\ t - 2 \in 0 .. n - 1 /\ a = n * 1 + (t - 2)
        BY <1>1, <3>2
      <4>2. a % n \in 0 .. n - 1 /\ \E q \in Int : a = n * q + (a % n)
        BY <1>1, <4>1, Division
      <4>3. a % n = t - 2
        BY <1>1, <4>1, <4>2, OneRemainder
      <4>4. QED
        BY <1>1, <3>2, <4>1, <4>3
    <3>3. QED
      BY <3>1, <3>2
  <2>2. QED
    BY <1>5, <2>1 DEF At
<1>7. At(k) = At(n - 1)'
  BY <1>1, <1>3, <1>4, <1>6
<1>8. QED
  BY <1>1, <1>2, <1>3, <1>7 DEF LastSeen, FoundAt, Rounds

\* What has just been taken from, or blocked, comes last in the next round.
Moved ==
  /\ pc = "fetch" => CatOf[hand] = LastSeen /\ status.what = "scraping"
  /\ status.what = "blocked" => status.cat = LastSeen

LEMMA StepMoved ==
  ASSUME TypeOK, EachOnce, Moved, [Next]_vars
  PROVE  Moved'
<1>1. CASE Fetch
  <2>1. PICK k \in 0 .. Rounds - 1 :
          /\ FoundAt(k) /\ Order[At(k)] = LastSeen' /\ Order[At(k)] \in Category
          /\ hand' = Head(queue[Order[At(k)]]) /\ queue[Order[At(k)]] # <<>>
          /\ status'.what = "scraping" /\ pc' = "fetch"
    BY <1>1, FetchMovesOn
  <2>2. queue[Order[At(k)]] \in Seq(Url)
    BY <2>1 DEF TypeOK
  <2>3. hand' \in Range(queue[Order[At(k)]])
    BY <2>1, <2>2, PopLeft
  <2>4. CatOf[hand'] = Order[At(k)]
    BY <2>1, <2>3 DEF EachOnce
  <2>5. QED
    BY <2>1, <2>4 DEF Moved
<1>2. CASE ~Fetch
  <2>1. turn' = turn /\ LastSeen' = LastSeen
    BY <1>2 DEF Next, RunDry, Block, Succeed, LeaveLoop, Stop, vars, LastSeen, At, Rounds
  <2>2. /\ pc' = "fetch" => pc = "fetch" /\ hand' = hand /\ status' = status
        /\ status' = status \/ status'.what = "done"
             \/ (pc = "fetch" /\ status' = Says("blocked", CatOf[hand]))
    BY <1>2 DEF Next, RunDry, Block, Succeed, LeaveLoop, Stop, vars, Says
  <2>3. QED
    BY <2>1, <2>2 DEF Moved, Says
<1>3. QED
  BY <1>1, <1>2

\* After a block the next fetch is from another category, unless none other
\* has work.
THEOREM SwitchHolds == Spec => SwitchesAfterBlock
<1> DEFINE Switch == \A c \in Category :
                       /\ status = Says("blocked", c)
                       /\ pc' = "fetch"
                       /\ \E d \in Category \ {c} : queue[d] # <<>>
                       => CatOf[hand'] # c
<1>1. Init => Moved
  BY DEF Init, Moved, Says
<1>2. TypeOK /\ EachOnce /\ Moved /\ [Next]_vars => [Switch]_vars
  <2> SUFFICES ASSUME TypeOK, EachOnce, Moved, Next, NEW c \in Category,
                      status = Says("blocked", c), pc' = "fetch",
                      NEW d \in Category \ {c}, queue[d] # <<>>,
                      CatOf[hand'] = c, vars' # vars
               PROVE  FALSE
    BY DEF Switch
  <2>1. c = LastSeen
    BY DEF Moved, Says
  <2>2. CASE Fetch
    <3>1. PICK k \in 0 .. Rounds - 1 :
            /\ FoundAt(k) /\ Order[At(k)] \in Category
            /\ hand' = Head(queue[Order[At(k)]]) /\ queue[Order[At(k)]] # <<>>
      BY <2>2, FetchMovesOn
    <3>2. queue[Order[At(k)]] \in Seq(Url)
      BY <3>1 DEF TypeOK
    <3>3. CatOf[hand'] = Order[At(k)]
      BY <3>1, <3>2, PopLeft DEF EachOnce
    <3>4. Rounds \in Nat \ {0} /\ Rounds - 1 \in 0 .. Rounds - 1
      BY SingleAssumption DEF Rounds
    <3>5. turn \in 1 .. Len(Order)
      BY DEF TypeOK
    <3>6. k = Rounds - 1
      BY <2>1, <3>3, <3>4, <3>5, RoundSeesAll DEF LastSeen
    <3>7. PICK j \in 0 .. Rounds - 1 : Order[At(j)] = d
      BY <3>5, RoundSeesAll
    <3>8. j # Rounds - 1
      BY <2>1, <3>7 DEF LastSeen
    <3>9. j \in 0 .. k - 1
      BY <3>4, <3>6, <3>8
    <3>10. QED
      BY <3>1, <3>7, <3>9 DEF FoundAt
  <2>3. CASE ~Fetch
    <3>1. pc = "fetch"
      BY <2>3 DEF Next, RunDry, Block, Succeed, LeaveLoop, Stop
    <3>2. QED
      BY <3>1 DEF Moved, Says
  <2>4. QED
    BY <2>2, <2>3
<1>3. QED
  BY <1>1, <1>2, StepMoved, TypeCorrect, OncePlaced, PTL DEF Spec, SwitchesAfterBlock
-----------------------------------------------------------------------------
(* "done" means all.                                                       *)

\* No URL is lost, each success counts once, and after "done" nothing waits.
Accounted ==
  /\ \A u \in Url : u \in done \/ u = hand \/ u \in Range(queue[CatOf[u]])
  /\ scraped = Cardinality(done)
  /\ status.what = "done" => pc = "ended" /\ \A c \in Category : queue[c] = <<>>

LEMMA InitAccounted == Init => Accounted
<1> SUFFICES ASSUME Init PROVE Accounted
  OBVIOUS
<1>1. \A u \in Url : CatOf[u] \in Category /\ u \in Range(queue[CatOf[u]])
  BY SingleAssumption DEF Init
<1>2. scraped = Cardinality(done)
  BY FS_EmptySet DEF Init
<1>3. QED
  BY <1>1, <1>2 DEF Init, Accounted, Says

\* A round that finds nothing has seen every deque.
LEMMA StepAccounted ==
  ASSUME TypeOK, EachOnce, Accounted, [Next]_vars
  PROVE  Accounted'
<1>0. /\ queue \in [Category -> Seq(Url)] /\ None \notin Url
      /\ CatOf \in [Url -> Category] /\ done \subseteq Url /\ IsFiniteSet(done)
      /\ turn \in 1 .. Len(Order)
  BY SingleAssumption, FS_Subset DEF TypeOK
<1>1. CASE Fetch
  <2>1. PICK c \in Category :
          /\ queue[c] \in Seq(Url) /\ queue[c] # <<>>
          /\ hand' = Head(queue[c])
          /\ queue' = [queue EXCEPT ![c] = Tail(queue[c])]
          /\ status' = Says("scraping", c)
    BY <1>1, FetchFacts
  <2>2. Range(queue[c]) = {hand'} \cup Range(Tail(queue[c]))
    BY <2>1, PopLeft
  <2>3. \A d \in Category : queue'[d] = IF d = c THEN Tail(queue[c]) ELSE queue[d]
    BY <1>0, <2>1
  <2>4. hand = None /\ UNCHANGED <<done, scraped>>
    BY <1>1 DEF Fetch, TypeOK
  <2>5. ASSUME NEW u \in Url
        PROVE  u \in done' \/ u = hand' \/ u \in Range(queue'[CatOf[u]])
    <3>1. u \in done \/ u \in Range(queue[CatOf[u]])
      BY <1>0, <2>4 DEF Accounted
    <3>2. QED
      BY <1>0, <2>2, <2>3, <2>4, <3>1
  <2>6. QED
    BY <2>1, <2>4, <2>5 DEF Accounted, Says
<1>2. CASE Block
  <2> DEFINE c == CatOf[hand]
  <2>1. hand \in Url /\ c \in Category /\ queue[c] \in Seq(Url)
    BY <1>0, <1>2 DEF Block, TypeOK
  <2>2. Range(<<hand>> \o queue[c]) = {hand} \cup Range(queue[c])
    BY <2>1, PushLeft
  <2>3. \A d \in Category : queue'[d] = IF d = c THEN <<hand>> \o queue[c] ELSE queue[d]
    BY <1>0, <1>2 DEF Block
  <2>4. UNCHANGED <<done, scraped>> /\ status'.what = "blocked"
    BY <1>2 DEF Block, Says
  <2>5. ASSUME NEW u \in Url
        PROVE  u \in done' \/ u = hand' \/ u \in Range(queue'[CatOf[u]])
    BY <1>0, <2>2, <2>3, <2>4 DEF Accounted
  <2>6. QED
    BY <2>4, <2>5 DEF Accounted
<1>3. CASE Succeed
  <2>1. /\ done' = done \cup {hand} /\ scraped' = scraped + 1
        /\ UNCHANGED <<queue, status>> /\ pc = "fetch"
    BY <1>3 DEF Succeed
  <2>2. Cardinality(done') = Cardinality(done) + 1
    BY <1>0, <2>1, FS_AddElement DEF EachOnce
  <2>3. QED
    BY <2>1, <2>2 DEF Accounted
<1>4. CASE RunDry
  <2>1. \A k \in 0 .. Rounds - 1 : queue[Order[At(k)]] = <<>>
    BY <1>4 DEF RunDry
  <2>2. \A c \in Category : queue[c] = <<>>
    BY <1>0, <2>1, RoundSeesAll
  <2>3. pc' = "ended" /\ UNCHANGED <<queue, hand, scraped, done>>
    BY <1>4 DEF RunDry
  <2>4. QED
    BY <2>2, <2>3 DEF Accounted
<1>5. CASE LeaveLoop \/ Stop \/ UNCHANGED vars
  <2>1. UNCHANGED <<queue, hand, scraped, done, status>> /\ (pc = "ended" => pc' = "ended")
    BY <1>5 DEF LeaveLoop, Stop, vars
  <2>2. QED
    BY <2>1 DEF Accounted
<1>6. QED
  BY <1>1, <1>2, <1>3, <1>4, <1>5 DEF Next

\* "done" is reported only when every URL has been scraped and counted, for
\* every pool and order of the categories.
THEOREM DoneHolds == Spec => []DoneMeansAll
<1>1. TypeOK /\ Accounted => DoneMeansAll
  <2> SUFFICES ASSUME TypeOK, Accounted, status.what = "done"
               PROVE  done = Url /\ scraped = Cardinality(Url)
    BY DEF DoneMeansAll
  <2>1. hand = None /\ None \notin Url /\ done \subseteq Url
    BY SingleAssumption DEF Accounted, TypeOK
  <2>2. \A u \in Url : CatOf[u] \in Category /\ Range(queue[CatOf[u]]) = {}
    BY SingleAssumption DEF Accounted, Range
  <2>3. done = Url
    BY <2>1, <2>2 DEF Accounted
  <2>4. QED
    BY <2>3 DEF Accounted
<1>2. QED
  BY <1>1, InitAccounted, StepAccounted, TypeCorrect, OncePlaced, PTL DEF Spec
=============================================================================
