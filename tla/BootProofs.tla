----------------------------- MODULE BootProofs -----------------------------
(***************************************************************************)
(* Proofs about the constructor: what the Bloom filter pass lets through   *)
(* and what it drops, the deques it fills, and the hash ring, for every    *)
(* pool, order and hash function.                                          *)
(***************************************************************************)
EXTENDS Boot, Lemmas, WellFoundedInduction

USE DEF poolVars, bloomVars, ringVars, dealVars

-----------------------------------------------------------------------------
(* The hash ring.                                                          *)

\* More entries take keys only for themselves.
LEMMA JoiningMovesNoOther ==
  ASSUME NEW old, NEW new, old \subseteq new, new \subseteq Entry,
         NEW p \in Position, NEW e \in old, Owns(new, p, e)
  PROVE  Owns(old, p, e)
<1> DEFINE After(r) == {f \in r : f.pos >= p}
<1>1. CASE After(old) # {}
  <2>1. After(new) # {} /\ After(old) \subseteq After(new)
    BY <1>1
  <2>2. e \in After(old) /\ \A f \in After(old) : AtOrBefore(e, f)
    BY <2>1 DEF Owns, Candidates
  <2>3. QED
    BY <1>1, <2>2 DEF Owns, Candidates
<1>2. CASE After(old) = {}
  <2>1. After(new) = {}
    BY <1>2 DEF Owns, Candidates
  <2>2. \A f \in old : AtOrBefore(e, f)
    BY <2>1 DEF Owns, Candidates
  <2>3. QED
    BY <1>2, <2>2 DEF Owns, Candidates
<1>3. QED
  BY <1>1, <1>2

LEMMA LeastNatural ==
  ASSUME NEW S \in SUBSET Nat, S # {}
  PROVE  \E x \in S : \A y \in S : x <= y
<1> DEFINE Less == OpToRel(<, Nat)
<1>1. IsWellFoundedOn(Less, Nat)
  BY NatLessThanWellFounded
<1>2. \A y, z \in Nat : y < z => <<y, z>> \in Less
  BY DEF OpToRel
<1> HIDE DEF Less
<1>3. PICK x \in S : \A y \in S : ~(<<y, x>> \in Less)
  BY <1>1, WFMin, Zenon
<1>4. \A y \in S : ~(y < x)
  BY <1>2, <1>3, Zenon
<1>5. \A y \in S : x <= y
  BY <1>4
<1>6. QED
  BY <1>5

\* The order of the sorted list is total, so some entry comes first.
LEMMA FirstEntry ==
  ASSUME NEW c \in SUBSET Entry, c # {}
  PROVE  \E e \in c : \A f \in c : AtOrBefore(e, f)
<1> USE HashRingAssumption
<1>1. \A f \in c : f.pos \in Nat /\ f.node \in Nat
  BY DEF Entry
<1>2. PICK q \in {f.pos : f \in c} : \A x \in {f.pos : f \in c} : q <= x
  <2>1. {f.pos : f \in c} # {} /\ {f.pos : f \in c} \subseteq Nat
    BY <1>1
  <2>2. QED
    BY <2>1, LeastNatural
<1> DEFINE here == {f \in c : f.pos = q}
<1>3. PICK n \in {f.node : f \in here} : \A x \in {f.node : f \in here} : n <= x
  <2>1. {f.node : f \in here} # {} /\ {f.node : f \in here} \subseteq Nat
    BY <1>1, <1>2
  <2>2. QED
    BY <2>1, LeastNatural
<1>4. PICK e \in c : e.pos = q /\ e.node = n
  BY <1>3
<1>5. ASSUME NEW f \in c PROVE AtOrBefore(e, f)
  <2>1. q <= f.pos /\ q \in Nat /\ f.pos \in Nat
    BY <1>1, <1>2
  <2>2. f.pos = q => n <= f.node
    BY <1>3
  <2>3. QED
    BY <1>4, <2>1, <2>2 DEF AtOrBefore
<1>6. QED
  BY <1>5

LEMMA SameEntry ==
  ASSUME NEW e \in Entry, NEW f \in Entry, AtOrBefore(e, f), AtOrBefore(f, e)
  PROVE  e = f
<1>1. /\ e \in [pos : Position, node : RingNode] /\ f \in [pos : Position, node : RingNode]
      /\ e.pos \in Nat /\ f.pos \in Nat /\ e.node \in Nat /\ f.node \in Nat
  BY HashRingAssumption DEF Entry
<1>2. e.pos = f.pos /\ e.node = f.node
  BY <1>1 DEF AtOrBefore
<1>3. QED
  BY <1>1, <1>2

\* On a ring with entries get_node finds one for every key, also past the last
\* position, and only one, even where copies share a position (bisect.insort
\* orders them by name).
THEOREM OneOwner ==
  ASSUME NEW r \in SUBSET Entry, r # {}, NEW p \in Position
  PROVE  \E e \in r : \A f : Owns(r, p, f) <=> f = e
<1>1. Candidates(r, p) # {} /\ Candidates(r, p) \subseteq r
  BY DEF Candidates
<1>2. PICK e \in Candidates(r, p) : \A f \in Candidates(r, p) : AtOrBefore(e, f)
  BY <1>1, FirstEntry
<1>3. Owns(r, p, e)
  BY <1>2 DEF Owns
<1>4. ASSUME NEW f, Owns(r, p, f) PROVE f = e
  BY <1>1, <1>2, <1>4, SameEntry DEF Owns
<1>5. QED
  BY <1>1, <1>2, <1>3, <1>4

\* remove_node: the keys of the other nodes stay where they are.
THEOREM LeavingMovesOnlyItsKeys ==
  ASSUME NEW r \in SUBSET Entry, NEW n \in RingNode, NEW p \in Position,
         NEW e \in r, Owns(r, p, e), e.node # n
  PROVE  Owns(WithoutNode(r, n), p, e)
<1> DEFINE After(s) == {f \in s : f.pos >= p}
           left == WithoutNode(r, n)
<1>1. left \subseteq r /\ e \in left
  BY DEF WithoutNode
<1> HIDE DEF left
<1>2. CASE After(r) # {}
  <2>1. e \in After(r) /\ \A f \in After(r) : AtOrBefore(e, f)
    BY <1>2 DEF Owns, Candidates
  <2>2. e \in After(left) /\ After(left) \subseteq After(r)
    BY <1>1, <2>1
  <2>3. QED
    BY <2>1, <2>2 DEF Owns, Candidates, left
<1>3. CASE After(r) = {}
  <2>1. \A f \in r : AtOrBefore(e, f)
    BY <1>3 DEF Owns, Candidates
  <2>2. After(left) = {}
    BY <1>1, <1>3
  <2>3. QED
    BY <1>1, <2>1, <2>2 DEF Owns, Candidates, left
<1>4. QED
  BY <1>2, <1>3

-----------------------------------------------------------------------------
(* Type correctness.                                                       *)

LEMMA MakesUrl ==
  ASSUME NEW d \in Domain, NEW i \in 0 .. Target + Shift
  PROVE  MakeUrl(d, i) \in Url
  BY DEF Url

LEMMA UrlDomain == \A u \in Url : u.domain \in Domain
<1> SUFFICES ASSUME NEW d \in Domain, NEW i \in 0 .. Target + Shift
             PROVE  MakeUrl(d, i).domain \in Domain
  BY DEF Url
<1>1. MakeUrl(d, i).domain = d
  BY DEF MakeUrl
<1>2. QED
  BY <1>1

\* The loop over the domains stays among them.
LEMMA DomainOfIndex ==
  ASSUME NEW n \in Nat, n < Cardinality(Domain) * PerDomain
  PROVE  (n \div PerDomain) + 1 \in Domain
<1> DEFINE m == Cardinality(Domain)
           k == n \div PerDomain
<1>1. m \in Nat /\ PerDomain \in Nat /\ Domain = 1 .. m
  BY BootAssumption, FS_CardinalityType
<1>2. PerDomain > 0
  BY <1>1
<1>3. k \in Nat /\ PerDomain * k <= n
  BY <1>1, <1>2
<1> HIDE DEF m, k
<1>4. k < m
  <2>1. ASSUME k >= m PROVE FALSE
    <3>1. PICK x \in Nat : k = m + x
      <4>1. k - m \in Nat /\ k = m + (k - m)
        BY <1>1, <1>3, <2>1
      <4>2. QED
        BY <4>1
    <3>2. PerDomain * k = m * PerDomain + PerDomain * x /\ PerDomain * x >= 0
      BY <1>1, <3>1
    <3>3. n < m * PerDomain
      BY DEF m
    <3>4. QED
      BY <1>1, <1>3, <3>2, <3>3
  <2>2. QED
    BY <1>1, <1>3, <2>1
<1>5. QED
  BY <1>1, <1>3, <1>4 DEF k

LEMMA TimesFacts ==
  ASSUME NEW S, NEW s, NEW n \in Nat, s \in [1 .. n -> S], NEW u
  PROVE  /\ Times(u, s) \in Nat
         /\ u \in Range(s) => Times(u, s) > 0
<1> DEFINE at == {i \in DOMAIN s : s[i] = u}
<1>1. IsFiniteSet(1 .. n) /\ DOMAIN s = 1 .. n
  BY FS_Interval
<1>2. IsFiniteSet(at)
  BY <1>1, FS_Subset
<1>3. Cardinality(at) \in Nat
  BY <1>2, FS_CardinalityType
<1>4. u \in Range(s) => at # {}
  BY DEF Range
<1>5. Cardinality(at) = 0 <=> at = {}
  BY <1>2, FS_EmptySet
<1>6. QED
  BY <1>3, <1>4, <1>5 DEF Times

LEMMA StepType == TypeOK /\ [Next]_vars => TypeOK'
<1> SUFFICES ASSUME TypeOK, [Next]_vars PROVE TypeOK'
  OBVIOUS
<1>0. /\ urls \in Seq(Url) /\ mapped = Range(urls) /\ Len(urls) \in Nat
      /\ filtered \in Seq(Url) /\ Len(filtered) \in Nat
  BY DEF TypeOK
<1>1. ASSUME NEW u \in Url, Take(u), UNCHANGED <<step, pool, bloomVars, ringVars, dealVars>>
      PROVE  TypeOK'
  <2>1. urls' \in Seq(Url) /\ mapped' = Range(urls') /\ mapped \subseteq mapped'
    BY <1>0, <1>1, PushRight DEF Take
  <2>2. QED
    BY <1>1, <2>1 DEF TypeOK
<1>2. CASE Generate
  <2>1. (Len(urls) \div PerDomain) + 1 \in Domain
    BY <1>0, <1>2, DomainOfIndex DEF Generate
  <2>2. Len(urls) \in 0 .. Target + Shift
    BY <1>0, <1>2, BootAssumption, FS_CardinalityType DEF Generate
  <2>3. PICK u \in Url : u = MakeUrl((Len(urls) \div PerDomain) + 1, Len(urls))
    BY <2>1, <2>2, MakesUrl
  <2>4. Take(u)
    BY <1>2, <2>3 DEF Generate, Take
  <2>5. QED
    BY <1>1, <1>2, <2>4 DEF Generate
<1>3. CASE Pad
  <2>1. PICK d \in Domain : Take(MakeUrl(d, Len(urls) + Shift))
    BY <1>3 DEF Pad
  <2>2. Len(urls) + Shift \in 0 .. Target + Shift
    BY <1>0, <1>3, BootAssumption DEF Pad
  <2>3. PICK u \in Url : u = MakeUrl(d, Len(urls) + Shift)
    BY <2>2, MakesUrl
  <2>4. Take(u)
    BY <2>1, <2>3 DEF Take
  <2>5. QED
    BY <1>1, <1>3, <2>4 DEF Pad
<1>4. CASE Inject
  <2>1. PICK again \in [1 .. Total - Target -> Range(urls)] :
          pool' = [u \in Range(urls) |-> Times(u, urls) + Times(u, again)]
    BY <1>4 DEF Inject
  <2>2. \A u \in Range(urls) : Times(u, urls) \in Nat
    <3>1. urls \in [1 .. Len(urls) -> Url]
      BY <1>0
    <3>2. QED
      BY <1>0, <3>1, TimesFacts
  <2>3. \A u \in Range(urls) : Times(u, again) \in Nat
    <3>1. Total - Target \in Nat
      BY BootAssumption
    <3>2. QED
      BY <2>1, <3>1, TimesFacts
  <2>4. pool' \in [mapped -> Nat]
    BY <1>0, <2>1, <2>2, <2>3
  <2>5. QED
    BY <1>4, <2>4 DEF Inject, TypeOK
<1>5. ASSUME NEW u \in DOMAIN pool, Drawn(u)
      PROVE  \E S \in SUBSET mapped : pool' \in [S -> Nat]
  BY <1>5 DEF Drawn, TypeOK
<1>6. CASE Catch
  BY <1>5, <1>6 DEF Catch, TypeOK
<1>7. CASE Pass
  <2>1. PICK u \in DOMAIN pool : Drawn(u) /\ bits' = AfterAdd(u)
                                 /\ filtered' = Append(filtered, u)
    BY <1>7 DEF Pass
  <2>2. u \in Url /\ BitsOf[u] \subseteq Bit
    BY <1>0, <2>1, BootAssumption DEF TypeOK, Range
  <2>3. filtered' \in Seq(Url) /\ Len(filtered') = Len(filtered) + 1
    BY <1>0, <2>1, <2>2, PushRight
  <2>4. bits' \subseteq Bit
    BY <2>1, <2>2 DEF AfterAdd, TypeOK
  <2>5. dealt \in 0 .. Len(filtered')
    BY <1>0, <2>3 DEF TypeOK
  <2>6. QED
    BY <1>5, <1>7, <2>1, <2>3, <2>4, <2>5 DEF Pass, TypeOK
<1>8. CASE EndOfPool
  BY <1>8 DEF EndOfPool, TypeOK
<1>9. CASE AddNode
  BY <1>9, HashRingAssumption DEF AddNode, WithNode, Entry, TypeOK
<1>10. CASE RingMade
  BY <1>10 DEF RingMade, TypeOK
<1>11. CASE Deal
  <2> DEFINE u == filtered[dealt + 1]
  <2>1. u \in Url /\ dealt + 1 \in 0 .. Len(filtered)
    BY <1>0, <1>11 DEF Deal, TypeOK
  <2>2. u.domain \in Domain
    BY <2>1, UrlDomain
  <2>3. ShardOf(u) \in RingNode
    BY <2>2, BootAssumption DEF ShardOf
  <2>4. queue' \in [RingNode -> Seq(Url)]
    BY <1>11, <2>1, <2>3 DEF Deal, TypeOK
  <2>5. QED
    BY <1>11, <2>1, <2>4 DEF Deal, TypeOK
<1>12. CASE Made
  BY <1>12 DEF Made, TypeOK
<1>13. CASE UNCHANGED vars
  BY <1>13 DEF vars, TypeOK
<1>14. QED
  BY <1>2, <1>3, <1>4, <1>6, <1>7, <1>8, <1>9, <1>10, <1>11, <1>12, <1>13 DEF Next

\* Every variable keeps its type.
THEOREM TypeCorrect == Spec => []TypeOK
<1>1. Init => TypeOK
  <2> SUFFICES ASSUME Init PROVE TypeOK
    OBVIOUS
  <2>1. urls \in Seq(Url) /\ filtered \in Seq(Url) /\ Range(urls) = {} /\ Len(filtered) = 0
    BY DEF Init, Range
  <2>2. pool \in [{} -> Nat]
    BY DEF Init
  <2>3. QED
    BY <2>1, <2>2 DEF Init, TypeOK
<1>2. QED
  BY <1>1, StepType, PTL DEF Spec

-----------------------------------------------------------------------------
\* A join moves keys only to the node that joins.
THEOREM RingHolds == Spec => KeysMoveOnlyToAdded
<1>1. TypeOK /\ [Next]_vars => ring \subseteq ring' /\ ring' \subseteq Entry
  BY HashRingAssumption DEF TypeOK, Next, vars, Generate, Pad, Inject, Catch, Pass,
     EndOfPool, AddNode, RingMade, Deal, Made, WithNode, Entry
<1>2. TypeOK /\ [Next]_vars =>
        [\A p \in Position, e \in ring : Owns(ring', p, e) => Owns(ring, p, e)]_ring
  BY <1>1, JoiningMovesNoOther
<1>3. QED
  BY <1>2, TypeCorrect, PTL DEF Spec, KeysMoveOnlyToAdded

-----------------------------------------------------------------------------
(* The Bloom filter pass.                                                  *)

\* The bits are those of the URLs that passed, so none of them passes again;
\* and a URL of the pool is still to come, has passed, or cannot pass any more.
Sifted ==
  /\ IsInjective(filtered)
  /\ bits = UNION {BitsOf[v] : v \in Range(filtered)}
  /\ step = "generate" => filtered = <<>>
  /\ step # "generate" => DOMAIN pool = mapped
  /\ step = "filter" =>
       \A u \in mapped : u \in Range(filtered) \/ BitsOf[u] \subseteq bits \/ pool[u] > 0
  /\ step \in {"ring", "deal", "made"} =>
       \A u \in mapped : u \in Range(filtered) \/ BitsOf[u] \subseteq bits

LEMMA StepSifted == TypeOK /\ Sifted /\ [Next]_vars => Sifted'
<1> SUFFICES ASSUME TypeOK, Sifted, [Next]_vars PROVE Sifted'
  OBVIOUS
<1>0. /\ urls \in Seq(Url) /\ mapped = Range(urls) /\ Len(urls) \in Nat
      /\ filtered \in Seq(Url)
      /\ step \in {"generate", "filter", "ring", "deal", "made"}
  BY DEF TypeOK
<1>1. CASE Generate \/ Pad
  BY <1>1 DEF Generate, Pad, Sifted
<1>2. CASE Inject
  <2>1. PICK again \in [1 .. Total - Target -> Range(urls)] :
          pool' = [u \in Range(urls) |-> Times(u, urls) + Times(u, again)]
    BY <1>2 DEF Inject
  <2>2. ASSUME NEW u \in Range(urls) PROVE Times(u, urls) + Times(u, again) > 0
    <3>1. urls \in [1 .. Len(urls) -> Url] /\ Total - Target \in Nat
      BY <1>0, BootAssumption
    <3>2. Times(u, urls) \in Nat /\ Times(u, urls) > 0 /\ Times(u, again) \in Nat
      BY <1>0, <2>1, <3>1, TimesFacts
    <3>3. QED
      BY <3>2
  <2>3. DOMAIN pool' = mapped /\ \A u \in mapped : pool'[u] > 0
    BY <1>0, <2>1, <2>2
  <2>4. QED
    BY <1>2, <2>3 DEF Inject, Sifted
<1>3. CASE Catch
  <2>1. PICK u \in DOMAIN pool : Drawn(u) /\ Seen(u)
    BY <1>3 DEF Catch
  <2>2. /\ DOMAIN pool' = DOMAIN pool /\ BitsOf[u] \subseteq bits
        /\ \A v \in DOMAIN pool : v # u => pool'[v] = pool[v]
    BY <2>1 DEF Drawn, Seen
  <2>3. QED
    BY <1>3, <2>2 DEF Catch, Sifted
<1>4. CASE Pass
  <2>1. PICK u \in DOMAIN pool : /\ Drawn(u) /\ ~Seen(u) /\ bits' = AfterAdd(u)
                                 /\ filtered' = Append(filtered, u)
    BY <1>4 DEF Pass
  <2>2. u \in Url
    BY <1>0, <2>1 DEF TypeOK, Range
  <2>3. u \notin Range(filtered)
    BY <2>1 DEF Seen, Sifted
  <2>4. Range(filtered') = Range(filtered) \cup {u} /\ IsInjective(filtered')
    BY <1>0, <2>1, <2>2, <2>3, PushRight DEF Sifted
  <2>5. bits' = UNION {BitsOf[v] : v \in Range(filtered')}
    BY <2>1, <2>4 DEF AfterAdd, Sifted
  <2>6. /\ DOMAIN pool' = DOMAIN pool
        /\ \A v \in DOMAIN pool : v # u => pool'[v] = pool[v]
    BY <2>1 DEF Drawn
  <2>7. bits \subseteq bits' /\ step' = "filter" /\ mapped' = mapped /\ step = "filter"
    BY <1>4, <2>1 DEF AfterAdd, Pass
  <2>8. \A v \in mapped : v \in Range(filtered') \/ BitsOf[v] \subseteq bits' \/ pool'[v] > 0
    BY <2>4, <2>6, <2>7 DEF Sifted
  <2>9. QED
    BY <2>4, <2>5, <2>6, <2>7, <2>8 DEF Sifted
<1>5. CASE EndOfPool
  BY <1>5 DEF EndOfPool, Sifted
<1>6. CASE AddNode \/ RingMade \/ Deal \/ Made
  BY <1>0, <1>6 DEF AddNode, RingMade, Deal, Made, Sifted
<1>7. CASE UNCHANGED vars
  BY <1>7 DEF vars, Sifted
<1>8. QED
  BY <1>1, <1>2, <1>3, <1>4, <1>5, <1>6, <1>7 DEF Next

LEMMA SiftedHolds == Spec => []Sifted
<1>1. Init => Sifted
  <2> SUFFICES ASSUME Init PROVE Sifted
    OBVIOUS
  <2>1. Range(filtered) = {} /\ IsInjective(filtered)
    BY DEF Init, Range, IsInjective
  <2>2. bits = UNION {BitsOf[v] : v \in Range(filtered)}
    BY <2>1 DEF Init
  <2>3. QED
    BY <2>1, <2>2 DEF Init, Sifted
<1>2. QED
  BY <1>1, StepSifted, TypeCorrect, PTL DEF Spec

\* No URL passes the filter twice, whatever the hash functions are.
THEOREM PassesOnce == Spec => []FilteredOnce
<1>1. Sifted => FilteredOnce
  BY DEF Sifted, FilteredOnce
<1>2. QED
  BY <1>1, SiftedHolds, PTL

\* What is dropped for good is dropped by a collision with what passed.
THEOREM DropsOnlyCollisions == Spec => []DroppedByCollision
<1>1. TypeOK /\ Sifted => DroppedByCollision
  BY DEF TypeOK, Sifted, DroppedByCollision
<1>2. QED
  BY <1>1, SiftedHolds, TypeCorrect, PTL

-----------------------------------------------------------------------------
(* The deques.                                                             *)

\* The filtered URLs of category c among the first n.
Of(c, n) == {filtered[k] : k \in {j \in 1 .. n : CatOf[filtered[j].domain] = c}}

Dealing ==
  /\ step \in {"generate", "filter", "ring"} => dealt = 0
  /\ step = "made" => dealt = Len(filtered)
  /\ \A c \in RingNode : IsInjective(queue[c]) /\ Range(queue[c]) = Of(c, dealt)

LEMMA StepDealing == TypeOK /\ Sifted /\ Dealing /\ [Next]_vars => Dealing'
<1> SUFFICES ASSUME TypeOK, Sifted, Dealing, [Next]_vars PROVE Dealing'
  OBVIOUS
<1>0. /\ filtered \in Seq(Url) /\ Len(filtered) \in Nat
      /\ queue \in [RingNode -> Seq(Url)] /\ dealt \in 0 .. Len(filtered)
      /\ step \in {"generate", "filter", "ring", "deal", "made"}
  BY DEF TypeOK
<1>1. CASE Generate \/ Pad \/ Inject \/ Catch \/ EndOfPool \/ AddNode \/ RingMade \/ Made
  <2>1. UNCHANGED <<filtered, queue, dealt>>
    BY <1>1 DEF Generate, Pad, Inject, Catch, EndOfPool, AddNode, RingMade, Made
  <2>2. /\ step' \in {"generate", "filter", "ring"} => step \in {"generate", "filter", "ring"}
        /\ step' = "made" => dealt = Len(filtered)
    BY <1>1 DEF Generate, Pad, Inject, Catch, EndOfPool, AddNode, RingMade, Made
  <2>3. QED
    BY <2>1, <2>2 DEF Dealing, Of
<1>2. CASE Pass
  <2>1. step = "filter" /\ dealt = 0 /\ UNCHANGED <<step, queue, dealt>>
    BY <1>2 DEF Pass, Dealing
  <2>2. \A c \in RingNode : Of(c, 0) = {} /\ Of(c, 0)' = {}
    BY DEF Of
  <2>3. QED
    BY <2>1, <2>2 DEF Dealing
<1>3. CASE Deal
  <2> DEFINE n == dealt + 1
             u == filtered[n]
  <2>1. /\ n \in 1 .. Len(filtered) /\ u \in Url
        /\ dealt' = n /\ UNCHANGED <<step, filtered>> /\ step = "deal"
        /\ queue' = [queue EXCEPT ![ShardOf(u)] = Append(@, u)]
    BY <1>0, <1>3 DEF Deal
  <2>2. ShardOf(u) \in RingNode
    BY <2>1, UrlDomain, BootAssumption DEF ShardOf
  <2>3. \A k \in 1 .. dealt : filtered[k] # u
    BY <1>0, <2>1 DEF Sifted, IsInjective
  <2>4. \A c \in RingNode : u \notin Of(c, dealt)
    BY <2>3 DEF Of
  <2>5. \A j \in 1 .. n : j = n \/ j \in 1 .. dealt
    BY <1>0
  <2>6. n \in 1 .. n /\ \A j \in 1 .. dealt : j \in 1 .. n
    BY <1>0
  <2>7. \A c \in RingNode :
          Of(c, n) = IF c = ShardOf(u) THEN Of(c, dealt) \cup {u} ELSE Of(c, dealt)
    <3> SUFFICES ASSUME NEW c \in RingNode
                 PROVE  Of(c, n) = IF c = ShardOf(u) THEN Of(c, dealt) \cup {u}
                                   ELSE Of(c, dealt)
      OBVIOUS
    <3>1. CASE c = ShardOf(u)
      BY <2>5, <2>6, <3>1 DEF Of, ShardOf
    <3>2. CASE c # ShardOf(u)
      BY <2>5, <2>6, <3>2 DEF Of, ShardOf
    <3>3. QED
      BY <3>1, <3>2
  <2> DEFINE q == queue[ShardOf(u)]
  <2>8. /\ q \in Seq(Url) /\ IsInjective(q) /\ u \notin Range(q)
        /\ Range(q) = Of(ShardOf(u), dealt)
    BY <1>0, <2>2, <2>4 DEF Dealing
  <2>9. IsInjective(Append(q, u)) /\ Range(Append(q, u)) = Of(ShardOf(u), dealt) \cup {u}
    BY <2>1, <2>8, PushRight
  <2>10. /\ queue'[ShardOf(u)] = Append(q, u)
         /\ \A c \in RingNode : c # ShardOf(u) => queue'[c] = queue[c]
    BY <1>0, <2>1, <2>2
  <2>11. \A c \in RingNode : IsInjective(queue'[c]) /\ Range(queue'[c]) = Of(c, n)
    BY <2>7, <2>9, <2>10 DEF Dealing
  <2>12. \A c \in RingNode : Of(c, dealt)' = Of(c, n)
    BY <2>1 DEF Of
  <2>13. QED
    BY <2>1, <2>11, <2>12 DEF Dealing
<1>4. CASE UNCHANGED vars
  BY <1>4 DEF vars, Dealing, Of
<1>5. QED
  BY <1>1, <1>2, <1>3, <1>4 DEF Next

\* The deques the fleet starts with partition the filtered URLs: what
\* FleetAssumption and SingleAssumption say of Backlog.
THEOREM DequesHold == Spec => []DequesFit
<1>1. Init => Dealing
  <2> SUFFICES ASSUME Init PROVE Dealing
    OBVIOUS
  <2>1. dealt = 0 /\ step = "generate" /\ \A c \in RingNode : queue[c] = <<>>
    BY DEF Init
  <2>2. \A c \in RingNode : IsInjective(queue[c]) /\ Range(queue[c]) = {}
    <3>1. DOMAIN <<>> = {}
      OBVIOUS
    <3>2. IsInjective(<<>>) /\ Range(<<>>) = {}
      BY <3>1 DEF IsInjective, Range
    <3>3. QED
      BY <2>1, <3>2
  <2>3. \A c \in RingNode : Of(c, 0) = {}
    BY DEF Of
  <2>4. QED
    BY <2>1, <2>2, <2>3 DEF Dealing
<1>2. TypeOK /\ Dealing => DequesFit
  <2> SUFFICES ASSUME TypeOK, Dealing, step = "made", NEW c \in RingNode
               PROVE  /\ IsInjective(queue[c])
                      /\ Range(queue[c]) = {u \in Range(filtered) : CatOf[u.domain] = c}
    BY DEF DequesFit
  <2>1. Range(filtered) = {filtered[k] : k \in 1 .. Len(filtered)}
    BY DEF TypeOK, Range
  <2>2. Of(c, Len(filtered)) = {u \in Range(filtered) : CatOf[u.domain] = c}
    BY <2>1 DEF Of
  <2>3. QED
    BY <2>2 DEF Dealing
<1>3. QED
  BY <1>1, <1>2, StepDealing, SiftedHolds, TypeCorrect, PTL DEF Spec

-----------------------------------------------------------------------------
(* The pool's repeats.                                                     *)

PerPool == Cardinality(Domain) * PerDomain

\* What is generated is made of its index; what is padded was not there.
Listed ==
  /\ \A i \in 1 .. Len(urls) : i <= PerPool => \E d \in Domain : urls[i] = MakeUrl(d, i - 1)
  /\ \A i, j \in 1 .. Len(urls) : i < j /\ PerPool < j => urls[i] # urls[j]

LEMMA StepListed == TypeOK /\ Listed /\ [Next]_vars => Listed'
<1> SUFFICES ASSUME TypeOK, Listed, [Next]_vars PROVE Listed'
  OBVIOUS
<1>0. /\ urls \in Seq(Url) /\ mapped = Range(urls) /\ Len(urls) \in Nat
      /\ DOMAIN urls = 1 .. Len(urls) /\ PerPool \in Nat
  BY BootAssumption, FS_CardinalityType DEF TypeOK, PerPool
<1>1. ASSUME NEW u, Take(u),
             \/ Len(urls) < PerPool /\ \E d \in Domain : u = MakeUrl(d, Len(urls))
             \/ PerPool <= Len(urls) /\ u \notin mapped
      PROVE  Listed'
  <2>1. /\ Len(urls') = Len(urls) + 1
        /\ \A i \in 1 .. Len(urls) : urls'[i] = urls[i]
        /\ urls'[Len(urls) + 1] = u
    BY <1>0, <1>1 DEF Take
  <2>2. \A i \in 1 .. Len(urls') : i \in 1 .. Len(urls) \/ i = Len(urls) + 1
    BY <1>0, <2>1
  <2>3. \A i \in 1 .. Len(urls) : urls[i] \in mapped
    BY <1>0 DEF Range
  <2>4. ASSUME NEW i \in 1 .. Len(urls'), i <= PerPool
        PROVE  \E d \in Domain : urls'[i] = MakeUrl(d, i - 1)
    <3>1. CASE i \in 1 .. Len(urls)
      BY <2>1, <2>4, <3>1 DEF Listed
    <3>2. CASE i = Len(urls) + 1
      BY <1>0, <1>1, <2>1, <2>4, <3>2
    <3>3. QED
      BY <2>2, <3>1, <3>2
  <2>5. ASSUME NEW i \in 1 .. Len(urls'), NEW j \in 1 .. Len(urls'), i < j, PerPool < j
        PROVE  urls'[i] # urls'[j]
    <3>1. i \in 1 .. Len(urls)
      BY <1>0, <2>1, <2>5
    <3>2. CASE j \in 1 .. Len(urls)
      BY <2>1, <2>5, <3>1, <3>2 DEF Listed
    <3>3. CASE j = Len(urls) + 1
      <4>1. u \notin mapped
        BY <1>0, <1>1, <2>5, <3>3
      <4>2. QED
        BY <2>1, <2>3, <3>1, <3>3, <4>1
    <3>4. QED
      BY <2>2, <3>2, <3>3
  <2>6. QED
    BY <2>4, <2>5 DEF Listed, PerPool
<1>2. CASE Generate
  <2>1. /\ Len(urls) < PerPool
        /\ Take(MakeUrl((Len(urls) \div PerDomain) + 1, Len(urls)))
    BY <1>2 DEF Generate, PerPool
  <2>2. (Len(urls) \div PerDomain) + 1 \in Domain
    BY <1>0, <2>1, DomainOfIndex DEF PerPool
  <2>3. QED
    BY <1>1, <2>1, <2>2
<1>3. CASE Pad
  BY <1>1, <1>3 DEF Pad, PerPool
<1>4. CASE UNCHANGED urls
  BY <1>4 DEF Listed, PerPool
<1>5. QED
  BY <1>2, <1>3, <1>4 DEF Next, vars, poolVars, Inject, Catch, Pass, EndOfPool, AddNode,
     RingMade, Deal, Made

\* Only where the template has no id do two indexes make one URL.
LEMMA SameUrl ==
  ASSUME NEW d, NEW e, NEW i \in Nat, NEW j \in Nat, i # j, MakeUrl(d, i) = MakeUrl(e, j)
  PROVE  /\ MakeUrl(d, i).template = 1 /\ (j - i) % Templates = 0
         /\ (j - i) % Years = 0 /\ (j - i) % Months = 0 /\ (j - i) % Words = 0
<1>1. /\ MakeUrl(d, i).template = i % Templates /\ MakeUrl(e, j).template = j % Templates
      /\ MakeUrl(d, i).path = IF i % Templates = 1 THEN Fields(i) ELSE <<i>>
      /\ MakeUrl(e, j).path = IF j % Templates = 1 THEN Fields(j) ELSE <<j>>
  BY DEF MakeUrl
<1>2. i % Templates = j % Templates
  BY <1>1
<1>3. i % Templates = 1
  <2>1. <<i>> = <<j>> => i = j
    OBVIOUS
  <2>2. QED
    BY <1>1, <1>2, <2>1
<1>4. Fields(i) = Fields(j)
  BY <1>1, <1>2, <1>3
<1>5. i % Years = j % Years /\ i % Months = j % Months /\ i % Words = j % Words
  BY <1>4 DEF Fields
<1>6. ASSUME NEW m \in Nat \ {0}, i % m = j % m PROVE (j - i) % m = 0
  <2>1. i \in Int /\ j \in Int
    OBVIOUS
  <2>2. (j - i) % m = 0 <=> j % m = i % m
    BY <2>1, SameRemainder
  <2>3. QED
    BY <1>6, <2>2
<1>7. QED
  BY <1>1, <1>2, <1>3, <1>5, <1>6, BootAssumption

\* A URL comes twice in the generated pool only where the template without an
\* id repeats its other fields, for every number of domains, templates and
\* fields.
THEOREM RepeatsHold == Spec => []RepeatsHaveNoId
<1>1. Init => Listed
  BY DEF Init, Listed
<1>2. TypeOK /\ Listed => RepeatsHaveNoId
  <2> SUFFICES ASSUME TypeOK, Listed, NEW i \in 1 .. Len(urls), NEW j \in 1 .. Len(urls),
                      i # j, urls[i] = urls[j]
               PROVE  /\ urls[i].template = 1 /\ (j - i) % Templates = 0
                      /\ (j - i) % Years = 0 /\ (j - i) % Months = 0 /\ (j - i) % Words = 0
                      /\ i <= PerPool
    BY DEF RepeatsHaveNoId, PerPool
  <2>1. PerPool \in Nat /\ Len(urls) \in Nat
    BY BootAssumption, FS_CardinalityType DEF TypeOK, PerPool
  <2>2. i <= PerPool /\ j <= PerPool
    BY <2>1 DEF Listed
  <2>3. PICK d \in Domain : urls[i] = MakeUrl(d, i - 1)
    BY <2>2 DEF Listed
  <2>4. PICK e \in Domain : urls[j] = MakeUrl(e, j - 1)
    BY <2>2 DEF Listed
  <2>5. PICK a \in Nat, b \in Nat : a = i - 1 /\ b = j - 1 /\ a # b /\ b - a = j - i
    BY <2>1
  <2>6. urls[i] = MakeUrl(d, a) /\ MakeUrl(d, a) = MakeUrl(e, b)
    BY <2>3, <2>4, <2>5
  <2>7. /\ MakeUrl(d, a).template = 1 /\ (b - a) % Templates = 0
        /\ (b - a) % Years = 0 /\ (b - a) % Months = 0 /\ (b - a) % Words = 0
    BY <2>5, <2>6, SameUrl
  <2>8. QED
    BY <2>2, <2>5, <2>6, <2>7
<1>3. QED
  BY <1>1, <1>2, StepListed, TypeCorrect, PTL DEF Spec
=============================================================================
