------------------------------- MODULE Boot ---------------------------------
(***************************************************************************)
(* What SimulationEngine.__init__ makes before there is a race: the pool   *)
(* of generate_url_pool with its repeats, the Bloom filter pass over it,   *)
(* the hash ring, and the shard deques the fleet starts with.  It shows    *)
(* where the assumptions of Fleet about URLs, deques and shards come from. *)
(*                                                                         *)
(* A URL is its domain, its template and what the template keeps of the    *)
(* index.  The random choices, the shuffle and the hash functions are      *)
(* arbitrary.  The other parts of the constructor only make objects.       *)
(***************************************************************************)
EXTENDS HashRing, Sequences, FiniteSets, Functions

CONSTANTS
  Domain,     \* domains, 1..n in the order of DOMAIN_CATEGORIES
  CatOf,      \* domain -> its category, a node of the ring
  PerDomain,  \* per_domain_count
  Target,     \* unique_target
  Total,      \* total
  Templates,  \* number of path templates; template 1 has no id
  Years, Months, Words,  \* what the other fields of a path are taken modulo
  Shift,      \* keeps padding away from the indexes already used
  Bit, BitsOf \* URL -> the bits its hashes set

Fields(i) == <<i % Years, i % Months, i % Words>>

\* Mutant: no template has the index.
MutMakeUrl(d, i) ==
  [domain |-> d, template |-> i % Templates, path |-> Fields(i)]

\* _make_url: every template but one writes the index itself into the path.
MakeUrl(d, i) ==
  LET t == i % Templates
  IN  [domain |-> d, template |-> t, path |-> IF t = 1 THEN Fields(i) ELSE <<i>>]

Url == {MakeUrl(d, i) : d \in Domain, i \in 0 .. Target + Shift}

ASSUME BootAssumption ==
  /\ Domain = 1 .. Cardinality(Domain) /\ IsFiniteSet(Domain)
  /\ CatOf \in [Domain -> RingNode]
  /\ PerDomain \in Nat /\ Target \in Nat /\ Total \in Nat /\ Shift \in Nat
  /\ Cardinality(Domain) * PerDomain <= Target /\ Target <= Total
  /\ Templates \in Nat \ {0}
  /\ Years \in Nat \ {0} /\ Months \in Nat \ {0} /\ Words \in Nat \ {0}
  /\ BitsOf \in [Url -> SUBSET Bit]

VARIABLES
  step,      \* where the constructor is
  urls,      \* generate_url_pool's list
  mapped,    \* the keys of domain_map
  pool,      \* URL -> how often it is still to come in the shuffled pool
  bits,      \* the Bloom filter's bits
  filtered,  \* the URLs that pass
  caught,    \* duplicates_caught
  ring,      \* the hash ring
  joined,    \* its nodes
  queue,     \* category -> the fleet's deque
  dealt      \* how many of the filtered URLs are in a deque

poolVars  == <<urls, mapped, pool>>
bloomVars == <<bits, filtered, caught>>
ringVars  == <<ring, joined>>
dealVars  == <<queue, dealt>>
vars == <<step, poolVars, bloomVars, ringVars, dealVars>>

Init ==
  /\ step = "generate"
  /\ urls = <<>> /\ mapped = {} /\ pool = [u \in {} |-> 0]
  /\ bits = {} /\ filtered = <<>> /\ caught = 0
  /\ ring = {} /\ joined = {}
  /\ queue = [c \in RingNode |-> <<>>] /\ dealt = 0

-----------------------------------------------------------------------------
(* The pool.                                                               *)

Take(u) == urls' = Append(urls, u) /\ mapped' = mapped \cup {u}

\* One domain after the other, the index running on through all of them.
Generate ==
  /\ step = "generate"
  /\ Len(urls) < Cardinality(Domain) * PerDomain
  /\ Take(MakeUrl((Len(urls) \div PerDomain) + 1, Len(urls)))
  /\ UNCHANGED <<step, pool, bloomVars, ringVars, dealVars>>

\* Padding takes only what the map does not have yet.  With the source's
\* numbers every domain gets its 720 URLs and nothing is left to pad.
Pad ==
  /\ step = "generate"
  /\ Cardinality(Domain) * PerDomain <= Len(urls) /\ Len(urls) < Target
  /\ \E d \in Domain : LET u == MakeUrl(d, Len(urls) + Shift)
                       IN  u \notin mapped /\ Take(u)
  /\ UNCHANGED <<step, pool, bloomVars, ringVars, dealVars>>

Times(u, s) == Cardinality({i \in DOMAIN s : s[i] = u})

\* Repeats are drawn with replacement from the list, then all is shuffled.
Inject ==
  /\ step = "generate" /\ Len(urls) = Target
  /\ \E again \in [1 .. Total - Target -> Range(urls)] :
       pool' = [u \in Range(urls) |-> Times(u, urls) + Times(u, again)]
  /\ step' = "filter"
  /\ UNCHANGED <<urls, mapped, bloomVars, ringVars, dealVars>>

-----------------------------------------------------------------------------
(* The Bloom filter pass.                                                  *)

\* Mutant: adding toggles the bits.
MutAfterAdd(u) == (bits \cup BitsOf[u]) \ (bits \cap BitsOf[u])

\* add
AfterAdd(u) == bits \cup BitsOf[u]

\* Mutant: one of the positions is enough.
MutSeen(u) == BitsOf[u] \cap bits # {}

\* __contains__
Seen(u) == BitsOf[u] \subseteq bits

Drawn(u) == pool[u] > 0 /\ pool' = [pool EXCEPT ![u] = @ - 1]

Catch ==
  /\ step = "filter"
  /\ \E u \in DOMAIN pool : Drawn(u) /\ Seen(u)
  /\ caught' = caught + 1
  /\ UNCHANGED <<step, urls, mapped, bits, filtered, ringVars, dealVars>>

Pass ==
  /\ step = "filter"
  /\ \E u \in DOMAIN pool : /\ Drawn(u) /\ ~Seen(u)
                            /\ bits' = AfterAdd(u)
                            /\ filtered' = Append(filtered, u)
  /\ UNCHANGED <<step, urls, mapped, caught, ringVars, dealVars>>

EndOfPool ==
  /\ step = "filter" /\ \A u \in DOMAIN pool : pool[u] = 0
  /\ step' = "ring"
  /\ UNCHANGED <<poolVars, bloomVars, ringVars, dealVars>>

-----------------------------------------------------------------------------
(* The ring and the deques.                                                *)

AddNode ==
  /\ step = "ring"
  /\ \E n \in RingNode \ joined :
       joined' = joined \cup {n} /\ ring' = WithNode(ring, n)
  /\ UNCHANGED <<step, poolVars, bloomVars, dealVars>>

RingMade ==
  /\ step = "ring" /\ joined = RingNode
  /\ step' = "deal"
  /\ UNCHANGED <<poolVars, bloomVars, ringVars, dealVars>>

\* Mutant: every URL goes to the first shard.
MutShardOf(u) == CHOOSE c \in RingNode : \A d \in RingNode : c <= d

\* _category_of.  Its default, and the first shard for a category without one,
\* are for URLs that are not in the map: every URL of the pool is.
ShardOf(u) == CatOf[u.domain]

\* The fleet's constructor appends each URL to the deque of its category.
Deal ==
  /\ step = "deal" /\ dealt < Len(filtered)
  /\ LET u == filtered[dealt + 1]
     IN  queue' = [queue EXCEPT ![ShardOf(u)] = Append(@, u)]
  /\ dealt' = dealt + 1
  /\ UNCHANGED <<step, poolVars, bloomVars, ringVars>>

Made ==
  /\ step = "deal" /\ dealt = Len(filtered)
  /\ step' = "made"
  /\ UNCHANGED <<poolVars, bloomVars, ringVars, dealVars>>

Next == Generate \/ Pad \/ Inject \/ Catch \/ Pass \/ EndOfPool
        \/ AddNode \/ RingMade \/ Deal \/ Made

Spec == Init /\ [][Next]_vars

-----------------------------------------------------------------------------
\* Every variable has its type.
TypeOK ==
  /\ step \in {"generate", "filter", "ring", "deal", "made"}
  /\ urls \in Seq(Url) /\ mapped = Range(urls)
  /\ \E S \in SUBSET mapped : pool \in [S -> Nat]
  /\ bits \subseteq Bit /\ filtered \in Seq(Url) /\ caught \in Nat
  /\ joined \subseteq RingNode /\ ring \subseteq Entry
  /\ queue \in [RingNode -> Seq(Url)] /\ dealt \in 0 .. Len(filtered)

\* The pool's repeats: a URL comes twice in the generated list only where the
\* template without an id repeats its other fields (_make_url), and what
\* padding adds is new.
RepeatsHaveNoId ==
  \A i, j \in 1 .. Len(urls) : i # j /\ urls[i] = urls[j] =>
    /\ urls[i].template = 1 /\ (j - i) % Templates = 0
    /\ (j - i) % Years = 0 /\ (j - i) % Months = 0 /\ (j - i) % Words = 0
    /\ i <= Cardinality(Domain) * PerDomain

\* Whatever the hash functions and the order of the pool, the filter has no
\* false negative: no URL passes twice (add, __contains__).
FilteredOnce == IsInjective(filtered)

\* What is dropped for good is dropped by a collision: all its bits belong to
\* URLs that passed.  So the two competitors race over the same URLs, and
\* every other URL of domain_map is in the race.
DroppedByCollision ==
  step \notin {"generate", "filter"} =>
    \A u \in mapped \ Range(filtered) :
      BitsOf[u] \subseteq UNION {BitsOf[v] : v \in Range(filtered)}

\* The constructor leaves what Fleet and Single start from (FleetAssumption,
\* SingleAssumption): every filtered URL is in the deque of its category,
\* once, and in no other.
DequesFit ==
  step = "made" => \A c \in RingNode :
    /\ IsInjective(queue[c])
    /\ Range(queue[c]) = {u \in Range(filtered) : CatOf[u.domain] = c}

\* When a node joins the ring a key keeps its entry or moves to one of the
\* new node's (add_node, get_node), copies at one position included.
KeysMoveOnlyToAdded ==
  [][\A p \in Position, e \in ring : Owns(ring', p, e) => Owns(ring, p, e)]_ring
=============================================================================
