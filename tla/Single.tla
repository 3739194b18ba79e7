------------------------------- MODULE Single -------------------------------
(***************************************************************************)
(* The other competitor: SingleNodeScraper._run, one thread that takes the *)
(* same URLs from one deque per category, round-robin over the categories, *)
(* and that only its stop() flag ties to other threads.                    *)
(*                                                                         *)
(* Abstracted: latencies, backoffs and dead time, block events and the     *)
(* throughput history; a per-domain request counter to "zero or not" (all  *)
(* that decides whether _ip_block_fires can fire).                         *)
(***************************************************************************)
EXTENDS Integers, Sequences, FiniteSets, Functions

CONSTANTS
  Url,       \* the URLs left by the Bloom filter pass
  Category,
  Order,     \* list(self._queues.keys()): the categories, one deque each
  Domain,
  CatOf,     \* domain_map
  DomainOf,  \* _domain_of
  Backlog,   \* the deques as the constructor fills them
  None

\* DOMAIN_CATEGORIES lists every domain under one category.
ASSUME SingleAssumption ==
  /\ IsFiniteSet(Url) /\ None \notin Url
  /\ CatOf \in [Url -> Category] /\ DomainOf \in [Url -> Domain]
  /\ \A u, v \in Url : DomainOf[u] = DomainOf[v] => CatOf[u] = CatOf[v]
  /\ Order \in Seq(Category) /\ IsInjective(Order) /\ Range(Order) = Category
  /\ Len(Order) > 0
  /\ Backlog \in [Category -> Seq(Url)]
  /\ \A c \in Category : /\ IsInjective(Backlog[c])
                         /\ Range(Backlog[c]) = {u \in Url : CatOf[u] = c}

VARIABLES
  queue,    \* category -> its deque, left end first
  turn,     \* cat_idx, modulo the number of categories, counted from 1
  hand,     \* local variable url
  pc,       \* where the thread is in _run: "top", "fetch", "ended"
  warm,     \* the domains whose request counter is above zero
  scraped,  \* urls_scraped
  blocks,
  status,   \* what the thread last wrote to status, and for which category
  running,
  done,     \* history: the URLs scraped
  refused   \* history: URL -> number of blocks it met

vars == <<queue, turn, hand, pc, warm, scraped, blocks, status, running, done, refused>>

Says(what, c) == [what |-> what, cat |-> c]

Init ==
  /\ queue = Backlog
  /\ turn = 1
  /\ hand = None
  /\ pc = "top"
  /\ warm = {}
  /\ scraped = 0
  /\ blocks = 0
  /\ status = Says("idle", None)
  /\ running = TRUE
  /\ done = {}
  /\ refused = [u \in Url |-> 0]

-----------------------------------------------------------------------------

\* The position that the scan looks at after k others.
At(k) == 1 + ((turn - 1 + k) % Len(Order))

\* Mutant: the scan misses the last of the categories.
MutRounds == Len(Order) - 1

\* The number of positions a scan looks at, at most once round.
Rounds == Len(Order)

\* The scan's k-th look is its first at a deque with work.
FoundAt(k) ==
  /\ queue[Order[At(k)]] # <<>>
  /\ \A j \in 0 .. k - 1 : queue[Order[At(j)]] = <<>>

\* Mutant: the scan does not move past the category it has taken from.
MutFetch ==
  \E k \in 0 .. Rounds - 1 :
    LET c == Order[At(k)] IN
    /\ pc = "top" /\ running
    /\ FoundAt(k)
    /\ pc' = "fetch"
    /\ turn' = At(k)
    /\ hand' = Head(queue[c])
    /\ queue' = [queue EXCEPT ![c] = Tail(@)]
    /\ status' = Says("scraping", c)
    /\ UNCHANGED <<warm, scraped, done, blocks, running, refused>>

Fetch ==
  \E k \in 0 .. Rounds - 1 :
    LET c == Order[At(k)] IN
    /\ pc = "top" /\ running
    /\ FoundAt(k)
    /\ pc' = "fetch"
    /\ turn' = At(k + 1)
    /\ hand' = Head(queue[c])
    /\ queue' = [queue EXCEPT ![c] = Tail(@)]
    /\ status' = Says("scraping", c)
    /\ UNCHANGED <<warm, scraped, done, blocks, running, refused>>

RunDry ==
  /\ pc = "top" /\ running
  /\ \A k \in 0 .. Rounds - 1 : queue[Order[At(k)]] = <<>>
  /\ pc' = "ended"
  /\ status' = Says("done", None)
  /\ UNCHANGED <<queue, turn, hand, warm, scraped, done, blocks, running, refused>>

\* What a block does, with its guard, the deque the URL goes back to and the
\* domains left warm to be chosen by a mutant.
BlockWith(guard, back, left) ==
  /\ pc = "fetch"
  /\ guard
  /\ pc' = "top"
  /\ blocks' = blocks + 1
  /\ status' = Says("blocked", CatOf[hand])
  /\ warm' = left
  /\ queue' = back
  /\ refused' = [refused EXCEPT ![hand] = @ + 1]
  /\ hand' = None
  /\ UNCHANGED <<turn, scraped, done, running>>

\* Mutant: every blocked URL goes to the same deque.
MutBlockElsewhere ==
  BlockWith(DomainOf[hand] \in warm, [queue EXCEPT ![Order[1]] = <<hand>> \o @],
            warm \ {DomainOf[hand]})

\* Mutant: append instead of appendleft.
MutBlockToBack ==
  BlockWith(DomainOf[hand] \in warm, [queue EXCEPT ![CatOf[hand]] = Append(@, hand)],
            warm \ {DomainOf[hand]})

\* Mutant: the blocked URL is not put back.
MutBlockDrops == BlockWith(DomainOf[hand] \in warm, queue, warm \ {DomainOf[hand]})

\* Mutant: the request counter is not reset.
MutBlockStaysWarm ==
  BlockWith(DomainOf[hand] \in warm, [queue EXCEPT ![CatOf[hand]] = <<hand>> \o @], warm)

\* Mutant: a first request can be blocked.
MutBlockAtZero ==
  BlockWith(TRUE, [queue EXCEPT ![CatOf[hand]] = <<hand>> \o @], warm \ {DomainOf[hand]})

\* The blocked URL goes back to the front of its category.
Block ==
  LET c == CatOf[hand]  d == DomainOf[hand] IN
  /\ pc = "fetch"
  /\ d \in warm
  /\ pc' = "top"
  /\ blocks' = blocks + 1
  /\ status' = Says("blocked", c)
  /\ warm' = warm \ {d}
  /\ queue' = [queue EXCEPT ![c] = <<hand>> \o @]
  /\ refused' = [refused EXCEPT ![hand] = @ + 1]
  /\ hand' = None
  /\ UNCHANGED <<turn, scraped, done, running>>

Succeed ==
  /\ pc = "fetch"
  /\ pc' = "top"
  /\ warm' = warm \cup {DomainOf[hand]}
  /\ scraped' = scraped + 1
  /\ done' = done \cup {hand}
  /\ hand' = None
  /\ UNCHANGED <<queue, turn, blocks, status, running, refused>>

\* A stopped scraper leaves its status as it is.
LeaveLoop ==
  /\ pc = "top" /\ ~running
  /\ pc' = "ended"
  /\ UNCHANGED <<queue, turn, hand, warm, scraped, done, blocks, status, running, refused>>

Stop ==
  /\ running
  /\ running' = FALSE
  /\ UNCHANGED <<queue, turn, hand, pc, warm, scraped, done, blocks, status, refused>>

Next == Fetch \/ RunDry \/ Block \/ Succeed \/ LeaveLoop \/ Stop

Spec == Init /\ [][Next]_vars

\* The thread is scheduled; nothing makes the race stop it.
FairSpec == Spec /\ WF_vars(Fetch \/ RunDry \/ Block \/ Succeed \/ LeaveLoop)

-----------------------------------------------------------------------------
(* Properties.                                                             *)

Statuses == [what : {"idle", "scraping", "blocked", "done"}, cat : Category \cup {None}]

\* Type invariant; the thread has a URL in hand exactly while it fetches.
TypeOK ==
  /\ queue \in [Category -> Seq(Url)]
  /\ turn \in 1 .. Len(Order)
  /\ hand \in Url \cup {None}
  /\ pc \in {"top", "fetch", "ended"}
  /\ warm \in SUBSET Domain
  /\ done \in SUBSET Url
  /\ scraped \in Nat /\ blocks \in Nat
  /\ status \in Statuses
  /\ running \in BOOLEAN
  /\ refused \in [Url -> Nat]
  /\ hand # None <=> pc = "fetch"

\* Every waiting URL waits in its own category's deque, once, and is
\* neither in hand nor scraped; the URL in hand is not scraped.
EachOnce ==
  /\ \A c \in Category : IsInjective(queue[c])
  /\ \A c \in Category : \A u \in Range(queue[c]) : CatOf[u] = c /\ u # hand /\ u \notin done
  /\ hand \notin done

\* A URL that was blocked and is not yet scraped is in hand, or the next of
\* its category with no other URL of that category in hand; and its domain
\* is cold.
RefusedIsNext ==
  \A u \in Url : refused[u] > 0 /\ u \notin done =>
    /\ DomainOf[u] \notin warm
    /\ \/ hand = u
       \/ /\ queue[CatOf[u]] # <<>> /\ Head(queue[CatOf[u]]) = u
          /\ hand # None => CatOf[hand] # CatOf[u]

\* No URL is blocked twice: the deque's front position keeps the retry ahead
\* of every other URL of its domain, whose counter the block has reset.
BlockedAtMostOnce == \A u \in Url : refused[u] <= 1

\* A block needs a success before it on the same domain, and every block
\* and every domain still warm has one of its own: there are never more
\* blocks than scraped URLs.
BlocksPaidFor == blocks + Cardinality(warm) <= scraped

\* "done" is reported only when every URL has been scraped, never because
\* the scan stopped short of a deque with work or because of stop().
DoneMeansAll == status.what = "done" => done = Url /\ scraped = Cardinality(Url)

\* "Block fires -> ... switch domain": after a block the next fetch is from
\* another category, if any other has work.
SwitchesAfterBlock ==
  [][\A c \in Category :
       /\ status = Says("blocked", c)
       /\ pc' = "fetch"
       /\ \E d \in Category \ {c} : queue[d] # <<>>
       => CatOf[hand'] # c]_vars

Pool == INSTANCE WorkPool WITH
          Worker <- {0},
          pending <- {u \in Url : \E c \in Category : u \in Range(queue[c])},
          held <- [w \in {0} |-> hand]

\* The single scraper implements the same abstract pool as the fleet, with
\* one worker: neither competitor loses or repeats a URL.
ImplementsWorkPool == Pool!Spec

\* Unless it is stopped, the single scraper scrapes everything and says so.
EveryUrlScraped == <>((done = Url /\ status.what = "done") \/ ~running)
=============================================================================
