------------------------------ MODULE MCFleet -------------------------------
(***************************************************************************)
(* Small fleets for TLC.  While a shard has no worker alive, its URLs can  *)
(* only be stolen.                                                         *)
(***************************************************************************)
EXTENDS Fleet, TLC

CONSTANTS w1, w2, w3, u1, u2, u3

MCShard == {"x", "y"}
MCShardOrder == <<"x", "y">>
MCDomain == {"dx", "dy"}

\* Two workers share shard "x" and the third is alone on "y": rivals for one
\* deque, thieves at its other end, URLs that migrate between shards.
TwoOnX == [w \in Worker |-> IF w = w3 THEN "y" ELSE "x"]

\* The workers on different shards, stealing from each other.
OneEach == [w \in Worker |-> IF w = w1 THEN "x" ELSE "y"]

CatOf3 == (u1 :> "x" @@ u2 :> "x" @@ u3 :> "y")
DomainOf3 == (u1 :> "dx" @@ u2 :> "dx" @@ u3 :> "dy")
Backlog3 == [x |-> <<u1, u2>>, y |-> <<u3>>]

CatOf2 == (u1 :> "x" @@ u2 :> "x")
DomainOf2 == (u1 :> "dx" @@ u2 :> "dx")
Backlog2 == [x |-> <<u1, u2>>, y |-> <<>>]

\* A tally is the sum it stands for.
ASSUME TallyIsSum == \A f \in [1 .. 3 -> 0 .. 3] : Tally(f, 1 .. 3) = SumFunction(f)
=============================================================================
