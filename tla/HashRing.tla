------------------------------ MODULE HashRing ------------------------------
(***************************************************************************)
(* The ring of ConsistentHashRing: a set of entries, each the position of  *)
(* one virtual copy of a node.  The sorted list the code keeps is ordered  *)
(* by position and then by name; a key belongs to the first entry at its   *)
(* position or after it, and past the last entry to the first of all.      *)
(* Copies may share a position.  Names are numbered in their order.        *)
(***************************************************************************)
EXTENDS Integers

CONSTANTS
  RingNode,  \* the numbers of the names
  Position,  \* 0 .. 2^32 - 1
  CopyAt     \* node -> the positions _ring_hash gives its virtual copies

ASSUME HashRingAssumption ==
  /\ RingNode \subseteq Nat /\ Position \subseteq Nat
  /\ CopyAt \in [RingNode -> SUBSET Position]

Entry == [pos : Position, node : RingNode]

AtOrBefore(e, f) == e.pos < f.pos \/ (e.pos = f.pos /\ e.node <= f.node)

\* Where the search for a key at position p may end.
Candidates(ring, p) ==
  LET after == {e \in ring : e.pos >= p}
  IN  IF after # {} THEN after ELSE ring

\* get_node returns the node of the entry e.
Owns(ring, p, e) ==
  e \in Candidates(ring, p) /\ \A f \in Candidates(ring, p) : AtOrBefore(e, f)

\* Mutant: a node that joins evicts the copies right after its own.
MutWithNode(ring, n) ==
  {e \in ring : e.pos \notin {q + 1 : q \in CopyAt[n]}}
    \cup [pos : CopyAt[n], node : {n}]

\* add_node
WithNode(ring, n) == ring \cup [pos : CopyAt[n], node : {n}]
WithoutNode(ring, n) == {e \in ring : e.node # n}
=============================================================================
