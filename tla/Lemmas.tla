------------------------------- MODULE Lemmas -------------------------------
(***************************************************************************)
(* Facts that the proofs share: what the deque operations of the scrapers  *)
(* (popleft, pop, appendleft, append) take from a deque, put into it and   *)
(* keep in it; remainders of a division; totals of counters.               *)
(***************************************************************************)
EXTENDS Totals, Sequences, Functions, SequenceTheorems, FiniteSetTheorems, TLAPS

(* Deques.                                                                 *)

\* popleft: the rest of the deque, without the URL taken.
LEMMA PopLeft ==
  ASSUME NEW S, NEW q \in Seq(S), q # <<>>
  PROVE  /\ Head(q) \in S /\ Tail(q) \in Seq(S)
         /\ Range(q) = {Head(q)} \cup Range(Tail(q))
         /\ IsInjective(q) => Head(q) \notin Range(Tail(q)) /\ IsInjective(Tail(q))
<1>1. /\ Head(q) \in S /\ Tail(q) \in Seq(S)
      /\ Len(Tail(q)) = Len(q) - 1
      /\ \A i \in 1 .. Len(Tail(q)) : Tail(q)[i] = q[i + 1]
  BY HeadTailProperties
<1>2. Len(q) \in Nat \ {0} /\ Head(q) = q[1]
  OBVIOUS
<1>3. /\ DOMAIN q = 1 .. Len(q) /\ DOMAIN Tail(q) = 1 .. Len(Tail(q))
      /\ Range(q) = {q[i] : i \in 1 .. Len(q)}
      /\ Range(Tail(q)) = {Tail(q)[i] : i \in 1 .. Len(Tail(q))}
  BY <1>1, RangeEquality, LenProperties
<1>4. Range(q) = {Head(q)} \cup Range(Tail(q))
  <2>1. \A x \in Range(q) : x = Head(q) \/ x \in Range(Tail(q))
    <3>1. SUFFICES ASSUME NEW i \in 1 .. Len(q)
                   PROVE  q[i] = Head(q) \/ q[i] \in Range(Tail(q))
      BY <1>3
    <3>2. CASE i = 1
      BY <3>2, <1>2
    <3>3. CASE i # 1
      <4>1. i - 1 \in 1 .. Len(Tail(q)) /\ Tail(q)[i - 1] = q[i]
        BY <3>3, <1>1, <1>2
      <4>2. QED
        BY <4>1, <1>3
    <3>4. QED
      BY <3>2, <3>3
  <2>2. Head(q) \in Range(q)
    BY <1>2, <1>3
  <2>3. \A x \in Range(Tail(q)) : x \in Range(q)
    <3>1. SUFFICES ASSUME NEW i \in 1 .. Len(Tail(q))
                   PROVE  Tail(q)[i] \in Range(q)
      BY <1>3
    <3>2. i + 1 \in 1 .. Len(q) /\ Tail(q)[i] = q[i + 1]
      BY <1>1, <1>2
    <3>3. QED
      BY <3>2, <1>3
  <2>4. QED
    BY <2>1, <2>2, <2>3
<1>5. ASSUME IsInjective(q)
      PROVE  Head(q) \notin Range(Tail(q)) /\ IsInjective(Tail(q))
  <2>1. \A a, b \in 1 .. Len(q) : q[a] = q[b] => a = b
    BY <1>5, <1>3 DEF IsInjective
  <2>2. \A i \in 1 .. Len(Tail(q)) : i + 1 \in 1 .. Len(q) /\ i + 1 # 1
    BY <1>1, <1>2
  <2>3. Head(q) \notin Range(Tail(q))
    BY <2>1, <2>2, <1>1, <1>2, <1>3
  <2>4. \A a, b \in 1 .. Len(Tail(q)) : Tail(q)[a] = Tail(q)[b] => a = b
    <3>1. SUFFICES ASSUME NEW a \in 1 .. Len(Tail(q)), NEW b \in 1 .. Len(Tail(q)),
                          Tail(q)[a] = Tail(q)[b]
                   PROVE  a = b
      OBVIOUS
    <3>2. q[a + 1] = q[b + 1]
      BY <3>1, <1>1
    <3>3. a + 1 = b + 1
      BY <3>2, <2>1, <2>2
    <3>4. QED
      BY <3>3
  <2>5. QED
    BY <2>3, <2>4, <1>3 DEF IsInjective
<1>6. QED
  BY <1>1, <1>4, <1>5

\* pop: the front of the deque, without the URL at its back.
LEMMA PopRight ==
  ASSUME NEW S, NEW q \in Seq(S), q # <<>>
  PROVE  LET last == q[Len(q)]  front == SubSeq(q, 1, Len(q) - 1)
         IN  /\ last \in S /\ front \in Seq(S)
             /\ Range(q) = {last} \cup Range(front)
             /\ IsInjective(q) => last \notin Range(front) /\ IsInjective(front)
<1> DEFINE last == q[Len(q)]
           front == SubSeq(q, 1, Len(q) - 1)
<1>1. Len(q) \in Nat \ {0} /\ (\A i \in 1 .. Len(q) : q[i] \in S)
  OBVIOUS
<1>2. /\ front \in Seq(S) /\ Len(front) = Len(q) - 1
      /\ \A i \in 1 .. Len(front) : front[i] = q[i]
  <2>1. PICK n \in Nat : n = Len(q) - 1
    BY <1>1
  <2>2. \A i \in 1 .. n : q[i] \in S
    BY <1>1, <2>1
  <2>3. /\ SubSeq(q, 1, n) \in Seq(S)
        /\ Len(SubSeq(q, 1, n)) = IF 1 <= n THEN n - 1 + 1 ELSE 0
        /\ \A i \in 1 .. n - 1 + 1 : SubSeq(q, 1, n)[i] = q[1 + i - 1]
    BY <2>2, SubSeqProperties
  <2>4. Len(SubSeq(q, 1, n)) = n
    BY <2>3
  <2>5. \A i \in 1 .. n : SubSeq(q, 1, n)[i] = q[i]
    <3>1. \A i \in 1 .. n : i \in 1 .. n - 1 + 1 /\ 1 + i - 1 = i
      OBVIOUS
    <3>2. QED
      BY <3>1, <2>3
  <2>6. QED
    BY <2>1, <2>3, <2>4, <2>5
<1>3. /\ DOMAIN q = 1 .. Len(q) /\ DOMAIN front = 1 .. Len(front)
      /\ Range(q) = {q[i] : i \in 1 .. Len(q)}
      /\ Range(front) = {front[i] : i \in 1 .. Len(front)}
  BY <1>2, RangeEquality, LenProperties
<1> HIDE DEF front
<1>4. Range(q) = {last} \cup Range(front)
  <2>1. \A i \in 1 .. Len(q) : i = Len(q) \/ i \in 1 .. Len(front)
    BY <1>1, <1>2
  <2>2. \A i \in 1 .. Len(front) : i \in 1 .. Len(q)
    BY <1>1, <1>2
  <2>3. QED
    BY <2>1, <2>2, <1>1, <1>2, <1>3
<1>5. ASSUME IsInjective(q)
      PROVE  last \notin Range(front) /\ IsInjective(front)
  <2>1. \A a, b \in 1 .. Len(q) : q[a] = q[b] => a = b
    BY <1>5, <1>3 DEF IsInjective
  <2>2. \A i \in 1 .. Len(front) : i \in 1 .. Len(q) /\ i # Len(q)
    BY <1>1, <1>2
  <2>3. last \notin Range(front)
    BY <2>1, <2>2, <1>1, <1>2, <1>3
  <2>4. \A a, b \in 1 .. Len(front) : front[a] = front[b] => a = b
    BY <2>1, <2>2, <1>2
  <2>5. QED
    BY <2>3, <2>4, <1>3 DEF IsInjective
<1>6. last \in S
  BY <1>1
<1>7. QED
  BY <1>2, <1>4, <1>5, <1>6 DEF front

\* appendleft: the deque with one more URL in front.
LEMMA PushLeft ==
  ASSUME NEW S, NEW q \in Seq(S), NEW u \in S
  PROVE  /\ <<u>> \o q \in Seq(S)
         /\ Range(<<u>> \o q) = {u} \cup Range(q)
         /\ IsInjective(q) /\ u \notin Range(q) => IsInjective(<<u>> \o q)
<1> DEFINE p == <<u>> \o q
<1>1. PICK one : one \in Seq(S) /\ one = <<u>> /\ Len(one) = 1 /\ one[1] = u
  <2>1. <<u>> \in Seq(S) /\ Len(<<u>>) = 1 /\ <<u>>[1] = u
    OBVIOUS
  <2>2. QED
    BY <2>1, Zenon
<1>2. /\ p \in Seq(S) /\ Len(p) = 1 + Len(q)
      /\ \A i \in 1 .. 1 + Len(q) : p[i] = IF i <= 1 THEN u ELSE q[i - 1]
  <2>1. /\ one \o q \in Seq(S) /\ Len(one \o q) = Len(one) + Len(q)
        /\ \A i \in 1 .. Len(one) + Len(q) :
             (one \o q)[i] = IF i <= Len(one) THEN one[i] ELSE q[i - Len(one)]
    BY <1>1, ConcatProperties
  <2>2. \A i \in 1 .. 1 + Len(q) : i <= 1 => i = 1
    OBVIOUS
  <2>3. QED
    BY <1>1, <2>1, <2>2
<1>3. Range(p) = {u} \cup Range(q)
  <2>1. Range(one \o q) = Range(one) \cup Range(q)
    BY <1>1, RangeConcatenation
  <2>2. Range(one) = {u}
    <3>0. one \in Seq(S)
      BY <1>1
    <3>1. Range(one) = {one[i] : i \in 1 .. Len(one)}
      BY <3>0, RangeEquality
    <3>2. 1 \in 1 .. Len(one) /\ \A i \in 1 .. Len(one) : i = 1
      BY <1>1
    <3>3. Range(one) = {one[1]}
      BY <3>1, <3>2, Zenon
    <3>4. QED
      BY <3>3, <1>1, Zenon
  <2>3. QED
    BY <2>1, <2>2, <1>1
<1>4. Len(q) \in Nat /\ DOMAIN q = 1 .. Len(q) /\ DOMAIN p = 1 .. Len(p)
      /\ Range(q) = {q[i] : i \in 1 .. Len(q)}
  BY <1>2, RangeEquality, LenProperties
<1> HIDE DEF p
<1>5. ASSUME IsInjective(q), u \notin Range(q)
      PROVE  IsInjective(p)
  <2>1. \A a, b \in 1 .. Len(q) : q[a] = q[b] => a = b
    BY <1>5, <1>4 DEF IsInjective
  <2>2. \A i \in 1 .. Len(p) : \/ i = 1 /\ p[i] = u
                               \/ i - 1 \in 1 .. Len(q) /\ p[i] = q[i - 1]
    BY <1>2, <1>4
  <2>3. ASSUME NEW a \in 1 .. Len(p), NEW b \in 1 .. Len(p), p[a] = p[b]
        PROVE  a = b
    <3>1. CASE a = 1 \/ b = 1
      BY <3>1, <2>2, <2>3, <1>4, <1>5
    <3>2. CASE a # 1 /\ b # 1
      <4>1. a - 1 \in 1 .. Len(q) /\ b - 1 \in 1 .. Len(q) /\ q[a - 1] = q[b - 1]
        BY <3>2, <2>2, <2>3
      <4>2. a - 1 = b - 1
        BY <4>1, <2>1
      <4>3. QED
        BY <4>2
    <3>3. QED
      BY <3>1, <3>2
  <2>4. QED
    BY <2>3, <1>4 DEF IsInjective
<1>6. QED
  BY <1>2, <1>3, <1>5 DEF p

\* append: the deque with one more URL at its back.
LEMMA PushRight ==
  ASSUME NEW S, NEW q \in Seq(S), NEW u \in S
  PROVE  /\ Append(q, u) \in Seq(S) /\ Len(Append(q, u)) = Len(q) + 1
         /\ \A i \in 1 .. Len(q) : Append(q, u)[i] = q[i]
         /\ Append(q, u)[Len(q) + 1] = u
         /\ Range(Append(q, u)) = Range(q) \cup {u}
         /\ IsInjective(q) /\ u \notin Range(q) => IsInjective(Append(q, u))
<1> DEFINE p == Append(q, u)
<1>1. /\ p \in Seq(S) /\ Len(p) = Len(q) + 1 /\ Len(q) \in Nat
      /\ \A i \in 1 .. Len(q) : p[i] = q[i]
      /\ p[Len(q) + 1] = u
  BY AppendProperties
<1>2. /\ DOMAIN q = 1 .. Len(q) /\ DOMAIN p = 1 .. Len(p)
      /\ Range(q) = {q[i] : i \in 1 .. Len(q)}
      /\ Range(p) = {p[i] : i \in 1 .. Len(p)}
  BY <1>1, RangeEquality, LenProperties
<1> HIDE DEF p
<1>3. \A i \in 1 .. Len(p) : i \in 1 .. Len(q) \/ i = Len(q) + 1
  BY <1>1
<1>4. \A i \in 1 .. Len(q) : i \in 1 .. Len(p) /\ i # Len(q) + 1
  BY <1>1
<1>5. Len(q) + 1 \in 1 .. Len(p)
  BY <1>1
<1>6. Range(p) = Range(q) \cup {u}
  BY <1>1, <1>2, <1>3, <1>4, <1>5
<1>7. ASSUME IsInjective(q), u \notin Range(q) PROVE IsInjective(p)
  <2>1. \A a, b \in 1 .. Len(q) : q[a] = q[b] => a = b
    BY <1>7, <1>2 DEF IsInjective
  <2>2. \A a \in 1 .. Len(q) : q[a] # u
    BY <1>7, <1>2
  <2>3. \A a, b \in 1 .. Len(p) : p[a] = p[b] => a = b
    BY <2>1, <2>2, <1>1, <1>3
  <2>4. QED
    BY <2>3, <1>2 DEF IsInjective
<1>8. QED
  BY <1>1, <1>6, <1>7 DEF p
-----------------------------------------------------------------------------
(* Remainders.                                                             *)

\* Division leaves a remainder below the divisor.
LEMMA Division ==
  ASSUME NEW a \in Int, NEW m \in Nat \ {0}
  PROVE  a % m \in 0 .. m - 1 /\ \E q \in Int : a = m * q + (a % m)
<1>1. a = m * (a \div m) + (a % m) /\ a % m \in 0 .. m - 1 /\ a \div m \in Int
  OBVIOUS
<1>2. QED
  BY <1>1

\* Quotient and remainder are unique.
LEMMA OneRemainder ==
  ASSUME NEW m \in Nat \ {0}, NEW q \in Int, NEW r \in 0 .. m - 1,
         NEW p \in Int, NEW s \in 0 .. m - 1, m * q + r = m * p + s
  PROVE  r = s
<1>1. m * (q - p) = s - r
  OBVIOUS
<1>2. q - p >= 1 => m * (q - p) >= m
  OBVIOUS
<1>3. q - p <= -1 => m * (q - p) <= -m
  OBVIOUS
<1>4. QED
  BY <1>1, <1>2, <1>3

\* Two numbers have one remainder exactly if their difference is a multiple.
LEMMA SameRemainder ==
  ASSUME NEW a \in Int, NEW b \in Int, NEW m \in Nat \ {0}
  PROVE  (a - b) % m = 0 <=> a % m = b % m
<1> SUFFICES ASSUME NEW c \in Int, a = b + c
             PROVE  c % m = 0 <=> a % m = b % m
  OBVIOUS
<1> DEFINE r == a % m
           s == b % m
           t == c % m
<1>1. PICK p \in Int : a = m * p + r
  BY Division
<1>2. PICK q \in Int : b = m * q + s
  BY Division
<1>3. PICK d \in Int : c = m * d + t
  BY Division
<1>4. r \in 0 .. m - 1 /\ s \in 0 .. m - 1 /\ t \in 0 .. m - 1 /\ 0 \in 0 .. m - 1
  BY Division
<1> HIDE DEF r, s, t
<1>5. ASSUME r = s PROVE t = 0
  <2>1. m * d + t = m * (p - q) + 0
    BY <1>1, <1>2, <1>3, <1>4, <1>5
  <2>2. QED
    BY <2>1, <1>4, OneRemainder
<1>6. ASSUME t = 0 PROVE r = s
  <2>1. m * p + r = m * (q + d) + s
    BY <1>1, <1>2, <1>3, <1>4, <1>6
  <2>2. q + d \in Int
    OBVIOUS
  <2>3. QED
    BY <2>1, <2>2, <1>4, OneRemainder
<1>7. QED
  BY <1>5, <1>6 DEF r, s, t

-----------------------------------------------------------------------------
(* Totals.                                                                 *)

\* The units of one argument.
LEMMA UnitsOfOne ==
  ASSUME NEW x, NEW n \in Nat
  PROVE  /\ IsFiniteSet({x} \X (1 .. n))
         /\ Cardinality({x} \X (1 .. n)) = n
<1>1. IsFiniteSet(1 .. n) /\ Cardinality(1 .. n) = n
  BY FS_Interval
<1>2. IsFiniteSet({x}) /\ Cardinality({x}) = 1
  BY FS_Singleton
<1>3. QED
  BY <1>1, <1>2, FS_Product

\* A total of nothing, and a total that takes in one more argument.
LEMMA TallyOfNone ==
  ASSUME NEW f
  PROVE  IsFiniteSet(Units(f, {})) /\ Tally(f, {}) = 0
BY FS_EmptySet DEF Units, Tally

LEMMA TallyOfOneMore ==
  ASSUME NEW f, NEW S, NEW x, x \notin S, f[x] \in Nat, IsFiniteSet(Units(f, S))
  PROVE  /\ IsFiniteSet(Units(f, S \cup {x}))
         /\ Tally(f, S \cup {x}) = Tally(f, S) + f[x]
<1> DEFINE A == Units(f, S)
           B == {x} \X (1 .. f[x])
<1>1. Units(f, S \cup {x}) = A \cup B /\ A \cap B = {}
  BY DEF Units
<1>2. IsFiniteSet(A) /\ Cardinality(A) \in Nat /\ IsFiniteSet(B) /\ Cardinality(B) = f[x]
  BY UnitsOfOne, FS_CardinalityType
<1> HIDE DEF A, B
<1>3. IsFiniteSet(A \cup B) /\ Cardinality(A \cup B) = Cardinality(A) + f[x]
  <2>1. /\ IsFiniteSet(A \cup B)
        /\ Cardinality(A \cup B) = Cardinality(A) + Cardinality(B) - Cardinality(A \cap B)
    BY <1>2, FS_Union
  <2>2. Cardinality(A \cap B) = 0
    BY <1>1, FS_EmptySet
  <2>3. QED
    BY <1>2, <2>1, <2>2
<1>4. QED
  BY <1>1, <1>3 DEF A, Tally

\* Every finite total is a number, and a value of zero adds nothing to it.
LEMMA TallyOfAll ==
  ASSUME NEW f, NEW S, IsFiniteSet(S), \A x \in S : f[x] \in Nat
  PROVE  IsFiniteSet(Units(f, S)) /\ Tally(f, S) \in Nat
<1> DEFINE unit == [x \in S |-> {x} \X (1 .. f[x])]
           T == {{x} \X (1 .. f[x]) : x \in S}
<1>1. unit \in Surjection(S, T)
  BY DEF Surjection
<1>2. IsFiniteSet(T)
  BY <1>1, FS_Surjection
<1>3. ASSUME NEW x \in S PROVE IsFiniteSet({x} \X (1 .. f[x]))
  BY UnitsOfOne
<1>4. IsFiniteSet(UNION T)
  <2>1. \A U \in T : IsFiniteSet(U)
    BY <1>3
  <2>2. QED
    BY <1>2, <2>1, FS_UNION
<1>5. QED
  BY <1>4, FS_CardinalityType DEF Units, Tally

\* Where the values are zero the total does not look.
LEMMA TallyOfSome ==
  ASSUME NEW f, NEW S, NEW T, T \subseteq S, \A x \in S \ T : f[x] = 0
  PROVE  Units(f, S) = Units(f, T) /\ Tally(f, S) = Tally(f, T)
<1>1. \A x \in S \ T : {x} \X (1 .. f[x]) = {}
  OBVIOUS
<1>2. Units(f, S) = Units(f, T)
  BY <1>1 DEF Units
<1>3. QED
  BY <1>2 DEF Tally

\* A value that grows by one makes the total grow by one.
LEMMA TallyGrows ==
  ASSUME NEW S, IsFiniteSet(S), NEW f \in [S -> Nat], NEW x \in S, NEW g,
         g = [f EXCEPT ![x] = @ + 1]
  PROVE  Tally(g, S) = Tally(f, S) + 1
<1>1. \A y \in S : g[y] = IF y = x THEN f[y] + 1 ELSE f[y]
  OBVIOUS
<1>2. 1 .. g[x] = 1 .. f[x] \cup {f[x] + 1} /\ f[x] + 1 \notin 1 .. f[x]
  BY <1>1
<1>3. Units(g, S) = Units(f, S) \cup {<<x, f[x] + 1>>}
  BY <1>1, <1>2 DEF Units
<1>4. <<x, f[x] + 1>> \notin Units(f, S)
  BY <1>2 DEF Units
<1>5. IsFiniteSet(Units(f, S))
  BY TallyOfAll
<1>6. QED
  BY <1>3, <1>4, <1>5, FS_AddElement DEF Tally
=============================================================================
