------------------------------- MODULE MCBoot -------------------------------
\* Small instance of Boot: two domains of three URLs, one of which the
\* generator itself repeats, one URL of padding, two injected repeats, and
\* hash functions under which two URLs may hide a third.
EXTENDS Boot

MCCatOf == <<0, 2>>
MCCopyAt == [n \in RingNode |-> {2 * n, 5 - n}]
MCBitsOf == [u \in Url |-> {u.domain, 3 + (u.path[1] % 3)}]

\* With the source's own numbers, of the 720 indexes of any domain the
\* template without an id has 90, which give 15 URLs.
Distinct(from) ==
  Cardinality({IF i % 8 = 1 THEN <<i % 3, i % 12, i % 15>> ELSE <<i>> :
                 i \in from .. from + 719})
ASSUME OfTheSourceNumbers == \A d \in 0 .. 24 : Distinct(720 * d) = 645
=============================================================================
