------------------------------ MODULE MCGates -------------------------------
\* Small instance of Gates: two workers share a bucket of two tokens; the
\* breaker of the first is the fleet's, of the second that of the tests.
EXTENDS Gates

CONSTANTS w1, w2

MCThreshold == [w \in Worker |-> IF w = w1 THEN 1 ELSE 2]
=============================================================================
