---------------------------- MODULE MCObservers -----------------------------
\* Small instance of Observers: three workers, of which the third was spawned
\* when two vector slots were taken, and one more thread that logs.
EXTENDS Observers, TLC

CONSTANTS u1, u2, scaler

Symmetry == Permutations({u1, u2})
=============================================================================
