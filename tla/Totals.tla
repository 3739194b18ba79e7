------------------------------- MODULE Totals -------------------------------
(***************************************************************************)
(* sum(...) over the counters of workers, and the length of a list by what *)
(* it is a list of: a function's values added up over a finite set, as the *)
(* number of their units.                                                  *)
(***************************************************************************)
EXTENDS Integers, FiniteSets

\* Each argument x of f stands for itself f[x] times.
Units(f, S) == UNION {{x} \X (1 .. f[x]) : x \in S}

Tally(f, S) == Cardinality(Units(f, S))
=============================================================================
