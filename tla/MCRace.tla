------------------------------- MODULE MCRace -------------------------------
(***************************************************************************)
(* Small races for TLC: one tab that may press Stop, one coordinator.      *)
(***************************************************************************)
EXTENDS Race

CONSTANTS tab1, timer, gossip, history, c1, w1, w2
=============================================================================
