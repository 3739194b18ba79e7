------------------------------- MODULE MCRaft -------------------------------
(***************************************************************************)
(* Small coordinator clusters for TLC.                                     *)
(***************************************************************************)
EXTENDS Raft

CONSTANT t1
=============================================================================
