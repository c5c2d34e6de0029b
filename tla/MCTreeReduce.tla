---------------------------- MODULE MCTreeReduce ----------------------------
(***************************************************************************)
(* TreeReduce with two blocks of four threads: two stages of the tree, and *)
(* blocks that start and finish in any order.                              *)
(***************************************************************************)
EXTENDS TreeReduce
=============================================================================
