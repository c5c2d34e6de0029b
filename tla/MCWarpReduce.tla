---------------------------- MODULE MCWarpReduce ----------------------------
(***************************************************************************)
(* WarpReduce with two blocks of two warps of four lanes: two iterations   *)
(* of the shuffle loop, and an array that ends in the middle of a warp, so *)
(* that lanes of one warp leave the grid-stride loop at different times.   *)
(***************************************************************************)
EXTENDS WarpReduce

ASSUME LastPassIsPartial ==
  /\ n > stride /\ n % stride # 0
  /\ n % warpSize # 0
=============================================================================
