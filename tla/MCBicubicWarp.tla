---------------------------- MODULE MCBicubicWarp ----------------------------
(***************************************************************************)
(* The two warp variants of the backward kernel that are not correct, with *)
(* 2 x 2 blocks; a warp is a whole block.  BicubicWarpAll has the scale of *)
(* 2 that main uses, BicubicWarpTree, for the number of its states, one    *)
(* block and the scale 1.                                                  *)
(***************************************************************************)
EXTENDS BicubicWarpTree, BicubicWarpAll

Call(kernel, host, size) ==
  [kernel |-> kernel, host |-> host, TILE |-> 2,
   inW |-> size[1], inH |-> size[2], outW |-> size[3], outH |-> size[4]]

TreeJobs == {Call(v6_fixed, v6_fixedHost, <<2, 2, 2, 2>>)}
AllJobs == {Call(optimized_atomic, optimized_atomicHost, <<2, 1, 4, 2>>)}
=============================================================================
