--------------------------- MODULE MCDoubleBuffer ---------------------------
(***************************************************************************)
(* DoubleBuffer on a 2 x 2 block over a 3 x 5 by 5 x 3 product: three      *)
(* tiles, so that both buffers are reused, the last one half empty, and a  *)
(* block whose threads are in the matrix, on its edge and outside it.      *)
(***************************************************************************)
EXTENDS DoubleBuffer

(* The worst case for the guards: the last block in both directions. *)
ASSUME BlockIsOnTheEdge ==
  /\ \E th \in Threads : InRange(th)
  /\ \E th \in Threads : ~InRange(th)
  /\ numTiles * TILE_SIZE > colsA
=============================================================================
