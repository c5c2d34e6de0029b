---------------------------- MODULE MCTiledMatMul ----------------------------
(***************************************************************************)
(* TiledMatMul on a 2 x 2 block that hangs over the right edge of the      *)
(* matrices: three tiles, the last of them half empty.                     *)
(***************************************************************************)
EXTENDS TiledMatMul

ASSUME BlockIsOnTheEdge ==
  /\ \E th \in Threads : InRange(th)
  /\ \E th \in Threads : ~InRange(th)
  /\ numTiles * TILE_SIZE > colsA
=============================================================================
