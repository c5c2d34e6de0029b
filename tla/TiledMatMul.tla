----------------------------- MODULE TiledMatMul -----------------------------
(***************************************************************************)
(* One thread block of matrixMulTiled (src/CUDA/matrixMulTil.cu; the same  *)
(* kernel, with its tiles padded by a column, is in matmulUnroll.cu).      *)
(* There is one buffer per matrix, so each tile needs two barriers: one    *)
(* after the loads, and one before the next loads overwrite the tile.      *)
(***************************************************************************)
EXTENDS GemmBlock

TiledVars == <<tileA, tileB, C, pc, t, k, sum, arrived>>

(* The test of the outer loop: on to tile n, or out of the loop. *)
LoopTop(n) == IF n < numTiles THEN "loadA" ELSE "store"

TiledInit ==
  /\ tileA = [th \in Threads |-> Garbage]
  /\ tileB = [th \in Threads |-> Garbage]
  /\ C = [c \in ArrayCells |-> Unwritten]
  /\ pc = [th \in Threads |-> LoopTop(0)]
  /\ t = [th \in Threads |-> 0]
  /\ k = [th \in Threads |-> 0]
  /\ sum = [th \in Threads |-> {}]
  /\ arrived = [th \in Threads |-> 0]

-----------------------------------------------------------------------------
(* Faulty: the thread loads the next tile of A. *)
LoadTileANextTile(th) ==
  /\ pc[th] = "loadA"
  /\ tileA' = [tileA EXCEPT ![th] = ElemOfA(t[th] + 1, th)]
  /\ Goto(th, "loadB")
  /\ UNCHANGED <<tileB, C, t, k, sum, arrived>>

LoadTileA(th) ==
  /\ pc[th] = "loadA"
  /\ tileA' = [tileA EXCEPT ![th] = ElemOfA(t[th], th)]
  /\ Goto(th, "loadB")
  /\ UNCHANGED <<tileB, C, t, k, sum, arrived>>

(* Faulty: no barrier between the loads and the products. *)
LoadTileBNoBarrier(th) ==
  /\ pc[th] = "loadB"
  /\ tileB' = [tileB EXCEPT ![th] = ElemOfB(t[th], th)]
  /\ Goto(th, "compute")
  /\ UNCHANGED <<tileA, C, t, k, sum, arrived>>

LoadTileB(th) ==
  /\ pc[th] = "loadB"
  /\ tileB' = [tileB EXCEPT ![th] = ElemOfB(t[th], th)]
  /\ Goto(th, "sync1")
  /\ Arrive(th)
  /\ UNCHANGED <<tileA, C, t, k, sum>>

(* One iteration of the inner loop; the last one ends at the second barrier. *)
TiledAccumulate(th) ==
  /\ pc[th] = "compute"
  /\ sum' = [sum EXCEPT ![th] = @ \union
       Product(t[th], k[th], tileA[<<threadIdxY(th), k[th]>>],
                             tileB[<<k[th], threadIdxX(th)>>])]
  /\ IF k[th] + 1 < TILE_SIZE
       THEN /\ k' = [k EXCEPT ![th] = @ + 1]
            /\ UNCHANGED <<pc, arrived>>
       ELSE /\ k' = [k EXCEPT ![th] = 0]
            /\ Goto(th, "sync2")
            /\ Arrive(th)
  /\ UNCHANGED <<tileA, tileB, C, t>>

TiledLeaveSync1(th) ==
  /\ pc[th] = "sync1"
  /\ Released(th)
  /\ Goto(th, "compute")
  /\ UNCHANGED <<tileA, tileB, C, t, k, sum, arrived>>

(* Faulty: the barrier at the end of the iteration is missing. *)
TiledLeaveSync2NoBarrier(th) ==
  /\ pc[th] = "sync2"
  /\ t' = [t EXCEPT ![th] = @ + 1]
  /\ Goto(th, LoopTop(t[th] + 1))
  /\ UNCHANGED <<tileA, tileB, C, k, sum, arrived>>

(* Faulty: threads outside the matrix leave the loop for good. *)
TiledLeaveSync2EarlyReturn(th) ==
  /\ pc[th] = "sync2"
  /\ Released(th)
  /\ t' = [t EXCEPT ![th] = @ + 1]
  /\ Goto(th, IF InRange(th) THEN LoopTop(t[th] + 1) ELSE "done")
  /\ UNCHANGED <<tileA, tileB, C, k, sum, arrived>>

(* Faulty: one iteration too many. *)
TiledLeaveSync2ExtraTile(th) ==
  /\ pc[th] = "sync2"
  /\ Released(th)
  /\ t' = [t EXCEPT ![th] = @ + 1]
  /\ Goto(th, LoopTop(t[th]))
  /\ UNCHANGED <<tileA, tileB, C, k, sum, arrived>>

TiledLeaveSync2(th) ==
  /\ pc[th] = "sync2"
  /\ Released(th)
  /\ t' = [t EXCEPT ![th] = @ + 1]
  /\ Goto(th, LoopTop(t[th] + 1))
  /\ UNCHANGED <<tileA, tileB, C, k, sum, arrived>>

TiledStore(th) ==
  /\ pc[th] = "store"
  /\ C' = IF InRange(th) THEN [C EXCEPT ![OutIndex(th)] = sum[th]] ELSE C
  /\ Goto(th, "done")
  /\ UNCHANGED <<tileA, tileB, t, k, sum, arrived>>

TiledStep(th) ==
  \/ LoadTileA(th) \/ LoadTileB(th) \/ TiledLeaveSync1(th)
  \/ TiledAccumulate(th) \/ TiledLeaveSync2(th) \/ TiledStore(th)

TiledNext == \E th \in Threads : TiledStep(th)

TiledSpec == TiledInit /\ [][TiledNext]_TiledVars

(* The hardware scheduler never abandons a thread that can run. *)
TiledFairSpec == TiledSpec /\ \A th \in Threads : WF_TiledVars(TiledStep(th))

-----------------------------------------------------------------------------
TiledLabels == {"loadA", "loadB", "sync1", "compute", "sync2", "store", "done"}

(* Every variable keeps its type; in particular no thread runs past the    *)
(* last tile that line 19 counts.                                          *)
TiledTypeOK ==
  /\ tileA \in [Threads -> Int]
  /\ tileB \in [Threads -> Int]
  /\ DOMAIN C = ArrayCells
  /\ pc \in [Threads -> TiledLabels]
  /\ t \in [Threads -> 0 .. numTiles]
  /\ k \in [Threads -> Lanes]
  /\ DOMAIN sum = Threads
  /\ arrived \in [Threads -> Nat]

(* The shared cells a thread's next statement writes, and those it reads. *)
TiledWritesNext(th) ==
  CASE pc[th] = "loadA" -> {<<"A", th>>}
    [] pc[th] = "loadB" -> {<<"B", th>>}
    [] OTHER -> {}

TiledReadsNext(th) ==
  IF pc[th] = "compute"
    THEN {<<"A", <<threadIdxY(th), k[th]>>>>, <<"B", <<k[th], threadIdxX(th)>>>>}
    ELSE {}

(* No data race: a fast thread never overwrites the only copy of a tile    *)
(* that a slow thread still multiplies (lines 40-43), nor reads it early.  *)
TiledNoRace ==
  \A th, u \in Threads :
    th # u => TiledWritesNext(th) \cap (TiledReadsNext(u) \cup TiledWritesNext(u)) = {}

(* A thread that multiplies tile t still finds all of tile t, and only it, *)
(* in the row of A and the column of B it has yet to read (38-41).         *)
TiledTileComplete ==
  \A th \in Threads : pc[th] = "compute" =>
    \A kk \in k[th] .. TILE_SIZE - 1 :
      LET a == <<threadIdxY(th), kk>>
          b == <<kk, threadIdxX(th)>>
      IN  tileA[a] = ElemOfA(t[th], a) /\ tileB[b] = ElemOfB(t[th], b)
=============================================================================
