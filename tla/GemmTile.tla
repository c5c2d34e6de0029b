------------------------------ MODULE GemmTile ------------------------------
(***************************************************************************)
(* The geometry and the global-memory accesses that the tiled matrix       *)
(* multiplication kernels of src/CUDA share: which row and column a thread *)
(* owns, which elements of A and B it copies into shared memory for tile   *)
(* t, and which cell of C it stores.  A and B are flat row-major arrays;   *)
(* an element is represented by its index in the array, and the constant 0 *)
(* that pads a tile by Zero.  A sum of products is the set of its non-zero *)
(* terms <<n, a, b>>: iteration n added A[a] * B[b].                       *)
(***************************************************************************)
EXTENDS Integers

CONSTANTS
  TILE_SIZE,           \* side of the square tile and of the thread block
  rowsA, colsA, colsB, \* A is rowsA x colsA, B is colsA x colsB
  blockIdxX, blockIdxY \* the block under study; blocks share no state

ASSUME GemmAssumption ==
  /\ TILE_SIZE \in Nat \ {0}
  /\ rowsA \in Nat \ {0} /\ colsA \in Nat \ {0} /\ colsB \in Nat \ {0}
  /\ blockIdxX \in Nat /\ blockIdxY \in Nat

Zero == -1         \* the literal 0 stored into a tile, told apart from indices
OutOfBounds == -2  \* whatever lies beyond the end of a global array

Lanes == 0 .. TILE_SIZE - 1
Threads == Lanes \X Lanes   \* <<threadIdx.y, threadIdx.x>>

threadIdxY(th) == th[1]
threadIdxX(th) == th[2]
row(th) == blockIdxY * TILE_SIZE + threadIdxY(th)
col(th) == blockIdxX * TILE_SIZE + threadIdxX(th)

numTiles == (colsA + TILE_SIZE - 1) \div TILE_SIZE

(* An access to a global array of the given size. *)
At(index, size) == IF index \in 0 .. size - 1 THEN index ELSE OutOfBounds

-----------------------------------------------------------------------------
(* A faulty load for the mutation checks: the column test is forgotten. *)
ElemOfANoColumnGuard(t, th) ==
  IF row(th) < rowsA
    THEN At(row(th) * colsA + t * TILE_SIZE + threadIdxX(th), rowsA * colsA)
    ELSE Zero

(* What thread th stores into its cell of tile t of A. *)
ElemOfA(t, th) ==
  IF row(th) < rowsA /\ t * TILE_SIZE + threadIdxX(th) < colsA
    THEN At(row(th) * colsA + t * TILE_SIZE + threadIdxX(th), rowsA * colsA)
    ELSE Zero

(* What thread th stores into its cell of tile t of B. *)
ElemOfB(t, th) ==
  IF col(th) < colsB /\ t * TILE_SIZE + threadIdxY(th) < colsA
    THEN At((t * TILE_SIZE + threadIdxY(th)) * colsB + col(th), colsA * colsB)
    ELSE Zero

(* The contribution of iteration k of tile t when the kernel multiplies a and b. *)
Product(t, k, a, b) ==
  IF a = Zero \/ b = Zero THEN {} ELSE {<<t * TILE_SIZE + k, a, b>>}

(* Threads whose row and column exist; the others must not store. *)
InRange(th) == row(th) < rowsA /\ col(th) < colsB
OutIndex(th) == row(th) * colsB + col(th)

-----------------------------------------------------------------------------
(* The mathematical product, independent of tiles: C[r][c] = sum_k A[r][k]*B[k][c]. *)
Dot(th) == {<<n, row(th) * colsA + n, n * colsB + col(th)>> : n \in 0 .. colsA - 1}
ArrayCells == 0 .. rowsA * colsB - 1
OutCells == {OutIndex(th) : th \in {u \in Threads : InRange(u)}}
DotProduct ==
  [c \in OutCells |-> Dot(CHOOSE th \in Threads : InRange(th) /\ OutIndex(th) = c)]
=============================================================================
