------------------------------ MODULE GemmBlock ------------------------------
(***************************************************************************)
(* The state of one thread block that the two tiled kernels have in        *)
(* common, its barrier, and what the block promises.  Threads run          *)
(* independently and meet only at __syncthreads().                         *)
(***************************************************************************)
EXTENDS GemmTile

VARIABLES
  tileA, tileB,   \* __shared__: a tile of each matrix, or two
  C,              \* the output array in global memory
  pc,             \* per thread: the statement it executes next
  t, k,           \* per thread: the two loop counters
  sum,            \* per thread: the accumulator
  arrived         \* per thread: how many times it has reached __syncthreads()

Garbage == -3    \* uninitialised shared memory
Unwritten == {<<>>}   \* a C cell no thread has stored to

Goto(th, label) == pc' = [pc EXCEPT ![th] = label]
Arrive(th) == arrived' = [arrived EXCEPT ![th] = @ + 1]

(* Faulty: no barrier. *)
ReleasedAtOnce(th) == arrived[th] > 0

(* __syncthreads() lets a thread go on once the whole block has arrived. *)
Released(th) == \A u \in Threads : arrived[u] >= arrived[th]

-----------------------------------------------------------------------------
(* The block implements MatMul: it writes only the cells it owns, each     *)
(* once, and always with the whole dot product of its row and column.      *)
Mat == INSTANCE MatMul
ImplementsMatMul == Mat!MSpec

(* Every thread of the block ends, those outside the matrix included: none *)
(* waits at a barrier another will never reach (DoubleBuffer.cu 37 and 65, *)
(* matrixMulTil.cu 35 and 43), and the block leaves no cell of its own     *)
(* unwritten.                                                              *)
Terminates ==
  <>(/\ \A th \in Threads : pc[th] = "done"
     /\ \A c \in OutCells : C[c] # Unwritten)
=============================================================================
