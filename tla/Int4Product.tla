----------------------------- MODULE Int4Product -----------------------------
(***************************************************************************)
(* matrixMulVectorized of vector.cu: the matrices are arrays of int4, a    *)
(* block has TILE_SIZE \div WIDTH x TILE_SIZE threads, and a thread        *)
(* multiplies vectors component by component.  What every thread ends up   *)
(* with does not depend on the order of their steps: the two barriers per  *)
(* tile are those of TiledMatMul.  The operators say what it is, for a     *)
(* call j of length N.                                                     *)
(***************************************************************************)
EXTENDS Integers

Vectors(j) == j.N \div j.WIDTH          \* int4 values in a row of a matrix
Blocks(j) == LET Side == 0 .. (j.N + j.TILE_SIZE - 1) \div j.TILE_SIZE - 1 IN Side \X Side
Threads(j) == Blocks(j) \X ((0 .. j.TILE_SIZE - 1) \X (0 .. j.TILE_SIZE \div j.WIDTH - 1))

globalRow(j, th) == th[1][1] * j.TILE_SIZE + th[2][1]
vecCol(j, th) == (th[1][2] * j.TILE_SIZE + th[2][2]) \div j.WIDTH

(* Component w of the vector that a thread stores, and the column it is    *)
(* for.                                                                    *)
Column(j, th, w) == vecCol(j, th) * j.WIDTH + w
Stored(j) ==
  {<<globalRow(j, th), Column(j, th, w)>> :
     <<th, w>> \in {p \in Threads(j) \X (0 .. j.WIDTH - 1) :
                      globalRow(j, p[1]) < j.N /\ vecCol(j, p[1]) < Vectors(j)}}

(* Its sum, a set of pairs <<element of A, element of B>>.  A tile has     *)
(* TILE_SIZE \div WIDTH vectors, and vector v of the row of A meets row v  *)
(* of B, not row v * WIDTH + w.                                            *)
Sum(j, th, w) ==
  {<<<<globalRow(j, th), v * j.WIDTH + w>>, <<v, Column(j, th, w)>>>> :
     v \in {t * j.TILE_SIZE + k : t \in 0 .. (j.N + j.TILE_SIZE - 1) \div j.TILE_SIZE - 1,
                                  k \in 0 .. j.TILE_SIZE \div j.WIDTH - 1} \cap 0 .. Vectors(j) - 1}

DotProduct(j, c) == {<<<<c[1], k>>, <<k, c[2]>>>> : k \in 0 .. j.N - 1}
=============================================================================
