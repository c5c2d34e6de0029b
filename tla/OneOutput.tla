------------------------------ MODULE OneOutput ------------------------------
(***************************************************************************)
(* The programs in which every element of the output is the business of    *)
(* one thread: sums and products of vectors, products of matrices from     *)
(* global memory (matrixMul1D.cu, matrixMulti.cu, csr.cu), transposes (of  *)
(* transpose.cu and in front of the products of kernel5.cu to kernel7.cu), *)
(* and the OpenMP loops of src/Optimization.  This module gives their      *)
(* plans; the statements are those of Stencil, where a pixel is an element *)
(* <<matrix, row, column>> here, and a sum the set of what goes into it.   *)
(***************************************************************************)
EXTENDS Integers, Sequences, SequencesExt, FiniteSetsExt, Tables

A == 1       \* the matrices
B == 2

(* The kernels.  grid: how threads are numbered; terms: what outputs are   *)
(* made of.  The OpenMP programs fill their matrices in a parallel loop,   *)
(* which ends with a barrier, before they use them in another one.         *)
Kernel(grid, terms) == [grid |-> grid, terms |-> terms, code |-> <<"store">>]
WithBarrier(grid, terms) ==
  [grid |-> grid, terms |-> terms, code |-> <<"load", "sync", "store">>]

vectorAdd == Kernel("line", "elements")
vectorAddUniMem == Kernel("line", "elements")
vectorMul == Kernel("line", "elements")
matrixAdd == Kernel("blocks", "elements")
matrixMul1D == Kernel("line", "product")
matrixMul == Kernel("blocks", "product")
gpu_sparse_matmul == Kernel("blocks", "sparse")
transposeNoConflict == WithBarrier("blocks", "transposed")
transposeFinal == WithBarrier("blocks", "transposed")
transpose16 == WithBarrier("blocks", "transposed")
transpose2D == WithBarrier("whole blocks", "transposed")
transpose2D_vec == WithBarrier("whole blocks", "transposed")
transpose_blocked_parallel == WithBarrier("team", "transposed")
transpose_blocked_float == WithBarrier("team", "transposed")
matVelOpenMP == WithBarrier("team", "product")

(* The hosts: the copy waits for the kernel, as the end of an OpenMP       *)
(* region does for its threads.  C of matVelOenmP.cpp starts with zeros.   *)
LaunchAndCopy == <<"launch", "copyBack">>
Accumulating == <<"memset", "launch", "copyBack">>

(* The programs other than the sparse product. *)
Versions ==
  {vectorAdd, vectorAddUniMem, vectorMul, matrixAdd, matrixMul1D, matrixMul,
   transposeNoConflict, transposeFinal, transpose16, transpose2D, transpose2D_vec,
   transpose_blocked_parallel, transpose_blocked_float} \X {LaunchAndCopy}
  \cup {<<matVelOpenMP, Accumulating>>}

-----------------------------------------------------------------------------
(* A call j has a kernel, a host, and rows, depth and cols; dim: the side  *)
(* of a block of threads or of a loop, or the length of a block in a line; *)
(* team: the number of OpenMP threads; nonZero: cells of a sparse matrix.  *)
(* Programs that do not test for the end of a matrix leave no rest, and    *)
(* the matrices of matVelOenmP.cpp are square.                             *)

Admissible(j) ==
  /\ <<j.kernel, j.host>> \in Versions
  /\ {j.dim, j.team, j.rows, j.depth, j.cols} \subseteq Nat \ {0}
  /\ j.kernel.grid \in {"whole blocks", "team"} => j.rows % j.dim = 0 /\ j.cols % j.dim = 0
  /\ j.kernel = matVelOpenMP => j.depth = j.rows /\ j.cols = j.rows

Transposed(j) == j.kernel.terms = "transposed"
Within(rows, cols) == (0 .. rows - 1) \X (0 .. cols - 1)
Cells(j) == IF Transposed(j) THEN Within(j.cols, j.rows) ELSE Within(j.rows, j.cols)

CeilDiv(a, b) == (a + b - 1) \div b
BlocksAlong(j, length) ==
  IF j.kernel.grid = "whole blocks" THEN length \div j.dim ELSE CeilDiv(length, j.dim)
Side(j) == 0 .. j.dim - 1
Threads(j) ==
  CASE j.kernel.grid = "line" -> (0 .. CeilDiv(j.rows * j.cols, j.dim) - 1) \X Side(j)
    [] j.kernel.grid = "team" -> {0} \X (0 .. j.team - 1)
    [] OTHER -> ((0 .. BlocksAlong(j, j.rows) - 1) \X (0 .. BlocksAlong(j, j.cols) - 1))
                  \X (Side(j) \X Side(j))

(* schedule(static): every thread of the team gets a contiguous share of n *)
(* iterations, the first ones one more where they cannot be equal.         *)
Smaller(a, b) == IF a < b THEN a ELSE b
ShareStart(j, n, thread) == thread * (n \div j.team) + Smaller(thread, n % j.team)
Share(j, n, thread) == ShareStart(j, n, thread) .. ShareStart(j, n, thread + 1) - 1

(* Where a thread stands in a line, or in a block of the matrix. *)
InLine(j, th) == LET i == th[1] * j.dim + th[2] IN <<i \div j.cols, i % j.cols>>
InBlock(j, block, th) == <<block[1] * j.dim + th[2][1], block[2] * j.dim + th[2][2]>>

(* Faulty: cells are not tested. *)
TestedNowhere(j, cells, matrix) == cells
(* The tests that cells are in a matrix, where there are any. *)
Tested(j, cells, matrix) == IF j.kernel.grid = "whole blocks" THEN cells ELSE cells \cap matrix

(* The cells of the input it loads before the barrier. *)
Loaded(j, th) ==
  IF j.kernel.grid = "team"
    THEN {c \in Within(j.rows, j.cols) :
            (IF Transposed(j) THEN c[1] * j.cols + c[2] \in Share(j, j.rows * j.cols, th[2])
             ELSE c[1] \in Share(j, j.rows, th[2]))}
    ELSE Tested(j, {InBlock(j, th[1], th)}, Within(j.rows, j.cols))

(* Faulty: a block of the transpose keeps its place. *)
StoredUnswapped(j, th) ==
  Tested(j,
   CASE j.kernel.grid = "team" ->
          {c \in Cells(j) : (IF Transposed(j) THEN c[2] ELSE c[1]) \div j.dim \in
                              Share(j, BlocksAlong(j, j.rows), th[2])}
     [] j.kernel.grid = "line" -> {InLine(j, th)}
     [] OTHER -> {InBlock(j, th[1], th)}, Cells(j))

(* The cells of the output it stores.  The blocks of a transpose change    *)
(* places; a loop is dealt out to the team by blocks of rows.              *)
Stored(j, th) ==
  Tested(j,
   CASE j.kernel.grid = "team" ->
          {c \in Cells(j) : (IF Transposed(j) THEN c[2] ELSE c[1]) \div j.dim \in
                              Share(j, BlocksAlong(j, j.rows), th[2])}
     [] j.kernel.grid = "line" -> {InLine(j, th)}
     [] OTHER -> {InBlock(j, IF Transposed(j) THEN <<th[1][2], th[1][1]>> ELSE th[1], th)},
   Cells(j))

-----------------------------------------------------------------------------
(* generate_sparse of csr.cu: the non-zeros, row by row, and the place in  *)
(* that sequence at which a row starts.                                    *)
NonZeros(j) ==
  SelectSeq([i \in 1 .. j.rows * j.depth |-> <<(i - 1) \div j.depth, (i - 1) % j.depth>>],
            LAMBDA c : c \in j.nonZero)
colIdx(j, p) == NonZeros(j)[p + 1][2]
values(j, p) == <<A, NonZeros(j)[p + 1][1], NonZeros(j)[p + 1][2]>>
rowPtrNextRow(j, row) == Cardinality({c \in j.nonZero : c[1] <= row}) \* faulty
rowPtr(j, row) == Cardinality({c \in j.nonZero : c[1] < row})
RowOf(j, row) == rowPtr(j, row) .. rowPtr(j, row + 1) - 1

(* What goes into output c: [term -> element], a term being numbered.      *)
Products(j, c, K) ==
  [t \in {A, B} \X K |-> IF t[1] = A THEN <<A, c[1], t[2]>> ELSE <<B, t[2], c[2]>>]
Terms(j, c) ==
  CASE j.kernel.terms = "elements" -> [t \in {A, B} \X {0} |-> <<t[1], c[1], c[2]>>]
    [] j.kernel.terms = "product" -> Products(j, c, 0 .. j.depth - 1)
    [] j.kernel.terms = "transposed" -> [t \in {A} \X {0} |-> <<A, c[2], c[1]>>]
    [] j.kernel.terms = "sparse" ->
         [t \in {A, B} \X {colIdx(j, p) : p \in RowOf(j, c[1])} |->
            LET p == CHOOSE q \in RowOf(j, c[1]) : colIdx(j, q) = t[2]
            IN  IF t[1] = A THEN values(j, p) ELSE <<B, colIdx(j, p), c[2]>>]

(* What the sequential program puts together for it.                       *)
Intended(j, c) ==
  IF j.kernel.terms = "sparse"
    THEN Products(j, c, {k \in 0 .. j.depth - 1 : <<c[1], k>> \in j.nonZero})
    ELSE Terms(j, c)

(* A tile has one cell per thread, whose indices are swapped when it is    *)
(* read; the matrices of the OpenMP programs have one cell per element.    *)
TileCells(j) == Side(j) \X Side(j)
Matrices(j) == IF Transposed(j) THEN {A} ELSE {A, B}
LoadsOf(j, th) ==
  IF j.kernel.grid = "team"
    THEN [e \in {<<m, c[1], c[2]>> : m \in Matrices(j), c \in Loaded(j, th)} |-> e]
    ELSE [x \in {q \in {th[2]} : Loaded(j, th) # {}} |->
            LET c == InBlock(j, th[1], th) IN <<A, c[1], c[2]>>]
SourceOf(j, th, element) ==
  CASE Len(j.kernel.code) = 1 -> <<"global", element>>
    [] j.kernel.grid = "team" -> <<"window", element>>
    [] OTHER -> <<"window", <<th[2][2], th[2][1]>>>>

(* The elements of the matrices that go into the output. *)
Inputs(j) ==
  IF j.kernel.terms \in {"product", "sparse"}
    THEN ({A} \X (0 .. j.rows - 1) \X (0 .. j.depth - 1)) \cup
         ({B} \X (0 .. j.depth - 1) \X (0 .. j.cols - 1))
    ELSE {A, B} \X (0 .. j.rows - 1) \X (0 .. j.cols - 1)

Plan(j) ==
  LET PerThread(Value(_)) == Table([th \in Threads(j) |-> Table(Value(th))])
      Nothing == PerThread(LAMBDA th : <<>>)
  IN  [code    |-> j.kernel.code,
       host    |-> j.host,
       threads |-> Threads(j),
       array   |-> IF j.kernel.grid = "team"
                     THEN {<<m, c[1], c[2]>> : m \in Matrices(j), c \in Within(j.rows, j.cols)}
                     ELSE TileCells(j),
       confined |-> TRUE,
       inputs  |-> Inputs(j),
       loads   |-> IF Len(j.kernel.code) = 1 THEN Nothing ELSE PerThread(LAMBDA th : LoadsOf(j, th)),
       ahead   |-> Nothing,
       taps    |-> <<PerThread(LAMBDA th : [c \in Stored(j, th) |->
                       Table([t \in DOMAIN Terms(j, c) |-> SourceOf(j, th, Terms(j, c)[t])])])>>,
       pixels  |-> Cells(j),
       image   |-> Table([c \in Cells(j) |->
                     {<<t, Intended(j, c)[t]>> : t \in DOMAIN Intended(j, c)}])]
=============================================================================
