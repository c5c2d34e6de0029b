------------------------------ MODULE GemmPlans ------------------------------
(***************************************************************************)
(* The kernels and hosts of the matrix products that GemmSeries runs: the  *)
(* index arithmetic of src/CUDA/matrix, DoubleBuffer.cu, matrixMulTil.cu,  *)
(* WPT.cu, vectorised.cu and kernel5.cu to kernel7.cu.  A call is a record *)
(* [kernel, host, data, TSM, TSN, TSK, WPTM, WPTN, WIDTH, SMS, corner,     *)
(* rows, depth, cols]: a block computes TSM x TSN outputs from tiles TSK   *)
(* deep, a thread WPTM x WPTN of them; WIDTH elements are loaded at once;  *)
(* SMS is the number 26 of kernel6.cu and kernel7.cu, corner the side of   *)
(* what kernel7.cu prints of the product, 5.  The lengths that are one     *)
(* macro N in some files are three here: rows, depth and cols.             *)
(***************************************************************************)
EXTENDS Integers, Sequences, Tables

Admissible(j) ==
  /\ {j.TSM, j.TSN, j.TSK, j.WPTM, j.WPTN, j.WIDTH} \subseteq Nat \ {0}
  /\ {j.SMS, j.corner, j.rows, j.depth, j.cols} \subseteq Nat \ {0}
  /\ j.TSM % j.WPTM = 0 /\ j.TSN % j.WPTN = 0

-----------------------------------------------------------------------------
(* The kernels.  tiles: none, or how they are buffered; outputs: whether   *)
(* those of a thread are adjacent or as far apart as the block is wide;    *)
(* deal: how the cells of a tile are dealt out to the threads; reads: by   *)
(* which indices the matrices are read; guarded: whether these are tested. *)

Kernel(tiles, outputs, deal) ==
  [tiles |-> tiles, outputs |-> outputs, deal |-> deal, reads |-> "rows", guarded |-> FALSE]

matmul == Kernel("none", "adjacent", "rows")
matrixTil == Kernel("single", "adjacent", "rows")
kernel2 == Kernel("double", "adjacent", "rows")
kernel3 == Kernel("double", "adjacent", "rows")
kernel4 == Kernel("double", "adjacent", "vectors")
matrixMulDoubleBuffered == [Kernel("double", "adjacent", "rows") EXCEPT !.guarded = TRUE]
matrixMulTiled == [Kernel("single", "adjacent", "rows") EXCEPT !.guarded = TRUE]
WPT == [Kernel("single", "strided", "rows") EXCEPT !.guarded = TRUE]
vectorised == [Kernel("single", "adjacent", "overlapping") EXCEPT !.guarded = TRUE]
gemmFinal == [Kernel("single", "strided", "strided") EXCEPT !.guarded = TRUE, !.reads = "columns, B by thread"]
gemm16 == [Kernel("single", "strided", "strided") EXCEPT !.guarded = TRUE, !.reads = "B by thread"]
gemm2D == [Kernel("single", "strided", "crossed") EXCEPT !.guarded = TRUE, !.reads = "columns"]
gemm2D_vec == [Kernel("single", "strided", "vectors") EXCEPT !.reads = "columns"]

(* The hosts: the statements, and how many blocks there are along a side   *)
(* of the output.                                                          *)
Host(code, grid) == [code |-> code, grid |-> grid]

matmulHost == Host(<<"launch", "copyBack">>, "ceil")
matrixTilHost == Host(<<"launch", "copyBack">>, "floor")
kernel2Host == Host(<<"launch", "copyBack">>, "floor")
kernel3Host == Host(<<"memset", "launch", "copyBack">>, "floor")
kernel4Host == Host(<<"memset", "launch", "copyBack">>, "floor")
matrixMulDoubleBufferedHost == Host(<<"launch", "copyBack">>, "ceil")
matrixMulTiledHost == Host(<<"launch", "copyBack">>, "ceil")
WPTHost == Host(<<"launch", "copyBack">>, "ceil")
vectorisedHost == Host(<<"launch", "copyBack">>, "ceil")
gemmFinalHost == Host(<<"launch", "copyBack">>, "floor")
gemm16Host == Host(<<"launch", "copyBack">>, "floor")
gemm2DHost == Host(<<"launch", "copyBack">>, "multiple of SMS")
gemm2D_vecHost == Host(<<"launch", "copyBack">>, "SMS")

-----------------------------------------------------------------------------
(* Blocks, threads and outputs of call j.  A thread is <<block, <<m, n>>>>, *)
(* whichever of threadIdx.x and .y the rows are.                           *)

CeilDiv(a, b) == (a + b - 1) \div b
(* Faulty: the fixed grid has half as many blocks. *)
BlocksAlongHalf(j, length, tile) ==
  CASE j.host.grid = "ceil" -> CeilDiv(length, tile)
    [] j.host.grid = "floor" -> length \div tile
    [] j.host.grid = "multiple of SMS" -> CeilDiv(length \div tile, j.SMS) * j.SMS
    [] j.host.grid = "SMS" -> CeilDiv(j.SMS, 2)
BlocksAlong(j, length, tile) ==
  CASE j.host.grid = "ceil" -> CeilDiv(length, tile)
    [] j.host.grid = "floor" -> length \div tile
    [] j.host.grid = "multiple of SMS" -> CeilDiv(length \div tile, j.SMS) * j.SMS
    [] j.host.grid = "SMS" -> j.SMS
Blocks(j) ==
  (0 .. BlocksAlong(j, j.rows, j.TSM) - 1) \X (0 .. BlocksAlong(j, j.cols, j.TSN) - 1)
RTSM(j) == j.TSM \div j.WPTM
RTSN(j) == j.TSN \div j.WPTN
Threads(j) == Blocks(j) \X ((0 .. RTSM(j) - 1) \X (0 .. RTSN(j) - 1))
Cells(j) == (0 .. j.rows - 1) \X (0 .. j.cols - 1)

(* Faulty: a thread's columns overlap with its neighbour's. *)
ColumnOverlapping(j, th, w) ==
  IF j.kernel.outputs = "adjacent" THEN th[2][2] + w ELSE th[2][2] + w * RTSN(j)

(* The row and column of the tile in which a thread has output (v, w). *)
Row(j, th, v) == th[2][1] + v * RTSM(j)
Column(j, th, w) ==
  IF j.kernel.outputs = "adjacent" THEN th[2][2] * j.WPTN + w ELSE th[2][2] + w * RTSN(j)
Outputs(j) == (0 .. j.WPTM - 1) \X (0 .. j.WPTN - 1)
CellOf(j, th, o) ==
  <<th[1][1] * j.TSM + Row(j, th, o[1]), th[1][2] * j.TSN + Column(j, th, o[2])>>

-----------------------------------------------------------------------------
(* The matrices.  main fills them with random numbers, which the model     *)
(* tells apart, or all with the same one.                                  *)

Zero == <<"zero">>
Beyond == <<"beyond">>        \* past the end of a matrix
Garbage == <<"garbage">>      \* uninitialised memory
Element(j, name, r, c, height, width) ==
  IF r < height /\ c < width
    THEN IF j.data = "constant" THEN <<name>> ELSE <<name, r, c>>
    ELSE IF j.kernel.guarded THEN Zero ELSE Beyond
A(j, r, k) == Element(j, "A", r, k, j.rows, j.depth)
B(j, k, c) == Element(j, "B", k, c, j.depth, j.cols)

DotProduct(j, c) == {<<k, A(j, c[1], k), B(j, k, c[2])>> : k \in 0 .. j.depth - 1}

(* The cells <<row, k>> of the tile of A that a thread loads.              *)
Number(j, th) == th[2][1] * RTSN(j) + th[2][2]
NumberByColumns(j, th) == th[2][2] * RTSM(j) + th[2][1]
TileA(j) == (0 .. j.TSM - 1) \X (0 .. j.TSK - 1)
TileB(j) == (0 .. j.TSK - 1) \X (0 .. j.TSN - 1)
DealtA(j, th) ==
  {c \in TileA(j) :
     CASE j.kernel.deal = "rows" -> c[1] = th[2][1] /\ c[2] \div (j.TSK \div RTSN(j)) = th[2][2]
       [] j.kernel.deal = "vectors" /\ j.kernel.reads = "rows" ->
            ((c[1] * j.TSK + c[2]) \div j.WIDTH) % (RTSM(j) * RTSN(j)) = Number(j, th)
       [] j.kernel.deal = "vectors" /\ j.kernel.reads = "columns" ->
            ((c[2] * j.TSM + c[1]) \div j.WIDTH) % (RTSM(j) * RTSN(j)) = NumberByColumns(j, th)
       [] OTHER -> c[1] % RTSM(j) = th[2][1] /\ c[2] % RTSN(j) = th[2][2]}

(* The cells <<k, column>> of the tile of B. *)
DealtB(j, th) ==
  {c \in TileB(j) :
     CASE j.kernel.deal = "rows" -> c[1] = th[2][1] /\ \E w \in 0 .. j.WPTN - 1 : c[2] = Column(j, th, w)
       [] j.kernel.deal = "vectors" ->
            ((c[1] * j.TSN + c[2]) \div j.WIDTH) % (RTSM(j) * RTSN(j)) =
              (IF j.kernel.reads = "rows" THEN Number(j, th) ELSE NumberByColumns(j, th))
       [] j.kernel.deal = "crossed" -> c[1] % RTSM(j) = th[2][1] /\ c[2] % RTSN(j) = th[2][2]
       [] OTHER -> c[1] % RTSN(j) = th[2][2] /\ c[2] % RTSM(j) = th[2][1]}

(* What is loaded there for tile t.  Bt is B transposed.                   *)
FromA(j, th, t, c) ==
  LET r == th[1][1] * j.TSM + c[1]
      k == t * j.TSK + c[2]
  IN  IF j.kernel.reads \in {"columns", "columns, B by thread"} THEN A(j, k, r) ELSE A(j, r, k)
Bt(j, x, y) == B(j, y, x)
FromB(j, th, t, c) ==
  LET k == t * j.TSK + c[1]
      col == th[1][2] * j.TSN + c[2]
      mine == th[1][2] * j.TSN + th[2][2]
  IN  CASE j.kernel.reads = "rows" -> B(j, k, col)
        [] j.kernel.reads = "columns" -> Bt(j, k, col)
        [] j.kernel.reads = "B by thread" -> Bt(j, mine, k)
        [] OTHER -> Bt(j, k, mine)

(* vectorised.cu: a thread loads WIDTH elements from its own on, where     *)
(* they are aligned and in the tile, else its own; those of A go into one  *)
(* row of the tile, those of B into one column.                            *)
Wide(j, index, place, position, length) ==
  index % j.WIDTH = 0 /\ place <= j.TSK - j.WIDTH /\ position + j.WIDTH <= length
OverlappingA(j, th, t) ==
  LET r == th[1][1] * j.TSM + th[2][1]
      k == t * j.TSK + th[2][2]
      n == IF r < j.rows /\ Wide(j, r * j.depth + k, th[2][2], k, j.depth) THEN j.WIDTH ELSE 1
  IN  [c \in {th[2][1]} \X (th[2][2] .. th[2][2] + n - 1) |-> A(j, r, t * j.TSK + c[2])]
OverlappingB(j, th, t) ==
  LET k == t * j.TSK + th[2][1]
      col == th[1][2] * j.TSN + th[2][2]
      At(index) == B(j, index \div j.cols, index % j.cols)
  IN  IF col < j.cols /\ k < j.depth /\ Wide(j, k * j.cols + col, th[2][1], k, j.depth)
        THEN [c \in (th[2][1] .. th[2][1] + j.WIDTH - 1) \X {th[2][2]} |->
                At(k * j.cols + col + c[1] - th[2][1])]
        ELSE [c \in {<<th[2][1], th[2][2]>>} |-> B(j, k, col)]

LoadsA(j, th, t) ==
  IF j.kernel.deal = "overlapping" THEN OverlappingA(j, th, t)
  ELSE [c \in DealtA(j, th) |-> FromA(j, th, t, c)]
LoadsB(j, th, t) ==
  IF j.kernel.deal = "overlapping" THEN OverlappingB(j, th, t)
  ELSE [c \in DealtB(j, th) |-> FromB(j, th, t, c)]

-----------------------------------------------------------------------------
(* The kernel as a sequence of statements, its loops unrolled.             *)

(* Faulty: the last tile is left out. *)
NumTilesButOne(j) == (j.depth - 1) \div j.TSK
NumTiles(j) ==
  IF j.kernel \in {matrixMulDoubleBuffered, matrixMulTiled, vectorised}
    THEN CeilDiv(j.depth, j.TSK) ELSE j.depth \div j.TSK

Load(t, buffer) == [op |-> "load", tile |-> t, buffer |-> buffer]
Multiply(t, buffer) == [op |-> "multiply", tile |-> t, buffer |-> buffer]
Sync == [op |-> "sync"]
Stores(j) ==
  [i \in 1 .. j.WPTM * j.WPTN |->
     [op |-> "store", output |-> <<(i - 1) \div j.WPTN, (i - 1) % j.WPTN>>]]

Single(j) ==
  [p \in 1 .. 4 * NumTiles(j) |->
     LET t == (p - 1) \div 4
     IN  <<Load(t, 0), Sync, Multiply(t, 0), Sync>>[((p - 1) % 4) + 1]]

(* The first tile is loaded before the loop, and each round but the last   *)
(* one loads the next tile into the other buffer.                          *)
Rounds(j) ==
  [p \in 1 .. 3 * (NumTiles(j) - 1) |->
     LET t == (p - 1) \div 3
     IN  <<Load(t + 1, (t + 1) % 2), Multiply(t, t % 2), Sync>>[((p - 1) % 3) + 1]]
LastRound(j) ==
  IF NumTiles(j) = 0 THEN <<>> ELSE <<Multiply(NumTiles(j) - 1, (NumTiles(j) - 1) % 2), Sync>>
Double(j) == <<Load(0, 0), Sync>> \o Rounds(j) \o LastRound(j)
Code(j) ==
  CASE j.kernel.tiles = "none" -> <<[op |-> "dotProduct"]>> \o Stores(j)
    [] j.kernel.tiles = "single" -> Single(j) \o Stores(j)
    [] j.kernel.tiles = "double" -> Double(j) \o Stores(j)

-----------------------------------------------------------------------------
(* The elements of the product that a program is for: all of them, but     *)
(* for kernel7.cu, whose fixed grid does not reach them and whose main     *)
(* prints a corner.                                                        *)
ShownCells(j) ==
  {c \in Cells(j) : j.host.grid = "SMS" => c[1] < j.corner /\ c[2] < j.corner}

(* Everything the statements need to know of a call, computed once. *)
TilesOf(j) == IF j.kernel.tiles = "none" THEN {} ELSE 0 .. NumTiles(j) - 1
PlanOf(j) ==
  [code    |-> Code(j),
   host    |-> j.host.code,
   threads |-> Threads(j),
   outputs |-> Outputs(j),
   tileA   |-> TileA(j),
   tileB   |-> TileB(j),
   loadsA  |-> Table([th \in Threads(j) |-> Table([t \in TilesOf(j) |-> Table(LoadsA(j, th, t))])]),
   loadsB  |-> Table([th \in Threads(j) |-> Table([t \in TilesOf(j) |-> Table(LoadsB(j, th, t))])]),
   row     |-> Table([th \in Threads(j) |-> Table([o \in Outputs(j) |-> Row(j, th, o[1])])]),
   column  |-> Table([th \in Threads(j) |-> Table([o \in Outputs(j) |-> Column(j, th, o[2])])]),
   cell    |-> Table([th \in Threads(j) |-> Table([o \in Outputs(j) |-> CellOf(j, th, o)])]),
   depth   |-> j.TSK,
   product |-> Table([c \in Cells(j) |-> DotProduct(j, c)]),
   shown   |-> ShownCells(j)]
-----------------------------------------------------------------------------
(* The thirteen programs, each with its host, and what their macros and    *)
(* mains have in common for which they are written: how the tile and the   *)
(* block fit together, and what the lengths must be multiples of.          *)

Runs(j, kernel, host) == j.kernel = kernel /\ j.host = host
OneEach(j) == j.WPTM = 1 /\ j.WPTN = 1
SquareTile(j) == j.TSM = j.TSK /\ j.TSN = j.TSK
SquareMatrices(j) == j.rows = j.depth /\ j.cols = j.depth
WholeTiles(j) == j.rows % j.TSM = 0 /\ j.depth % j.TSK = 0 /\ j.cols % j.TSN = 0
ConstantData(j) == j.data = "constant"

Program(j) ==
  \/ Runs(j, matmul, matmulHost) /\ OneEach(j)
  \/ Runs(j, matrixTil, matrixTilHost) /\ OneEach(j) /\ SquareTile(j) /\ WholeTiles(j)
  \/ Runs(j, matrixMulDoubleBuffered, matrixMulDoubleBufferedHost) /\ OneEach(j) /\ SquareTile(j)
  \/ Runs(j, matrixMulTiled, matrixMulTiledHost) /\ OneEach(j) /\ SquareTile(j)
  \/ Runs(j, kernel2, kernel2Host) /\ j.WPTM = 1 /\ SquareTile(j) /\ WholeTiles(j)
  \/ Runs(j, kernel3, kernel3Host) /\ j.WPTM = 1 /\ SquareTile(j) /\ WholeTiles(j)
  \/ Runs(j, kernel4, kernel4Host) /\ j.WPTM = 1 /\ j.TSK % j.WIDTH = 0 /\ j.TSN % j.WIDTH = 0 /\ WholeTiles(j)
  \/ Runs(j, WPT, WPTHost) /\ j.WPTM = 1 /\ j.TSM = j.TSK /\ RTSN(j) = j.TSK /\ j.depth % j.TSK = 0
  \/ Runs(j, vectorised, vectorisedHost) /\ ConstantData(j) /\ OneEach(j) /\ SquareTile(j)
  \/ /\ Runs(j, gemmFinal, gemmFinalHost) /\ ConstantData(j) /\ SquareMatrices(j) /\ WholeTiles(j)
     /\ j.WPTM = 1 /\ j.TSM = j.TSN /\ RTSN(j) = j.TSK
  \/ /\ Runs(j, gemm16, gemm16Host) /\ ConstantData(j) /\ WholeTiles(j)
     /\ j.WPTM = 1 /\ j.TSM = j.TSN /\ j.TSK % RTSN(j) = 0
  \/ /\ Runs(j, gemm2D, gemm2DHost) /\ ConstantData(j) /\ SquareMatrices(j) /\ WholeTiles(j)
     /\ RTSM(j) = j.TSK /\ RTSN(j) = j.TSK
  \/ /\ Runs(j, gemm2D_vec, gemm2D_vecHost) /\ ConstantData(j) /\ SquareMatrices(j) /\ j.depth % j.TSK = 0
     /\ j.TSM % j.WIDTH = 0 /\ j.TSN % j.WIDTH = 0 /\ j.rows % j.WIDTH = 0
     /\ j.SMS * j.TSM <= j.rows /\ j.SMS * j.TSN <= j.cols
     /\ j.corner <= j.SMS * j.TSM /\ j.corner <= j.SMS * j.TSN
=============================================================================
