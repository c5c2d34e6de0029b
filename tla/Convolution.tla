----------------------------- MODULE Convolution -----------------------------
(***************************************************************************)
(* The 3 x 3 convolutions of src/Convolution: from global memory, through  *)
(* a tile of shared memory with a halo of one pixel, with several outputs  *)
(* per thread, with a second tile, with loads of four pixels at once.      *)
(* Some hosts surround the image with zeros and crop the result.  This     *)
(* module gives their plans; the statements are those of Stencil.          *)
(***************************************************************************)
EXTENDS Integers, Sequences, Tables

RADIUS == 1
Taps == (0 .. 2) \X (0 .. 2)

(* The kernels.  halo: which cells of the tile a thread loads; guarded:    *)
(* whether accesses to the images are tested against their borders; pad:   *)
(* what the host adds on every side; spare: unused cells at the end of a   *)
(* row of the tile.                                                        *)
Tiled(code, pad) ==
  [code |-> code, halo |-> "cooperative", guarded |-> TRUE, pad |-> pad, spare |-> 0]

LoadAndStore == <<"load", "sync", "store">>

naive == Tiled(<<"store">>, 0)
kernel1 == Tiled(LoadAndStore, 0)
kernel2 == [Tiled(LoadAndStore, 0) EXCEPT !.halo = "ownRow"]
(* Faulty: the host does not pad the image. *)
kernel3Unpadded == [Tiled(LoadAndStore, 0) EXCEPT !.guarded = FALSE]
kernel3 == [Tiled(LoadAndStore, RADIUS) EXCEPT !.guarded = FALSE]
kernel4 == Tiled(<<"load", "sync", "prefetch", "store", "sync">>, RADIUS)
kernel5 == [Tiled(LoadAndStore, RADIUS) EXCEPT !.halo = "fours", !.spare = 1]
kernel6 ==
  [Tiled(<<"load", "sync", "prefetch", "store", "sync", "storeNext">>, RADIUS)
     EXCEPT !.halo = "fours", !.spare = 1]

(* The hosts: the launch, and the copy, which waits for the kernel. *)
naiveHost == <<"launch", "copyBack">>
kernel1Host == <<"launch", "copyBack">>
kernel2Host == <<"launch", "copyBack">>
kernel3Host == <<"launch", "copyBack">>
kernel4Host == <<"launch", "copyBack">>
kernel5Host == <<"launch", "copyBack">>
kernel6Host == <<"launch", "copyBack">>

(* Those whose picture is correct.  kernel3.cu gets it although it tests   *)
(* neither its reads nor its stores, some of which are outside the images. *)
Versions ==
  {<<naive, naiveHost>>, <<kernel1, kernel1Host>>, <<kernel2, kernel2Host>>,
   <<kernel3, kernel3Host>>, <<kernel4, kernel4Host>>}

-----------------------------------------------------------------------------
(* A call j has a kernel, a host, TILE, WPT (the outputs of a thread) and  *)
(* the size rows x cols of the gray image.                                 *)

Admissible(j) ==
  /\ <<j.kernel, j.host>> \in Versions
  /\ {j.TILE, j.WPT, j.rows, j.cols} \subseteq Nat \ {0}
  /\ j.TILE % j.WPT = 0
  /\ j.kernel = naive => j.WPT = 1

width(j) == j.cols + 2 * j.kernel.pad
height(j) == j.rows + 2 * j.kernel.pad
Places(j) == (0 .. height(j) - 1) \X (0 .. width(j) - 1)

Zero == <<-4, -4>>       \* a black pixel, told apart from those of the image
Beyond == <<-5, -5>>     \* whatever lies past the end of an image in memory

(* The device's input: the image and the zeros copyMakeBorder puts around. *)
GrayPixel(j, p) == IF p \in (0 .. j.rows - 1) \X (0 .. j.cols - 1) THEN p ELSE Zero
InputAt(j, y, x) == GrayPixel(j, <<y - j.kernel.pad, x - j.kernel.pad>>)

(* input[y * width + x], and the same where x and y are tested before.     *)
PlaceOf(j, index) == <<index \div width(j), index % width(j)>>
Flat(j, y, x) ==
  LET p == PlaceOf(j, y * width(j) + x)
  IN  IF p \in Places(j) THEN InputAt(j, p[1], p[2]) ELSE Beyond
(* Faulty: y and x are not tested. *)
ReadUntested(j, y, x) == Flat(j, y, x)
Read(j, y, x) ==
  IF ~j.kernel.guarded THEN Flat(j, y, x)
  ELSE IF <<y, x>> \in Places(j) THEN InputAt(j, y, x) ELSE Zero

CeilDiv(a, b) == (a + b - 1) \div b
Blocks(j) ==                             \* <<blockIdx.y, blockIdx.x>>
  (0 .. CeilDiv(height(j), j.TILE) - 1) \X (0 .. CeilDiv(width(j), j.TILE) - 1)
blockDimX(j) == j.TILE \div j.WPT        \* blockDim.y is TILE
Threads(j) ==                            \* <<block, <<threadIdx.y, .x>>>>
  Blocks(j) \X ((0 .. j.TILE - 1) \X (0 .. blockDimX(j) - 1))

-----------------------------------------------------------------------------
(* The tile, an array of rows; a cell is its index in the array.  A store  *)
(* past the end of a row is one to the next row; past the end of the array *)
(* it is one to a cell that nobody reads.                                  *)

Side(j) == j.TILE + 2 * RADIUS
RowLength(j) == Side(j) + j.kernel.spare
Array(j) == 0 .. Side(j) * RowLength(j) - 1
Cell(j, i, k) == i * RowLength(j) + k

(* Faulty: the row below the tile is forgotten. *)
MyRowsTopOnly(j, ty) ==
  IF j.kernel.halo # "ownRow" THEN {i \in 0 .. Side(j) - 1 : i % j.TILE = ty}
  ELSE {ty + RADIUS} \cup (IF ty < RADIUS THEN {ty} ELSE {})

(* The rows a thread loads: every TILE-th, or its own and, for the first   *)
(* threads, those above and below the tile.                                *)
MyRows(j, ty) ==
  IF j.kernel.halo # "ownRow" THEN {i \in 0 .. Side(j) - 1 : i % j.TILE = ty}
  ELSE {ty + RADIUS} \cup (IF ty < RADIUS THEN {ty, ty + j.TILE + RADIUS} ELSE {})

(* The columns: every blockDim.x-th, or in groups of four that start at    *)
(* tx * 4 and may end behind the row.                                      *)
MyColumns(j, tx) ==
  IF j.kernel.halo # "fours" THEN {k \in 0 .. Side(j) - 1 : k % blockDimX(j) = tx}
  ELSE {k \in 0 .. Side(j) + 3 :
          (k \div 4) % blockDimX(j) = tx /\ 4 * (k \div 4) < Side(j)}

(* What a thread loads of the tile that starts at row y0. *)
LoadsFrom(j, th, y0) ==
  LET mine == MyRows(j, th[2][1]) \X MyColumns(j, th[2][2])
  IN  [c \in {Cell(j, q[1], q[2]) : q \in mine} |->
        LET q == CHOOSE r \in mine : Cell(j, r[1], r[2]) = c
        IN  Read(j, y0 + q[1] - RADIUS, th[1][2] * j.TILE + q[2] - RADIUS)]

(* The pixels a thread computes when its block has the tile at row y0, and *)
(* where it reads their taps.  With a test they are those in the image;    *)
(* without one a pixel to the right of it is one of the next row, and one  *)
(* below it lies past the end of the output.                               *)
Computed(j, th, y0) ==
  LET y == y0 + th[2][1]
      x == th[1][2] * j.TILE + th[2][2] * j.WPT
      Place(w) == IF j.kernel.guarded THEN <<y, x + w>> ELSE PlaceOf(j, y * width(j) + x + w)
      TapOf(w, i) ==
        IF j.kernel.code[1] = "load"
          THEN <<"window", Cell(j, th[2][1] + i[1], th[2][2] * j.WPT + w + i[2])>>
          ELSE <<"global", Read(j, y + i[1] - RADIUS, x + i[2] - RADIUS)>>
      W == {w \in 0 .. j.WPT - 1 : j.kernel.guarded => Place(w) \in Places(j)}
  IN  [p \in {Place(w) : w \in W} |->
        LET w == CHOOSE v \in W : Place(v) = p
        IN  Table([i \in Taps |-> TapOf(w, i)])]

(* The first row of a block's tile, and of the one below, if there is one. *)
FirstRow(j, th) == th[1][1] * j.TILE
HasNext(j, th) == FirstRow(j, th) + j.TILE < height(j)

-----------------------------------------------------------------------------
(* The plan of a call.  Its image is what convolution2D computes on the    *)
(* CPU, at the place where the host cuts it out of the padded result.      *)
Plan(j) ==
  LET PerThread(Value(_)) == Table([th \in Threads(j) |-> Table(Value(th))])
      Nothing == [c \in {} |-> Zero]
  IN  [code    |-> j.kernel.code,
       host    |-> j.host,
       threads |-> Threads(j),
       array   |-> Array(j),
       confined |-> j.kernel.guarded,
       inputs  |-> ((0 .. j.rows - 1) \X (0 .. j.cols - 1)) \cup {Zero},
       loads   |-> PerThread(LAMBDA th : LoadsFrom(j, th, FirstRow(j, th))),
       ahead   |-> PerThread(LAMBDA th :
          IF HasNext(j, th) \/ j.kernel.halo # "fours" THEN LoadsFrom(j, th, FirstRow(j, th) + j.TILE) ELSE Nothing),
       taps    |-> <<PerThread(LAMBDA th : Computed(j, th, FirstRow(j, th))),
                     PerThread(LAMBDA th :
          IF HasNext(j, th) THEN Computed(j, th, FirstRow(j, th) + j.TILE) ELSE Nothing)>>,
       pixels  |-> Places(j),
       image   |-> Table(
          [p \in {q \in Places(j) : GrayPixel(j, <<q[1] - j.kernel.pad, q[2] - j.kernel.pad>>) # Zero} |->
             {<<i, GrayPixel(j, <<p[1] - j.kernel.pad + i[1] - RADIUS,
                                  p[2] - j.kernel.pad + i[2] - RADIUS>>)>> : i \in Taps}])]
=============================================================================
