--------------------------- MODULE BicubicForward ---------------------------
(***************************************************************************)
(* bicubic_forward_cuda and its kernel in the versions kept side by side   *)
(* in src/Bicuibic Interpolation: straight from global memory, through a   *)
(* window of shared memory, with a second window prefetched, with 2 x 2    *)
(* outputs per thread, and combinations.  This module gives their plans;   *)
(* the statements are those of Stencil.                                    *)
(***************************************************************************)
EXTENDS BicubicGeometry, Sequences

-----------------------------------------------------------------------------
(* The kernels.  per: outputs of a thread in each direction; maxScale: what *)
(* the shared arrays are sized for, 0 where there are none; shift: added to *)
(* the window's index of a tap; bound: what that index is compared with.    *)
(* Where a kernel tests each output instead of returning, a thread         *)
(* computes and writes only those it has.                                  *)

(* A tap is read from the first window where that has it. *)
Windowed(code, per, maxScale) ==
  [code |-> code, per |-> per, maxScale |-> maxScale, shift |-> 0, bound |-> "window"]

Direct == <<"returnIfOutside", "store">>
ReturnAfterSync == <<"load", "sync", "returnIfOutside", "store">>
SingleWindow == <<"load", "sync", "store">>
WriteThenPrefetch == <<"load", "sync", "store", "prefetch">>
PrefetchThenWrite == <<"load", "sync", "interpolate", "prefetch", "write">>

naive == Windowed(Direct, 1, 0)
v1 == Windowed(Direct, 1, 0)
(* Faulty: threads without an output return before the barrier. *)
v2ReturnFirst ==
  Windowed(<<"load", "returnIfOutside", "sync", "store">>, 1, 1)
v2 == Windowed(ReturnAfterSync, 1, 1)
v3 == Windowed(WriteThenPrefetch, 1, 2)
v4 == Windowed(SingleWindow, 2, 2)
v5 == Windowed(PrefetchThenWrite, 2, 1)
v6_fixed == Windowed(PrefetchThenWrite, 2, 1)
v6_warp_reduce == Windowed(PrefetchThenWrite, 2, 1)
v7 == Windowed(PrefetchThenWrite, 2, 1)
v8 == Windowed(PrefetchThenWrite, 2, 1)
optimized == Windowed(PrefetchThenWrite, 2, 2)
optimized_atomic == Windowed(PrefetchThenWrite, 2, 2)

(* back.cu counts its taps from -1 and adds 1 to their index instead of    *)
(* nothing, and compares it with the size of the array.                    *)
back == [Windowed(ReturnAfterSync, 1, 1) EXCEPT !.shift = 1, !.bound = "array"]

(* The hosts: the steps of bicubic_forward_cuda and the outputs per block  *)
(* side that the grid is sized for, in multiples of TILE.                  *)
Host(covers) == [code |-> <<"memset", "launch", "copyBack">>, covers |-> covers]

naiveHost == [code |-> <<"launch", "copyBack">>, covers |-> 1]
v1Host == Host(1)
v2Host == Host(1)
v3Host == Host(1)
v4Host == Host(2)
v5Host == Host(2)
v6_fixedHost == Host(2)
v6_warp_reduceHost == Host(2)
v7Host == Host(2)
v8Host == Host(2)
optimizedHost == Host(2)
optimized_atomicHost == Host(2)
backHost == Host(1)

Versions ==
  {<<naive, naiveHost>>, <<v1, v1Host>>, <<v2, v2Host>>, <<v3, v3Host>>,
   <<v4, v4Host>>, <<v5, v5Host>>, <<v6_fixed, v6_fixedHost>>,
   <<v6_warp_reduce, v6_warp_reduceHost>>, <<v7, v7Host>>, <<v8, v8Host>>,
   <<optimized, optimizedHost>>, <<optimized_atomic, optimized_atomicHost>>}

-----------------------------------------------------------------------------
(* Blocks, threads and the indices they compute, for call j. *)

Admissible(j) ==
  /\ <<j.kernel, j.host>> \in Versions
  /\ {j.TILE, j.inW, j.inH, j.outW, j.outH} \subseteq Nat \ {0}

CeilDiv(a, b) == (a + b - 1) \div b
Side(j) == j.TILE * j.kernel.per     \* the outputs of a block along a side
Blocks(j) ==                       \* <<blockIdx.y, blockIdx.x>>
  (0 .. CeilDiv(j.outH, j.TILE * j.host.covers) - 1) \X
  (0 .. CeilDiv(j.outW, j.TILE * j.host.covers) - 1)
Threads(j) == Blocks(j) \X (0 .. j.TILE * j.TILE - 1)          \* <<block, tid>>
OutPixels(j) == (0 .. j.outH - 1) \X (0 .. j.outW - 1)
Taps == (0 .. 3) \X (0 .. 3)

(* The outputs of a thread that lie in the image. *)
Outputs(j, th) ==
  LET per == j.kernel.per
      y == th[1][1] * Side(j) + (th[2] \div j.TILE) * per
      x == th[1][2] * Side(j) + (th[2] % j.TILE) * per
  IN  ((y .. y + per - 1) \X (x .. x + per - 1)) \cap OutPixels(j)

(* The shared array as it is allocated, and the window of it that is used. *)
SMEM(j) == IF j.kernel.maxScale = 0 THEN 0 ELSE Side(j) * j.kernel.maxScale + 4
smem_w(j) == WindowSize(Side(j), SMEM(j), j.inW, j.outW)
smem_h(j) == WindowSize(Side(j), SMEM(j), j.inH, j.outH)
Window(j) == (0 .. smem_h(j) - 1) \X (0 .. smem_w(j) - 1)
Array(j) ==
  IF j.kernel.bound = "window" THEN Window(j)   \* the rest is never touched
  ELSE (0 .. SMEM(j) - 1) \X (0 .. SMEM(j) - 1)

(* The cells of a loop i = tid; i < smem_w * smem_h; i += TILE * TILE. *)
MyCells(j, tid) ==
  {c \in Window(j) : (c[1] * smem_w(j) + c[2]) % (j.TILE * j.TILE) = tid}

(* Faulty: the window is not clamped to the image. *)
CellPixelUnclamped(j, b, c, ahead) ==
  <<WindowStart(b[1] * Side(j), j.inH, j.outH) + c[1],
    WindowStart(b[2] * Side(j), j.inW, j.outW) + ahead + c[2]>>

(* The pixel of cell c of the window of block b, and of the window that is *)
(* `ahead` columns to the right of it.                                     *)
CellPixel(j, b, c, ahead) ==
  <<WindowPixel(b[1] * Side(j), c[1], j.inH, j.outH),
    Clamp(WindowStart(b[2] * Side(j), j.inW, j.outW) + ahead + c[2], j.inW)>>

(* ceil(TILE * scaleX), or TILE * 2 with 2 x 2 outputs *)
NextWindow(j) == CeilDiv(Side(j) * j.inW, j.outW)

(* For output o of a thread of block b: the index and the pixel of tap i.  *)
TapCell(j, b, o, i) ==
  <<WindowIndex(o[1], b[1] * Side(j), i[1], j.inH, j.outH) + j.kernel.shift,
    WindowIndex(o[2], b[2] * Side(j), i[2], j.inW, j.outW) + j.kernel.shift>>
TapPixelOf(j, o, i) ==
  <<TapPixel(o[1], i[1], j.inH, j.outH), TapPixel(o[2], i[2], j.inW, j.outW)>>

(* A tap is read from the shared array where that has it. *)
SourceOf(j, b, o, i) ==
  IF TapCell(j, b, o, i) \in Array(j) THEN <<"window", TapCell(j, b, o, i)>>
  ELSE <<"global", TapPixelOf(j, o, i)>>

(* What a thread loads of the window `ahead` columns to the right. *)
Loads(j, th, ahead) == Table([c \in MyCells(j, th[2]) |-> CellPixel(j, th[1], c, ahead)])

(* The sources of the taps of the thread's outputs. *)
Sources(j, th) == Table([o \in Outputs(j, th) |-> Table([i \in Taps |-> SourceOf(j, th[1], o, i)])])

-----------------------------------------------------------------------------
(* The plan of a call; its image is what bicubic_forward_cpu computes. *)
Plan(j) ==
  [code    |-> j.kernel.code,
   host    |-> j.host.code,
   threads |-> Threads(j),
   array   |-> Array(j),
   confined |-> TRUE,
   inputs  |-> (0 .. j.inH - 1) \X (0 .. j.inW - 1),
   loads   |-> Table([th \in Threads(j) |-> Loads(j, th, 0)]),
   ahead   |-> Table([th \in Threads(j) |-> Loads(j, th, NextWindow(j))]),
   taps    |-> <<Table([th \in Threads(j) |-> Sources(j, th)])>>,
   pixels  |-> OutPixels(j),
   image   |-> Table([o \in OutPixels(j) |-> {<<i, TapPixelOf(j, o, i)>> : i \in Taps}])]
=============================================================================
