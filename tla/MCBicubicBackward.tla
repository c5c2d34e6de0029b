-------------------------- MODULE MCBicubicBackward --------------------------
(***************************************************************************)
(* The scattering versions that are correct: with atomics alone, and with  *)
(* an exchange between neighbours before them.  One block of 2 x 2         *)
(* threads, some of them outside the output, and several blocks with       *)
(* overlapping windows; enlarging, where several taps and cells are        *)
(* clamped to one pixel, and reducing, where the taps pass the window by.  *)
(* With the exchange, a warp is a block; its neighbouring lanes aim at one *)
(* cell or at two, and in one call a lane of every pair is outside the     *)
(* output.                                                                 *)
(***************************************************************************)
EXTENDS BicubicWarpPairs

Call(version, tile, size) ==
  [kernel |-> version[1], host |-> version[2], TILE |-> tile,
   inW |-> size[1], inH |-> size[2], outW |-> size[3], outH |-> size[4]]

OneBlock == {<<1, 1, 2, 1>>, <<18, 1, 2, 1>>, <<2, 1, 1, 2>>}
SomeBlocks == {<<1, 1, 2, 2>>, <<11, 1, 2, 1>>}
Pairs == {<<2, 1, 4, 1>>, <<2, 1, 1, 2>>, <<18, 1, 2, 1>>}

MCJobs ==
  {Call(v, 2, size) : v \in Versions, size \in OneBlock} \cup
  {Call(v, 1, size) : v \in Versions, size \in SomeBlocks} \cup
  {Call(<<v6_warp_reduce, v6_warp_reduceHost>>, 2, size) : size \in Pairs}

(* back.cu, where the image is doubled as in its main, is only looked at:  *)
(* its kernel adds contributions to cells that belong to other pixels.     *)
BackJobs == {Call(<<back, backHost>>, 1, <<2, 1, 4, 1>>)}
AllJobs == MCJobs \cup BackJobs
ASSUME BackAddsToOtherCells ==
  \A j \in BackJobs : \E th \in Threads(j), i \in Taps :
    /\ TapCell[j][th][i] \in Window(j)
    /\ PixelOfCell[j][th[1]][TapCell[j][th][i]] # PixelOfTap[j][th][i]

(* TLC computes a function whole when it compares it, and keeps it: the     *)
(* look-up tables of all calls.                                            *)
ASSUME TablesComputed ==
  /\ MyCells = MyCells /\ TapCell = TapCell /\ PixelOfTap = PixelOfTap
  /\ Additions = Additions /\ PixelOfCell = PixelOfCell /\ CpuGradient = CpuGradient

ASSUME SomeTapsBypassTheWindow ==
  \A v \in Versions : v[1] = v1 \/ \E j \in Jobs : j.kernel = v[1] /\
    \A inWindow \in BOOLEAN : \E th \in Threads(j), i \in Taps :
      Active(j, th) /\ (TapCell[j][th][i] \in Cells(j)) = inWindow

MCInit == Init /\ job \in MCJobs

(* Liveness is checked for the calls in which a block has idle threads.    *)
LiveJobs == {j \in Jobs : j.TILE = 2 /\ \E th \in Threads(j) : ~Active(j, th)}
LiveStep == job \in LiveJobs /\ NextBackward

(* As long as the host or some thread can take a step, one of them does.   *)
FairSpec == MCInit /\ [][NextBackward]_vars /\ WF_vars(LiveStep)

(* The calls return the whole gradient: no block waits for ever for those  *)
(* of its threads that have no output pixel.                               *)
CallsReturn == job \in LiveJobs => Terminates
=============================================================================
