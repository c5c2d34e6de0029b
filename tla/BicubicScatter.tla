--------------------------- MODULE BicubicScatter ---------------------------
(***************************************************************************)
(* bicubic_backward_cuda and its kernel in src/Bicuibic Interpolation, in  *)
(* the versions that scatter with atomicAdd.  One thread per output pixel  *)
(* adds its 16 weighted contributions to the input pixels around its       *)
(* source: straight to grad_input (v1) or into a window of shared memory   *)
(* where that reaches (the others).  After a barrier the block adds its    *)
(* window to grad_input, again with atomicAdd.  Blocks overlap.            *)
(* A sum is the set of the contributions <<out_y, out_x, m, n>> in it; one *)
(* that is added twice leaves a mark, so that it is not taken for one.     *)
(***************************************************************************)
EXTENDS BicubicGeometry, FiniteSets, Sequences

CONSTANT
  Jobs       \* calls: [kernel, host, TILE, inW, inH, outW, outH], where
             \* blocks are TILE x TILE threads

ASSUME BicubicAssumption ==
  \A j \in Jobs : {j.TILE, j.inW, j.inH, j.outW, j.outH} \subseteq Nat \ {0}

-----------------------------------------------------------------------------
(* The kernels.  maxScale: what the shared array is sized for, 0 where     *)
(* there is none; shuffles: whether the lanes of a warp exchange what they *)
(* add (then the scatter is defined in the modules that extend this one).  *)
Windowed(maxScale) ==
  [code |-> <<"zero", "sync1", "scatter", "sync2", "flush">>,
   maxScale |-> maxScale, shift |-> 0, bound |-> "window", shuffles |-> FALSE]
WindowedWithShuffles(maxScale) == [Windowed(maxScale) EXCEPT !.shuffles = TRUE]

v1 == [Windowed(0) EXCEPT !.code = <<"scatter">>]
v2 == Windowed(1)
v3 == Windowed(2)
v4 == Windowed(2)
v5 == Windowed(1)
optimized == Windowed(2)

(* back.cu counts its taps from -1 and adds 1 (shift) to their index in    *)
(* the window, and compares it with the size of the array.                 *)
back == [Windowed(1) EXCEPT !.shift = 1, !.bound = "array"]

(* The hosts: the steps of bicubic_backward_cuda.  The kernel is waited for *)
(* by cudaEventSynchronize or cudaDeviceSynchronize before the copy.       *)
v1Host == <<"memset", "launch", "copyBack">>
v2Host == <<"memset", "launch", "copyBack">>
v3Host == <<"memset", "launch", "copyBack">>
v4Host == <<"memset", "launch", "copyBack">>
v5Host == <<"memset", "launch", "copyBack">>
optimizedHost == <<"memset", "launch", "copyBack">>
backHost == <<"memset", "launch", "copyBack">>

Versions ==
  {<<v1, v1Host>>, <<v2, v2Host>>, <<v3, v3Host>>, <<v4, v4Host>>, <<v5, v5Host>>,
   <<optimized, optimizedHost>>}

(* The label after one of a program. *)
Following(code, label) ==
  IF label = code[Len(code)] THEN "done"
  ELSE code[1 + CHOOSE n \in DOMAIN code : code[n] = label]

-----------------------------------------------------------------------------
(* Threads, cells and pixels of call j. *)

CeilDiv(a, b) == (a + b - 1) \div b
Blocks(j) ==                                          \* <<blockIdx.y, .x>>
  (0 .. CeilDiv(j.outH, j.TILE) - 1) \X (0 .. CeilDiv(j.outW, j.TILE) - 1)
tids(j) == 0 .. j.TILE * j.TILE - 1
Threads(j) == Blocks(j) \X tids(j)                    \* <<block, tid>>
out_x(j, th) == th[1][2] * j.TILE + (th[2] % j.TILE)
out_y(j, th) == th[1][1] * j.TILE + (th[2] \div j.TILE)
Active(j, th) == out_x(j, th) < j.outW /\ out_y(j, th) < j.outH

SMEM(j) == IF j.kernel.maxScale = 0 THEN 0 ELSE j.TILE * j.kernel.maxScale + 4
smem_w(j) == WindowSize(j.TILE, SMEM(j), j.inW, j.outW)
smem_h(j) == WindowSize(j.TILE, SMEM(j), j.inH, j.outH)
Window(j) == (0 .. smem_h(j) - 1) \X (0 .. smem_w(j) - 1)    \* <<sy, sx>>
Cells(j) ==     \* those a kernel may touch
  IF j.kernel.bound = "window" THEN Window(j)
  ELSE (0 .. SMEM(j) - 1) \X (0 .. SMEM(j) - 1)
Pixels(j) == (0 .. j.inH - 1) \X (0 .. j.inW - 1)            \* <<gy, gx>>

(* The cells a thread visits in a loop i = tid; i < total; i += TILE * TILE. *)
MyCells == [j \in Jobs |-> [tid \in tids(j) |->
  {c \in Window(j) : (c[1] * smem_w(j) + c[2]) % (j.TILE * j.TILE) = tid}]]

(* The 16 taps <<m, n>> of a thread: what each contributes, its cell in    *)
(* the window of the block and its pixel.                                  *)
Taps == (0 .. 3) \X (0 .. 3)
Contribution(j, th, i) == <<out_y(j, th), out_x(j, th), i[1], i[2]>>
TapCell == [j \in Jobs |-> [th \in Threads(j) |-> [i \in Taps |->
  <<WindowIndex(out_y(j, th), th[1][1] * j.TILE, i[1], j.inH, j.outH) + j.kernel.shift,
    WindowIndex(out_x(j, th), th[1][2] * j.TILE, i[2], j.inW, j.outW) + j.kernel.shift>>]]]
PixelOfTap == [j \in Jobs |-> [th \in Threads(j) |-> [i \in Taps |->
  <<TapPixel(out_y(j, th), i[1], j.inH, j.outH), TapPixel(out_x(j, th), i[2], j.inW, j.outW)>>]]]

(* Faulty: taps past the window are dropped. *)
GlobalTapsDropped(j, th, r) == {}

(* The taps of iteration r of a thread, in the window and past it. *)
SharedTaps(j, th, r) == {i \in {r} \X (0 .. 3) : TapCell[j][th][i] \in Cells(j)}
GlobalTaps(j, th, r) == ({r} \X (0 .. 3)) \ SharedTaps(j, th, r)

(* What the iteration adds to each cell and to each pixel. *)
Additions == [j \in Jobs |-> [th \in Threads(j) |-> [r \in 0 .. 3 |->
  LET Added(taps, place) == [x \in {place[i] : i \in taps} |->
        {Contribution(j, th, i) : i \in {k \in taps : place[k] = x}}]
  IN  [cells |-> Added(SharedTaps(j, th, r), TapCell[j][th]),
       pixels |-> Added(GlobalTaps(j, th, r), PixelOfTap[j][th])]]]]

(* Where the flush of block b adds cell c of its window. *)
PixelOfCell == [j \in Jobs |-> [b \in Blocks(j) |-> [c \in Window(j) |->
  <<WindowPixel(b[1] * j.TILE, c[1], j.inH, j.outH),
    WindowPixel(b[2] * j.TILE, c[2], j.inW, j.outW)>>]]]

Stale == <<-1, -1, -1, -1>>    \* what uninitialised memory adds to a sum
Twice == <<-2, -2, -2, -2>>    \* the mark
Plus(sum, S) == sum \union S \union (IF sum \intersect S = {} THEN {} ELSE {Twice})

AddTo(sums, adds) ==
  [x \in DOMAIN sums |-> IF x \in DOMAIN adds THEN Plus(sums[x], adds[x]) ELSE sums[x]]

VARIABLES
  job,           \* the call; it never changes
  smem,          \* __shared__, per block: [block -> [cell -> sum]]
  grad_input,    \* global memory: [pixel -> sum]
  pc, m,         \* per thread: next statement, the loop variable
  arrived,       \* per thread: how many times it has reached __syncthreads()
  hostPc, result \* the host's next statement, the image it returns

device == <<smem, grad_input, pc, m, arrived>>
vars == <<job, device, hostPc, result>>

Uninitialised == [p \in Pixels(job) |-> {Stale}]

Init ==
  /\ job \in Jobs
  /\ smem = [b \in Blocks(job) |-> [c \in Cells(job) |-> {Stale}]]
  /\ grad_input = Uninitialised
  /\ pc = [th \in Threads(job) |-> "notLaunched"]
  /\ m = [th \in Threads(job) |-> 0]
  /\ arrived = [th \in Threads(job) |-> 0]
  /\ hostPc = job.host[1]
  /\ result = Uninitialised

-----------------------------------------------------------------------------
(* The kernel. *)

(* The thread is at its next statement, or has arrived at a barrier. *)
Goto(th, label) ==
  /\ pc' = [pc EXCEPT ![th] = label]
  /\ arrived' = IF label \in {"sync1", "sync2"} THEN [arrived EXCEPT ![th] = @ + 1]
                ELSE arrived

(* The loop that zeroes the thread's cells, up to the first barrier. *)
Zero(th) ==
  /\ pc[th] = "zero"
  /\ smem' = [smem EXCEPT ![th[1]] =
       [c \in Cells(job) |-> IF c \in MyCells[job][th[2]] THEN {} ELSE @[c]]]
  /\ Goto(th, "sync1")
  /\ UNCHANGED <<job, grad_input, m, hostPc, result>>

(* Faulty: no barrier. *)
ReleasedAtOnce(th) == arrived[th] > 0

(* __syncthreads() lets a thread go on once its whole block has arrived. *)
Released(th) ==
  \A u \in Threads(job) : u[1] = th[1] => arrived[u] >= arrived[th]

(* Threads outside the output skip the scatter, not the barrier after it. *)
LeaveSync1(th) ==
  /\ pc[th] = "sync1"
  /\ Released(th)
  /\ Goto(th, IF Active(job, th) THEN "scatter" ELSE "sync2")
  /\ UNCHANGED <<job, smem, grad_input, m, hostPc, result>>

(* Faulty: a fifth row of taps. *)
NextRowFifth(th) ==
  IF m[th] < 4
    THEN m' = [m EXCEPT ![th] = @ + 1] /\ UNCHANGED <<pc, arrived>>
    ELSE Goto(th, Following(job.kernel.code, "scatter")) /\ UNCHANGED m

(* m++ and m < 4; after the loop the thread is at the second barrier, or   *)
(* at the end.                                                             *)
NextRow(th) ==
  IF m[th] < 3
    THEN m' = [m EXCEPT ![th] = @ + 1] /\ UNCHANGED <<pc, arrived>>
    ELSE Goto(th, Following(job.kernel.code, "scatter")) /\ UNCHANGED m

(* One iteration of the loop over m: four times atomicAdd(&smem[sy][sx],   *)
(* contrib) or, past the window, atomicAdd(&grad_input[...], contrib).     *)
(* Atomic additions commute, so that one step stands for the four.         *)
ScatterRow(th) ==
  /\ pc[th] = "scatter"
  /\ LET adds == Additions[job][th][m[th]]
     IN  /\ smem' = [smem EXCEPT ![th[1]] = AddTo(@, adds.cells)]
         /\ grad_input' = AddTo(grad_input, adds.pixels)
  /\ NextRow(th)
  /\ UNCHANGED <<job, hostPc, result>>

LeaveSync2(th) ==
  /\ pc[th] = "sync2"
  /\ Released(th)
  /\ Goto(th, "flush")
  /\ UNCHANGED <<job, smem, grad_input, m, hostPc, result>>

(* Faulty: the window is stored instead of added. *)
FlushStores(th) ==
  /\ pc[th] = "flush"
  /\ grad_input' = [p \in Pixels(job) |->
       LET mine == {c \in MyCells[job][th[2]] : PixelOfCell[job][th[1]][c] = p /\ smem[th[1]][c] # {}}
       IN  IF mine = {} THEN grad_input[p] ELSE smem[th[1]][CHOOSE c \in mine : TRUE]]
  /\ Goto(th, "done")
  /\ UNCHANGED <<job, smem, m, hostPc, result>>

(* The sum of several cells of a window. *)
SumOfCells(b, cells) ==
  (UNION {smem[b][c] : c \in cells}) \union
    (IF \E c, d \in cells : c # d /\ smem[b][c] \intersect smem[b][d] # {}
       THEN {Twice} ELSE {})

(* The loop that adds the thread's cells to grad_input.  The test v != 0   *)
(* only saves the addition of nothing.                                     *)
Flush(th) ==
  /\ pc[th] = "flush"
  /\ grad_input' = [p \in Pixels(job) |->
       LET mine == {c \in MyCells[job][th[2]] : PixelOfCell[job][th[1]][c] = p}
       IN  Plus(grad_input[p], SumOfCells(th[1], mine))]
  /\ Goto(th, "done")
  /\ UNCHANGED <<job, smem, m, hostPc, result>>

Step(th) ==
  \/ Zero(th) \/ LeaveSync1(th) \/ ScatterRow(th) \/ LeaveSync2(th) \/ Flush(th)

-----------------------------------------------------------------------------
(* The host. *)

HostAt(label) == hostPc = label /\ hostPc' = Following(job.host, label)

(* cudaMemset(d_grad_input, 0, ...) *)
Memset ==
  /\ HostAt("memset")
  /\ grad_input' = [p \in Pixels(job) |-> {}]
  /\ UNCHANGED <<job, smem, pc, m, arrived, result>>

(* A thread of v1 without an output returns at once. *)
Launch ==
  /\ HostAt("launch")
  /\ pc' = [th \in Threads(job) |->
       IF job.kernel.code[1] = "scatter" /\ ~Active(job, th) THEN "done"
       ELSE job.kernel.code[1]]
  /\ UNCHANGED <<job, smem, grad_input, m, arrived, result>>

(* Faulty: the host does not wait for the kernel. *)
CopyBackAtOnce ==
  /\ HostAt("copyBack")
  /\ result' = grad_input
  /\ UNCHANGED <<job, device>>

(* cudaEventSynchronize and the copy to the host wait for the kernel. *)
CopyBack ==
  /\ HostAt("copyBack")
  /\ \A th \in Threads(job) : pc[th] = "done"
  /\ result' = grad_input
  /\ UNCHANGED <<job, device>>

Host == Memset \/ Launch \/ CopyBack

Next == Host \/ \E th \in Threads(job) : Step(th)

Spec == Init /\ [][Next]_vars

-----------------------------------------------------------------------------
(* What bicubic_backward_cpu adds to each pixel. *)
CpuGradient == [j \in Jobs |-> [p \in Pixels(j) |->
  {Contribution(j, x[1], x[2]) : x \in
     {y \in {th \in Threads(j) : Active(j, th)} \X Taps : PixelOfTap[j][y[1]][y[2]] = p}}]]

Sources == (0 .. job.outH - 1) \X (0 .. job.outW - 1) \X (0 .. 3) \X (0 .. 3)
             \union {Stale, Twice}

(* Every variable keeps its type; in particular a thread reaches the two   *)
(* barriers at most once each and makes no fifth iteration of the loop.    *)
TypeOK ==
  /\ smem \in [Blocks(job) -> [Cells(job) -> SUBSET Sources]]
  /\ grad_input \in [Pixels(job) -> SUBSET Sources]
  /\ result \in [Pixels(job) -> SUBSET Sources]
  /\ pc \in [Threads(job) -> {"notLaunched", "zero", "sync1", "scatter", "sync2",
                         "flush", "done"}]
  /\ m \in [Threads(job) -> 0 .. 3]
  /\ arrived \in [Threads(job) -> 0 .. 2]
  /\ hostPc \in {"memset", "launch", "copyBack", "done"}

(* The shared cells a thread's next statement accesses, plainly or by atomicAdd. *)
PlainNext(th) == IF pc[th] \in {"zero", "flush"} THEN MyCells[job][th[2]] ELSE {}
AtomicNext(th) == IF pc[th] = "scatter" THEN DOMAIN Additions[job][th][m[th]].cells ELSE {}

(* No data race: the plain stores that zero the window and the plain loads *)
(* that flush it never meet an atomicAdd of the same block to that cell;   *)
(* a contribution made before the zeroing, or after the load, is lost.     *)
NoRace ==
  \A th, u \in Threads(job) : th # u /\ th[1] = u[1] =>
    PlainNext(th) \cap (AtomicNext(u) \cup PlainNext(u)) = {}

(* The shared memory is used as it is meant to be: every variable keeps    *)
(* its type, and the two kinds of accesses never meet.                     *)
MemorySafe == TypeOK /\ NoRace

(* What thread th has added up to now. *)
AddedTaps(th) ==
  IF ~Active(job, th) \/ pc[th] \in {"notLaunched", "zero", "sync1"} THEN {}
  ELSE IF pc[th] = "scatter" THEN {i \in Taps : i[1] < m[th]} ELSE Taps

(* The thread of block b that flushes cell c has done so. *)
Flushed(b, c) ==
  \E th \in Threads(job) : th[1] = b /\ c \in MyCells[job][th[2]] /\ pc[th] = "done"

(* Nothing is lost on the way: a contribution that was made is in its cell *)
(* of the window and not yet in grad_input, or, when the cell has been     *)
(* flushed or the window does not have it, in grad_input at its pixel; one *)
(* that was not made is in neither.                                        *)
Conserved ==
  \A th \in Threads(job) : Active(job, th) => \A i \in Taps :
    LET x == Contribution(job, th, i)
        c == TapCell[job][th][i]
        inWindow == c \in Cells(job) /\ x \in smem[th[1]][c]
        inGlobal == x \in grad_input[PixelOfTap[job][th][i]]
    IN  IF i \notin AddedTaps(th) THEN ~inWindow /\ ~inGlobal
        ELSE IF c \in Cells(job) /\ ~Flushed(th[1], c) THEN inWindow /\ ~inGlobal
        ELSE inGlobal

(* The program implements Gradient: contributions reach only the pixel the *)
(* CPU adds them to, from the window of any block or past it, and the      *)
(* image handed back is the CPU's, never one that a late block still adds  *)
(* to.                                                                     *)
Grad == INSTANCE Gradient WITH
  grad <- grad_input, expected <- CpuGradient[job]
ImplementsGradient == Grad!GSpec

(* What main's validate(cpu_bwd, cuda_bwd, "Backward: CPU vs CUDA") looks at. *)
MatchesCpu == hostPc = "done" => result = CpuGradient[job]

(* The host gets the whole gradient: no block waits for ever for those of  *)
(* its threads that have no output pixel (lines 225, 232, 270).            *)
Terminates == <>(hostPc = "done" /\ result = CpuGradient[job])
=============================================================================
