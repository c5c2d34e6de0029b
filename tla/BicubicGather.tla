--------------------------- MODULE BicubicGather ---------------------------
(***************************************************************************)
(* bicubic_backward_cuda and its kernel in v7_bicubic_gather_bwd.cu and    *)
(* v8_option2_ldg_fallback.cu: one thread per input pixel adds up the      *)
(* contributions of all outputs around it and stores the sum, with no      *)
(* atomics.  v7 first loads the gradients of these outputs into shared     *)
(* memory, which the host sizes, and which may be more than the device     *)
(* has.  A gradient value is represented by the output it belongs to, a    *)
(* sum by the set of the contributions <<out_y, out_x, m, n>> in it that   *)
(* are not 0.                                                              *)
(***************************************************************************)
EXTENDS GatherRange, Sequences

CONSTANT
  Jobs     \* calls: [code, host, TILE, sharedMemPerBlock, inW, inH, outW, outH];
           \* the shared memory is counted in floats

ASSUME GatherAssumption ==
  \A j \in Jobs : {j.TILE, j.inW, j.inH, j.outW, j.outH} \subseteq Nat \ {0}

(* Faulty: threads without a pixel return before the barrier. *)
v7ReturnFirst == <<"load", "returnIfOutside", "sync", "gather">>

(* The kernels and the hosts, as sequences of statements. *)
v7 == <<"load", "sync", "returnIfOutside", "gather">>
v8 == <<"returnIfOutside", "gather">>
v7Host == <<"memset", "checkDevice", "launch", "copyBack">>
v8Host == <<"memset", "launch", "copyBack">>

CeilDiv(a, b) == (a + b - 1) \div b
Blocks(j) ==                                      \* <<blockIdx.y, .x>>
  (0 .. CeilDiv(j.inH, j.TILE) - 1) \X (0 .. CeilDiv(j.inW, j.TILE) - 1)
tids(j) == 0 .. j.TILE * j.TILE - 1
Threads(j) == Blocks(j) \X tids(j)
Pixels(j) == (0 .. j.inH - 1) \X (0 .. j.inW - 1)
OutPixels(j) == (0 .. j.outH - 1) \X (0 .. j.outW - 1)
PixelOf(j, th) ==
  <<th[1][1] * j.TILE + (th[2] \div j.TILE), th[1][2] * j.TILE + (th[2] % j.TILE)>>
Inside(j, th) == PixelOf(j, th) \in Pixels(j)

-----------------------------------------------------------------------------
(* The window of outputs of a block, along one axis: first is its first    *)
(* input coordinate.                                                       *)

(* Faulty: the window starts left of the image. *)
WindowFirstUnclamped(first, in, out) == Before(first, in, out)

(* ox0, ox1 *)
WindowFirst(first, in, out) == Greatest(0, Before(first, in, out))
WindowLast(first, TILE, in, out) ==
  Least(out - 1, After(Least(first + TILE - 1, in - 1), in, out))

Row0(j, b) == WindowFirst(b[1] * j.TILE, j.inH, j.outH)
Col0(j, b) == WindowFirst(b[2] * j.TILE, j.inW, j.outW)
tile_smem_h(j, b) == WindowLast(b[1] * j.TILE, j.TILE, j.inH, j.outH) - Row0(j, b) + 1
tile_smem_w(j, b) == WindowLast(b[2] * j.TILE, j.TILE, j.inW, j.outW) - Col0(j, b) + 1

(* Faulty: the halo is forgotten. *)
MaxWindowNoHalo(TILE, in, out) == CeilDiv(TILE * out, in)

(* max_smem_w: ceil((TILE + 4) / scale) + 6 *)
MaxWindow(TILE, in, out) == CeilDiv((TILE + 4) * out, in) + 6
smemSize(j) == MaxWindow(j.TILE, j.inH, j.outH) * MaxWindow(j.TILE, j.inW, j.outW)

(* The indices a thread loads in the loop i = tid; i < total; i += TILE * TILE, *)
(* and the output whose gradient index i gets.                             *)
MyIndices(j, th) ==
  {i \in 0 .. tile_smem_h(j, th[1]) * tile_smem_w(j, th[1]) - 1 :
     i % (j.TILE * j.TILE) = th[2]}
OutputAt(j, b, i) ==
  <<Row0(j, b) + (i \div tile_smem_w(j, b)), Col0(j, b) + (i % tile_smem_w(j, b))>>
IndexOf(j, b, o) == (o[1] - Row0(j, b)) * tile_smem_w(j, b) + (o[2] - Col0(j, b))

(* What a thread gathers: <<output, m, n>> for the rows and columns it     *)
(* visits.  Only v7 starts them at its window.                             *)
InteriorPixel(j, p) == Interior(p[1], j.inH) /\ Interior(p[2], j.inW)
Visits(j, th) ==
  LET p == PixelOf(j, th)
      inside == InteriorPixel(j, p)
      rows == OutputsOf(p[1], IF j.code = v8 THEN 0 ELSE Row0(j, th[1]), j.inH, j.outH)
      cols == OutputsOf(p[2], IF j.code = v8 THEN 0 ELSE Col0(j, th[1]), j.inW, j.outW)
  IN  UNION {{o} \X TapsTowards(p[1], o[1], inside, j.inH, j.outH)
                 \X TapsTowards(p[2], o[2], inside, j.inW, j.outW) : o \in rows \X cols}

(* What each thread loads and gathers. *)
Indices == [j \in Jobs |-> [th \in Threads(j) |-> MyIndices(j, th)]]
Visited == [j \in Jobs |-> [th \in Threads(j) |->
  IF Inside(j, th) THEN Visits(j, th) ELSE {}]]

(* The contributions that bicubic_backward_cpu adds to a pixel, but for    *)
(* those whose weight is 0.                                                *)
CpuGradient == [j \in Jobs |-> [p \in Pixels(j) |->
  {<<y[1], x[1], y[2], x[2]>> : y \in Scattered(p[1], j.inH, j.outH),
                                x \in Scattered(p[2], j.inW, j.outW)}]]

Stale == <<-1, -1, -1, -1>>    \* what uninitialised memory adds to a sum
Garbage == <<-1, -1>>

VARIABLES
  job,            \* the call; it never changes
  pc,             \* per thread: index of its next statement; -n when it has
                  \* returned at statement n
  smem,           \* __shared__, per block: [index -> output]
  grad_input,     \* global memory: [pixel -> sum]
  hostPc, result, \* index of the host's next statement, the image it returns
  failed          \* whether the host has found the device too small

vars == <<job, pc, smem, grad_input, hostPc, result, failed>>

Uninitialised == [p \in Pixels(job) |-> {Stale}]
Zeros == [p \in Pixels(job) |-> {}]

Init ==
  /\ job \in Jobs
  /\ pc = [th \in Threads(job) |-> 0]
  /\ smem = [b \in Blocks(job) |-> [i \in 0 .. smemSize(job) - 1 |-> Garbage]]
  /\ grad_input = Uninitialised
  /\ hostPc = 1
  /\ result = Uninitialised
  /\ failed = FALSE

Reached(n) == IF n < 0 THEN -n ELSE n
At(th, statement) == pc[th] \in DOMAIN job.code /\ job.code[pc[th]] = statement
Ended(th) == pc[th] < 0 \/ pc[th] > Len(job.code)
Advance(th) ==
  /\ pc' = [pc EXCEPT ![th] = @ + 1]
  /\ UNCHANGED <<job, hostPc, result, failed>>

Load(th) ==
  /\ At(th, "load")
  /\ smem' = [smem EXCEPT ![th[1]] = [i \in DOMAIN @ |->
       IF i \in Indices[job][th] THEN OutputAt(job, th[1], i) ELSE @[i]]]
  /\ Advance(th)
  /\ UNCHANGED grad_input

(* Faulty: no barrier. *)
ReleasedAtOnce(th) == TRUE
(* __syncthreads() lets a thread go on once its whole block has arrived. *)
Released(th) ==
  \A u \in Threads(job) : u[1] = th[1] => Reached(pc[u]) >= pc[th]

Sync(th) ==
  /\ At(th, "sync")
  /\ Released(th)
  /\ Advance(th)
  /\ UNCHANGED <<smem, grad_input>>

(* if (in_x >= inW || in_y >= inH) return; *)
ReturnIfOutside(th) ==
  /\ At(th, "returnIfOutside")
  /\ IF Inside(job, th) THEN Advance(th)
     ELSE /\ pc' = [pc EXCEPT ![th] = -@]
          /\ UNCHANGED <<job, hostPc, result, failed>>
  /\ UNCHANGED <<smem, grad_input>>

(* The gradient a thread uses for an output: v7 takes it from its window.  *)
GradientOf(th, o) ==
  IF job.code = v8 THEN o ELSE smem[th[1]][IndexOf(job, th[1], o)]

(* The loops over the outputs and grad_input[...] = grad_sum. *)
Gather(th) ==
  /\ At(th, "gather")
  /\ grad_input' = [grad_input EXCEPT ![PixelOf(job, th)] =
       {<<GradientOf(th, v[1])[1], GradientOf(th, v[1])[2], v[2], v[3]>> :
          v \in Visited[job][th]}]
  /\ Advance(th)
  /\ UNCHANGED smem

Step(th) == Load(th) \/ Sync(th) \/ ReturnIfOutside(th) \/ Gather(th)

-----------------------------------------------------------------------------
HostAt(statement) ==
  /\ hostPc \in DOMAIN job.host
  /\ job.host[hostPc] = statement
  /\ UNCHANGED <<job, smem>>
NextHost == hostPc' = hostPc + 1

(* cudaMemset(d_grad_input, 0, ...) *)
Memset ==
  /\ HostAt("memset")
  /\ NextHost
  /\ grad_input' = Zeros
  /\ UNCHANGED <<pc, result, failed>>

(* smem_bytes > prop.sharedMemPerBlock: an error message, and an image of  *)
(* zeros is returned.                                                      *)
CheckDevice ==
  /\ HostAt("checkDevice")
  /\ IF smemSize(job) > job.sharedMemPerBlock
       THEN /\ failed' = TRUE
            /\ result' = Zeros
            /\ hostPc' = Len(job.host) + 1
       ELSE NextHost /\ UNCHANGED <<failed, result>>
  /\ UNCHANGED <<pc, grad_input>>

Launch ==
  /\ HostAt("launch")
  /\ NextHost
  /\ pc' = [th \in Threads(job) |-> 1]
  /\ UNCHANGED <<grad_input, result, failed>>

(* Faulty: the host does not wait. *)
CopyBackAtOnce ==
  /\ HostAt("copyBack")
  /\ NextHost
  /\ result' = grad_input
  /\ UNCHANGED <<pc, grad_input, failed>>

(* cudaEventSynchronize and the copy wait for the kernel. *)
CopyBack ==
  /\ HostAt("copyBack")
  /\ \A th \in Threads(job) : Ended(th)
  /\ NextHost
  /\ result' = grad_input
  /\ UNCHANGED <<pc, grad_input, failed>>

Host == Memset \/ CheckDevice \/ Launch \/ CopyBack
Returned == hostPc > Len(job.host)

Next == Host \/ \E th \in Threads(job) : Step(th)

Spec == Init /\ [][Next]_vars

-----------------------------------------------------------------------------
(* Every variable keeps its type: the shared memory holds gradients of     *)
(* outputs that exist.                                                     *)
TypeOK ==
  /\ job \in Jobs
  /\ pc \in [Threads(job) -> -Len(job.code) .. Len(job.code) + 1]
  /\ smem \in [Blocks(job) -> [0 .. smemSize(job) - 1 -> OutPixels(job) \cup {Garbage}]]
  /\ DOMAIN grad_input = Pixels(job)
  /\ DOMAIN result = Pixels(job)
  /\ hostPc \in 1 .. Len(job.host) + 1
  /\ failed \in BOOLEAN

(* The indices of shared memory that a thread's next statement uses. *)
WritesNext(th) == IF At(th, "load") THEN Indices[job][th] ELSE {}
ReadsNext(th) ==
  IF job.code # v8 /\ At(th, "gather")
    THEN {IndexOf(job, th[1], v[1]) : v \in Visited[job][th]} ELSE {}

(* No data race: no thread reads what another one is about to load. *)
NoRace ==
  \A th, u \in Threads(job) : th # u /\ th[1] = u[1] =>
    ReadsNext(th) \cap WritesNext(u) = {}

(* The window of a block, which the kernel computes from its first and     *)
(* last pixel, fits in the memory the host has computed from the scale     *)
(* alone, and what a thread visits lies in the window of its block.        *)
InBounds ==
  \A th \in Threads(job) :
    /\ WritesNext(th) \subseteq 0 .. smemSize(job) - 1
    /\ ReadsNext(th) \subseteq UNION {Indices[job][u] :
         u \in {x \in Threads(job) : x[1] = th[1]}}

(* The shared memory is used as it is meant to be. *)
MemorySafe == TypeOK /\ NoRace /\ InBounds

(* Whoever is not told of an error gets the gradient of the CPU: the       *)
(* program implements Gradient, each pixel receiving its whole sum in one  *)
(* store.                                                                  *)
Grad == INSTANCE Gradient WITH
  expected <- CpuGradient[job], grad <- grad_input,
  result <- IF failed THEN Uninitialised ELSE result
ImplementsGradient == Grad!GSpec

=============================================================================
