----------------------------- MODULE WarpReduce -----------------------------
(***************************************************************************)
(* src/CUDA/reduction.cu: a grid of blocks sums an array of any length.    *)
(* Every thread first adds up the inputs that lie one grid apart (the      *)
(* grid-stride loop), the lanes of each warp then combine their sums with  *)
(* shuffles, lane 0 of each warp leaves the warp's sum in shared memory,   *)
(* and the first warp of the block combines those; the host adds the       *)
(* partial sums.  __shfl_down_sync with a full mask keeps the lanes of a   *)
(* warp together and the loop touches only registers, so a warp takes its  *)
(* steps as one; different warps, blocks and the host run independently.   *)
(* A sum is represented by how often each input is in it.                  *)
(*                                                                         *)
(* src/CUDA/shuffle.cu is the case in which the grid covers the array,     *)
(* gridDim * BLOCK_SIZE >= n: its load val = (idx < N) ? input[idx] : 0    *)
(* (line 22) is the loop with at most one pass, and the rest is the same.  *)
(***************************************************************************)
EXTENDS Integers

CONSTANTS
  gridDim,      \* numBlocks in main
  BLOCK_SIZE,
  warpSize,     \* 32 on the hardware; the literals 32 and 16 in the code
  n             \* number of inputs

ASSUME WarpAssumption ==
  /\ gridDim \in Nat \ {0}
  /\ warpSize \in {2, 4, 8, 16, 32}
  /\ BLOCK_SIZE \in {w * warpSize : w \in 1 .. warpSize}
  /\ n \in Nat \ {0}

Blocks == 0 .. gridDim - 1
Tids == 0 .. BLOCK_SIZE - 1
Threads == Blocks \X Tids                 \* <<blockIdx.x, threadIdx.x>>
numWarps == BLOCK_SIZE \div warpSize
Warps == Blocks \X (0 .. numWarps - 1)    \* <<blockIdx.x, threadIdx.x / 32>>
Lanes(w) == {<<w[1], w[2] * warpSize + l>> : l \in 0 .. warpSize - 1}
FirstLane(w) == <<w[1], w[2] * warpSize>>

stride == BLOCK_SIZE * gridDim
Inputs == 0 .. n - 1
Owner == [i \in Inputs |-> (i % stride) \div BLOCK_SIZE]

(* Sums of inputs. *)
Nothing == [i \in Inputs |-> 0]
Garbage == [i \in Inputs |-> -1000]     \* memory nobody has written
Input(j) == IF j \in Inputs THEN [i \in Inputs |-> IF i = j THEN 1 ELSE 0]
                            ELSE Garbage
Plus(x, y) == [i \in Inputs |-> x[i] + y[i]]

VARIABLES
  sdata,          \* __shared__, one array per block: [block -> [cell -> sum]]
  partial,        \* global memory: one partial sum per block
  val, idx,       \* per thread: the accumulator, the index of the loop
  pc, offset,     \* per warp: next statement, the variable of the shuffle loop
  arrived,        \* per warp: how many times it has reached __syncthreads()
  hostPc, hostI,  \* the host's next statement, its loop variable
  h_partial, final_sum

device == <<sdata, partial, val, idx, pc, offset, arrived>>
host == <<hostPc, hostI, h_partial, final_sum>>
vars == <<device, host>>

Init ==
  /\ sdata = [b \in Blocks |-> [j \in Tids |-> Garbage]]
  /\ partial = [b \in Blocks |-> Garbage]
  /\ val = [th \in Threads |-> Nothing]
  /\ idx = [th \in Threads |-> th[1] * BLOCK_SIZE + th[2]]
  /\ pc = [w \in Warps |-> "notLaunched"]
  /\ offset = [w \in Warps |-> 0]
  /\ arrived = [w \in Warps |-> 0]
  /\ hostPc = "launch"
  /\ hostI = 0
  /\ h_partial = [b \in Blocks |-> Garbage]
  /\ final_sum = Nothing

Goto(w, label) == pc' = [pc EXCEPT ![w] = label]

-----------------------------------------------------------------------------
(* The kernel. *)

Running(w) == {th \in Lanes(w) : idx[th] < n}

(* Faulty: the lanes that have left the loop go on with it. *)
AccumulateAllLanes(w) ==
  /\ pc[w] = "loop"
  /\ Running(w) # {}
  /\ val' = [th \in Threads |->
       IF th \in Lanes(w) THEN Plus(val[th], Input(idx[th])) ELSE val[th]]
  /\ idx' = [th \in Threads |->
       IF th \in Lanes(w) THEN idx[th] + stride ELSE idx[th]]
  /\ UNCHANGED <<sdata, partial, pc, offset, arrived, host>>

(* One iteration of the grid-stride loop, by the lanes still in it. *)
Accumulate(w) ==
  /\ pc[w] = "loop"
  /\ Running(w) # {}
  /\ val' = [th \in Threads |->
       IF th \in Running(w) THEN Plus(val[th], Input(idx[th])) ELSE val[th]]
  /\ idx' = [th \in Threads |->
       IF th \in Running(w) THEN idx[th] + stride ELSE idx[th]]
  /\ UNCHANGED <<sdata, partial, pc, offset, arrived, host>>

(* The call of warpReduceSum starts its loop. *)
StartShuffle(w) == offset' = [offset EXCEPT ![w] = warpSize \div 2]

EndLoop(w) ==
  /\ pc[w] = "loop"
  /\ Running(w) = {}
  /\ StartShuffle(w)
  /\ Goto(w, "reduceWarp")
  /\ UNCHANGED <<sdata, partial, val, idx, arrived, host>>

(* __shfl_down_sync: the value of the lane d further on, or one's own when *)
(* the warp has no such lane.                                              *)
ShflDown(th, d) ==
  IF (th[2] % warpSize) + d < warpSize THEN val[<<th[1], th[2] + d>>] ELSE val[th]

(* Faulty: the offset is halved before it is used. *)
ShuffleHalvedFirst(w) ==
  /\ pc[w] \in {"reduceWarp", "reduceBlock"}
  /\ val' = [th \in Threads |->
       IF th \in Lanes(w) /\ offset[w] > 1
         THEN Plus(val[th], ShflDown(th, offset[w] \div 2)) ELSE val[th]]
  /\ offset' = [offset EXCEPT ![w] = @ \div 2]
  /\ IF offset[w] \div 2 > 0
       THEN UNCHANGED pc
       ELSE Goto(w, IF pc[w] = "reduceWarp" THEN "store" ELSE "output")
  /\ UNCHANGED <<sdata, partial, idx, arrived, host>>

(* One iteration of warpReduceSum. *)
Shuffle(w) ==
  /\ pc[w] \in {"reduceWarp", "reduceBlock"}
  /\ val' = [th \in Threads |->
       IF th \in Lanes(w) THEN Plus(val[th], ShflDown(th, offset[w])) ELSE val[th]]
  /\ offset' = [offset EXCEPT ![w] = @ \div 2]
  /\ IF offset[w] \div 2 > 0
       THEN UNCHANGED pc
       ELSE Goto(w, IF pc[w] = "reduceWarp" THEN "store" ELSE "output")
  /\ UNCHANGED <<sdata, partial, idx, arrived, host>>

(* Faulty: the barrier is inside if(tid < 32). *)
StoreWarpSumBarrierInIf(w) ==
  /\ pc[w] = "store"
  /\ sdata' = [sdata EXCEPT ![w[1]][w[2]] = val[FirstLane(w)]]
  /\ IF w[2] = 0
       THEN arrived' = [arrived EXCEPT ![w] = @ + 1] /\ Goto(w, "sync")
       ELSE UNCHANGED arrived /\ Goto(w, "done")
  /\ UNCHANGED <<partial, val, idx, offset, host>>

(* if(tid % 32 == 0) sdata[tid / 32] = val, up to the barrier *)
StoreWarpSum(w) ==
  /\ pc[w] = "store"
  /\ sdata' = [sdata EXCEPT ![w[1]][w[2]] = val[FirstLane(w)]]
  /\ arrived' = [arrived EXCEPT ![w] = @ + 1]
  /\ Goto(w, "sync")
  /\ UNCHANGED <<partial, val, idx, offset, host>>

Released(w) == \A v \in Warps : v[1] = w[1] => arrived[v] >= arrived[w]

(* Faulty: no barrier. *)
LeaveSyncAtOnce(w) ==
  /\ pc[w] = "sync"
  /\ Goto(w, IF w[2] = 0 THEN "gather" ELSE "done")
  /\ UNCHANGED <<sdata, partial, val, idx, offset, arrived, host>>

(* Faulty: every warp goes on to the final reduction. *)
LeaveSyncAllWarps(w) ==
  /\ pc[w] = "sync"
  /\ Released(w)
  /\ Goto(w, "gather")
  /\ UNCHANGED <<sdata, partial, val, idx, offset, arrived, host>>

(* The barrier, and if(tid < 32): the first warp goes on. *)
LeaveSync(w) ==
  /\ pc[w] = "sync"
  /\ Released(w)
  /\ Goto(w, IF w[2] = 0 THEN "gather" ELSE "done")
  /\ UNCHANGED <<sdata, partial, val, idx, offset, arrived, host>>

(* val = (tid < blockDim.x / 32) ? sdata[tid] : 0 *)
Gather(w) ==
  /\ pc[w] = "gather"
  /\ val' = [th \in Threads |->
       CASE th \in Lanes(w) /\ th[2] < numWarps -> sdata[th[1]][th[2]]
         [] th \in Lanes(w) /\ th[2] >= numWarps -> Nothing
         [] OTHER -> val[th]]
  /\ StartShuffle(w)
  /\ Goto(w, "reduceBlock")
  /\ UNCHANGED <<sdata, partial, idx, arrived, host>>

(* if(tid == 0) partial[blockIdx.x] = val *)
Output(w) ==
  /\ pc[w] = "output"
  /\ partial' = [partial EXCEPT ![w[1]] = val[FirstLane(w)]]
  /\ Goto(w, "done")
  /\ UNCHANGED <<sdata, val, idx, offset, arrived, host>>

Step(w) ==
  \/ Accumulate(w) \/ EndLoop(w) \/ Shuffle(w) \/ StoreWarpSum(w)
  \/ LeaveSync(w) \/ Gather(w) \/ Output(w)

-----------------------------------------------------------------------------
(* The host. *)

(* The launch returns at once; the blocks may start. *)
Launch ==
  /\ hostPc = "launch"
  /\ pc' = [w \in Warps |-> "loop"]
  /\ hostPc' = "copy"
  /\ UNCHANGED <<sdata, partial, val, idx, offset, arrived,
                 hostI, h_partial, final_sum>>

KernelDone == \A w \in Warps : pc[w] = "done"

(* The blocking copy of the partial sums waits for the kernel. *)
CopyBack ==
  /\ hostPc = "copy"
  /\ KernelDone
  /\ h_partial' = partial
  /\ hostPc' = "sum"
  /\ UNCHANGED <<device, hostI, final_sum>>

(* One iteration of the host's loop over the partial sums. *)
HostAdd ==
  /\ hostPc = "sum"
  /\ final_sum' = Plus(final_sum, h_partial[hostI])
  /\ hostI' = hostI + 1
  /\ hostPc' = IF hostI + 1 < gridDim THEN "sum" ELSE "done"
  /\ UNCHANGED <<device, h_partial>>

Host == Launch \/ CopyBack \/ HostAdd

Next == Host \/ \E w \in Warps : Step(w)

Spec == Init /\ [][Next]_vars

(* The GPU runs every warp that can run, and the host's thread goes on. *)
FairSpec == Spec /\ WF_vars(Host) /\ \A w \in Warps : WF_vars(Step(w))

-----------------------------------------------------------------------------
Sums == [Inputs -> Int]

(* Every variable keeps its type; in particular a lane leaves the loop as  *)
(* soon as its index has passed the end (line 31).                         *)
TypeOK ==
  /\ sdata \in [Blocks -> [Tids -> Sums]]
  /\ partial \in [Blocks -> Sums]
  /\ val \in [Threads -> Sums]
  /\ idx \in [Threads -> 0 .. n - 1 + stride]
  /\ pc \in [Warps -> {"notLaunched", "loop", "reduceWarp", "store", "sync",
                       "gather", "reduceBlock", "output", "done"}]
  /\ offset \in [Warps -> 0 .. warpSize \div 2]
  /\ arrived \in [Warps -> Nat]
  /\ hostPc \in {"launch", "copy", "sum", "done"}
  /\ hostI \in 0 .. gridDim
  /\ h_partial \in [Blocks -> Sums]
  /\ final_sum \in Sums

(* The sum of the inputs that the threads of warp w visit. *)
WarpShare(w) ==
  [i \in Inputs |-> IF i % stride \in {th[1] * BLOCK_SIZE + th[2] : th \in Lanes(w)}
                      THEN 1 ELSE 0]

(* When a warp hands over its lane 0, the logarithmic exchange, in which   *)
(* lanes past the end of the warp add their own value again, has collected *)
(* every input of the warp there, once (lines 10-16, 31-42).               *)
WarpSumComplete ==
  \A w \in Warps : pc[w] = "store" => val[FirstLane(w)] = WarpShare(w)

(* When the first warp picks the warp sums up, those of the slow warps are *)
(* there as well (lines 41-49).                                            *)
BlockSumsReady ==
  \A w \in Warps : pc[w] = "gather" =>
    \A j \in 0 .. numWarps - 1 : sdata[w[1]][j] = WarpShare(<<w[1], j>>)

(* The program implements Reduction: the grid-stride loop gives every      *)
(* input to one thread, each block stores one sum, and the host's result   *)
(* has every input in it once, although n is no multiple of the grid.      *)
Red == INSTANCE Reduction WITH
  result <- IF hostPc = "done" THEN final_sum ELSE Garbage,
  Unset <- Garbage
ImplementsReduction == Red!RSpec

(* The host gets its sum: every warp, also one with nothing to add, reaches *)
(* the shuffles and the barrier its block waits at.                        *)
Terminates == <>(hostPc = "done" /\ KernelDone)
=============================================================================
