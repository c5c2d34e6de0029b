----------------------------- MODULE TreeReduce -----------------------------
(***************************************************************************)
(* src/CUDA/VectorSum.cu: the host copies the input to the device, starts  *)
(* reduceSum on a grid of blocks, copies the partial sums back and adds    *)
(* them.  Each block halves its shared array until one cell is left, with  *)
(* a barrier after every halving.  Blocks and threads run independently;   *)
(* a launch returns at once, and a copy from the device waits for the      *)
(* kernel.  An integer sum is represented by how often each input is in    *)
(* it, so that a lost and a twice-added input both show.                   *)
(***************************************************************************)
EXTENDS Integers

CONSTANTS
  gridDim,     \* number of blocks (4096 in main)
  blockDim     \* threads per block (256 in main)

(* s >>= 1 visits every power of two below blockDim only if blockDim is one. *)
ASSUME ReduceAssumption ==
  /\ gridDim \in Nat \ {0}
  /\ blockDim \in {1, 2, 4, 8, 16, 32, 64, 128, 256}

Blocks == 0 .. gridDim - 1
Lanes == 0 .. blockDim - 1
Threads == Blocks \X Lanes      \* <<blockIdx.x, threadIdx.x>>
blockIdx(th) == th[1]
tid(th) == th[2]

N == gridDim * blockDim
Inputs == 0 .. N - 1
Owner == [i \in Inputs |-> i \div blockDim]

(* Sums of inputs. *)
Nothing == [i \in Inputs |-> 0]
Garbage == [i \in Inputs |-> -1000]     \* memory nobody has written
Input(j) == [i \in Inputs |-> IF i = j THEN 1 ELSE 0]
Plus(x, y) == [i \in Inputs |-> x[i] + y[i]]

VARIABLES
  sdata,          \* __shared__, one array per block: [block -> [cell -> sum]]
  d_output,       \* global memory: one partial sum per block
  pc, s,          \* per thread: next statement, the loop variable
  pair,           \* per thread: the sum it is about to store
  arrived,        \* per thread: how many times it has reached __syncthreads()
  hostPc, hostI,  \* the host's next statement, its loop variable
  h_output, finalSum

device == <<sdata, d_output, pc, s, pair, arrived>>
host == <<hostPc, hostI, h_output, finalSum>>
vars == <<device, host>>

Init ==
  /\ sdata = [b \in Blocks |-> [j \in Lanes |-> Garbage]]
  /\ d_output = [b \in Blocks |-> Garbage]
  /\ pc = [th \in Threads |-> "notLaunched"]
  /\ s = [th \in Threads |-> 0]
  /\ pair = [th \in Threads |-> Nothing]
  /\ arrived = [th \in Threads |-> 0]
  /\ hostPc = "launch"
  /\ hostI = 0
  /\ h_output = [b \in Blocks |-> Garbage]
  /\ finalSum = Nothing

-----------------------------------------------------------------------------
(* The kernel. *)

Goto(th, label) == pc' = [pc EXCEPT ![th] = label]
Arrive(th) == arrived' = [arrived EXCEPT ![th] = @ + 1]

(* sdata[tid] = input[i], up to the first barrier *)
Load(th) ==
  /\ pc[th] = "load"
  /\ sdata' = [sdata EXCEPT ![blockIdx(th)][tid(th)] =
                 Input(blockIdx(th) * blockDim + tid(th))]
  /\ Goto(th, "sync0")
  /\ Arrive(th)
  /\ UNCHANGED <<d_output, s, pair, host>>

(* The body of the loop for the threads below s: both operands are read,   *)
(* then their sum is stored.                                               *)
ReadPair(th) ==
  /\ pc[th] = "read"
  /\ pair' = [pair EXCEPT ![th] =
                Plus(sdata[blockIdx(th)][tid(th)],
                     sdata[blockIdx(th)][tid(th) + s[th]])]
  /\ Goto(th, "write")
  /\ UNCHANGED <<sdata, d_output, s, arrived, host>>

WriteBack(th) ==
  /\ pc[th] = "write"
  /\ sdata' = [sdata EXCEPT ![blockIdx(th)][tid(th)] = pair[th]]
  /\ Goto(th, "sync")
  /\ Arrive(th)
  /\ UNCHANGED <<d_output, s, pair, host>>

Skip(th) ==
  /\ pc[th] = "skip"
  /\ Goto(th, "sync")
  /\ Arrive(th)
  /\ UNCHANGED <<sdata, d_output, s, pair, host>>

(* Faulty: no barrier. *)
ReleasedAtOnce(th) == arrived[th] > 0

(* __syncthreads() lets a thread go on once its whole block has arrived. *)
Released(th) ==
  \A u \in Threads : blockIdx(u) = blockIdx(th) => arrived[u] >= arrived[th]

(* Where the loop goes for a thread when its variable becomes r. *)
LoopTop(th, r) ==
  CASE r > 0 /\ tid(th) < r  -> "read"
    [] r > 0 /\ tid(th) >= r -> "skip"
    [] OTHER                 -> "output"

(* Faulty: the loop starts at blockDim.x. *)
LeaveSyncFullStride(th) ==
  /\ pc[th] \in {"sync0", "sync"}
  /\ Released(th)
  /\ LET r == IF pc[th] = "sync0" THEN blockDim ELSE s[th] \div 2
     IN  s' = [s EXCEPT ![th] = r] /\ Goto(th, LoopTop(th, r))
  /\ UNCHANGED <<sdata, d_output, pair, arrived, host>>

(* Faulty: the loop misses a power of two. *)
LeaveSyncSkipsStage(th) ==
  /\ pc[th] \in {"sync0", "sync"}
  /\ Released(th)
  /\ LET r == IF pc[th] = "sync0" THEN blockDim \div 4 ELSE s[th] \div 2
     IN  s' = [s EXCEPT ![th] = r] /\ Goto(th, LoopTop(th, r))
  /\ UNCHANGED <<sdata, d_output, pair, arrived, host>>

(* Faulty: a thread with nothing left to add returns. *)
LeaveSyncEarlyReturn(th) ==
  /\ pc[th] \in {"sync0", "sync"}
  /\ Released(th)
  /\ LET r == IF pc[th] = "sync0" THEN blockDim \div 2 ELSE s[th] \div 2
     IN  /\ s' = [s EXCEPT ![th] = r]
         /\ Goto(th, IF tid(th) >= r /\ r > 0 THEN "done" ELSE LoopTop(th, r))
  /\ UNCHANGED <<sdata, d_output, pair, arrived, host>>

(* A barrier, then s = blockDim.x/2 or s >>= 1 and the test of the loop. *)
LeaveSync(th) ==
  /\ pc[th] \in {"sync0", "sync"}
  /\ Released(th)
  /\ LET r == IF pc[th] = "sync0" THEN blockDim \div 2 ELSE s[th] \div 2
     IN  s' = [s EXCEPT ![th] = r] /\ Goto(th, LoopTop(th, r))
  /\ UNCHANGED <<sdata, d_output, pair, arrived, host>>

(* if(tid == 0) output[blockIdx.x] = sdata[0] *)
Output(th) ==
  /\ pc[th] = "output"
  /\ d_output' = IF tid(th) = 0
                   THEN [d_output EXCEPT ![blockIdx(th)] = sdata[blockIdx(th)][0]]
                   ELSE d_output
  /\ Goto(th, "done")
  /\ UNCHANGED <<sdata, s, pair, arrived, host>>

Step(th) ==
  \/ Load(th) \/ ReadPair(th) \/ WriteBack(th) \/ Skip(th)
  \/ LeaveSync(th) \/ Output(th)

-----------------------------------------------------------------------------
(* The host. *)

(* reduceSum<<<4096,256>>>: the threads may start; the host goes on. *)
Launch ==
  /\ hostPc = "launch"
  /\ pc' = [th \in Threads |-> "load"]
  /\ hostPc' = "copy"
  /\ UNCHANGED <<sdata, d_output, s, pair, arrived, hostI, h_output, finalSum>>

KernelDone == \A th \in Threads : pc[th] = "done"

(* Faulty: the copy does not wait for the kernel. *)
CopyBackAtOnce ==
  /\ hostPc = "copy"
  /\ h_output' = d_output
  /\ hostPc' = "sum"
  /\ UNCHANGED <<device, hostI, finalSum>>

(* The blocking cudaMemcpy(h_output, d_output, ..., cudaMemcpyDeviceToHost). *)
CopyBack ==
  /\ hostPc = "copy"
  /\ KernelDone
  /\ h_output' = d_output
  /\ hostPc' = "sum"
  /\ UNCHANGED <<device, hostI, finalSum>>

(* One iteration of the host's loop over the partial sums. *)
HostAdd ==
  /\ hostPc = "sum"
  /\ finalSum' = Plus(finalSum, h_output[hostI])
  /\ hostI' = hostI + 1
  /\ hostPc' = IF hostI + 1 < gridDim THEN "sum" ELSE "done"
  /\ UNCHANGED <<device, h_output>>

Host == Launch \/ CopyBack \/ HostAdd

Next == Host \/ \E th \in Threads : Step(th)

Spec == Init /\ [][Next]_vars

(* The GPU runs every thread that can run, and the host's thread goes on.  *)
FairSpec == Spec /\ WF_vars(Host) /\ \A th \in Threads : WF_vars(Step(th))
-----------------------------------------------------------------------------
Sums == [Inputs -> Int]

(* Every variable keeps its type; the stride in particular never exceeds   *)
(* half of the block, so that tid + s stays inside sdata (line 21).        *)
TypeOK ==
  /\ sdata \in [Blocks -> [Lanes -> Sums]]
  /\ d_output \in [Blocks -> Sums]
  /\ pc \in [Threads -> {"notLaunched", "load", "sync0", "read", "write",
                         "skip", "sync", "output", "done"}]
  /\ s \in [Threads -> 0 .. blockDim \div 2]
  /\ pair \in [Threads -> Sums]
  /\ arrived \in [Threads -> Nat]
  /\ hostPc \in {"launch", "copy", "sum", "done"}
  /\ hostI \in 0 .. gridDim
  /\ h_output \in [Blocks -> Sums]
  /\ finalSum \in Sums

(* The cells of the block's sdata the next statement of a thread writes, reads. *)
WritesNext(th) == IF pc[th] \in {"load", "write"} THEN {tid(th)} ELSE {}
ReadsNext(th) ==
  CASE pc[th] = "read" -> {tid(th), tid(th) + s[th]}
    [] pc[th] = "output" /\ tid(th) = 0 -> {0}
    [] OTHER -> {}

(* No data race: a thread never stores its sum while another thread of the *)
(* block, at the same stage or one behind, still has to read that cell.    *)
NoRace ==
  \A th, u \in Threads :
    th # u /\ blockIdx(th) = blockIdx(u) =>
      WritesNext(th) \cap (ReadsNext(u) \cup WritesNext(u)) = {}

(* The inputs of block b that fold onto cell j when 2r cells are left. *)
FoldedOnto(b, j, r) ==
  [i \in Inputs |-> IF Owner[i] = b /\ (i % blockDim) % (2 * r) = j THEN 1 ELSE 0]

(* A thread that adds two cells at stride s finds in both the finished     *)
(* sums of the stage before, although those were stored by other threads:  *)
(* not a sum still to be updated nor one already folded further (17-23).   *)
StageComplete ==
  \A th \in Threads : pc[th] = "read" =>
    \A j \in {tid(th), tid(th) + s[th]} :
      sdata[blockIdx(th)][j] = FoldedOnto(blockIdx(th), j, s[th])

(* The program implements Reduction: each block stores one sum, with every *)
(* input of the block in it once, and the host never adds a partial sum    *)
(* that was copied before its block had stored it.                         *)
Red == INSTANCE Reduction WITH
  partial <- d_output,
  result <- IF hostPc = "done" THEN finalSum ELSE Garbage,
  Unset <- Garbage
ImplementsReduction == Red!RSpec

(* The host gets its sum: no block waits at a barrier for ever, although   *)
(* ever more of its threads have nothing to add.                           *)
Terminates == <>(hostPc = "done" /\ KernelDone)
=============================================================================
