----------------------------- MODULE SparseCoo -----------------------------
(***************************************************************************)
(* src/Sparse/coo_smm.cu: a sparse matrix, stored as a list of non-zeros,  *)
(* times a dense one, by two kernels that the host runs one after the      *)
(* other on the same output array and compares with cpu_coo_matmul.        *)
(* gpu_coo_no_atomic has a thread per non-zero and column,                 *)
(* gpu_coo_scatter a thread per non-zero that loops over the columns; both *)
(* add with atomicAdd to cells that several non-zeros of a row share.  All *)
(* calls go to one stream, which works them off in order.                  *)
(* A sum is the set of the contributions <<p, j>> (non-zero p, column j)   *)
(* in it; one that is added twice leaves a mark.                           *)
(***************************************************************************)
EXTENDS Integers

CONSTANTS
  N,                \* both matrices are N x N
  nnz,              \* number of non-zeros, stored in the order of the rows
  rowIdx,           \* rowIdx[p]: the row of non-zero p
  TX, TY,           \* block of gpu_coo_no_atomic: columns, non-zeros
  flat_threads      \* block of gpu_coo_scatter

ASSUME CooAssumption ==
  /\ N \in Nat \ {0} /\ nnz \in Nat
  /\ TX \in Nat \ {0} /\ TY \in Nat \ {0} /\ flat_threads \in Nat \ {0}
  /\ rowIdx \in [0 .. nnz - 1 -> 0 .. N - 1]

(* Faulty: the division is not rounded up. *)
GridTruncated(n, size) == n \div size

(* (n + size - 1) / size: the number of blocks for n threads. *)
Grid(n, size) == (n + size - 1) \div size

ColumnKernel == 1     \* gpu_coo_no_atomic
ScatterKernel == 2    \* gpu_coo_scatter

(* A thread is <<kernel, p, col>>; a thread of the scatter has no column. *)
Threads ==
  ({ColumnKernel} \X (0 .. Grid(nnz, TY) * TY - 1) \X (0 .. Grid(N, TX) * TX - 1))
    \union ({ScatterKernel} \X (0 .. Grid(nnz, flat_threads) * flat_threads - 1) \X {0})

Columns == 0 .. N - 1
Cells == Columns \X Columns                      \* <<row, column>> of C
Contributions == (0 .. nnz - 1) \X Columns       \* <<p, j>>: vals[p] * B[k][j]
CellOf(x) == <<rowIdx[x[1]], x[2]>>              \* the cell x belongs to

Stale == <<-1, -1>>                \* what uninitialised memory adds to a sum
Twice == <<-2, -2>>                \* the mark
Plus(sum, x) == IF x \in sum THEN sum \union {Twice} ELSE sum \union {x}

VARIABLES
  C,            \* d_C: [cell -> sum]
  pc, j,        \* per thread: what it does next, the column it adds next
  hostPc,       \* the host's next call
  kernel,       \* the kernel the host is concerned with
  h_C_gpu,      \* the host's copy of C
  correct       \* correct[k]: what verify said of kernel k

vars == <<C, pc, j, hostPc, kernel, h_C_gpu, correct>>
host == <<hostPc, kernel, h_C_gpu, correct>>

(* cpu_coo_matmul: every non-zero is added to all columns of its row. *)
CpuProduct == [c \in Cells |-> {x \in Contributions : CellOf(x) = c}]

Init ==
  /\ C = [c \in Cells |-> {Stale}]
  /\ pc = [th \in Threads |-> "notLaunched"]
  /\ j = [th \in Threads |-> th[3]]
  /\ hostPc = "memset"
  /\ kernel = ColumnKernel
  /\ h_C_gpu = [c \in Cells |-> {}]
  /\ correct = [k \in {ColumnKernel, ScatterKernel} |-> FALSE]

-----------------------------------------------------------------------------
(* The kernels. *)

OutOfRange(th) == th[2] >= nnz \/ th[3] >= N

(* if (p >= nnz || col >= N) return; *)
ReturnEarly(th) ==
  /\ pc[th] = "run"
  /\ OutOfRange(th)
  /\ pc' = [pc EXCEPT ![th] = "done"]
  /\ UNCHANGED <<C, j, host>>

(* atomicAdd(&C[r * N + j], val * B[k * N + j]) *)
AtomicAdd(x) == C' = [C EXCEPT ![CellOf(x)] = Plus(@, x)]

AddColumn(th) ==
  /\ pc[th] = "run" /\ th[1] = ColumnKernel
  /\ ~OutOfRange(th)
  /\ AtomicAdd(<<th[2], j[th]>>)
  /\ pc' = [pc EXCEPT ![th] = "done"]
  /\ UNCHANGED <<j, host>>

(* Faulty: one column too many, which is the first cell of the next row. *)
ScatterOneMore(th) ==
  /\ pc[th] = "run" /\ th[1] = ScatterKernel
  /\ ~OutOfRange(th)
  /\ IF j[th] < N THEN AtomicAdd(<<th[2], j[th]>>) ELSE UNCHANGED C
  /\ j' = [j EXCEPT ![th] = @ + 1]
  /\ pc' = [pc EXCEPT ![th] = IF j[th] + 1 <= N THEN "run" ELSE "done"]
  /\ UNCHANGED host

(* Faulty: j is not incremented. *)
ScatterForEver(th) ==
  /\ pc[th] = "run" /\ th[1] = ScatterKernel
  /\ ~OutOfRange(th)
  /\ AtomicAdd(<<th[2], j[th]>>)
  /\ UNCHANGED <<pc, j, host>>

(* One iteration of the loop over j. *)
Scatter(th) ==
  /\ pc[th] = "run" /\ th[1] = ScatterKernel
  /\ ~OutOfRange(th)
  /\ AtomicAdd(<<th[2], j[th]>>)
  /\ j' = [j EXCEPT ![th] = @ + 1]
  /\ pc' = [pc EXCEPT ![th] = IF j[th] + 1 < N THEN "run" ELSE "done"]
  /\ UNCHANGED host

Step(th) == ReturnEarly(th) \/ AddColumn(th) \/ Scatter(th)

-----------------------------------------------------------------------------
(* The host. *)

Finished(k) == \A th \in Threads : th[1] = k => pc[th] = "done"

(* Faulty: the array is cleared for the first kernel only. *)
MemsetOnce ==
  /\ hostPc = "memset"
  /\ C' = IF kernel = ColumnKernel THEN [c \in Cells |-> {}] ELSE C
  /\ hostPc' = "launch"
  /\ UNCHANGED <<pc, j, kernel, h_C_gpu, correct>>

(* cudaMemset(d_C, 0, dense_size), before either kernel *)
Memset ==
  /\ hostPc = "memset"
  /\ C' = [c \in Cells |-> {}]
  /\ hostPc' = "launch"
  /\ UNCHANGED <<pc, j, kernel, h_C_gpu, correct>>

(* The launch returns at once; the threads of the kernel may start. *)
Launch ==
  /\ hostPc = "launch"
  /\ pc' = [th \in Threads |-> IF th[1] = kernel THEN "run" ELSE pc[th]]
  /\ hostPc' = "synchronize"
  /\ UNCHANGED <<C, j, kernel, h_C_gpu, correct>>

(* cudaDeviceSynchronize() *)
Synchronize ==
  /\ hostPc = "synchronize"
  /\ Finished(kernel)
  /\ hostPc' = "copy"
  /\ UNCHANGED <<C, pc, j, kernel, h_C_gpu, correct>>

(* The copy to the host, and verify. *)
CopyAndVerify ==
  /\ hostPc = "copy"
  /\ h_C_gpu' = C
  /\ correct' = [correct EXCEPT ![kernel] = (C = CpuProduct)]
  /\ IF kernel = ColumnKernel
       THEN kernel' = ScatterKernel /\ hostPc' = "memset"
       ELSE UNCHANGED kernel /\ hostPc' = "done"
  /\ UNCHANGED <<C, pc, j>>

Host == Memset \/ Launch \/ Synchronize \/ CopyAndVerify

Next == Host \/ \E th \in Threads : Step(th)

Spec == Init /\ [][Next]_vars

(* The GPU runs every thread that can run, and the host's thread goes on.  *)
FairSpec == Spec /\ WF_vars(Host) /\ \A th \in Threads : WF_vars(Step(th))

-----------------------------------------------------------------------------
Sums == SUBSET (Contributions \union {Stale, Twice})

(* Every variable keeps its type; in particular the loop of the scatter    *)
(* never passes the last column, which is where the next row begins (83).  *)
TypeOK ==
  /\ C \in [Cells -> Sums]
  /\ pc \in [Threads -> {"notLaunched", "run", "done"}]
  /\ j \in [Threads -> Nat]
  /\ \A th \in Threads : th[1] = ScatterKernel => j[th] \in 0 .. N
  /\ hostPc \in {"memset", "launch", "synchronize", "copy", "done"}
  /\ kernel \in {ColumnKernel, ScatterKernel}
  /\ h_C_gpu \in [Cells -> Sums]
  /\ correct \in [{ColumnKernel, ScatterKernel} -> BOOLEAN]

(* The contributions that thread th has added. *)
Added(th) ==
  IF OutOfRange(th) THEN {}
  ELSE IF th[1] = ScatterKernel THEN {<<th[2], i>> : i \in 0 .. j[th] - 1}
  ELSE IF pc[th] = "done" THEN {<<th[2], th[3]>>} ELSE {}

AddedBy(k) == UNION {Added(th) : th \in {u \in Threads : u[1] = k}}

(* While a kernel runs, and after it, every cell has the contributions of  *)
(* the steps that its threads have made, whatever their order: none is     *)
(* lost among the atomic additions to a shared cell, none is in it twice,  *)
(* none is in the cell of another row, and none of the kernel before is    *)
(* left (lines 84, 107, 157, 172).                                         *)
NothingLost ==
  hostPc \in {"launch", "synchronize", "copy", "done"} =>
    \A c \in Cells : C[c] = {x \in AddedBy(kernel) : CellOf(x) = c}

(* Both comparisons with the CPU, one of them of an array that the other   *)
(* kernel has used before, come out as Correct (lines 170, 182).           *)
VerifiesCorrect ==
  /\ kernel = ScatterKernel => correct[ColumnKernel]
  /\ hostPc = "done" => correct[ScatterKernel]

(* Both kernels end and the host prints its last line (166-182). *)
Terminates == <>(hostPc = "done" /\ Finished(ScatterKernel))
=============================================================================
