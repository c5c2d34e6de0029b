-------------------------- MODULE SparseCooProofs --------------------------
(***************************************************************************)
(* Proofs about SparseCoo, for every matrix size, list of non-zeros and    *)
(* block size: both kernels compute the product of the CPU.                *)
(***************************************************************************)
EXTENDS SparseCoo, TLAPS

-----------------------------------------------------------------------------
(* The geometry. *)

(* The rounded-up number of blocks has a thread for each of the n items. *)
LEMMA GridCovers ==
  ASSUME NEW n \in Nat, NEW size \in Nat \ {0}
  PROVE  Grid(n, size) * size \in Nat /\ n <= Grid(n, size) * size
<1> DEFINE g == (n + size - 1) \div size
<1>1. g \in Nat /\ n + size - 1 < (g + 1) * size
  OBVIOUS
<1>2. (g + 1) * size = g * size + size
  BY <1>1
<1>3. g * size \in Nat
  BY <1>1
<1>4. QED
  BY <1>1, <1>2, <1>3 DEF Grid

LEMMA ThreadShape ==
  ASSUME NEW th \in Threads
  PROVE  /\ th = <<th[1], th[2], th[3]>>
         /\ th[1] \in {ColumnKernel, ScatterKernel} /\ th[2] \in Nat /\ th[3] \in Nat
         /\ th[1] = ScatterKernel => th[3] = 0
<1>1. /\ Grid(nnz, TY) * TY \in Nat /\ Grid(N, TX) * TX \in Nat
      /\ Grid(nnz, flat_threads) * flat_threads \in Nat
  BY CooAssumption, GridCovers
<1>2. CASE th \in {ColumnKernel} \X (0 .. Grid(nnz, TY) * TY - 1)
                                 \X (0 .. Grid(N, TX) * TX - 1)
  BY <1>1, <1>2 DEF ColumnKernel, ScatterKernel
<1>3. CASE th \in {ScatterKernel} \X (0 .. Grid(nnz, flat_threads) * flat_threads - 1)
                                  \X {0}
  BY <1>1, <1>3 DEF ScatterKernel
<1>4. QED
  BY <1>2, <1>3 DEF Threads

(* Every non-zero and column has a thread of the column kernel, and every  *)
(* non-zero one of the scatter.                                            *)
LEMMA EveryNonZeroHasThreads ==
  ASSUME NEW p \in 0 .. nnz - 1, NEW i \in Columns
  PROVE  <<ColumnKernel, p, i>> \in Threads /\ <<ScatterKernel, p, 0>> \in Threads
<1>1. /\ Grid(nnz, TY) * TY \in Nat /\ nnz <= Grid(nnz, TY) * TY
      /\ Grid(N, TX) * TX \in Nat /\ N <= Grid(N, TX) * TX
      /\ Grid(nnz, flat_threads) * flat_threads \in Nat
      /\ nnz <= Grid(nnz, flat_threads) * flat_threads
  BY CooAssumption, GridCovers
<1>2. p \in 0 .. Grid(nnz, TY) * TY - 1 /\ i \in 0 .. Grid(N, TX) * TX - 1
  BY <1>1, CooAssumption DEF Columns
<1>3. p \in 0 .. Grid(nnz, flat_threads) * flat_threads - 1
  BY <1>1, CooAssumption
<1>4. QED
  BY <1>2, <1>3 DEF Threads

LEMMA CellOfContribution ==
  ASSUME NEW x \in Contributions
  PROVE  CellOf(x) \in Cells
BY CooAssumption DEF Contributions, CellOf, Cells, Columns

-----------------------------------------------------------------------------
(* The inductive invariant. *)

(* Only the kernel that the host waits for runs. *)
Schedule ==
  /\ \A th \in Threads :
       /\ pc[th] = "run" => th[1] = kernel /\ hostPc = "synchronize"
       /\ th[1] = kernel /\ hostPc \in {"memset", "launch"} => pc[th] = "notLaunched"
       /\ th[1] = kernel /\ hostPc \in {"copy", "done"} => pc[th] = "done"
       /\ kernel = ColumnKernel /\ th[1] = ScatterKernel => pc[th] = "notLaunched"
  /\ hostPc = "done" => kernel = ScatterKernel

(* Where a thread is in its loop. *)
Progress ==
  \A th \in Threads :
    /\ pc[th] = "notLaunched" \/ th[1] = ColumnKernel => j[th] = th[3]
    /\ th[1] = ScatterKernel /\ ~OutOfRange(th) =>
         (pc[th] = "run" => j[th] < N) /\ (pc[th] = "done" => j[th] = N)

Inv == TypeOK /\ Schedule /\ Progress /\ NothingLost /\ VerifiesCorrect

(* A step that adds x adds it to AddedBy as well. *)
LEMMA AdditionKeepsNothingLost ==
  ASSUME TypeOK, NothingLost, hostPc = "synchronize",
         NEW x \in Contributions, AtomicAdd(x), x \notin AddedBy(kernel),
         AddedBy(kernel)' = AddedBy(kernel) \union {x}
  PROVE  NothingLost' /\ C' \in [Cells -> Sums]
<1>1. CellOf(x) \in Cells
  BY CellOfContribution
<1>2. x \notin C[CellOf(x)]
  BY <1>1 DEF NothingLost
<1>3. C' = [C EXCEPT ![CellOf(x)] = @ \union {x}]
  BY <1>1, <1>2 DEF AtomicAdd, Plus, TypeOK
<1>4. C' \in [Cells -> Sums]
  BY <1>1, <1>3 DEF TypeOK, Sums
<1>5. \A c \in Cells : C'[c] = {y \in AddedBy(kernel)' : CellOf(y) = c}
  BY <1>1, <1>3 DEF NothingLost, TypeOK
<1>6. QED
  BY <1>4, <1>5 DEF NothingLost, CellOf

(* When one thread th of the running kernel adds x, for the others nothing *)
(* changes.                                                                *)
LEMMA AddedByOneMore ==
  ASSUME NEW th \in Threads, th[1] = kernel, kernel' = kernel, NEW x,
         Added(th)' = Added(th) \union {x},
         \A u \in Threads : u # th => Added(u)' = Added(u)
  PROVE  AddedBy(kernel)' = AddedBy(kernel) \union {x}
BY DEF AddedBy

LEMMA ColumnPreserves ==
  ASSUME Inv, NEW th \in Threads, AddColumn(th)
  PROVE  Inv'
<1> DEFINE x == <<th[2], j[th]>>
<1>1. /\ th[1] = kernel /\ kernel = ColumnKernel /\ hostPc = "synchronize"
      /\ j[th] = th[3] /\ x \in Contributions
  BY ThreadShape, CooAssumption
  DEF Inv, Schedule, Progress, AddColumn, OutOfRange, Contributions, Columns
<1>2. \A u \in Threads : u # th => Added(u)' = Added(u)
  BY DEF Inv, TypeOK, AddColumn, Added, OutOfRange
<1>3. Added(th) = {} /\ Added(th)' = {x}
  BY <1>1 DEF Inv, TypeOK, AddColumn, Added, OutOfRange, ColumnKernel, ScatterKernel
<1>4. x \notin AddedBy(kernel)
  <2>1. SUFFICES ASSUME NEW u \in Threads, u[1] = kernel, x \in Added(u)
                 PROVE  FALSE
    BY DEF AddedBy
  <2>2. x = <<u[2], u[3]>>
    BY <1>1, <2>1 DEF Added, ColumnKernel, ScatterKernel
  <2>3. u = th
    BY <1>1, <2>1, <2>2, ThreadShape
  <2>4. QED
    BY <1>3, <2>1, <2>3
<1>5. AddedBy(kernel)' = AddedBy(kernel) \union {x}
  <2>1. kernel' = kernel
    BY DEF AddColumn, host
  <2>2. QED
    BY <1>1, <1>2, <1>3, <2>1, AddedByOneMore
<1>6. NothingLost' /\ C' \in [Cells -> Sums]
  <2>1. AtomicAdd(x)
    BY DEF AddColumn
  <2>2. QED
    BY <1>1, <1>4, <1>5, <2>1, AdditionKeepsNothingLost DEF Inv
<1>7. TypeOK'
  BY <1>6 DEF Inv, TypeOK, AddColumn, host
<1>8. Schedule' /\ Progress' /\ VerifiesCorrect'
  BY <1>1 DEF Inv, TypeOK, Schedule, Progress, VerifiesCorrect, AddColumn, host, OutOfRange,
          ColumnKernel, ScatterKernel
<1>9. QED
  BY <1>6, <1>7, <1>8 DEF Inv

LEMMA ScatterPreserves ==
  ASSUME Inv, NEW th \in Threads, Scatter(th)
  PROVE  Inv'
<1> DEFINE x == <<th[2], j[th]>>
<1>1. /\ th[1] = kernel /\ kernel = ScatterKernel /\ hostPc = "synchronize"
      /\ j[th] \in 0 .. N - 1 /\ x \in Contributions
  BY ThreadShape, CooAssumption
  DEF Inv, TypeOK, Schedule, Progress, Scatter, OutOfRange, Contributions, Columns
<1>2. \A u \in Threads : u # th => Added(u)' = Added(u)
  BY DEF Inv, TypeOK, Scatter, Added, OutOfRange
<1>3. Added(th)' = Added(th) \union {x} /\ x \notin Added(th)
  <2>1. /\ Added(th) = {<<th[2], i>> : i \in 0 .. j[th] - 1}
        /\ Added(th)' = {<<th[2], i>> : i \in 0 .. (j[th] + 1) - 1}
    BY <1>1 DEF Inv, TypeOK, Scatter, Added, OutOfRange
  <2>2. 0 .. (j[th] + 1) - 1 = (0 .. j[th] - 1) \union {j[th]}
    BY <1>1, CooAssumption
  <2>3. j[th] \notin 0 .. j[th] - 1
    BY <1>1
  <2>4. QED
    BY <2>1, <2>2, <2>3
<1>4. x \notin AddedBy(kernel)
  <2>1. SUFFICES ASSUME NEW u \in Threads, u[1] = kernel, x \in Added(u)
                 PROVE  FALSE
    BY DEF AddedBy
  <2>2. u[2] = th[2]
    BY <1>1, <2>1 DEF Added
  <2>3. u = th
    BY <1>1, <2>1, <2>2, ThreadShape
  <2>4. QED
    BY <1>3, <2>1, <2>3
<1>5. AddedBy(kernel)' = AddedBy(kernel) \union {x}
  <2>1. kernel' = kernel
    BY DEF Scatter, host
  <2>2. QED
    BY <1>1, <1>2, <1>3, <2>1, AddedByOneMore
<1>6. NothingLost' /\ C' \in [Cells -> Sums]
  <2>1. AtomicAdd(x)
    BY DEF Scatter
  <2>2. QED
    BY <1>1, <1>4, <1>5, <2>1, AdditionKeepsNothingLost DEF Inv
<1>7. TypeOK'
  BY <1>1, <1>6, CooAssumption DEF Inv, TypeOK, Scatter, host
<1>8. Schedule' /\ VerifiesCorrect'
  BY <1>1 DEF Inv, TypeOK, Schedule, VerifiesCorrect, Scatter, host,
          ColumnKernel, ScatterKernel
<1>9. Progress'
  BY <1>1, CooAssumption DEF Inv, TypeOK, Progress, Scatter, OutOfRange, ColumnKernel, ScatterKernel
<1>10. QED
  BY <1>6, <1>7, <1>8, <1>9 DEF Inv

LEMMA ReturnPreserves ==
  ASSUME Inv, NEW th \in Threads, ReturnEarly(th)
  PROVE  Inv'
<1>1. /\ th[1] = kernel /\ hostPc = "synchronize"
      /\ UNCHANGED <<C, j, hostPc, kernel, h_C_gpu, correct>>
  BY DEF Inv, Schedule, ReturnEarly, host
<1>2. TypeOK' /\ Schedule' /\ Progress' /\ VerifiesCorrect'
  BY <1>1 DEF Inv, TypeOK, Schedule, Progress, VerifiesCorrect, ReturnEarly, OutOfRange
<1>3. \A u \in Threads : Added(u)' = Added(u)
  BY <1>1 DEF Inv, TypeOK, ReturnEarly, Added, OutOfRange
<1>4. AddedBy(kernel)' = AddedBy(kernel)
  BY <1>1, <1>3 DEF AddedBy
<1>5. NothingLost'
  BY <1>1, <1>4 DEF Inv, NothingLost, CellOf
<1>6. QED
  BY <1>2, <1>5 DEF Inv

-----------------------------------------------------------------------------
(* The host. *)

(* A kernel that has not started has added nothing. *)
LEMMA NothingAddedYet ==
  ASSUME Progress, \A th \in Threads : th[1] = kernel => pc[th] = "notLaunched"
  PROVE  AddedBy(kernel) = {}
<1>1. \A th \in Threads : th[1] = kernel => Added(th) = {}
  BY ThreadShape DEF Progress, Added
<1>2. QED
  BY <1>1 DEF AddedBy

(* A kernel that has ended has added everything. *)
LEMMA EverythingAdded ==
  ASSUME TypeOK, Progress, Finished(kernel)
  PROVE  AddedBy(kernel) = Contributions
<1>1. ASSUME NEW th \in Threads, th[1] = kernel
      PROVE  Added(th) \subseteq Contributions
  BY <1>1, ThreadShape, CooAssumption
  DEF TypeOK, Progress, Finished, Added, OutOfRange, Contributions, Columns
<1>2. ASSUME NEW p \in 0 .. nnz - 1, NEW i \in Columns
      PROVE  \E th \in Threads : th[1] = kernel /\ <<p, i>> \in Added(th)
  <2>1. CASE kernel = ColumnKernel
    <3> DEFINE th == <<ColumnKernel, p, i>>
    <3>1. th \in Threads /\ ~OutOfRange(th)
      <4>1. th \in Threads /\ th[2] = p /\ th[3] = i
        BY EveryNonZeroHasThreads
      <4>2. QED
        BY <4>1, CooAssumption DEF OutOfRange, Columns
    <3>2. <<p, i>> \in Added(th)
      BY <2>1, <3>1 DEF Finished, Added, ColumnKernel, ScatterKernel
    <3>3. QED
      BY <2>1, <3>1, <3>2
  <2>2. CASE kernel = ScatterKernel
    <3> DEFINE th == <<ScatterKernel, p, 0>>
    <3>1. th \in Threads /\ ~OutOfRange(th)
      <4>1. th \in Threads /\ th[2] = p /\ th[3] = 0
        BY EveryNonZeroHasThreads
      <4>2. QED
        BY <4>1, CooAssumption DEF OutOfRange, Columns
    <3>2. j[th] = N
      BY <2>2, <3>1 DEF Finished, Progress
    <3>3. <<p, i>> \in Added(th)
      BY <3>1, <3>2 DEF Added, Columns
    <3>4. QED
      BY <2>2, <3>1, <3>3
  <2>3. QED
    BY <2>1, <2>2 DEF TypeOK
<1>3. QED
  BY <1>1, <1>2 DEF AddedBy, Contributions

LEMMA HostPreserves ==
  ASSUME Inv, Host
  PROVE  Inv'
<1>1. CASE Memset
  <2>1. TypeOK' /\ Schedule' /\ Progress' /\ VerifiesCorrect'
    BY <1>1 DEF Inv, TypeOK, Schedule, Progress, VerifiesCorrect, Memset, Sums, OutOfRange
  <2>2. AddedBy(kernel)' = {}
    <3>1. \A th \in Threads : th[1] = kernel' => pc'[th] = "notLaunched"
      BY <1>1 DEF Inv, Schedule, Memset
    <3>2. AddedBy(kernel) = {}
      BY <1>1, <3>1, NothingAddedYet DEF Inv, Memset
    <3>3. QED
      BY <1>1, <3>2 DEF Memset, AddedBy, Added, OutOfRange
  <2>3. NothingLost'
    BY <1>1, <2>2 DEF Memset, NothingLost
  <2>4. QED
    BY <2>1, <2>3 DEF Inv
<1>2. CASE Launch
  <2>1. TypeOK' /\ Schedule' /\ VerifiesCorrect'
    BY <1>2 DEF Inv, TypeOK, Schedule, VerifiesCorrect, Launch, ColumnKernel, ScatterKernel
  <2>2. Progress'
    BY <1>2, ThreadShape, CooAssumption
    DEF Inv, TypeOK, Schedule, Progress, Launch, OutOfRange
  <2>3. AddedBy(kernel)' = AddedBy(kernel)
    <3>1. \A th \in Threads : th[1] = kernel => Added(th)' = Added(th)
      BY <1>2 DEF Inv, TypeOK, Schedule, Launch, Added, OutOfRange
    <3>2. QED
      BY <1>2, <3>1 DEF Launch, AddedBy
  <2>4. NothingLost'
    BY <1>2, <2>3 DEF Inv, NothingLost, Launch, CellOf
  <2>5. QED
    BY <2>1, <2>2, <2>4 DEF Inv
<1>3. CASE Synchronize
  <2>1. TypeOK' /\ Schedule' /\ Progress' /\ VerifiesCorrect'
    BY <1>3 DEF Inv, TypeOK, Schedule, Progress, VerifiesCorrect, Synchronize, Finished,
            OutOfRange
  <2>2. AddedBy(kernel)' = AddedBy(kernel)
    BY <1>3 DEF Synchronize, AddedBy, Added, OutOfRange
  <2>3. NothingLost'
    BY <1>3, <2>2 DEF Inv, NothingLost, Synchronize, CellOf
  <2>4. QED
    BY <2>1, <2>3 DEF Inv
<1>4. CASE CopyAndVerify
  <2>1. AddedBy(kernel) = Contributions
    BY <1>4, EverythingAdded DEF Inv, Schedule, CopyAndVerify, Finished
  <2>2. C = CpuProduct
    BY <1>4, <2>1 DEF Inv, TypeOK, NothingLost, CopyAndVerify, CpuProduct
  <2>3. TypeOK' /\ Progress'
    BY <1>4 DEF Inv, TypeOK, Progress, CopyAndVerify, OutOfRange
  <2>4. Schedule'
    BY <1>4 DEF Inv, TypeOK, Schedule, CopyAndVerify, ColumnKernel, ScatterKernel
  <2>5. VerifiesCorrect'
    BY <1>4, <2>2 DEF Inv, TypeOK, VerifiesCorrect, CopyAndVerify, ColumnKernel, ScatterKernel
  <2>6. NothingLost'
    <3>1. CASE kernel = ColumnKernel
      BY <1>4, <3>1 DEF CopyAndVerify, NothingLost
    <3>2. CASE kernel # ColumnKernel
      <4>1. AddedBy(kernel)' = AddedBy(kernel)
        BY <1>4, <3>2 DEF CopyAndVerify, AddedBy, Added, OutOfRange
      <4>2. QED
        BY <1>4, <3>2, <4>1 DEF Inv, NothingLost, CopyAndVerify, CellOf
    <3>3. QED
      BY <3>1, <3>2
  <2>7. QED
    BY <2>3, <2>4, <2>5, <2>6 DEF Inv
<1>5. QED
  BY <1>1, <1>2, <1>3, <1>4 DEF Host

-----------------------------------------------------------------------------
(* The theorems. *)

LEMMA InvHolds == Spec => []Inv
<1>1. Init => Inv
  BY ThreadShape, CooAssumption
  DEF Init, Inv, TypeOK, Schedule, Progress, NothingLost, VerifiesCorrect, Sums,
      ColumnKernel, ScatterKernel
<1>2. Inv /\ [Next]_vars => Inv'
  <2>1. SUFFICES ASSUME Inv, [Next]_vars
                 PROVE  Inv'
    OBVIOUS
  <2>2. CASE Host
    BY <2>1, <2>2, HostPreserves
  <2>3. ASSUME NEW th \in Threads, Step(th)
        PROVE  Inv'
    BY <2>1, <2>3, ReturnPreserves, ColumnPreserves, ScatterPreserves DEF Step
  <2>4. CASE UNCHANGED vars
    BY <2>1, <2>4
    DEF vars, Inv, TypeOK, Schedule, Progress, NothingLost, VerifiesCorrect, AddedBy,
        Added, OutOfRange, CellOf
  <2>5. QED
    BY <2>1, <2>2, <2>3, <2>4 DEF Next
<1>3. QED
  BY <1>1, <1>2, PTL DEF Spec

(* The variables of coo_smm.cu keep their types; no thread leaves its row. *)
THEOREM TypeCorrect == Spec => []TypeOK
BY InvHolds, PTL DEF Inv

(* No atomic addition of either kernel is lost, doubled or misplaced.      *)
THEOREM NoContributionLost == Spec => []NothingLost
BY InvHolds, PTL DEF Inv

(* Both comparisons with the CPU's product succeed.                        *)
THEOREM BothVerify == Spec => []VerifiesCorrect
BY InvHolds, PTL DEF Inv
=============================================================================
