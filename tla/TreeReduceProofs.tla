-------------------------- MODULE TreeReduceProofs --------------------------
(***************************************************************************)
(* Proofs about TreeReduce for every number of blocks and every block size *)
(* the program can use: the threads of a block halve their array stage by  *)
(* stage, and the host gets a sum that has every input in it once.         *)
(***************************************************************************)
EXTENDS TreeReduce, TLAPS

-----------------------------------------------------------------------------
(* Arithmetic. *)

Strides == {0, 1, 2, 4, 8, 16, 32, 64, 128}

(* Halving a stride, down to 1 and then to 0. *)
LEMMA Halving ==
  ASSUME NEW r \in Strides
  PROVE  /\ r \in Nat /\ r \div 2 \in Strides /\ r \div 2 <= r
         /\ r \div 2 > 0 => 2 * (r \div 2) = r
         /\ r > 0 /\ r \div 2 = 0 => r = 1
  BY DEF Strides

LEMMA FirstStride ==
  /\ blockDim \in Nat \ {0} /\ blockDim \div 2 \in Strides
  /\ blockDim \div 2 > 0 => 2 * (blockDim \div 2) = blockDim
  /\ blockDim \div 2 = 0 => blockDim = 1
  /\ gridDim \in Nat \ {0}
  BY ReduceAssumption DEF Strides

LEMMA ThreadPair ==
  /\ \A th \in Threads : /\ blockIdx(th) \in Blocks /\ tid(th) \in Lanes
                         /\ th = <<blockIdx(th), tid(th)>>
  /\ \A b \in Blocks, j \in Lanes :
       <<b, j>> \in Threads /\ blockIdx(<<b, j>>) = b /\ tid(<<b, j>>) = j
  BY DEF Threads, blockIdx, tid

(* The inputs of block b that fold onto cell j when m cells are left. *)
Fold(b, j, m) ==
  [i \in Inputs |-> IF Owner[i] = b /\ (i % blockDim) % m = j THEN 1 ELSE 0]

LEMMA FoldType ==
  ASSUME NEW b, NEW j, NEW m
  PROVE  Fold(b, j, m) \in Sums
  BY DEF Fold, Sums

LEMMA InputsNat == Inputs \subseteq Nat
  BY FirstStride DEF Inputs, N

(* The place of an input in its block. *)
LEMMA Place ==
  ASSUME NEW i \in Inputs
  PROVE  /\ i % blockDim \in 0 .. 255 /\ i % blockDim < blockDim
         /\ i \div blockDim \in Blocks /\ i \in Nat
<1>1. i \in Nat /\ i < gridDim * blockDim
  BY FirstStride DEF Inputs, N
<1> HIDE DEF Inputs
<1>2. CASE blockDim \in {1, 2, 4}
  BY <1>1, <1>2, FirstStride DEF Blocks
<1>3. CASE blockDim \in {8, 16, 32}
  BY <1>1, <1>3, FirstStride DEF Blocks
<1>4. CASE blockDim \in {64, 128, 256}
  BY <1>1, <1>4, FirstStride DEF Blocks
<1>5. QED
  BY <1>2, <1>3, <1>4, ReduceAssumption

(* What a thread loads is the one input that folds onto its cell so far. *)
LEMMA InputFold ==
  ASSUME NEW b \in Blocks, NEW j \in Lanes
  PROVE  Input(b * blockDim + j) = Fold(b, j, blockDim)
<1>1. ASSUME NEW i \in Inputs
      PROVE  i = b * blockDim + j <=> i \div blockDim = b /\ (i % blockDim) % blockDim = j
  <2>1. i \in Nat /\ b \in Nat /\ j \in Nat /\ j < blockDim
    BY Place, FirstStride DEF Blocks, Lanes
  <2>2. CASE blockDim \in {1, 2, 4}
    BY <2>1, <2>2
  <2>3. CASE blockDim \in {8, 16, 32}
    BY <2>1, <2>3
  <2>4. CASE blockDim \in {64, 128, 256}
    BY <2>1, <2>4
  <2>5. QED
    BY <2>2, <2>3, <2>4, ReduceAssumption
<1>2. \A i \in Inputs : Owner[i] = i \div blockDim
  BY DEF Owner
<1>3. \A i \in Inputs :
        i = b * blockDim + j <=> Owner[i] = b /\ (i % blockDim) % blockDim = j
  BY <1>1, <1>2, Zenon
<1>4. QED
  BY <1>3, Zenon DEF Input, Fold

(* Adding the cells j and j + r halves the number of cells. *)
LEMMA PlusFold ==
  ASSUME NEW b \in Blocks, NEW r \in Strides, NEW j \in 0 .. r - 1
  PROVE  Plus(Fold(b, j, 2 * r), Fold(b, j + r, 2 * r)) = Fold(b, j, r)
<1>1. ASSUME NEW x \in 0 .. 255
      PROVE  /\ x % r = j <=> x % (2 * r) = j \/ x % (2 * r) = j + r
             /\ j # j + r
  <2>1. CASE r = 0
    BY <2>1
  <2>2. CASE r = 1
    BY <2>2
  <2>3. CASE r = 2
    BY <2>3
  <2>4. CASE r = 4
    BY <2>4
  <2>5. CASE r = 8
    BY <2>5
  <2>6. CASE r = 16
    BY <2>6
  <2>7. CASE r = 32
    BY <2>7
  <2>8. CASE r = 64
    BY <2>8
  <2>9. CASE r = 128
    BY <2>9
  <2>10. QED
    BY <2>1, <2>2, <2>3, <2>4, <2>5, <2>6, <2>7, <2>8, <2>9 DEF Strides
<1>2. ASSUME NEW i \in Inputs
      PROVE  Fold(b, j, 2 * r)[i] + Fold(b, j + r, 2 * r)[i] = Fold(b, j, r)[i]
  <2>1. i % blockDim \in 0 .. 255
    BY Place
  <2>2. QED
    BY <1>1, <2>1 DEF Fold
<1>3. QED
  BY <1>2 DEF Plus, Fold

(* The only cell that is left has the whole block. *)
LEMMA LastFold ==
  ASSUME NEW b \in Blocks
  PROVE  Fold(b, 0, 1) = Red!BlockSum(b)
<1>1. ASSUME NEW i \in Inputs
      PROVE  (i % blockDim) % 1 = 0
  BY Place
<1>2. QED
  BY <1>1 DEF Fold, Red!BlockSum

-----------------------------------------------------------------------------
(* The inductive invariant of the threads. *)

AtBarrier(th) == pc[th] \in {"sync0", "sync"}

(* How many barriers the thread has left, and its stride once it leaves    *)
(* the one it is at.                                                       *)
Passed(th) == IF AtBarrier(th) THEN arrived[th] - 1 ELSE arrived[th]
NextStride(th) == IF pc[th] = "sync0" THEN blockDim \div 2 ELSE s[th] \div 2

(* The program counter says how the stride compares with the thread's cell *)
(* and whether the loop has begun.                                         *)
Position(th) ==
  /\ s[th] \in Strides
  /\ pc[th] \in {"notLaunched", "load"} => arrived[th] = 0 /\ s[th] = 0
  /\ pc[th] = "sync0" => arrived[th] = 1 /\ s[th] = 0
  /\ pc[th] \in {"read", "write"} => arrived[th] >= 1 /\ tid(th) < s[th]
  /\ pc[th] = "skip" => arrived[th] >= 1 /\ s[th] > 0 /\ tid(th) >= s[th]
  /\ pc[th] = "sync" => arrived[th] >= 2 /\ s[th] > 0
  /\ pc[th] \in {"output", "done"} => arrived[th] >= 1 /\ s[th] = 0

(* The sum in the thread's own cell, as far as anyone still reads it.      *)
Own(th) == sdata[blockIdx(th)][tid(th)]
Cells(th) ==
  LET b == blockIdx(th)
      j == tid(th)
  IN  /\ pc[th] = "sync0" => Own(th) = Fold(b, j, blockDim)
      /\ pc[th] \in {"read", "write", "skip"} /\ j < 2 * s[th] =>
           Own(th) = Fold(b, j, 2 * s[th])
      /\ pc[th] = "write" => pair[th] = Fold(b, j, s[th])
      /\ pc[th] = "sync" /\ j < s[th] => Own(th) = Fold(b, j, s[th])
      /\ pc[th] = "sync" /\ s[th] <= j /\ j < 2 * s[th] =>
           Own(th) = Fold(b, j, 2 * s[th])
      /\ pc[th] = "output" /\ j = 0 => Own(th) = Fold(b, 0, 1)

(* No thread of a block is past a barrier that another one has not         *)
(* reached, and the barriers a thread has passed fix its stride.           *)
Together(th, u) ==
  /\ Passed(th) <= arrived[u]
  /\ Passed(th) = Passed(u) => s[th] = s[u]
  /\ Passed(th) = Passed(u) + 1 => s[th] = NextStride(u)
Lockstep == \A th, u \in Threads : blockIdx(th) = blockIdx(u) => Together(th, u)

SharedInv ==
  /\ TypeOK
  /\ Lockstep
  /\ \A th \in Threads : Position(th) /\ Cells(th)
  /\ hostPc = "launch" => \A th \in Threads : pc[th] = "notLaunched"
  /\ hostPc \in {"launch", "copy"} => hostI = 0
  /\ hostPc = "sum" => hostI < gridDim

-----------------------------------------------------------------------------
(* Steps of the threads. *)

(* Two threads of one block have cells of their own. *)
LEMMA CellsDiffer ==
  ASSUME NEW th \in Threads, NEW u \in Threads, u # th
  PROVE  blockIdx(u) # blockIdx(th) \/ tid(u) # tid(th)
  BY ThreadPair

(* A step of one thread leaves the others' registers and cells alone. *)
LEMMA Frame ==
  ASSUME TypeOK, NEW th \in Threads, Step(th), NEW u \in Threads, u # th
  PROVE  /\ pc'[u] = pc[u] /\ s'[u] = s[u] /\ pair'[u] = pair[u]
         /\ arrived'[u] = arrived[u] /\ Own(u)' = Own(u)
<1> USE DEF TypeOK, Goto, Arrive, Own
<1>1. /\ blockIdx(th) \in Blocks /\ tid(th) \in Lanes
      /\ blockIdx(u) \in Blocks /\ tid(u) \in Lanes
      /\ blockIdx(u)' = blockIdx(u) /\ tid(u)' = tid(u)
  BY ThreadPair DEF blockIdx, tid
<1>2. CASE Load(th)
  BY <1>1, <1>2, CellsDiffer DEF Load
<1>3. CASE WriteBack(th)
  BY <1>1, <1>3, CellsDiffer DEF WriteBack
<1>4. CASE ReadPair(th) \/ Skip(th)
  BY <1>1, <1>4 DEF ReadPair, Skip
<1>5. CASE LeaveSync(th) \/ Output(th)
  BY <1>1, <1>5 DEF LeaveSync, Output
<1>6. QED
  BY <1>2, <1>3, <1>4, <1>5 DEF Step

(* What a thread reads from another one's cell: that thread is at the same *)
(* stage and has nothing to add, or still at the barrier before it, or     *)
(* already at the one after it.                                            *)
LEMMA Operand ==
  ASSUME SharedInv, NEW th \in Threads, pc[th] = "read"
  PROVE  /\ tid(th) + s[th] \in Lanes
         /\ sdata[blockIdx(th)][tid(th) + s[th]]
              = Fold(blockIdx(th), tid(th) + s[th], 2 * s[th])
<1> DEFINE b == blockIdx(th)
           j == tid(th) + s[th]
           u == <<b, j>>
<1> USE DEF SharedInv
<1>1. /\ s[th] \in Strides /\ s[th] \in Nat /\ tid(th) \in Nat /\ tid(th) < s[th]
      /\ s[th] <= blockDim \div 2 /\ s[th] > 0
  BY Halving, ThreadPair, FirstStride DEF Position, TypeOK, Lanes
<1>2. j \in Lanes /\ b \in Blocks
  BY <1>1, FirstStride, ThreadPair DEF Lanes
<1>3. u \in Threads /\ blockIdx(u) = b /\ tid(u) = j
  BY <1>2, ThreadPair
<1> HIDE DEF u
<1>4. Together(th, u) /\ Together(u, th)
  BY <1>3 DEF Lockstep
<1>5. Position(th) /\ Position(u) /\ Cells(u)
  BY <1>3
<1>6. /\ arrived[th] \in Nat /\ arrived[u] \in Nat
      /\ pc[u] \in {"notLaunched", "load", "sync0", "read", "write",
                    "skip", "sync", "output", "done"}
      /\ s[u] \in Strides /\ s[u] \in Nat
  BY <1>3, <1>5, Halving DEF TypeOK, Position
<1>7. /\ Passed(u) <= arrived[th] /\ arrived[th] <= arrived[u]
      /\ arrived[th] = Passed(u) => s[th] = s[u]
      /\ arrived[th] = Passed(u) + 1 => s[th] = NextStride(u)
  BY <1>4 DEF Together, Passed, AtBarrier
<1>8. /\ arrived[th] >= 1
      /\ j < 2 * s[th] /\ s[th] <= j
  BY <1>1, <1>5 DEF Position
<1>9. CASE pc[u] = "sync0" /\ arrived[th] = Passed(u) + 1
  <2>1. 2 * s[th] = blockDim
    BY <1>1, <1>7, <1>9, FirstStride DEF NextStride
  <2>2. Own(u) = Fold(b, j, blockDim)
    BY <1>3, <1>5, <1>9 DEF Cells
  <2>3. QED
    BY <1>2, <1>3, <2>1, <2>2 DEF Own
<1>10. CASE pc[u] = "sync" /\ arrived[th] = Passed(u) + 1
  <2>1. 2 * s[th] = s[u]
    BY <1>1, <1>6, <1>7, <1>10, Halving DEF NextStride
  <2>2. Own(u) = Fold(b, j, s[u])
    BY <1>3, <1>5, <1>8, <1>10, <2>1 DEF Cells
  <2>3. QED
    BY <1>2, <1>3, <2>1, <2>2 DEF Own
<1>11. CASE arrived[th] = Passed(u)
  <2>1. s[th] = s[u] /\ s[u] > 0 /\ s[u] <= j /\ j < 2 * s[u]
    BY <1>1, <1>7, <1>8, <1>11
  <2>2. pc[u] \in {"skip", "sync"}
    BY <1>1, <1>3, <1>5, <1>6, <2>1 DEF Position
  <2>3. Own(u) = Fold(b, j, 2 * s[u])
    BY <1>3, <1>5, <2>1, <2>2 DEF Cells
  <2>4. QED
    BY <1>2, <1>3, <2>1, <2>3 DEF Own
<1>12. arrived[th] = Passed(u) \/ (AtBarrier(u) /\ arrived[th] = Passed(u) + 1)
  BY <1>6, <1>7 DEF Passed, AtBarrier
<1>13. QED
  BY <1>9, <1>10, <1>11, <1>12 DEF AtBarrier

LEMMA SumType ==
  ASSUME NEW x \in Sums, NEW y \in Sums
  PROVE  Plus(x, y) \in Sums
  BY DEF Sums, Plus

LEMMA LoadStep ==
  ASSUME SharedInv, NEW th \in Threads, Load(th)
  PROVE  TypeOK' /\ Position(th)' /\ Cells(th)'
<1> USE DEF SharedInv, TypeOK, Goto, Arrive, host
<1>1. blockIdx(th) \in Blocks /\ tid(th) \in Lanes
  BY ThreadPair
<1>2. Input(blockIdx(th) * blockDim + tid(th)) = Fold(blockIdx(th), tid(th), blockDim)
  BY <1>1, InputFold
<1>3. TypeOK'
  BY <1>1, <1>2, FoldType DEF Load
<1>4. Position(th)'
  BY DEF Load, Position
<1>5. Own(th)' = Fold(blockIdx(th), tid(th), blockDim) /\ pc'[th] = "sync0"
  BY <1>1, <1>2 DEF Load, Own, blockIdx, tid
<1>6. QED
  BY <1>3, <1>4, <1>5 DEF Cells, blockIdx, tid

LEMMA ReadStep ==
  ASSUME SharedInv, NEW th \in Threads, ReadPair(th)
  PROVE  TypeOK' /\ Position(th)' /\ Cells(th)'
<1> DEFINE b == blockIdx(th)
           j == tid(th)
<1> USE DEF SharedInv, TypeOK, Goto, Arrive, host
<1>1. b \in Blocks /\ j \in Lanes /\ s[th] \in Strides /\ j < s[th] /\ j \in Nat
  BY ThreadPair, FirstStride DEF ReadPair, Position, Lanes
<1>2. Own(th) = Fold(b, j, 2 * s[th])
  BY <1>1, Halving DEF ReadPair, Cells
<1>3. sdata[b][j + s[th]] = Fold(b, j + s[th], 2 * s[th]) /\ j + s[th] \in Lanes
  BY Operand DEF ReadPair
<1>4. pair'[th] = Fold(b, j, s[th])
  BY <1>1, <1>2, <1>3, PlusFold, Halving DEF ReadPair, Own
<1>5. TypeOK'
  BY <1>1, <1>3, SumType DEF ReadPair
<1>6. Position(th)'
  BY DEF ReadPair, Position, tid
<1>7. Own(th)' = Own(th) /\ s'[th] = s[th] /\ pc'[th] = "write"
  BY DEF ReadPair, Own, blockIdx, tid
<1>8. QED
  BY <1>2, <1>4, <1>5, <1>6, <1>7 DEF Cells, blockIdx, tid

LEMMA WriteStep ==
  ASSUME SharedInv, NEW th \in Threads, WriteBack(th)
  PROVE  TypeOK' /\ Position(th)' /\ Cells(th)'
<1> USE DEF SharedInv, TypeOK, Goto, Arrive, host
<1>1. /\ blockIdx(th) \in Blocks /\ tid(th) \in Lanes /\ tid(th) \in Nat
      /\ s[th] \in Nat /\ tid(th) < s[th]
  BY ThreadPair, FirstStride, Halving DEF WriteBack, Position, Lanes
<1>2. TypeOK'
  BY <1>1 DEF WriteBack
<1>3. Position(th)'
  BY <1>1 DEF WriteBack, Position
<1>4. Own(th)' = Fold(blockIdx(th), tid(th), s[th]) /\ s'[th] = s[th] /\ pc'[th] = "sync"
  BY <1>1 DEF WriteBack, Own, Cells, blockIdx, tid
<1>5. QED
  BY <1>1, <1>2, <1>3, <1>4 DEF Cells, blockIdx, tid

LEMMA SkipStep ==
  ASSUME SharedInv, NEW th \in Threads, Skip(th)
  PROVE  TypeOK' /\ Position(th)' /\ Cells(th)'
<1> USE DEF SharedInv, TypeOK, Goto, Arrive, host
<1>1. tid(th) \in Nat /\ s[th] \in Nat /\ tid(th) >= s[th]
  BY ThreadPair, FirstStride, Halving DEF Skip, Position, Lanes
<1>2. TypeOK'
  BY DEF Skip
<1>3. Position(th)'
  BY DEF Skip, Position
<1>4. Own(th)' = Own(th) /\ s'[th] = s[th] /\ pc'[th] = "sync"
  BY DEF Skip, Own, blockIdx, tid
<1>5. QED
  BY <1>1, <1>2, <1>3, <1>4 DEF Skip, Cells, blockIdx, tid

LEMMA LeaveStep ==
  ASSUME SharedInv, NEW th \in Threads, LeaveSync(th)
  PROVE  TypeOK' /\ Position(th)' /\ Cells(th)'
<1> DEFINE j == tid(th)
           r == IF pc[th] = "sync0" THEN blockDim \div 2 ELSE s[th] \div 2
           m == IF pc[th] = "sync0" THEN blockDim ELSE s[th]
<1> USE DEF SharedInv, TypeOK, Goto, host
<1>1. j \in Lanes /\ j \in Nat /\ j < blockDim /\ s[th] \in Strides
  BY ThreadPair, FirstStride DEF Position, Lanes
<1>2. /\ m \in Nat /\ m > 0 /\ r \in Strides /\ r \in Nat /\ r <= blockDim \div 2
      /\ r > 0 => 2 * r = m
      /\ r = 0 => m = 1
  BY <1>1, Halving, FirstStride DEF LeaveSync, Position
<1>3. j < m => Own(th) = Fold(blockIdx(th), j, m)
  BY <1>1 DEF LeaveSync, Cells
<1>4. arrived'[th] = arrived[th] /\ arrived[th] \in Nat /\ arrived[th] >= 1
  BY DEF LeaveSync, Position
<1>5. s'[th] = r /\ pc'[th] = LoopTop(th, r) /\ Own(th)' = Own(th)
  BY DEF LeaveSync, Own, blockIdx, tid
<1>6. TypeOK'
  BY <1>2 DEF LeaveSync, LoopTop
<1> HIDE DEF r, m
<1>7. CASE r > 0 /\ j < r
  <2>1. pc'[th] = "read"
    BY <1>1, <1>2, <1>5, <1>7 DEF LoopTop
  <2>2. QED
    BY <1>1, <1>2, <1>3, <1>4, <1>5, <1>6, <1>7, <2>1 DEF Position, Cells, blockIdx, tid
<1>8. CASE r > 0 /\ ~(j < r)
  <2>1. pc'[th] = "skip"
    BY <1>1, <1>2, <1>5, <1>8 DEF LoopTop
  <2>2. Position(th)'
    BY <1>1, <1>2, <1>4, <1>5, <1>8, <2>1 DEF Position, tid
  <2>3. Cells(th)'
    BY <1>2, <1>3, <1>5, <1>8, <2>1 DEF Cells, blockIdx, tid
  <2>4. QED
    BY <1>6, <2>2, <2>3
<1>9. CASE ~(r > 0)
  <2>1. pc'[th] = "output" /\ r = 0 /\ m = 1
    BY <1>2, <1>5, <1>9 DEF LoopTop
  <2>2. QED
    BY <1>1, <1>2, <1>3, <1>4, <1>5, <1>6, <2>1 DEF Position, Cells, blockIdx, tid
<1>10. QED
  BY <1>7, <1>8, <1>9

LEMMA OutputStep ==
  ASSUME SharedInv, NEW th \in Threads, Output(th)
  PROVE  TypeOK' /\ Position(th)' /\ Cells(th)'
<1> USE DEF SharedInv, TypeOK, Goto, host
<1>1. blockIdx(th) \in Blocks /\ 0 \in Lanes
  BY ThreadPair, FirstStride DEF Lanes
<1>2. TypeOK'
  BY <1>1 DEF Output
<1>3. Position(th)' /\ pc'[th] = "done"
  BY DEF Output, Position, tid
<1>4. QED
  BY <1>2, <1>3 DEF Cells

LEMMA OwnStep ==
  ASSUME SharedInv, NEW th \in Threads, Step(th)
  PROVE  TypeOK' /\ Position(th)' /\ Cells(th)'
  BY LoadStep, ReadStep, WriteStep, SkipStep, LeaveStep, OutputStep DEF Step

(* A step leaves a barrier only when the whole block has reached it.       *)
LEMMA LockstepStep ==
  ASSUME SharedInv, NEW th \in Threads, Step(th)
  PROVE  Lockstep'
<1> USE DEF SharedInv
<1>1. \A u \in Threads : /\ arrived[u] \in Nat /\ s[u] \in Nat
                         /\ Passed(u) \in Int /\ Position(u)
  BY Halving DEF TypeOK, Passed, Position
<1>2. \A u \in Threads : u # th =>
        /\ Passed(u)' = Passed(u) /\ arrived'[u] = arrived[u]
        /\ s'[u] = s[u] /\ NextStride(u)' = NextStride(u)
  BY Frame DEF Passed, AtBarrier, NextStride
<1>3. \A u \in Threads : blockIdx(u) = blockIdx(th) =>
        Together(th, u) /\ Together(u, th)
  BY DEF Lockstep
<1>4. CASE LeaveSync(th)
  <2>1. /\ AtBarrier(th) /\ arrived'[th] = arrived[th]
        /\ s'[th] = NextStride(th)
        /\ Passed(th)' = arrived[th] /\ arrived[th] = Passed(th) + 1
    BY <1>1, <1>4 DEF LeaveSync, LoopTop, Goto, TypeOK, Passed, AtBarrier, NextStride
  <2>2. ASSUME NEW u \in Threads, u # th, blockIdx(u) = blockIdx(th)
        PROVE  Together(th, u)' /\ Together(u, th)'
    <3>1. arrived[u] >= arrived[th] /\ Passed(u) <= arrived[th]
      BY <1>3, <1>4, <2>2 DEF LeaveSync, Released, Together
    <3>2. Passed(u) = arrived[th] => s[u] = NextStride(th)
      BY <1>1, <1>3, <2>1, <2>2 DEF Together
    <3>3. ASSUME Passed(u) = Passed(th)
          PROVE  s[u] = s[th] /\ NextStride(u) = NextStride(th)
      <4>1. s[u] = s[th]
        BY <1>3, <2>2, <3>3 DEF Together
      <4>2. AtBarrier(u) /\ arrived[u] = arrived[th]
        BY <1>1, <2>1, <2>2, <3>1, <3>3 DEF Passed
      <4>3. pc[u] = "sync0" <=> pc[th] = "sync0"
        BY <1>1, <2>1, <2>2, <4>2 DEF AtBarrier, Position
      <4>4. QED
        BY <4>1, <4>3 DEF NextStride
    <3>4. QED
      BY <1>1, <1>2, <2>1, <2>2, <3>1, <3>2, <3>3 DEF Together
  <2>3. Together(th, th)'
    BY <1>1, <2>1 DEF Together
  <2>4. QED
    BY <1>2, <1>3, <2>2, <2>3 DEF Lockstep, Together, blockIdx
<1>5. CASE ~LeaveSync(th)
  <2>1. /\ Passed(th)' = Passed(th) /\ s'[th] = s[th]
        /\ arrived'[th] \in Nat /\ arrived'[th] >= arrived[th]
        /\ ~AtBarrier(th) /\ arrived[th] = Passed(th)
    <3> USE DEF Goto, Arrive, TypeOK, Passed, AtBarrier
    <3>1. CASE Load(th) \/ WriteBack(th) \/ Skip(th)
      <4>1. /\ pc[th] \in {"load", "write", "skip"} /\ pc'[th] \in {"sync0", "sync"}
            /\ arrived'[th] = arrived[th] + 1 /\ s'[th] = s[th]
        BY <3>1 DEF Load, WriteBack, Skip
      <4>2. arrived[th] \in Nat
        BY <1>1
      <4> HIDE DEF SharedInv, TypeOK, Goto, Arrive
      <4>3. QED
        BY <4>1, <4>2
    <3>2. CASE ReadPair(th) \/ Output(th)
      BY <1>1, <3>2 DEF ReadPair, Output
    <3>3. QED
      BY <1>5, <3>1, <3>2 DEF Step
  <2>2. ASSUME NEW u \in Threads, u # th, blockIdx(u) = blockIdx(th)
        PROVE  Together(th, u)' /\ Together(u, th)'
    <3>1. Passed(u) # Passed(th) + 1
      BY <1>1, <1>3, <2>1, <2>2 DEF Together
    <3>2. QED
      BY <1>1, <1>2, <1>3, <2>1, <2>2, <3>1 DEF Together
  <2>3. Together(th, th)'
    BY <1>1, <2>1 DEF Together
  <2>4. QED
    BY <1>2, <1>3, <2>2, <2>3 DEF Lockstep, Together, blockIdx
<1>6. QED
  BY <1>4, <1>5

-----------------------------------------------------------------------------
(* The threads and the host together. *)

LEMMA InitShared == Init => SharedInv
<1> SUFFICES ASSUME Init
             PROVE  SharedInv
  OBVIOUS
<1>1. Garbage \in Sums /\ Nothing \in Sums /\ 0 \in 0 .. blockDim \div 2 /\ 0 \in 0 .. gridDim
  BY FirstStride, Halving DEF Sums, Garbage, Nothing
<1>2. TypeOK
  BY <1>1 DEF Init, TypeOK
<1>3. Lockstep
  BY DEF Init, Lockstep, Together, Passed, AtBarrier, NextStride
<1>4. \A th \in Threads : Position(th) /\ Cells(th)
  BY DEF Init, Position, Cells, Strides
<1>5. QED
  BY <1>2, <1>3, <1>4 DEF Init, SharedInv

(* Nobody has moved before the launch, so that all start alike.            *)
LEMMA LaunchShared ==
  ASSUME SharedInv, Launch
  PROVE  SharedInv'
<1> USE DEF SharedInv, Launch
<1>1. TypeOK' /\ hostPc' = "copy"
  BY DEF TypeOK
<1>2. \A u \in Threads : /\ pc'[u] = "load" /\ s'[u] = 0 /\ arrived'[u] = 0
                         /\ Position(u)'
  BY DEF Position
<1>3. Lockstep'
  BY <1>2 DEF Lockstep, Together, Passed, AtBarrier
<1>4. \A u \in Threads : Cells(u)'
  BY <1>2 DEF Cells
<1>5. QED
  BY <1>1, <1>2, <1>3, <1>4

LEMMA StepShared ==
  ASSUME SharedInv, NEW th \in Threads, Step(th)
  PROVE  SharedInv'
<1>1. TypeOK' /\ Position(th)' /\ Cells(th)'
  BY OwnStep
<1>2. Lockstep'
  BY LockstepStep
<1>3. ASSUME NEW u \in Threads, u # th
      PROVE  Position(u)' /\ Cells(u)'
  BY <1>3, Frame DEF SharedInv, Position, Cells, blockIdx, tid
<1>4. /\ hostPc' = hostPc /\ hostI' = hostI
      /\ pc[th] # "notLaunched"
  BY DEF Step, Load, ReadPair, WriteBack, Skip, LeaveSync, Output, host
<1>5. QED
  BY <1>1, <1>2, <1>3, <1>4 DEF SharedInv

LEMMA CopyBackShared ==
  ASSUME SharedInv, CopyBack
  PROVE  SharedInv'
<1> USE DEF SharedInv, CopyBack, device
<1>1. TypeOK'
  BY DEF TypeOK
<1>2. Lockstep' /\ \A u \in Threads : Position(u)' /\ Cells(u)'
  BY DEF Lockstep, Together, Passed, AtBarrier, NextStride, Position, Cells, Own
<1>3. 0 < gridDim
  BY FirstStride
<1>4. QED
  BY <1>1, <1>2, <1>3

LEMMA HostAddShared ==
  ASSUME SharedInv, HostAdd
  PROVE  SharedInv'
<1> USE DEF SharedInv, HostAdd, device
<1>1. hostI \in Blocks /\ hostI + 1 \in 0 .. gridDim
  BY FirstStride DEF TypeOK, Blocks
<1>2. TypeOK'
  BY <1>1, SumType DEF TypeOK
<1>3. Lockstep' /\ \A u \in Threads : Position(u)' /\ Cells(u)'
  BY DEF Lockstep, Together, Passed, AtBarrier, NextStride, Position, Cells, Own
<1>4. QED
  BY <1>2, <1>3

LEMMA NextShared == SharedInv /\ [Next]_vars => SharedInv'
<1> SUFFICES ASSUME SharedInv, [Next]_vars
             PROVE  SharedInv'
  OBVIOUS
<1>1. CASE Host
  BY <1>1, LaunchShared, CopyBackShared, HostAddShared DEF Host
<1>2. ASSUME NEW th \in Threads, Step(th)
      PROVE  SharedInv'
  BY <1>2, StepShared
<1>3. CASE UNCHANGED vars
  BY <1>3 DEF vars, device, host, SharedInv, TypeOK, Lockstep, Together, Passed,
              AtBarrier, NextStride, Position, Cells, Own
<1>4. QED
  BY <1>1, <1>2, <1>3 DEF Next

THEOREM SharedInvariant == Spec => []SharedInv
<1>1. Init => SharedInv
  BY InitShared
<1>2. SharedInv /\ [Next]_vars => SharedInv'
  BY NextShared
<1>3. QED
  BY <1>1, <1>2, PTL DEF Spec

(* The variables keep their types: the stride stays within half a block.   *)
THEOREM TypeCorrect == Spec => []TypeOK
<1>1. SharedInv => TypeOK
  BY DEF SharedInv
<1>2. QED
  BY <1>1, SharedInvariant, PTL

(* The tree has no race, for any number of blocks and threads: the threads *)
(* that still add have cells of their own to write, and those they read    *)
(* belong to threads without work at their stage.                          *)
THEOREM RaceFree == Spec => []NoRace
<1>1. SharedInv => NoRace
  <2> SUFFICES ASSUME SharedInv, NEW th \in Threads, NEW u \in Threads, th # u,
                      blockIdx(th) = blockIdx(u), NEW c \in WritesNext(th),
                      c \in ReadsNext(u) \cup WritesNext(u)
               PROVE  FALSE
    BY DEF NoRace
  <2>1. /\ c = tid(th) /\ pc[th] \in {"load", "write"}
        /\ tid(th) # tid(u) /\ tid(th) \in Nat /\ tid(u) \in Nat
    BY CellsDiffer, ThreadPair, FirstStride DEF WritesNext, Lanes
  <2>2. pc[u] = "read" /\ c = tid(u) + s[u]
    BY <2>1 DEF WritesNext, ReadsNext
  <2>3. /\ Position(th) /\ Position(u) /\ Together(th, u) /\ Together(u, th)
        /\ arrived[th] \in Nat /\ arrived[u] \in Nat
        /\ s[th] \in Nat /\ s[u] \in Nat
    BY Halving DEF SharedInv, Lockstep, Position, TypeOK
  <2>4. Passed(th) = arrived[th] /\ Passed(u) = arrived[u]
    BY <2>1, <2>2 DEF Passed, AtBarrier
  <2>5. arrived[th] = arrived[u] /\ s[th] = s[u]
    BY <2>3, <2>4 DEF Together
  <2>6. pc[th] = "write" /\ tid(th) < s[th]
    BY <2>1, <2>2, <2>3, <2>5 DEF Position
  <2>7. QED
    BY <2>1, <2>2, <2>3, <2>5, <2>6
<1>2. QED
  BY <1>1, SharedInvariant, PTL

(* Both sums a thread adds are those of the stage before, at every stage.  *)
THEOREM StagesComplete == Spec => []StageComplete
<1>1. ASSUME NEW b, NEW j, NEW r
      PROVE  FoldedOnto(b, j, r) = Fold(b, j, 2 * r)
  BY DEF FoldedOnto, Fold
<1>2. SharedInv => StageComplete
  <2> SUFFICES ASSUME SharedInv, NEW th \in Threads, pc[th] = "read",
                      NEW j \in {tid(th), tid(th) + s[th]}
               PROVE  sdata[blockIdx(th)][j] = Fold(blockIdx(th), j, 2 * s[th])
    BY <1>1 DEF StageComplete
  <2>1. CASE j = tid(th)
    <3>1. tid(th) \in Nat /\ s[th] \in Nat /\ tid(th) < s[th] /\ Cells(th)
      BY ThreadPair, FirstStride, Halving DEF SharedInv, Position, Lanes
    <3>2. QED
      BY <2>1, <3>1 DEF Cells, Own
  <2>2. CASE j = tid(th) + s[th]
    BY <2>2, Operand
  <2>3. QED
    BY <2>1, <2>2
<1>3. QED
  BY <1>2, SharedInvariant, PTL

-----------------------------------------------------------------------------
(* The result. *)

(* The blocks whose sum the host has added so far. *)
AddedUpTo(n) == [i \in Inputs |-> IF Owner[i] < n THEN 1 ELSE 0]

ResultInv ==
  /\ SharedInv
  /\ \A b \in Blocks :
       d_output[b] = IF pc[<<b, 0>>] = "done" THEN Red!BlockSum(b) ELSE Garbage
  /\ hostPc \in {"sum", "done"} => KernelDone /\ h_output = d_output
  /\ finalSum = AddedUpTo(hostI)
  /\ hostPc = "done" => hostI = gridDim

LEMMA OwnerType == \A i \in Inputs : Owner[i] \in Blocks /\ Owner[i] \in Nat
  BY Place, FirstStride DEF Owner, Blocks

LEMMA FirstThread == \A b \in Blocks : <<b, 0>> \in Threads
  BY FirstStride DEF Threads, Lanes

(* A sum that has been stored is not the garbage that was there before.    *)
LEMMA BlockSumIsSet == \A b \in Blocks : Red!BlockSum(b) # Garbage
<1>1. 0 \in Inputs
  BY ReduceAssumption DEF Inputs, N
<1>2. QED
  BY <1>1 DEF Red!BlockSum, Garbage

(* A thread that is in the middle of the kernel changes d_output only by   *)
(* storing the sum of its block where nothing was stored before.           *)
LEMMA OutputValue ==
  ASSUME ResultInv, NEW th \in Threads, Step(th)
  PROVE  /\ hostPc \notin {"sum", "done"}
         /\ \/ /\ pc[<<blockIdx(th), 0>>] = "output" /\ th = <<blockIdx(th), 0>>
               /\ pc'[th] = "done"
               /\ d_output' = [d_output EXCEPT ![blockIdx(th)] = Red!BlockSum(blockIdx(th))]
            \/ /\ d_output' = d_output
               /\ \A b \in Blocks : pc'[<<b, 0>>] = "done" <=> pc[<<b, 0>>] = "done"
<1> USE DEF ResultInv, SharedInv
<1>1. pc[th] # "done"
  BY DEF Step, Load, ReadPair, WriteBack, Skip, LeaveSync, Output
<1>2. hostPc \notin {"sum", "done"}
  BY <1>1 DEF KernelDone
<1>3. CASE Output(th) /\ tid(th) = 0
  <2>1. Own(th) = Fold(blockIdx(th), 0, 1) /\ blockIdx(th) \in Blocks
    BY <1>3, ThreadPair DEF Output, Cells
  <2>2. sdata[blockIdx(th)][0] = Red!BlockSum(blockIdx(th))
    BY <1>3, <2>1, LastFold DEF Own
  <2>3. th = <<blockIdx(th), 0>> /\ pc[th] = "output" /\ pc'[th] = "done"
    BY <1>3, ThreadPair DEF Output, Goto, TypeOK
  <2>4. QED
    BY <1>2, <1>3, <2>2, <2>3 DEF Output
<1>4. CASE Output(th) /\ tid(th) # 0
  <2>1. \A b \in Blocks : <<b, 0>> \in Threads /\ <<b, 0>> # th
    <3>1. 0 \in Lanes
      BY FirstStride DEF Lanes
    <3>2. QED
      BY <1>4, <3>1, FirstThread, ThreadPair
  <2>2. QED
    BY <1>2, <1>4, <2>1, Frame DEF Output
<1>5. CASE ~Output(th)
  <2>1. d_output' = d_output /\ pc'[th] # "done"
    BY <1>5 DEF Step, Load, ReadPair, WriteBack, Skip, LeaveSync, LoopTop, Goto, TypeOK
  <2>2. QED
    BY <1>1, <1>2, <2>1, FirstThread, Frame
<1>6. QED
  BY <1>3, <1>4, <1>5

(* Adding the next partial sum. *)
LEMMA AddValue ==
  ASSUME ResultInv, HostAdd
  PROVE  finalSum' = AddedUpTo(hostI + 1)
<1> USE DEF ResultInv, SharedInv, HostAdd
<1>1. hostI \in Blocks /\ hostI \in Nat
  BY FirstStride DEF TypeOK, Blocks
<1>2. h_output[hostI] = Red!BlockSum(hostI)
  BY <1>1, FirstThread DEF KernelDone
<1>3. ASSUME NEW i \in Inputs
      PROVE  AddedUpTo(hostI)[i] + Red!BlockSum(hostI)[i] = AddedUpTo(hostI + 1)[i]
  BY <1>1, OwnerType DEF AddedUpTo, Red!BlockSum
<1>4. Plus(AddedUpTo(hostI), Red!BlockSum(hostI)) = AddedUpTo(hostI + 1)
  BY <1>3 DEF Plus, AddedUpTo
<1>5. QED
  BY <1>2, <1>4

LEMMA InitResult == Init => ResultInv
<1> SUFFICES ASSUME Init
             PROVE  ResultInv
  OBVIOUS
<1>1. SharedInv
  BY InitShared
<1>2. finalSum = AddedUpTo(hostI)
  BY OwnerType DEF Init, Nothing, AddedUpTo
<1>3. \A b \in Blocks : d_output[b] = Garbage /\ pc[<<b, 0>>] # "done"
  BY FirstThread DEF Init
<1>4. QED
  BY <1>1, <1>2, <1>3 DEF Init, ResultInv

LEMMA NextResult == ResultInv /\ [Next]_vars => ResultInv'
<1> SUFFICES ASSUME ResultInv, [Next]_vars
             PROVE  ResultInv'
  OBVIOUS
<1> USE DEF ResultInv
<1>1. SharedInv'
  BY NextShared
<1>2. ASSUME NEW th \in Threads, Step(th)
      PROVE  ResultInv'
  <2>1. /\ hostPc' = hostPc /\ hostI' = hostI /\ finalSum' = finalSum
    BY <1>2 DEF Step, Load, ReadPair, WriteBack, Skip, LeaveSync, Output, host
  <2>2. \A b \in Blocks :
          d_output'[b] = IF pc'[<<b, 0>>] = "done" THEN Red!BlockSum(b) ELSE Garbage
    <3>1. \A b \in Blocks : b # blockIdx(th) => pc'[<<b, 0>>] = pc[<<b, 0>>]
      BY <1>2, Frame, FirstThread, ThreadPair DEF SharedInv
    <3>2. CASE /\ d_output' = d_output
               /\ \A b \in Blocks : pc'[<<b, 0>>] = "done" <=> pc[<<b, 0>>] = "done"
      BY <3>2
    <3>3. CASE /\ pc'[<<blockIdx(th), 0>>] = "done"
               /\ d_output' = [d_output EXCEPT ![blockIdx(th)] = Red!BlockSum(blockIdx(th))]
      BY <3>1, <3>3 DEF SharedInv, TypeOK
    <3>4. QED
      BY <1>2, <3>2, <3>3, OutputValue
  <2>3. QED
    BY <1>1, <1>2, <2>1, <2>2, OutputValue DEF AddedUpTo, Red!BlockSum, Garbage
<1>3. CASE Launch
  <2>1. \A b \in Blocks : pc'[<<b, 0>>] = "load" /\ pc[<<b, 0>>] = "notLaunched"
    BY <1>3, FirstThread DEF Launch, SharedInv
  <2>2. QED
    BY <1>1, <1>3, <2>1 DEF Launch, AddedUpTo, Red!BlockSum, Garbage
<1>4. CASE CopyBack
  BY <1>1, <1>4 DEF CopyBack, device, KernelDone, AddedUpTo, Red!BlockSum, Garbage
<1>5. CASE HostAdd
  <2>1. hostI + 1 <= gridDim /\ hostI \in Nat
    BY <1>5, FirstStride DEF HostAdd, SharedInv, TypeOK
  <2>2. QED
    BY <1>1, <1>5, <2>1, AddValue, FirstStride
       DEF HostAdd, device, KernelDone, AddedUpTo, Red!BlockSum, Garbage
<1>6. CASE UNCHANGED vars
  BY <1>1, <1>6 DEF vars, device, host, KernelDone, AddedUpTo, Red!BlockSum, Garbage
<1>7. QED
  BY <1>2, <1>3, <1>4, <1>5, <1>6 DEF Next, Host

(* Whatever the grid, the program prints a sum with every input in it      *)
(* once: each block stores its sum once and whole, and the host adds only  *)
(* sums that have been stored.                                             *)
THEOREM ComputesSum == Spec => ImplementsReduction
<1>1. Init => Red!RInit
  BY DEF Init, Red!RInit
<1>2. ResultInv /\ [Next]_vars
        => [Red!RNext]_<<d_output, IF hostPc = "done" THEN finalSum ELSE Garbage>>
  <2> SUFFICES ASSUME ResultInv, [Next]_vars
               PROVE  [Red!RNext]_<<d_output, IF hostPc = "done" THEN finalSum ELSE Garbage>>
    OBVIOUS
  <2>1. ASSUME NEW th \in Threads, Step(th)
        PROVE  [Red!RNext]_<<d_output, IF hostPc = "done" THEN finalSum ELSE Garbage>>
    <3>1. hostPc' = hostPc
      BY <2>1 DEF Step, Load, ReadPair, WriteBack, Skip, LeaveSync, Output, host
    <3>2. hostPc # "done" /\ blockIdx(th) \in Blocks
      BY <2>1, OutputValue, ThreadPair
    <3>3. CASE d_output' = d_output
      BY <3>1, <3>2, <3>3
    <3>4. CASE d_output' # d_output
      <4>1. Red!Publish(blockIdx(th))
        BY <2>1, <3>1, <3>2, <3>4, OutputValue DEF ResultInv, Red!Publish
      <4>2. QED
        BY <3>2, <4>1 DEF Red!RNext
    <3>5. QED
      BY <3>3, <3>4
  <2>2. CASE Launch \/ CopyBack
    BY <2>2 DEF Launch, CopyBack, device
  <2>3. CASE HostAdd /\ hostI + 1 < gridDim
    BY <2>3 DEF HostAdd, device
  <2>4. CASE HostAdd /\ ~(hostI + 1 < gridDim)
    <3>1. hostI + 1 = gridDim
      BY <2>4, FirstStride DEF HostAdd, ResultInv, SharedInv, TypeOK
    <3>2. finalSum' = Red!Total
      <4>1. \A i \in Inputs : Owner[i] < gridDim
        BY OwnerType, FirstStride DEF Blocks
      <4>2. AddedUpTo(gridDim) = Red!Total
        BY <4>1 DEF AddedUpTo, Red!Total
      <4>3. QED
        BY <2>4, <3>1, <4>2, AddValue
    <3>3. \A b \in Blocks : d_output[b] # Garbage
      BY <2>4, FirstThread, BlockSumIsSet DEF HostAdd, ResultInv, KernelDone
    <3>4. Red!Finish
      BY <2>4, <3>2, <3>3 DEF HostAdd, device, Red!Finish
    <3>5. QED
      BY <3>4 DEF Red!RNext
  <2>5. CASE UNCHANGED vars
    BY <2>5 DEF vars, device, host
  <2>6. QED
    BY <2>1, <2>2, <2>3, <2>4, <2>5 DEF Next, Host
<1>3. Init => ResultInv
  BY InitResult
<1>4. ResultInv /\ [Next]_vars => ResultInv'
  BY NextResult
<1>5. QED
  BY <1>1, <1>2, <1>3, <1>4, PTL DEF Spec, ImplementsReduction, Red!RSpec
=============================================================================
