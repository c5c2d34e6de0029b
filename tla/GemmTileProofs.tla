---------------------------- MODULE GemmTileProofs ----------------------------
(***************************************************************************)
(* Proofs about DoubleBuffer and TiledMatMul for every tile size, matrix   *)
(* size and block.                                                         *)
(***************************************************************************)
EXTENDS DoubleBuffer, TiledMatMul, TLAPS

-----------------------------------------------------------------------------
(* Lemmas about the geometry. *)

(* The number of tiles that line 19 computes is a natural number. *)
LEMMA NumTilesNat == numTiles \in Nat
  BY GemmAssumption DEF numTiles

(* A thread index is a pair of coordinates, and coordinates form a thread. *)
LEMMA ThreadPair ==
  /\ \A th \in Threads : /\ threadIdxY(th) \in Lanes
                         /\ threadIdxX(th) \in Lanes
                         /\ th = <<threadIdxY(th), threadIdxX(th)>>
  /\ \A y, x \in Lanes : <<y, x>> \in Threads
  BY DEF Threads, threadIdxX, threadIdxY

(* What a thread loads is an index or one of the two markers: an integer. *)
LEMMA ElemType ==
  ASSUME NEW n \in Nat, NEW th \in Threads
  PROVE  ElemOfA(n, th) \in Int /\ ElemOfB(n, th) \in Int
<1>1. row(th) \in Int /\ col(th) \in Int /\ threadIdxX(th) \in Int /\ threadIdxY(th) \in Int
  BY GemmAssumption, ThreadPair DEF row, col, Lanes
<1>2. \A i, s \in Int : At(i, s) \in Int
  BY DEF At, OutOfBounds
<1>3. /\ row(th) * colsA + n * TILE_SIZE + threadIdxX(th) \in Int
      /\ rowsA * colsA \in Int
  BY <1>1, GemmAssumption
<1>4. /\ (n * TILE_SIZE + threadIdxY(th)) * colsB + col(th) \in Int
      /\ colsA * colsB \in Int
  BY <1>1, GemmAssumption
<1>5. ElemOfA(n, th) \in Int
  BY <1>2, <1>3 DEF ElemOfA, Zero
<1>6. ElemOfB(n, th) \in Int
  BY <1>2, <1>4 DEF ElemOfB, Zero
<1>7. QED
  BY <1>5, <1>6

-----------------------------------------------------------------------------
(* Flat indices. *)

(* Row r and column c of an array of R rows of width W have a place in it. *)
LEMMA FlatIndexInside ==
  ASSUME NEW R \in Nat, NEW W \in Nat, NEW r \in 0 .. R - 1, NEW c \in 0 .. W - 1
  PROVE  r * W + c \in 0 .. R * W - 1
<1>1. r * W + W = (r + 1) * W
  OBVIOUS
<1>2. (r + 1) * W <= R * W
  OBVIOUS
<1>3. r * W >= 0 /\ r * W \in Int /\ R * W \in Int
  OBVIOUS
<1>4. QED
  BY <1>1, <1>2, <1>3

(* Two different places have two different flat indices. *)
LEMMA FlatIndexInjective ==
  ASSUME NEW W \in Nat, NEW r \in Nat, NEW q \in Nat,
         NEW c \in 0 .. W - 1, NEW d \in 0 .. W - 1, r * W + c = q * W + d
  PROVE  r = q /\ c = d
<1>1. ASSUME NEW x \in Nat, NEW y \in Nat, x < y
      PROVE  x * W + W <= y * W /\ x * W \in Nat /\ y * W \in Nat
  <2>1. x * W + W = (x + 1) * W
    OBVIOUS
  <2>2. (x + 1) * W <= y * W
    BY <1>1
  <2>3. QED
    BY <2>1, <2>2
<1>2. ~(r < q)
  BY <1>1
<1>3. ~(q < r)
  BY <1>1
<1>4. QED
  BY <1>2, <1>3

(* The guards of the loads keep the index inside the array. *)
LEMMA ElemInside ==
  ASSUME NEW n \in Nat, NEW th \in Threads
  PROVE  ElemOfA(n, th) # OutOfBounds /\ ElemOfB(n, th) # OutOfBounds
<1>1. row(th) \in Nat /\ col(th) \in Nat /\ threadIdxX(th) \in Nat /\ threadIdxY(th) \in Nat
  BY GemmAssumption, ThreadPair DEF row, col, Lanes
<1>2. n * TILE_SIZE + threadIdxX(th) \in Nat /\ n * TILE_SIZE + threadIdxY(th) \in Nat
  BY <1>1, GemmAssumption
<1>3. ElemOfA(n, th) # OutOfBounds
  <2> DEFINE j == n * TILE_SIZE + threadIdxX(th)
  <2>1. CASE row(th) < rowsA /\ j < colsA
    <3>1. row(th) \in 0 .. rowsA - 1 /\ j \in 0 .. colsA - 1
      BY <1>1, <1>2, <2>1, GemmAssumption
    <3>2. row(th) * colsA + j \in 0 .. rowsA * colsA - 1
      BY <3>1, FlatIndexInside, GemmAssumption
    <3>3. row(th) * colsA + j = row(th) * colsA + n * TILE_SIZE + threadIdxX(th)
      BY <1>1, GemmAssumption
    <3>4. QED
      BY <2>1, <3>2, <3>3 DEF ElemOfA, At, OutOfBounds
  <2>2. CASE ~(row(th) < rowsA /\ j < colsA)
    BY <2>2 DEF ElemOfA, Zero, OutOfBounds
  <2>3. QED
    BY <2>1, <2>2
<1>4. ElemOfB(n, th) # OutOfBounds
  <2> DEFINE i == n * TILE_SIZE + threadIdxY(th)
  <2>1. CASE col(th) < colsB /\ i < colsA
    <3>1. i \in 0 .. colsA - 1 /\ col(th) \in 0 .. colsB - 1
      BY <1>1, <1>2, <2>1, GemmAssumption
    <3>2. i * colsB + col(th) \in 0 .. colsA * colsB - 1
      BY <3>1, FlatIndexInside, GemmAssumption
    <3>3. QED
      BY <2>1, <3>2 DEF ElemOfB, At, OutOfBounds
  <2>2. CASE ~(col(th) < colsB /\ i < colsA)
    BY <2>2 DEF ElemOfB, Zero, OutOfBounds
  <2>3. QED
    BY <2>1, <2>2
<1>5. QED
  BY <1>3, <1>4

-----------------------------------------------------------------------------
(* Sums over tiles. *)

(* The iterations <<tile, k>> that come before iteration <<n, m>>. *)
Before(n, m) == {q \in Nat \X Lanes : q[1] < n \/ (q[1] = n /\ q[2] < m)}

(* What iteration q of thread th adds if it reads the right tile. *)
Term(th, q) ==
  Product(q[1], q[2], ElemOfA(q[1], <<threadIdxY(th), q[2]>>),
                      ElemOfB(q[1], <<q[2], threadIdxX(th)>>))

PartialSum(th, n, m) == UNION {Term(th, q) : q \in Before(n, m)}

(* One more iteration is one more term, and a whole tile is TILE_SIZE of them. *)
LEMMA PartialSumStep ==
  ASSUME NEW th, NEW n \in Nat, NEW m \in Lanes
  PROVE  PartialSum(th, n, m + 1) = PartialSum(th, n, m) \union Term(th, <<n, m>>)
<1>1. Before(n, m + 1) = Before(n, m) \union {<<n, m>>}
  BY GemmAssumption DEF Before, Lanes
<1>2. QED
  BY <1>1 DEF PartialSum

LEMMA PartialSumTile ==
  ASSUME NEW th, NEW n \in Nat
  PROVE  PartialSum(th, n, TILE_SIZE) = PartialSum(th, n + 1, 0)
<1>1. Before(n, TILE_SIZE) = Before(n + 1, 0)
  BY GemmAssumption DEF Before, Lanes
<1>2. QED
  BY <1>1 DEF PartialSum

LEMMA PartialSumStart == \A th : PartialSum(th, 0, 0) = {}
<1>1. Before(0, 0) = {}
  BY GemmAssumption DEF Before, Lanes
<1>2. QED
  BY <1>1 DEF PartialSum

-----------------------------------------------------------------------------
(* The sum over tiles is the dot product. *)

(* Iteration k of tile n is column n * TILE_SIZE + k, and the tiles reach  *)
(* the last column of A.                                                   *)
LEMMA TilesCover ==
  ASSUME NEW j \in 0 .. colsA - 1
  PROVE  \E n \in Nat, m \in Lanes : n < numTiles /\ j = n * TILE_SIZE + m
<1> DEFINE n == j \div TILE_SIZE
           m == j % TILE_SIZE
<1>1. n \in Nat /\ m \in 0 .. TILE_SIZE - 1 /\ j = n * TILE_SIZE + m
  BY GemmAssumption
<1>2. (colsA + TILE_SIZE - 1) < (numTiles + 1) * TILE_SIZE
  BY GemmAssumption DEF numTiles
<1>3. n < numTiles
  <2>1. SUFFICES ASSUME numTiles <= n
                 PROVE  FALSE
    BY <1>1, NumTilesNat
  <2>2. numTiles * TILE_SIZE <= n * TILE_SIZE
    BY <1>1, <2>1, NumTilesNat, GemmAssumption
  <2>3. (numTiles + 1) * TILE_SIZE = numTiles * TILE_SIZE + TILE_SIZE
    BY NumTilesNat, GemmAssumption
  <2>4. QED
    BY <1>1, <1>2, <2>2, <2>3, NumTilesNat, GemmAssumption
<1>4. QED
  BY <1>1, <1>3 DEF Lanes

(* What iteration <<n, m>> adds: one term of the dot product, or nothing   *)
(* where the tile overhangs the matrix.                                    *)
LEMMA TermValue ==
  ASSUME NEW th \in Threads, InRange(th), NEW n \in Nat, NEW m \in Lanes
  PROVE  LET j == n * TILE_SIZE + m
         IN  Term(th, <<n, m>>) =
               IF j < colsA
                 THEN {<<j, row(th) * colsA + j, j * colsB + col(th)>>}
                 ELSE {}
<1> DEFINE a == <<threadIdxY(th), m>>
           b == <<m, threadIdxX(th)>>
           j == n * TILE_SIZE + m
<1>1. a \in Threads /\ b \in Threads /\ row(a) = row(th) /\ col(b) = col(th)
  BY ThreadPair DEF row, col, threadIdxX, threadIdxY
<1>2. threadIdxX(a) = m /\ threadIdxY(b) = m
  BY DEF threadIdxX, threadIdxY
<1>3. row(th) \in Nat /\ col(th) \in Nat /\ m \in Nat /\ j \in Nat
  BY GemmAssumption, ThreadPair DEF row, col, Lanes
<1>4. row(th) < rowsA /\ col(th) < colsB
  BY DEF InRange
<1>5. CASE j < colsA
  <2>1. ElemOfA(n, a) = row(th) * colsA + j
    <3>1. row(th) * colsA + n * TILE_SIZE + m = row(th) * colsA + j
      BY <1>3, GemmAssumption DEF Lanes
    <3>2. row(th) * colsA + j \in 0 .. rowsA * colsA - 1
      BY <1>3, <1>4, <1>5, FlatIndexInside, GemmAssumption
    <3>3. QED
      BY <1>1, <1>2, <1>4, <1>5, <3>1, <3>2 DEF ElemOfA, At
  <2>2. ElemOfB(n, b) = j * colsB + col(th)
    <3>1. j * colsB + col(th) \in 0 .. colsA * colsB - 1
      BY <1>3, <1>4, <1>5, FlatIndexInside, GemmAssumption
    <3>2. QED
      BY <1>1, <1>2, <1>4, <1>5, <3>1 DEF ElemOfB, At
  <2>3. row(th) * colsA + j # Zero /\ j * colsB + col(th) # Zero
    <3>1. row(th) * colsA \in Nat /\ j * colsB \in Nat
      BY <1>3, GemmAssumption
    <3>2. QED
      BY <1>3, <3>1 DEF Zero
  <2>4. QED
    BY <1>5, <2>1, <2>2, <2>3 DEF Term, Product
<1>6. CASE ~(j < colsA)
  <2>1. ElemOfA(n, a) = Zero
    BY <1>2, <1>6 DEF ElemOfA
  <2>2. QED
    BY <1>6, <2>1 DEF Term, Product
<1>7. QED
  BY <1>5, <1>6

(* All tiles together give the whole dot product and nothing else. *)
LEMMA SumIsDot ==
  ASSUME NEW th \in Threads, InRange(th)
  PROVE  PartialSum(th, numTiles, 0) = Dot(th)
<1>1. ASSUME NEW e \in PartialSum(th, numTiles, 0)
      PROVE  e \in Dot(th)
  <2>1. PICK q \in Before(numTiles, 0) : e \in Term(th, q)
    BY DEF PartialSum
  <2>2. PICK n \in Nat, m \in Lanes : q = <<n, m>>
    BY DEF Before
  <2> DEFINE j == n * TILE_SIZE + m
  <2>3. j \in Nat
    BY GemmAssumption DEF Lanes
  <2>4. Term(th, <<n, m>>) = IF j < colsA
          THEN {<<j, row(th) * colsA + j, j * colsB + col(th)>>} ELSE {}
    BY TermValue
  <2>5. j < colsA /\ e = <<j, row(th) * colsA + j, j * colsB + col(th)>>
    BY <2>1, <2>2, <2>4
  <2>6. j \in 0 .. colsA - 1
    BY <2>3, <2>5, GemmAssumption
  <2>7. QED
    BY <2>5, <2>6 DEF Dot
<1>2. ASSUME NEW e \in Dot(th)
      PROVE  e \in PartialSum(th, numTiles, 0)
  <2>1. PICK j \in 0 .. colsA - 1 :
          e = <<j, row(th) * colsA + j, j * colsB + col(th)>>
    BY DEF Dot
  <2>2. PICK n \in Nat, m \in Lanes : n < numTiles /\ j = n * TILE_SIZE + m
    BY TilesCover
  <2>3. j < colsA
    BY GemmAssumption
  <2>4. e \in Term(th, <<n, m>>)
    BY <2>1, <2>2, <2>3, TermValue
  <2>5. <<n, m>> \in Before(numTiles, 0)
    BY <2>2 DEF Before
  <2>6. QED
    BY <2>4, <2>5 DEF PartialSum
<1>3. QED
  BY <1>1, <1>2

(* Threads own different cells of C, and all of them are in the array. *)
LEMMA OwnersDiffer ==
  ASSUME NEW th \in Threads, InRange(th)
  PROVE  /\ OutIndex(th) \in OutCells
         /\ OutIndex(th) \in ArrayCells
         /\ \A u \in Threads : InRange(u) /\ OutIndex(u) = OutIndex(th) => u = th
         /\ DotProduct[OutIndex(th)] = Dot(th)
<1>1. ASSUME NEW v \in Threads, InRange(v)
      PROVE  row(v) \in 0 .. rowsA - 1 /\ col(v) \in 0 .. colsB - 1
  <2>1. row(v) \in Nat /\ col(v) \in Nat
    BY GemmAssumption, ThreadPair DEF row, col, Lanes
  <2>2. QED
    BY <1>1, <2>1, GemmAssumption DEF InRange
<1>2. OutIndex(th) \in OutCells
  BY DEF OutCells
<1>3. OutIndex(th) \in ArrayCells
  BY <1>1, FlatIndexInside, GemmAssumption DEF OutIndex, ArrayCells
<1>4. ASSUME NEW u \in Threads, InRange(u), OutIndex(u) = OutIndex(th)
      PROVE  u = th
  <2>1. row(u) = row(th) /\ col(u) = col(th)
    <3>1. /\ row(u) \in Nat /\ col(u) \in 0 .. colsB - 1
          /\ row(th) \in Nat /\ col(th) \in 0 .. colsB - 1
      BY <1>1, <1>4, GemmAssumption
    <3>2. row(u) * colsB + col(u) = row(th) * colsB + col(th)
      BY <1>4 DEF OutIndex
    <3>3. colsB \in Nat
      BY GemmAssumption
    <3>4. QED
      BY ONLY <3>1, <3>2, <3>3, FlatIndexInjective
  <2>2. threadIdxY(u) = threadIdxY(th) /\ threadIdxX(u) = threadIdxX(th)
    BY <2>1, ThreadPair, GemmAssumption DEF row, col, Lanes
  <2>3. QED
    BY <2>2, ThreadPair
<1>5. DotProduct[OutIndex(th)] = Dot(th)
  <2>1. (CHOOSE v \in Threads : InRange(v) /\ OutIndex(v) = OutIndex(th)) = th
    BY <1>4
  <2>2. QED
    BY <1>2, <2>1 DEF DotProduct
<1>6. QED
  BY <1>2, <1>3, <1>4, <1>5

-----------------------------------------------------------------------------
(* The inductive invariant. *)

AtBarrier(th) == pc[th] \in {"sync1", "sync2"}

(* How many barriers the thread has left. *)
Passed(th) == IF AtBarrier(th) THEN arrived[th] - 1 ELSE arrived[th]

(* The program counter fixes how far the counters are. *)
Position(th) ==
  /\ pc[th] \in {"preloadA", "preloadB"} => t[th] = 0 /\ arrived[th] = 0
  /\ pc[th] = "sync1" => t[th] = 0 /\ arrived[th] = 1
  /\ pc[th] \in {"prefetchA", "prefetchB", "compute"} =>
       t[th] < numTiles /\ arrived[th] = t[th] + 1
  /\ pc[th] = "prefetchB" => t[th] + 1 < numTiles
  /\ pc[th] = "sync2" => t[th] < numTiles /\ arrived[th] = t[th] + 2
  /\ pc[th] \in {"store", "done"} => t[th] = numTiles /\ arrived[th] = t[th] + 1
  /\ pc[th] # "compute" => k[th] = 0
  /\ curr[th] = t[th] % 2
  /\ next[th] = 1 - curr[th]

(* No thread is past a barrier that another one has not reached. *)
Lockstep == \A th, u \in Threads : Passed(th) <= arrived[u]

(* What the thread itself has put into its cells of the two buffers. *)
OwnCellsOfA(th) ==
  /\ pc[th] \notin {"preloadA", "store", "done"} =>
       tileA[curr[th]][th] = ElemOfA(t[th], th)
  /\ pc[th] \in {"prefetchB", "compute", "sync2"} /\ t[th] + 1 < numTiles =>
       tileA[next[th]][th] = ElemOfA(t[th] + 1, th)

OwnCellsOfB(th) ==
  /\ pc[th] \notin {"preloadA", "preloadB", "store", "done"} =>
       tileB[curr[th]][th] = ElemOfB(t[th], th)
  /\ pc[th] \in {"compute", "sync2"} /\ t[th] + 1 < numTiles =>
       tileB[next[th]][th] = ElemOfB(t[th] + 1, th)

OwnInv(th) == Position(th) /\ OwnCellsOfA(th) /\ OwnCellsOfB(th)

SharedInv ==
  /\ TypeOK
  /\ Lockstep
  /\ \A th \in Threads : OwnInv(th)

-----------------------------------------------------------------------------
(* A step of one thread leaves the others' registers and cells alone, and  *)
(* no thread ever takes back its arrival at a barrier.                     *)
LEMMA Frame ==
  ASSUME TypeOK, NEW th \in Threads, Step(th), NEW u \in Threads, u # th
  PROVE  /\ pc'[u] = pc[u] /\ t'[u] = t[u] /\ k'[u] = k[u]
         /\ curr'[u] = curr[u] /\ next'[u] = next[u] /\ arrived'[u] = arrived[u]
         /\ \A b \in 0 .. 1 : tileA'[b][u] = tileA[b][u] /\ tileB'[b][u] = tileB[b][u]
<1> USE DEF TypeOK, Goto, Arrive
<1>1. CASE PreloadA(th) \/ PreloadB(th) \/ PrefetchA(th) \/ PrefetchB(th)
  BY <1>1 DEF PreloadA, PreloadB, PrefetchA, PrefetchB, LoadA, LoadB
<1>2. CASE SkipPrefetch(th) \/ LeaveSync1(th) \/ LeaveSync2(th) \/ Store(th)
  BY <1>2 DEF SkipPrefetch, LeaveSync1, LeaveSync2, Store
<1>3. CASE Accumulate(th)
  BY <1>3 DEF Accumulate
<1>4. QED
  BY <1>1, <1>2, <1>3 DEF Step

(* A step of a thread keeps the types and the thread's own invariant. *)
LEMMA OwnStep ==
  ASSUME TypeOK, NEW th \in Threads, OwnInv(th), Step(th)
  PROVE  TypeOK' /\ OwnInv(th)'
<1> USE NumTilesNat DEF TypeOK, Labels, Goto, Arrive, OwnInv, Position,
                        OwnCellsOfA, OwnCellsOfB
<1>1. CASE PreloadA(th)
  BY <1>1, ElemType DEF PreloadA, LoadA
<1>2. CASE PreloadB(th)
  BY <1>2, ElemType DEF PreloadB, LoadB
<1>3. CASE PrefetchA(th)
  <2>1. t[th] + 1 \in Nat
    OBVIOUS
  <2>2. QED
    BY <1>3, <2>1, ElemType DEF PrefetchA, LoadA
<1>4. CASE SkipPrefetch(th)
  BY <1>4 DEF SkipPrefetch
<1>5. CASE PrefetchB(th)
  <2>1. t[th] + 1 \in Nat
    OBVIOUS
  <2>2. QED
    BY <1>5, <2>1, ElemType DEF PrefetchB, LoadB
<1>6. CASE Accumulate(th)
  BY <1>6, GemmAssumption DEF Accumulate, Lanes
<1>7. CASE LeaveSync1(th)
  BY <1>7 DEF LeaveSync1
<1>8. CASE LeaveSync2(th)
  BY <1>8 DEF LeaveSync2
<1>9. CASE Store(th)
  BY <1>9 DEF Store
<1>10. QED
  BY <1>1, <1>2, <1>3, <1>4, <1>5, <1>6, <1>7, <1>8, <1>9 DEF Step

(* A step leaves a barrier only when the whole block has reached it. *)
LEMMA LockstepStep ==
  ASSUME TypeOK, Lockstep, NEW th \in Threads, Step(th)
  PROVE  Lockstep'
<1> USE DEF TypeOK, Goto, Arrive, Passed, AtBarrier
<1>1. \A u \in Threads : arrived'[u] >= arrived[u] /\ arrived'[u] \in Int
  <2>1. CASE Accumulate(th)
    BY <2>1 DEF Accumulate
  <2>2. CASE ~Accumulate(th)
    BY <2>2 DEF Step, PreloadA, PreloadB, PrefetchA, PrefetchB, LoadA, LoadB,
                SkipPrefetch, LeaveSync1, LeaveSync2, Store
  <2>3. QED
    BY <2>1, <2>2
<1>2. \A u \in Threads : Passed(th)' <= arrived[u]
  <2>1. CASE LeaveSync1(th) \/ LeaveSync2(th)
    BY <2>1 DEF LeaveSync1, LeaveSync2, Released
  <2>2. CASE Accumulate(th)
    BY <2>2 DEF Accumulate, Lockstep
  <2>3. CASE PreloadA(th) \/ PreloadB(th) \/ PrefetchA(th) \/ PrefetchB(th)
    BY <2>3 DEF PreloadA, PreloadB, PrefetchA, PrefetchB, LoadA, LoadB, Lockstep
  <2>4. CASE SkipPrefetch(th) \/ Store(th)
    BY <2>4 DEF SkipPrefetch, Store, Lockstep
  <2>5. QED
    BY <2>1, <2>2, <2>3, <2>4 DEF Step
<1>3. \A u \in Threads : u # th => Passed(u)' = Passed(u)
  BY Frame
<1>4. \A u \in Threads : Passed(u) \in Int /\ Passed(u)' \in Int
  BY <1>1
<1>5. QED
  BY <1>1, <1>2, <1>3, <1>4 DEF Lockstep

-----------------------------------------------------------------------------
(* The invariant is inductive. *)

LEMMA InitShared == Init => SharedInv
<1> SUFFICES ASSUME Init
             PROVE  SharedInv
  OBVIOUS
<1>1. TypeOK
  BY NumTilesNat, GemmAssumption DEF Init, TypeOK, Labels, Garbage, Lanes
<1>2. Lockstep
  BY DEF Init, Lockstep, Passed, AtBarrier
<1>3. ASSUME NEW th \in Threads
      PROVE  OwnInv(th)
  BY DEF Init, OwnInv, Position, OwnCellsOfA, OwnCellsOfB
<1>4. QED
  BY <1>1, <1>2, <1>3 DEF SharedInv

LEMMA NextShared == SharedInv /\ [Next]_vars => SharedInv'
<1> SUFFICES ASSUME SharedInv, [Next]_vars
             PROVE  SharedInv'
  OBVIOUS
<1>1. ASSUME NEW th \in Threads, Step(th)
      PROVE  SharedInv'
  <2>1. TypeOK' /\ OwnInv(th)'
    BY <1>1, OwnStep DEF SharedInv
  <2>2. Lockstep'
    BY <1>1, LockstepStep DEF SharedInv
  <2>3. ASSUME NEW u \in Threads, u # th
        PROVE  OwnInv(u)'
    <3>1. /\ pc'[u] = pc[u] /\ t'[u] = t[u] /\ k'[u] = k[u]
          /\ curr'[u] = curr[u] /\ next'[u] = next[u] /\ arrived'[u] = arrived[u]
          /\ \A b \in 0 .. 1 : tileA'[b][u] = tileA[b][u] /\ tileB'[b][u] = tileB[b][u]
      BY <1>1, <2>3, Frame DEF SharedInv
    <3>2. curr[u] \in 0 .. 1 /\ next[u] \in 0 .. 1
      BY DEF SharedInv, TypeOK
    <3>3. OwnInv(u)
      BY DEF SharedInv
    <3>4. QED
      BY <3>1, <3>2, <3>3 DEF OwnInv, Position, OwnCellsOfA, OwnCellsOfB
  <2>4. QED
    BY <2>1, <2>2, <2>3 DEF SharedInv
<1>2. CASE UNCHANGED vars
  BY <1>2 DEF vars, SharedInv, TypeOK, Lockstep, Passed, AtBarrier,
              OwnInv, Position, OwnCellsOfA, OwnCellsOfB
<1>3. QED
  BY <1>1, <1>2 DEF Next

THEOREM SharedInvariant == Spec => []SharedInv
<1>1. Init => SharedInv
  BY InitShared
<1>2. SharedInv /\ [Next]_vars => SharedInv'
  BY NextShared
<1>3. QED
  BY <1>1, <1>2, PTL DEF Spec

(* In every run of the kernel, whatever the sizes, the variables keep      *)
(* their types; the bound t <= numTiles needs the whole invariant.         *)
THEOREM TypeCorrect == Spec => []TypeOK
<1>1. SharedInv => TypeOK
  BY DEF SharedInv
<1>2. QED
  BY <1>1, SharedInvariant, PTL

-----------------------------------------------------------------------------
(* Between two barriers. *)

(* While one thread multiplies tile n, each thread either has not yet left *)
(* the barrier that opened iteration n, or is in iteration n, or waits at  *)
(* the barrier that ends it; and its buffers are numbered accordingly.     *)
LEMMA SameInterval ==
  ASSUME SharedInv, NEW th \in Threads, NEW u \in Threads, pc[th] = "compute"
  PROVE  \/ /\ pc[u] \in {"prefetchA", "prefetchB", "compute", "sync2"}
            /\ t[u] = t[th] /\ curr[u] = curr[th]
         \/ /\ pc[u] = "sync1"
            /\ t[u] = t[th] /\ curr[u] = curr[th]
         \/ /\ pc[u] = "sync2"
            /\ t[u] + 1 = t[th] /\ next[u] = curr[th]
<1> USE NumTilesNat DEF SharedInv, TypeOK, Labels
<1>1. Position(th) /\ Position(u)
  BY DEF OwnInv
<1>2. Passed(th) <= arrived[u] /\ Passed(u) <= arrived[th]
  BY DEF Lockstep
<1>3. t[th] \in Nat /\ t[u] \in Nat /\ arrived[th] \in Nat /\ arrived[u] \in Nat
  OBVIOUS
<1>4. /\ t[u] = t[th] => curr[u] = curr[th]
      /\ t[u] + 1 = t[th] => next[u] = curr[th]
  <2>1. /\ curr[u] = t[u] % 2 /\ next[u] = 1 - curr[u]
        /\ curr[th] = t[th] % 2
    BY <1>1 DEF Position
  <2>2. t[u] + 1 = t[th] => 1 - (t[u] % 2) = t[th] % 2
    BY <1>3
  <2>3. QED
    BY <2>1, <2>2
<1>5. arrived[th] = t[th] + 1 /\ Passed(th) = t[th] + 1
  BY <1>1 DEF Position, Passed, AtBarrier
<1>6. CASE pc[u] \in {"preloadA", "preloadB", "sync1"}
  BY <1>1, <1>2, <1>3, <1>5, <1>6 DEF Position
<1>7. CASE pc[u] \in {"prefetchA", "prefetchB", "compute"}
  <2>1. arrived[u] = t[u] + 1 /\ Passed(u) = arrived[u]
    BY <1>1, <1>7 DEF Position, Passed, AtBarrier
  <2>2. t[u] = t[th]
    BY <1>2, <1>3, <1>5, <2>1
  <2>3. QED
    BY <1>4, <1>7, <2>2
<1>8. CASE pc[u] = "sync2"
  <2>1. arrived[u] = t[u] + 2 /\ Passed(u) = arrived[u] - 1
    BY <1>1, <1>8 DEF Position, Passed, AtBarrier
  <2>2. t[u] = t[th] \/ t[u] + 1 = t[th]
    BY <1>2, <1>3, <1>5, <2>1
  <2>3. QED
    BY <1>4, <1>8, <2>2
<1>9. CASE pc[u] \in {"store", "done"}
  BY <1>1, <1>2, <1>3, <1>5, <1>9 DEF Position, Passed, AtBarrier
<1>10. QED
  BY <1>6, <1>7, <1>8, <1>9

(* While a thread multiplies tile n, the cells it can read all hold tile n. *)
LEMMA CurrentTile ==
  ASSUME SharedInv, NEW th \in Threads, NEW u \in Threads, pc[th] = "compute"
  PROVE  /\ tileA[curr[th]][u] = ElemOfA(t[th], u)
         /\ tileB[curr[th]][u] = ElemOfB(t[th], u)
<1>1. Position(th) /\ OwnCellsOfA(u) /\ OwnCellsOfB(u)
  BY DEF SharedInv, OwnInv
<1>2. QED
  BY <1>1, SameInterval DEF OwnCellsOfA, OwnCellsOfB, Position

(* Every tile a thread multiplies is complete: the single barrier of each  *)
(* iteration is enough for two buffers, for any number of threads.         *)
THEOREM TilesComplete == Spec => []TileComplete
<1>1. SharedInv => TileComplete
  <2> SUFFICES ASSUME SharedInv, NEW th \in Threads, pc[th] = "compute",
                      NEW kk \in k[th] .. TILE_SIZE - 1
               PROVE  /\ tileA[curr[th]][<<threadIdxY(th), kk>>]
                           = ElemOfA(t[th], <<threadIdxY(th), kk>>)
                      /\ tileB[curr[th]][<<kk, threadIdxX(th)>>]
                           = ElemOfB(t[th], <<kk, threadIdxX(th)>>)
    BY DEF TileComplete
  <2>1. kk \in Lanes
    BY GemmAssumption DEF SharedInv, TypeOK, Lanes
  <2>2. <<threadIdxY(th), kk>> \in Threads /\ <<kk, threadIdxX(th)>> \in Threads
    BY <2>1, ThreadPair
  <2>3. QED
    BY <2>2, CurrentTile
<1>2. QED
  BY <1>1, SharedInvariant, PTL

(* The kernel has no shared-memory race, for any block and matrix size: a  *)
(* prefetch never fills the buffer another thread still reads.             *)
THEOREM RaceFree == Spec => []NoRace
<1>1. SharedInv => NoRace
  <2> SUFFICES ASSUME SharedInv, NEW th \in Threads, NEW u \in Threads, th # u,
                      NEW c \in WritesNext(th), c \in ReadsNext(u) \cup WritesNext(u)
               PROVE  FALSE
    BY DEF NoRace
  <2>1. c[3] = th
    BY DEF WritesNext
  <2>2. CASE c \in WritesNext(u)
    BY <2>1, <2>2 DEF WritesNext
  <2>3. CASE c \in ReadsNext(u)
    <3>1. pc[u] = "compute" /\ c[2] = curr[u]
      BY <2>3 DEF ReadsNext
    <3>2. pc[th] \in {"preloadA", "preloadB", "prefetchA", "prefetchB"}
      BY DEF WritesNext
    <3>3. /\ pc[th] \in {"prefetchA", "prefetchB"}
          /\ curr[th] = curr[u]
      BY <3>1, <3>2, SameInterval
    <3>4. c[2] = next[th]
      BY <3>3 DEF WritesNext
    <3>5. next[th] = 1 - curr[th] /\ curr[th] \in 0 .. 1
      BY DEF SharedInv, TypeOK, OwnInv, Position
    <3>6. QED
      BY <3>1, <3>3, <3>4, <3>5
  <2>4. QED
    BY <2>2, <2>3
<1>2. QED
  BY <1>1, SharedInvariant, PTL

-----------------------------------------------------------------------------
(* Global reads. *)

(* No global read of the kernel is ever outside A or B. *)
THEOREM LoadsStayInBounds == Spec => []LoadsInBounds
<1> USE DEF LoadsInBounds
<1>1. Init => LoadsInBounds
  BY DEF Init, Garbage, OutOfBounds
<1>2. SharedInv /\ LoadsInBounds /\ [Next]_vars => LoadsInBounds'
  <2> SUFFICES ASSUME SharedInv, LoadsInBounds, [Next]_vars
               PROVE  LoadsInBounds'
    OBVIOUS
  <2> USE DEF SharedInv, TypeOK
  <2>1. ASSUME NEW th \in Threads, PreloadA(th) \/ PrefetchA(th)
        PROVE  LoadsInBounds'
    <3>1. t[th] + 1 \in Nat /\ 0 \in Nat
      BY NumTilesNat
    <3>2. QED
      BY <2>1, <3>1, ElemInside DEF PreloadA, PrefetchA, LoadA
  <2>2. ASSUME NEW th \in Threads, PreloadB(th) \/ PrefetchB(th)
        PROVE  LoadsInBounds'
    <3>1. t[th] + 1 \in Nat /\ 0 \in Nat
      BY NumTilesNat
    <3>2. QED
      BY SMTT(30), <2>2, <3>1, ElemInside DEF PreloadB, PrefetchB, LoadB
  <2>3. CASE UNCHANGED <<tileA, tileB>>
    BY <2>3
  <2>4. QED
    BY <2>1, <2>2, <2>3 DEF Next, Step, SkipPrefetch, LeaveSync1, LeaveSync2,
                            Accumulate, Store, vars
<1>3. QED
  BY <1>1, <1>2, SharedInvariant, PTL DEF Spec

-----------------------------------------------------------------------------
(* The accumulator. *)

(* At the end-of-iteration barrier the whole tile n has been added. *)
SumSoFar(th) ==
  sum[th] = IF pc[th] = "sync2" THEN PartialSum(th, t[th] + 1, 0)
                                ELSE PartialSum(th, t[th], k[th])

(* A cell of C is untouched until the thread that owns it stores. *)
OwnCellOfC(th) ==
  InRange(th) /\ pc[th] # "done" => C[OutIndex(th)] = Unwritten

ResultInv ==
  /\ SharedInv
  /\ \A th \in Threads : SumSoFar(th) /\ OwnCellOfC(th)

(* The multiplication step adds the term of its own iteration. *)
LEMMA AccumulateStep ==
  ASSUME SharedInv, NEW th \in Threads, SumSoFar(th), Accumulate(th)
  PROVE  SumSoFar(th)'
<1> USE DEF SharedInv, TypeOK
<1>1. /\ pc[th] = "compute" /\ t[th] \in Nat /\ k[th] \in Lanes
      /\ k[th] \in Nat
  BY NumTilesNat, GemmAssumption DEF Accumulate, Lanes
<1>2. /\ <<threadIdxY(th), k[th]>> \in Threads
      /\ <<k[th], threadIdxX(th)>> \in Threads
  BY <1>1, ThreadPair
<1>3. /\ tileA[curr[th]][<<threadIdxY(th), k[th]>>]
           = ElemOfA(t[th], <<threadIdxY(th), k[th]>>)
      /\ tileB[curr[th]][<<k[th], threadIdxX(th)>>]
           = ElemOfB(t[th], <<k[th], threadIdxX(th)>>)
  BY <1>1, <1>2, CurrentTile
<1>4. sum'[th] = sum[th] \union Term(th, <<t[th], k[th]>>)
  BY <1>3 DEF Accumulate, Term
<1>5. sum'[th] = PartialSum(th, t[th], k[th] + 1)
  BY <1>1, <1>4, PartialSumStep DEF SumSoFar
<1>6. CASE k[th] + 1 < TILE_SIZE
  BY <1>1, <1>5, <1>6 DEF Accumulate, SumSoFar
<1>7. CASE ~(k[th] + 1 < TILE_SIZE)
  <2>1. k[th] + 1 = TILE_SIZE
    BY <1>1, <1>7, GemmAssumption DEF Lanes
  <2>2. pc'[th] = "sync2" /\ t'[th] = t[th]
    BY <1>1, <1>7 DEF Accumulate, Goto
  <2>3. QED
    BY <1>1, <1>5, <2>1, <2>2, PartialSumTile DEF SumSoFar
<1>8. QED
  BY <1>6, <1>7

(* The other steps leave the accumulator and its meaning alone. *)
LEMMA OtherStep ==
  ASSUME SharedInv, NEW th \in Threads, SumSoFar(th), Step(th), ~Accumulate(th)
  PROVE  SumSoFar(th)'
<1> USE DEF SharedInv, TypeOK, Goto
<1>1. Position(th) /\ k[th] \in Nat /\ t[th] \in Nat
  BY NumTilesNat, GemmAssumption DEF OwnInv, Lanes
<1>2. CASE LeaveSync2(th)
  BY <1>1, <1>2 DEF LeaveSync2, Position, SumSoFar
<1>3. CASE LeaveSync1(th) \/ SkipPrefetch(th) \/ Store(th)
  BY <1>3 DEF LeaveSync1, SkipPrefetch, Store, SumSoFar
<1>4. CASE PreloadA(th) \/ PreloadB(th) \/ PrefetchA(th) \/ PrefetchB(th)
  BY <1>4 DEF PreloadA, PreloadB, PrefetchA, PrefetchB, LoadA, LoadB, SumSoFar
<1>5. QED
  BY <1>2, <1>3, <1>4 DEF Step

-----------------------------------------------------------------------------
(* The result. *)

(* A storing thread finds its cell untouched and its sum complete. *)
LEMMA StoreValue ==
  ASSUME ResultInv, NEW th \in Threads, InRange(th), Store(th)
  PROVE  /\ C[OutIndex(th)] = Unwritten
         /\ C' = [C EXCEPT ![OutIndex(th)] = DotProduct[OutIndex(th)]]
<1>1. pc[th] = "store"
  BY DEF Store
<1>2. t[th] = numTiles /\ k[th] = 0
  BY <1>1 DEF ResultInv, SharedInv, OwnInv, Position
<1>3. sum[th] = PartialSum(th, numTiles, 0)
  BY <1>1, <1>2 DEF ResultInv, SumSoFar
<1>4. sum[th] = DotProduct[OutIndex(th)]
  BY <1>3, SumIsDot, OwnersDiffer
<1>5. QED
  BY <1>1, <1>4 DEF Store, ResultInv, OwnCellOfC

(* Any step keeps the cells of the threads that have not stored yet. *)
LEMMA UnwrittenStep ==
  ASSUME SharedInv, NEW th \in Threads, Step(th),
         NEW u \in Threads, OwnCellOfC(u)
  PROVE  OwnCellOfC(u)'
<1> SUFFICES ASSUME InRange(u), pc'[u] # "done"
             PROVE  C'[OutIndex(u)] = Unwritten
  BY DEF OwnCellOfC, InRange, OutIndex, row, col, threadIdxX, threadIdxY, Unwritten
<1>1. pc[u] # "done"
  BY Frame DEF Step, PreloadA, PreloadB, PrefetchA, PrefetchB, LeaveSync1,
     LeaveSync2, SkipPrefetch, Accumulate, Store, SharedInv
<1>2. C[OutIndex(u)] = Unwritten
  BY <1>1 DEF OwnCellOfC
<1>3. CASE Store(th) /\ u = th
  BY <1>3 DEF Store, Goto, SharedInv, TypeOK
<1>4. CASE Store(th) /\ u # th
  <2>1. CASE InRange(th)
    <3>1. OutIndex(u) # OutIndex(th)
      BY <1>4, <2>1, OwnersDiffer
    <3>2. QED
      BY <1>2, <1>4, <2>1, <3>1 DEF Store
  <2>2. CASE ~InRange(th)
    BY <1>2, <1>4, <2>2 DEF Store
  <2>3. QED
    BY <2>1, <2>2
<1>5. CASE ~Store(th)
  BY <1>2, <1>5 DEF Step, PreloadA, PreloadB, PrefetchA, PrefetchB, LoadA,
     LoadB, SkipPrefetch, LeaveSync1, LeaveSync2, Accumulate
<1>6. QED
  BY <1>3, <1>4, <1>5

LEMMA NextResult == ResultInv /\ [Next]_vars => ResultInv'
<1> SUFFICES ASSUME ResultInv, [Next]_vars
             PROVE  ResultInv'
  OBVIOUS
<1>1. SharedInv'
  BY NextShared DEF ResultInv
<1>2. ASSUME NEW th \in Threads, Step(th)
      PROVE  ResultInv'
  <2>1. SumSoFar(th)'
    BY <1>2, AccumulateStep, OtherStep DEF ResultInv
  <2>2. ASSUME NEW u \in Threads, u # th
        PROVE  SumSoFar(u)'
    <3>1. pc'[u] = pc[u] /\ t'[u] = t[u] /\ k'[u] = k[u]
      BY <1>2, <2>2, Frame DEF ResultInv, SharedInv
    <3>2. sum'[u] = sum[u]
      BY <1>2, <2>2 DEF Step, PreloadA, PreloadB, PrefetchA, PrefetchB, LoadA,
         LoadB, SkipPrefetch, LeaveSync1, LeaveSync2, Accumulate, Store,
         ResultInv, SharedInv, TypeOK
    <3>3. SumSoFar(u)
      BY DEF ResultInv
    <3>4. QED
      BY <3>1, <3>2, <3>3 DEF SumSoFar
  <2>3. \A u \in Threads : OwnCellOfC(u)'
    BY <1>2, UnwrittenStep DEF ResultInv
  <2>4. QED
    BY <1>1, <2>1, <2>2, <2>3 DEF ResultInv
<1>3. CASE UNCHANGED vars
  BY <1>1, <1>3 DEF vars, ResultInv, SumSoFar, OwnCellOfC
<1>4. QED
  BY <1>2, <1>3 DEF Next

LEMMA InitResult == Init => ResultInv
<1> SUFFICES ASSUME Init
             PROVE  ResultInv
  OBVIOUS
<1>1. SharedInv
  BY InitShared
<1>2. ASSUME NEW th \in Threads
      PROVE  SumSoFar(th)
  BY PartialSumStart DEF Init, SumSoFar
<1>3. ASSUME NEW th \in Threads
      PROVE  OwnCellOfC(th)
  BY OwnersDiffer DEF Init, OwnCellOfC
<1>4. QED
  BY <1>1, <1>2, <1>3 DEF ResultInv

(* Whatever the sizes of the matrices and of the tile, a block of the      *)
(* double-buffered kernel only ever writes its own cells of C, each once,  *)
(* and always with the complete dot product.                               *)
THEOREM ComputesProduct == Spec => ImplementsMatMul
<1>1. Init => Mat!MInit
  BY DEF Init, Mat!MInit
<1>2. ResultInv /\ [Next]_vars => [Mat!MNext]_C
  <2> SUFFICES ASSUME ResultInv, [Next]_vars
               PROVE  [Mat!MNext]_C
    OBVIOUS
  <2>1. ASSUME NEW th \in Threads, Store(th), InRange(th)
        PROVE  Mat!MNext
    <3>1. OutIndex(th) \in OutCells
      BY <2>1, OwnersDiffer
    <3>2. Mat!WriteCell(OutIndex(th))
      BY <2>1, StoreValue DEF Mat!WriteCell
    <3>3. QED
      BY <3>1, <3>2 DEF Mat!MNext
  <2>2. ASSUME NEW th \in Threads, Store(th), ~InRange(th)
        PROVE  UNCHANGED C
    BY <2>2 DEF Store
  <2>3. ASSUME NEW th \in Threads, Step(th), ~Store(th)
        PROVE  UNCHANGED C
    BY <2>3 DEF Step, PreloadA, PreloadB, PrefetchA, PrefetchB, LoadA, LoadB,
       SkipPrefetch, LeaveSync1, LeaveSync2, Accumulate
  <2>4. CASE UNCHANGED vars
    BY <2>4 DEF vars
  <2>5. QED
    BY <2>1, <2>2, <2>3, <2>4 DEF Next, Step
<1>3. Init => ResultInv
  BY InitResult
<1>4. ResultInv /\ [Next]_vars => ResultInv'
  BY NextResult
<1>5. QED
  BY <1>1, <1>2, <1>3, <1>4, PTL DEF Spec, ImplementsMatMul, Mat!MSpec
-----------------------------------------------------------------------------
(* The kernel with one buffer.  Its tiles are those of the other kernel.   *)

(* Its inductive invariant. *)

TiledAtBarrier(th) == pc[th] \in {"sync1", "sync2"}

(* How many barriers the thread has left. *)
TiledPassed(th) == IF TiledAtBarrier(th) THEN arrived[th] - 1 ELSE arrived[th]

(* Two barriers per tile: the program counter fixes the counters. *)
TiledPosition(th) ==
  /\ pc[th] \in {"loadA", "loadB"} => t[th] < numTiles /\ arrived[th] = 2 * t[th]
  /\ pc[th] \in {"sync1", "compute"} =>
       t[th] < numTiles /\ arrived[th] = 2 * t[th] + 1
  /\ pc[th] = "sync2" => t[th] < numTiles /\ arrived[th] = 2 * t[th] + 2
  /\ pc[th] \in {"store", "done"} => t[th] = numTiles /\ arrived[th] = 2 * t[th]
  /\ pc[th] # "compute" => k[th] = 0

(* No thread is past a barrier that another one has not reached. *)
TiledLockstep == \A th, u \in Threads : TiledPassed(th) <= arrived[u]

(* What the thread itself has put into its cells of the tiles. *)
TiledOwnCells(th) ==
  /\ pc[th] \in {"loadB", "sync1", "compute", "sync2"} =>
       tileA[th] = ElemOfA(t[th], th)
  /\ pc[th] \in {"sync1", "compute", "sync2"} => tileB[th] = ElemOfB(t[th], th)

TiledOwnInv(th) == TiledPosition(th) /\ TiledOwnCells(th)

TiledSharedInv ==
  /\ TiledTypeOK
  /\ TiledLockstep
  /\ \A th \in Threads : TiledOwnInv(th)

-----------------------------------------------------------------------------
(* Steps. *)

(* A step of one thread leaves the others' registers and cells alone. *)
LEMMA TiledFrame ==
  ASSUME TiledTypeOK, NEW th \in Threads, TiledStep(th), NEW u \in Threads, u # th
  PROVE  /\ pc'[u] = pc[u] /\ t'[u] = t[u] /\ k'[u] = k[u]
         /\ sum'[u] = sum[u] /\ arrived'[u] = arrived[u]
         /\ tileA'[u] = tileA[u] /\ tileB'[u] = tileB[u]
<1> USE DEF TiledTypeOK, Goto, Arrive
<1>1. CASE LoadTileA(th) \/ LoadTileB(th)
  BY <1>1 DEF LoadTileA, LoadTileB
<1>2. CASE TiledLeaveSync1(th) \/ TiledLeaveSync2(th) \/ TiledStore(th)
  BY <1>2 DEF TiledLeaveSync1, TiledLeaveSync2, TiledStore
<1>3. CASE TiledAccumulate(th)
  BY <1>3 DEF TiledAccumulate
<1>4. QED
  BY <1>1, <1>2, <1>3 DEF TiledStep

(* A step of a thread keeps the types and the thread's own invariant. *)
LEMMA TiledOwnStep ==
  ASSUME TiledTypeOK, NEW th \in Threads, TiledOwnInv(th), TiledStep(th)
  PROVE  TiledTypeOK' /\ TiledOwnInv(th)'
<1> USE NumTilesNat DEF TiledTypeOK, TiledLabels, Goto, Arrive, TiledOwnInv, TiledPosition, TiledOwnCells
<1>1. CASE LoadTileA(th)
  BY <1>1, ElemType DEF LoadTileA
<1>2. CASE LoadTileB(th)
  BY <1>2, ElemType DEF LoadTileB
<1>3. CASE TiledLeaveSync1(th)
  BY <1>3 DEF TiledLeaveSync1
<1>4. CASE TiledAccumulate(th)
  BY <1>4, GemmAssumption DEF TiledAccumulate, Lanes
<1>5. CASE TiledLeaveSync2(th)
  BY <1>5 DEF TiledLeaveSync2, LoopTop
<1>6. CASE TiledStore(th)
  BY <1>6 DEF TiledStore
<1>7. QED
  BY <1>1, <1>2, <1>3, <1>4, <1>5, <1>6 DEF TiledStep

(* A step leaves a barrier only when the whole block has reached it. *)
LEMMA TiledLockstepStep ==
  ASSUME TiledTypeOK, TiledLockstep, NEW th \in Threads, TiledStep(th)
  PROVE  TiledLockstep'
<1> USE DEF TiledTypeOK, Goto, Arrive, TiledPassed, TiledAtBarrier
<1>1. \A u \in Threads : arrived'[u] >= arrived[u] /\ arrived'[u] \in Int
  <2>1. CASE TiledAccumulate(th)
    BY <2>1 DEF TiledAccumulate
  <2>2. CASE ~TiledAccumulate(th)
    BY <2>2 DEF TiledStep, LoadTileA, LoadTileB, TiledLeaveSync1, TiledLeaveSync2, TiledStore
  <2>3. QED
    BY <2>1, <2>2
<1>2. \A u \in Threads : TiledPassed(th)' <= arrived[u]
  <2>1. CASE TiledLeaveSync1(th)
    BY <2>1 DEF TiledLeaveSync1, Released
  <2>2. CASE TiledLeaveSync2(th)
    BY <2>2 DEF TiledLeaveSync2, Released, LoopTop
  <2>3. CASE TiledAccumulate(th)
    BY <2>3 DEF TiledAccumulate, TiledLockstep
  <2>4. CASE LoadTileA(th) \/ LoadTileB(th) \/ TiledStore(th)
    BY <2>4 DEF LoadTileA, LoadTileB, TiledStore, TiledLockstep
  <2>5. QED
    BY <2>1, <2>2, <2>3, <2>4 DEF TiledStep
<1>3. \A u \in Threads : u # th => TiledPassed(u)' = TiledPassed(u)
  BY TiledFrame
<1>4. \A u \in Threads : TiledPassed(u) \in Int /\ TiledPassed(u)' \in Int
  BY <1>1
<1>5. QED
  BY <1>1, <1>2, <1>3, <1>4 DEF TiledLockstep

LEMMA TiledInitShared == TiledInit => TiledSharedInv
<1> SUFFICES ASSUME TiledInit
             PROVE  TiledSharedInv
  OBVIOUS
<1>1. TiledTypeOK
  BY NumTilesNat, GemmAssumption DEF TiledInit, TiledTypeOK, TiledLabels, Garbage, Lanes, LoopTop
<1>2. TiledLockstep
  BY DEF TiledInit, TiledLockstep, TiledPassed, TiledAtBarrier, LoopTop
<1>3. ASSUME NEW th \in Threads
      PROVE  TiledOwnInv(th)
  <2>1. 0 < numTiles
    BY TilesCover, GemmAssumption, NumTilesNat
  <2>2. QED
    BY <2>1 DEF TiledInit, TiledOwnInv, TiledPosition, TiledOwnCells, LoopTop
<1>4. QED
  BY <1>1, <1>2, <1>3 DEF TiledSharedInv

LEMMA TiledNextShared == TiledSharedInv /\ [TiledNext]_TiledVars => TiledSharedInv'
<1> SUFFICES ASSUME TiledSharedInv, [TiledNext]_TiledVars
             PROVE  TiledSharedInv'
  OBVIOUS
<1>1. ASSUME NEW th \in Threads, TiledStep(th)
      PROVE  TiledSharedInv'
  <2>1. TiledTypeOK' /\ TiledOwnInv(th)'
    BY <1>1, TiledOwnStep DEF TiledSharedInv
  <2>2. TiledLockstep'
    BY <1>1, TiledLockstepStep DEF TiledSharedInv
  <2>3. ASSUME NEW u \in Threads, u # th
        PROVE  TiledOwnInv(u)'
    BY <1>1, <2>3, TiledFrame DEF TiledSharedInv, TiledOwnInv, TiledPosition, TiledOwnCells
  <2>4. QED
    BY <2>1, <2>2, <2>3 DEF TiledSharedInv
<1>2. CASE UNCHANGED TiledVars
  BY <1>2 DEF TiledVars, TiledSharedInv, TiledTypeOK, TiledLockstep, TiledPassed, TiledAtBarrier,
              TiledOwnInv, TiledPosition, TiledOwnCells
<1>3. QED
  BY <1>1, <1>2 DEF TiledNext

THEOREM TiledSharedInvariant == TiledSpec => []TiledSharedInv
<1>1. TiledInit => TiledSharedInv
  BY TiledInitShared
<1>2. TiledSharedInv /\ [TiledNext]_TiledVars => TiledSharedInv'
  BY TiledNextShared
<1>3. QED
  BY <1>1, <1>2, PTL DEF TiledSpec

(* The variables keep their types: no thread runs past the last tile. *)
THEOREM TiledTypeCorrect == TiledSpec => []TiledTypeOK
<1>1. TiledSharedInv => TiledTypeOK
  BY DEF TiledSharedInv
<1>2. QED
  BY <1>1, TiledSharedInvariant, PTL

-----------------------------------------------------------------------------
(* Between two barriers. *)

(* While one thread multiplies tile n, every other one is in iteration n,  *)
(* between the barrier after its loads and the one that ends it.           *)
LEMMA TiledSameInterval ==
  ASSUME TiledSharedInv, NEW th \in Threads, NEW u \in Threads, pc[th] = "compute"
  PROVE  pc[u] \in {"sync1", "compute", "sync2"} /\ t[u] = t[th]
<1> USE NumTilesNat DEF TiledSharedInv, TiledTypeOK, TiledLabels
<1>1. TiledPosition(th) /\ TiledPosition(u)
  BY DEF TiledOwnInv
<1>2. TiledPassed(th) <= arrived[u] /\ TiledPassed(u) <= arrived[th]
  BY DEF TiledLockstep
<1>3. /\ t[th] \in Nat /\ t[u] \in Nat /\ t[th] < numTiles
      /\ arrived[th] \in Nat /\ arrived[u] \in Nat
  BY <1>1 DEF TiledPosition
<1>4. arrived[th] = 2 * t[th] + 1 /\ TiledPassed(th) = 2 * t[th] + 1
  BY <1>1 DEF TiledPosition, TiledPassed, TiledAtBarrier
<1>5. CASE pc[u] \in {"loadA", "loadB", "store", "done"}
  <2>1. arrived[u] = 2 * t[u] /\ TiledPassed(u) = 2 * t[u]
    BY <1>1, <1>5 DEF TiledPosition, TiledPassed, TiledAtBarrier
  <2>2. QED
    BY <1>2, <1>3, <1>4, <2>1
<1>6. CASE pc[u] \in {"sync1", "compute"}
  <2>1. arrived[u] = 2 * t[u] + 1 /\ TiledPassed(u) \in {2 * t[u], 2 * t[u] + 1}
    BY <1>1, <1>3, <1>6 DEF TiledPosition, TiledPassed, TiledAtBarrier
  <2>2. QED
    BY <1>2, <1>3, <1>4, <1>6, <2>1
<1>7. CASE pc[u] = "sync2"
  <2>1. arrived[u] = 2 * t[u] + 2 /\ TiledPassed(u) = 2 * t[u] + 1
    BY <1>1, <1>3, <1>7 DEF TiledPosition, TiledPassed, TiledAtBarrier
  <2>2. QED
    BY <1>2, <1>3, <1>4, <1>7, <2>1
<1>8. QED
  BY <1>5, <1>6, <1>7

(* While a thread multiplies tile n, every cell of both tiles is tile n's. *)
LEMMA TiledCurrentTile ==
  ASSUME TiledSharedInv, NEW th \in Threads, NEW u \in Threads, pc[th] = "compute"
  PROVE  tileA[u] = ElemOfA(t[th], u) /\ tileB[u] = ElemOfB(t[th], u)
<1>1. TiledOwnCells(u)
  BY DEF TiledSharedInv, TiledOwnInv
<1>2. QED
  BY <1>1, TiledSameInterval DEF TiledOwnCells

(* Every tile a thread multiplies is complete and is the right one, for    *)
(* any number of threads.                                                  *)
THEOREM TiledTilesComplete == TiledSpec => []TiledTileComplete
<1>1. TiledSharedInv => TiledTileComplete
  <2> SUFFICES ASSUME TiledSharedInv, NEW th \in Threads, pc[th] = "compute",
                      NEW kk \in k[th] .. TILE_SIZE - 1
               PROVE  /\ tileA[<<threadIdxY(th), kk>>]
                           = ElemOfA(t[th], <<threadIdxY(th), kk>>)
                      /\ tileB[<<kk, threadIdxX(th)>>]
                           = ElemOfB(t[th], <<kk, threadIdxX(th)>>)
    BY DEF TiledTileComplete
  <2>1. kk \in Lanes
    BY GemmAssumption DEF TiledSharedInv, TiledTypeOK, Lanes
  <2>2. <<threadIdxY(th), kk>> \in Threads /\ <<kk, threadIdxX(th)>> \in Threads
    BY <2>1, ThreadPair
  <2>3. QED
    BY <2>2, TiledCurrentTile
<1>2. QED
  BY <1>1, TiledSharedInvariant, PTL

(* The kernel has no shared-memory race, for any block and matrix size:    *)
(* its two barriers keep every load apart from every multiplication.       *)
THEOREM TiledRaceFree == TiledSpec => []TiledNoRace
<1>1. TiledSharedInv => TiledNoRace
  <2> SUFFICES ASSUME TiledSharedInv, NEW th \in Threads, NEW u \in Threads, th # u,
                      NEW c \in TiledWritesNext(th), c \in TiledReadsNext(u) \cup TiledWritesNext(u)
               PROVE  FALSE
    BY DEF TiledNoRace
  <2>1. c[2] = th /\ pc[th] \in {"loadA", "loadB"}
    BY DEF TiledWritesNext
  <2>2. CASE c \in TiledWritesNext(u)
    BY <2>1, <2>2 DEF TiledWritesNext
  <2>3. CASE c \in TiledReadsNext(u)
    <3>1. pc[u] = "compute"
      BY <2>3 DEF TiledReadsNext
    <3>2. QED
      BY <2>1, <3>1, TiledSameInterval
  <2>4. QED
    BY <2>2, <2>3
<1>2. QED
  BY <1>1, TiledSharedInvariant, PTL

-----------------------------------------------------------------------------
(* The accumulator. *)

(* At the end-of-iteration barrier the whole tile n has been added. *)
TiledSumSoFar(th) ==
  sum[th] = IF pc[th] = "sync2" THEN PartialSum(th, t[th] + 1, 0)
                                ELSE PartialSum(th, t[th], k[th])

(* A cell of C is untouched until the thread that owns it stores. *)
TiledOwnCellOfC(th) ==
  InRange(th) /\ pc[th] # "done" => C[OutIndex(th)] = Unwritten

TiledResultInv ==
  /\ TiledSharedInv
  /\ \A th \in Threads : TiledSumSoFar(th) /\ TiledOwnCellOfC(th)

(* The multiplication step adds the term of its own iteration. *)
LEMMA TiledAccumulateStep ==
  ASSUME TiledSharedInv, NEW th \in Threads, TiledSumSoFar(th), TiledAccumulate(th)
  PROVE  TiledSumSoFar(th)'
<1> USE DEF TiledSharedInv, TiledTypeOK
<1>1. /\ pc[th] = "compute" /\ t[th] \in Nat /\ k[th] \in Lanes
      /\ k[th] \in Nat
  BY NumTilesNat, GemmAssumption DEF TiledAccumulate, Lanes
<1>2. /\ <<threadIdxY(th), k[th]>> \in Threads
      /\ <<k[th], threadIdxX(th)>> \in Threads
  BY <1>1, ThreadPair
<1>3. /\ tileA[<<threadIdxY(th), k[th]>>]
           = ElemOfA(t[th], <<threadIdxY(th), k[th]>>)
      /\ tileB[<<k[th], threadIdxX(th)>>]
           = ElemOfB(t[th], <<k[th], threadIdxX(th)>>)
  BY <1>1, <1>2, TiledCurrentTile
<1>4. sum'[th] = sum[th] \union Term(th, <<t[th], k[th]>>)
  BY <1>3 DEF TiledAccumulate, Term
<1>5. sum'[th] = PartialSum(th, t[th], k[th] + 1)
  BY <1>1, <1>4, PartialSumStep DEF TiledSumSoFar
<1>6. CASE k[th] + 1 < TILE_SIZE
  BY <1>1, <1>5, <1>6 DEF TiledAccumulate, TiledSumSoFar
<1>7. CASE ~(k[th] + 1 < TILE_SIZE)
  <2>1. k[th] + 1 = TILE_SIZE
    BY <1>1, <1>7, GemmAssumption DEF Lanes
  <2>2. pc'[th] = "sync2" /\ t'[th] = t[th]
    BY <1>1, <1>7 DEF TiledAccumulate, Goto
  <2>3. QED
    BY <1>1, <1>5, <2>1, <2>2, PartialSumTile DEF TiledSumSoFar
<1>8. QED
  BY <1>6, <1>7

(* The other steps leave the accumulator and its meaning alone. *)
LEMMA TiledOtherStep ==
  ASSUME TiledSharedInv, NEW th \in Threads, TiledSumSoFar(th), TiledStep(th), ~TiledAccumulate(th)
  PROVE  TiledSumSoFar(th)'
<1> USE DEF TiledSharedInv, TiledTypeOK, Goto
<1>1. TiledPosition(th) /\ k[th] \in Nat /\ t[th] \in Nat
  BY NumTilesNat, GemmAssumption DEF TiledOwnInv, Lanes
<1>2. CASE TiledLeaveSync2(th)
  <2>1. /\ pc[th] = "sync2" /\ k[th] = 0 /\ k'[th] = 0
        /\ t'[th] = t[th] + 1 /\ sum'[th] = sum[th]
    BY <1>1, <1>2 DEF TiledLeaveSync2, TiledPosition
  <2>2. pc'[th] # "sync2"
    BY <1>2 DEF TiledLeaveSync2, LoopTop
  <2>3. QED
    BY <2>1, <2>2 DEF TiledSumSoFar
<1>3. CASE TiledLeaveSync1(th) \/ TiledStore(th)
  BY <1>3 DEF TiledLeaveSync1, TiledStore, TiledSumSoFar
<1>4. CASE LoadTileA(th) \/ LoadTileB(th)
  BY <1>4 DEF LoadTileA, LoadTileB, Arrive, TiledSumSoFar
<1>5. QED
  BY <1>2, <1>3, <1>4 DEF TiledStep

-----------------------------------------------------------------------------
(* The result. *)

(* A storing thread finds its cell untouched and its sum complete. *)
LEMMA TiledStoreValue ==
  ASSUME TiledResultInv, NEW th \in Threads, InRange(th), TiledStore(th)
  PROVE  /\ C[OutIndex(th)] = Unwritten
         /\ C' = [C EXCEPT ![OutIndex(th)] = DotProduct[OutIndex(th)]]
<1>1. pc[th] = "store"
  BY DEF TiledStore
<1>2. t[th] = numTiles /\ k[th] = 0
  BY <1>1 DEF TiledResultInv, TiledSharedInv, TiledOwnInv, TiledPosition
<1>3. sum[th] = PartialSum(th, numTiles, 0)
  BY <1>1, <1>2 DEF TiledResultInv, TiledSumSoFar
<1>4. sum[th] = DotProduct[OutIndex(th)]
  BY <1>3, SumIsDot, OwnersDiffer
<1>5. QED
  BY <1>1, <1>4 DEF TiledStore, TiledResultInv, TiledOwnCellOfC

(* Any step keeps the cells of the threads that have not stored yet. *)
LEMMA TiledUnwrittenStep ==
  ASSUME TiledSharedInv, NEW th \in Threads, TiledStep(th),
         NEW u \in Threads, TiledOwnCellOfC(u)
  PROVE  TiledOwnCellOfC(u)'
<1> SUFFICES ASSUME InRange(u), pc'[u] # "done"
             PROVE  C'[OutIndex(u)] = Unwritten
  BY DEF TiledOwnCellOfC, InRange, OutIndex, row, col, threadIdxX, threadIdxY, Unwritten
<1>1. pc[u] # "done"
  BY TiledFrame DEF TiledStep, LoadTileA, LoadTileB, TiledLeaveSync1, TiledLeaveSync2, TiledAccumulate,
     TiledStore, TiledSharedInv
<1>2. C[OutIndex(u)] = Unwritten
  BY <1>1 DEF TiledOwnCellOfC
<1>3. CASE TiledStore(th) /\ u = th
  BY <1>3 DEF TiledStore, Goto, TiledSharedInv, TiledTypeOK
<1>4. CASE TiledStore(th) /\ u # th
  <2>1. CASE InRange(th)
    <3>1. OutIndex(u) # OutIndex(th)
      BY <1>4, <2>1, OwnersDiffer
    <3>2. QED
      BY <1>2, <1>4, <2>1, <3>1 DEF TiledStore
  <2>2. CASE ~InRange(th)
    BY <1>2, <1>4, <2>2 DEF TiledStore
  <2>3. QED
    BY <2>1, <2>2
<1>5. CASE ~TiledStore(th)
  BY <1>2, <1>5 DEF TiledStep, LoadTileA, LoadTileB, TiledLeaveSync1, TiledLeaveSync2, TiledAccumulate
<1>6. QED
  BY <1>3, <1>4, <1>5

LEMMA TiledNextResult == TiledResultInv /\ [TiledNext]_TiledVars => TiledResultInv'
<1> SUFFICES ASSUME TiledResultInv, [TiledNext]_TiledVars
             PROVE  TiledResultInv'
  OBVIOUS
<1>1. TiledSharedInv'
  BY TiledNextShared DEF TiledResultInv
<1>2. ASSUME NEW th \in Threads, TiledStep(th)
      PROVE  TiledResultInv'
  <2>1. TiledSumSoFar(th)'
    BY <1>2, TiledAccumulateStep, TiledOtherStep DEF TiledResultInv
  <2>2. ASSUME NEW u \in Threads, u # th
        PROVE  TiledSumSoFar(u)'
    BY <1>2, <2>2, TiledFrame DEF TiledResultInv, TiledSharedInv, TiledSumSoFar
  <2>3. \A u \in Threads : TiledOwnCellOfC(u)'
    BY <1>2, TiledUnwrittenStep DEF TiledResultInv
  <2>4. QED
    BY <1>1, <2>1, <2>2, <2>3 DEF TiledResultInv
<1>3. CASE UNCHANGED TiledVars
  BY <1>1, <1>3 DEF TiledVars, TiledResultInv, TiledSumSoFar, TiledOwnCellOfC
<1>4. QED
  BY <1>2, <1>3 DEF TiledNext

LEMMA TiledInitResult == TiledInit => TiledResultInv
<1> SUFFICES ASSUME TiledInit
             PROVE  TiledResultInv
  OBVIOUS
<1>1. TiledSharedInv
  BY TiledInitShared
<1>2. ASSUME NEW th \in Threads
      PROVE  TiledSumSoFar(th)
  BY PartialSumStart DEF TiledInit, TiledSumSoFar, LoopTop
<1>3. ASSUME NEW th \in Threads
      PROVE  TiledOwnCellOfC(th)
  BY OwnersDiffer DEF TiledInit, TiledOwnCellOfC
<1>4. QED
  BY <1>1, <1>2, <1>3 DEF TiledResultInv

(* Whatever the sizes of the matrices and of the tile, a block of the      *)
(* tiled kernel only ever writes its own cells of C, each once, and always *)
(* with the complete dot product.                                          *)
THEOREM TiledComputesProduct == TiledSpec => ImplementsMatMul
<1>1. TiledInit => Mat!MInit
  BY DEF TiledInit, Mat!MInit
<1>2. TiledResultInv /\ [TiledNext]_TiledVars => [Mat!MNext]_C
  <2> SUFFICES ASSUME TiledResultInv, [TiledNext]_TiledVars
               PROVE  [Mat!MNext]_C
    OBVIOUS
  <2>1. ASSUME NEW th \in Threads, TiledStore(th), InRange(th)
        PROVE  Mat!MNext
    <3>1. OutIndex(th) \in OutCells
      BY <2>1, OwnersDiffer
    <3>2. Mat!WriteCell(OutIndex(th))
      BY <2>1, TiledStoreValue DEF Mat!WriteCell
    <3>3. QED
      BY <3>1, <3>2 DEF Mat!MNext
  <2>2. ASSUME NEW th \in Threads, TiledStore(th), ~InRange(th)
        PROVE  UNCHANGED C
    BY <2>2 DEF TiledStore
  <2>3. ASSUME NEW th \in Threads, TiledStep(th), ~TiledStore(th)
        PROVE  UNCHANGED C
    BY <2>3 DEF TiledStep, LoadTileA, LoadTileB, TiledLeaveSync1, TiledLeaveSync2, TiledAccumulate
  <2>4. CASE UNCHANGED TiledVars
    BY <2>4 DEF TiledVars
  <2>5. QED
    BY <2>1, <2>2, <2>3, <2>4 DEF TiledNext, TiledStep
<1>3. TiledInit => TiledResultInv
  BY TiledInitResult
<1>4. TiledResultInv /\ [TiledNext]_TiledVars => TiledResultInv'
  BY TiledNextResult
<1>5. QED
  BY <1>1, <1>2, <1>3, <1>4, PTL DEF TiledSpec, ImplementsMatMul, Mat!MSpec
=============================================================================
