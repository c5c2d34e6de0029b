-------------------------- MODULE WarpReduceProofs --------------------------
(***************************************************************************)
(* Proofs about WarpReduce for every grid, every block of whole warps and  *)
(* every number of inputs: the grid-stride loop, the two exchanges and the *)
(* host put every input into the result once.                              *)
(***************************************************************************)
EXTENDS WarpReduce, TLAPS

-----------------------------------------------------------------------------
(* Arithmetic. *)

LEMMA Sizes ==
  /\ warpSize \in Nat \ {0} /\ numWarps \in 1 .. warpSize
  /\ BLOCK_SIZE = numWarps * warpSize /\ BLOCK_SIZE \in Nat \ {0}
  /\ gridDim \in Nat \ {0} /\ n \in Nat \ {0} /\ stride \in Nat \ {0}
  /\ warpSize <= 32
<1>1. PICK k \in 1 .. warpSize : BLOCK_SIZE = k * warpSize
  BY WarpAssumption
<1>2. warpSize \in Nat \ {0} /\ warpSize <= 32
  BY WarpAssumption
<1>3. BLOCK_SIZE \div warpSize = k /\ BLOCK_SIZE \in Nat \ {0}
  <2>1. CASE warpSize \in {2, 4, 8}
    BY <1>1, <2>1
  <2>2. CASE warpSize \in {16, 32}
    BY <1>1, <2>2
  <2>3. QED
    BY <2>1, <2>2, WarpAssumption
<1>4. stride \in Nat \ {0}
  BY <1>3, WarpAssumption DEF stride
<1>5. QED
  BY <1>1, <1>2, <1>3, <1>4, WarpAssumption DEF numWarps

(* Quotient and remainder are unique. *)
LEMMA DivMod ==
  ASSUME NEW m \in Nat \ {0}, NEW a \in Nat
  PROVE  /\ a \div m \in Nat /\ a % m \in 0 .. m - 1
         /\ a = (a \div m) * m + (a % m)
<1> DEFINE q == a \div m
           r == a % m
<1>1. a = m * q + r /\ r \in 0 .. m - 1 /\ q \in Int
  OBVIOUS
<1> HIDE DEF q, r
<1>2. a < m * q + m /\ m * q + m = m * (q + 1)
  BY <1>1
<1>3. ASSUME q < 0
      PROVE  FALSE
  <2> DEFINE k == -(q + 1)
  <2>1. k \in Nat /\ q + 1 = -k
    BY <1>1, <1>3
  <2> HIDE DEF k
  <2>2. m * k >= 0 /\ m * (-k) = -(m * k)
    BY <2>1
  <2>3. QED
    BY <1>1, <1>2, <2>1, <2>2
<1>4. q \in Nat
  BY <1>1, <1>3
<1>5. q * m = m * q
  BY <1>4
<1>6. q \in Nat /\ r \in 0 .. m - 1 /\ a = q * m + r
  BY <1>1, <1>4, <1>5
<1>7. QED
  BY <1>6 DEF q, r

LEMMA DivModUnique ==
  ASSUME NEW m \in Nat \ {0}, NEW a \in Nat, NEW q \in Nat, NEW r \in 0 .. m - 1,
         a = q * m + r
  PROVE  a \div m = q /\ a % m = r
<1> DEFINE p == a \div m
           z == a % m
<1>1. p \in Nat /\ z \in 0 .. m - 1 /\ a = p * m + z
  BY DivMod
<1> HIDE DEF p, z
<1>2. CASE p < q
  <2>1. (p + 1) * m <= q * m
    BY <1>1, <1>2
  <2>2. (p + 1) * m = p * m + m
    BY <1>1
  <2>3. QED
    BY <1>1, <2>1, <2>2
<1>3. CASE q < p
  <2>1. (q + 1) * m <= p * m
    BY <1>1, <1>3
  <2>2. (q + 1) * m = q * m + m
    BY <1>1
  <2>3. QED
    BY <1>1, <2>1, <2>2
<1>4. CASE p = q
  BY <1>1, <1>4 DEF p, z
<1>5. QED
  BY <1>1, <1>2, <1>3, <1>4

(* One stride further on, an index has the same remainder; in between no   *)
(* other one has.                                                          *)
LEMMA NextInStride ==
  ASSUME NEW m \in Nat \ {0}, NEW a \in Nat
  PROVE  /\ (a + m) % m = a % m
         /\ \A i \in Nat : i % m = a % m /\ a <= i /\ i < a + m => i = a
<1>1. a \div m \in Nat /\ a % m \in 0 .. m - 1 /\ a = (a \div m) * m + (a % m)
  BY DivMod
<1>2. (a + m) % m = a % m
  <2> DEFINE q == a \div m
             r == a % m
  <2>1. q \in Nat /\ r \in 0 .. m - 1 /\ a = q * m + r
    BY <1>1
  <2> HIDE DEF q, r
  <2>2. (q + 1) * m = q * m + m
    BY <2>1
  <2>3. a + m = (q + 1) * m + r /\ q + 1 \in Nat /\ a + m \in Nat
    BY <2>1, <2>2
  <2>4. (a + m) % m = r
    BY <2>1, <2>3, DivModUnique
  <2>5. QED
    BY <2>4 DEF r
<1>3. ASSUME NEW i \in Nat, i % m = a % m, a <= i, i < a + m
      PROVE  i = a
  <2> DEFINE p == i \div m
             q == a \div m
  <2>1. p \in Nat /\ q \in Nat /\ i = p * m + (a % m) /\ a = q * m + (a % m)
    BY <1>1, <1>3, DivMod
  <2> HIDE DEF p, q
  <2>2. CASE p < q
    <3>1. (p + 1) * m <= q * m
      BY <2>1, <2>2
    <3>2. (p + 1) * m = p * m + m
      BY <2>1
    <3>3. QED
      BY <1>1, <1>3, <2>1, <3>1, <3>2
  <2>3. CASE q < p
    <3>1. (q + 1) * m <= p * m
      BY <2>1, <2>3
    <3>2. (q + 1) * m = q * m + m
      BY <2>1
    <3>3. QED
      BY <1>1, <1>3, <2>1, <3>1, <3>2
  <2>4. QED
    BY <2>1, <2>2, <2>3
<1>4. QED
  BY <1>2, <1>3

-----------------------------------------------------------------------------
(* Where an input belongs: to which thread, lane and warp of its block. *)

Start(th) == th[1] * BLOCK_SIZE + th[2]
Tid(i) == (i % stride) % BLOCK_SIZE
LanePos == [i \in Inputs |-> Tid(i) % warpSize]
WarpPos == [i \in Inputs |-> Tid(i) \div warpSize]

(* A thread is a pair; a lane has its place in the warp. *)
LEMMA ThreadPair ==
  /\ \A th \in Threads : th[1] \in Blocks /\ th[2] \in Tids /\ th = <<th[1], th[2]>>
  /\ \A b \in Blocks, t \in Tids : <<b, t>> \in Threads
  /\ Blocks \subseteq Nat /\ Tids \subseteq Nat
  BY Sizes DEF Threads, Blocks, Tids

LEMMA WarpPair ==
  \A w \in Warps : /\ w[1] \in Blocks /\ w[2] \in Nat /\ w[2] < numWarps
                   /\ w = <<w[1], w[2]>>
  BY Sizes DEF Warps

LEMMA LaneNumber ==
  ASSUME NEW w \in Warps, NEW l \in 0 .. warpSize - 1
  PROVE  /\ w[2] * warpSize + l \in Tids
         /\ (w[2] * warpSize + l) % warpSize = l
         /\ (w[2] * warpSize + l) \div warpSize = w[2]
<1>1. w[2] \in Nat /\ w[2] < numWarps /\ l \in Nat /\ numWarps \in Nat
  BY WarpPair, Sizes
<1>2. w[2] * warpSize + l < numWarps * warpSize /\ w[2] * warpSize + l \in Nat
  <2>1. CASE warpSize \in {2, 4, 8}
    BY <1>1, <2>1
  <2>2. CASE warpSize \in {16, 32}
    BY <1>1, <2>2
  <2>3. QED
    BY <2>1, <2>2, WarpAssumption
<1>3. QED
  BY <1>1, <1>2, Sizes, DivModUnique DEF Tids

LEMMA WarpInBlock ==
  ASSUME NEW w \in Warps
  PROVE  w[2] \in Tids
<1>1. w[2] \in Nat /\ w[2] < numWarps
  BY WarpPair
<1>2. numWarps <= BLOCK_SIZE
  <2>1. CASE warpSize \in {2, 4, 8}
    BY <2>1, Sizes
  <2>2. CASE warpSize \in {16, 32}
    BY <2>2, Sizes
  <2>3. QED
    BY <2>1, <2>2, WarpAssumption
<1>3. QED
  BY <1>1, <1>2, Sizes DEF Tids

LEMMA LaneOf ==
  ASSUME NEW w \in Warps
  PROVE  /\ \A th \in Lanes(w) :
              /\ th \in Threads /\ th[1] = w[1]
              /\ th[2] % warpSize \in 0 .. warpSize - 1
              /\ th[2] = w[2] * warpSize + (th[2] % warpSize)
              /\ th[2] \div warpSize = w[2]
         /\ \A th \in Threads : th[1] = w[1] /\ th[2] \div warpSize = w[2] => th \in Lanes(w)
<1>1. ASSUME NEW l \in 0 .. warpSize - 1
      PROVE  /\ <<w[1], w[2] * warpSize + l>> \in Threads
             /\ (w[2] * warpSize + l) % warpSize = l
             /\ (w[2] * warpSize + l) \div warpSize = w[2]
  BY LaneNumber, WarpPair, ThreadPair
<1>2. ASSUME NEW th \in Threads, th[1] = w[1], th[2] \div warpSize = w[2]
      PROVE  th \in Lanes(w)
  <2>1. th[2] \in Nat /\ th = <<th[1], th[2]>>
    BY ThreadPair
  <2>2. th[2] = w[2] * warpSize + (th[2] % warpSize) /\ th[2] % warpSize \in 0 .. warpSize - 1
    BY <1>2, <2>1, DivMod, Sizes
  <2>3. th = <<w[1], w[2] * warpSize + (th[2] % warpSize)>>
    BY <1>2, <2>1, <2>2
  <2>4. QED
    BY <2>2, <2>3, Zenon DEF Lanes
<1>3. ASSUME NEW th \in Lanes(w)
      PROVE  /\ th \in Threads /\ th[1] = w[1]
             /\ th[2] % warpSize \in 0 .. warpSize - 1
             /\ th[2] = w[2] * warpSize + (th[2] % warpSize)
             /\ th[2] \div warpSize = w[2]
  <2>1. PICK l \in 0 .. warpSize - 1 : th = <<w[1], w[2] * warpSize + l>>
    BY DEF Lanes
  <2> DEFINE t == w[2] * warpSize + l
  <2>2. <<w[1], t>> \in Threads /\ t % warpSize = l /\ t \div warpSize = w[2]
    BY <1>1
  <2>3. t = w[2] * warpSize + l /\ th = <<w[1], t>>
    BY <2>1
  <2> HIDE DEF t
  <2>4. th[1] = w[1] /\ th[2] = t
    BY <2>3
  <2>5. QED
    BY <2>2, <2>3, <2>4
<1>4. QED
  BY <1>2, <1>3

LEMMA StartPlace ==
  ASSUME NEW th \in Threads
  PROVE  Start(th) \in 0 .. stride - 1
<1>1. th[1] \in Nat /\ th[2] \in Nat /\ th[1] + 1 <= gridDim /\ th[2] < BLOCK_SIZE
  BY ThreadPair, Sizes DEF Blocks, Tids
<1>2. (th[1] + 1) * BLOCK_SIZE <= gridDim * BLOCK_SIZE
  BY <1>1, Sizes
<1>3. (th[1] + 1) * BLOCK_SIZE = th[1] * BLOCK_SIZE + BLOCK_SIZE
  BY <1>1, Sizes
<1>4. th[1] * BLOCK_SIZE \in Nat /\ gridDim * BLOCK_SIZE = stride
  BY <1>1, Sizes DEF stride
<1>5. QED
  BY <1>1, <1>2, <1>3, <1>4, Sizes DEF Start

LEMMA InputPlace ==
  ASSUME NEW i \in Inputs
  PROVE  /\ i \in Nat /\ i % stride \in 0 .. stride - 1
         /\ Owner[i] \in Blocks /\ Tid(i) \in Tids
         /\ i % stride = Owner[i] * BLOCK_SIZE + Tid(i)
         /\ LanePos[i] \in 0 .. warpSize - 1 /\ WarpPos[i] \in 0 .. numWarps - 1
         /\ Tid(i) = WarpPos[i] * warpSize + LanePos[i]
<1>1. i \in Nat /\ i % stride \in 0 .. stride - 1
  BY Sizes, DivMod DEF Inputs
<1> DEFINE p == i % stride
<1>0. p \in Nat /\ p < stride
  BY <1>1, Sizes
<1> HIDE DEF p
<1>2. /\ p \div BLOCK_SIZE \in Nat /\ p % BLOCK_SIZE \in 0 .. BLOCK_SIZE - 1
      /\ p = (p \div BLOCK_SIZE) * BLOCK_SIZE + (p % BLOCK_SIZE)
  BY <1>0, Sizes, DivMod
<1>3. Owner[i] = p \div BLOCK_SIZE /\ Tid(i) = p % BLOCK_SIZE /\ Tid(i) \in Tids
  BY <1>2 DEF Owner, Tid, Tids, p
<1>4. p < gridDim * BLOCK_SIZE /\ p \in Nat
  BY <1>0, Sizes DEF stride
<1>5. p \div BLOCK_SIZE < gridDim
  <2> DEFINE q == p \div BLOCK_SIZE
  <2>1. q \in Nat /\ q * BLOCK_SIZE < gridDim * BLOCK_SIZE
    BY <1>2, <1>4, Sizes
  <2> HIDE DEF q
  <2>2. ASSUME q >= gridDim
        PROVE  FALSE
    <3>1. q * BLOCK_SIZE >= gridDim * BLOCK_SIZE
      BY <2>1, <2>2, Sizes
    <3>2. QED
      BY <2>1, <3>1, Sizes
  <2>3. q < gridDim
    BY <2>1, <2>2, Sizes
  <2>4. QED
    BY <2>3 DEF q
<1>6. Owner[i] \in Blocks
  BY <1>2, <1>3, <1>5, Sizes DEF Blocks
<1>7. Tid(i) \in Nat /\ Tid(i) < numWarps * warpSize
  BY <1>2, <1>3, Sizes
<1>8. /\ LanePos[i] = Tid(i) % warpSize /\ WarpPos[i] = Tid(i) \div warpSize
  BY DEF LanePos, WarpPos
<1>9. /\ LanePos[i] \in 0 .. warpSize - 1 /\ WarpPos[i] \in Nat
      /\ Tid(i) = WarpPos[i] * warpSize + LanePos[i]
  BY <1>7, <1>8, Sizes, DivMod
<1>10. WarpPos[i] < numWarps
  <2>1. CASE warpSize \in {2, 4, 8}
    BY <1>7, <1>9, <2>1, Sizes
  <2>2. CASE warpSize \in {16, 32}
    BY <1>7, <1>9, <2>2, Sizes
  <2>3. QED
    BY <2>1, <2>2, WarpAssumption
<1>11. WarpPos[i] \in 0 .. numWarps - 1
  BY <1>9, <1>10, Sizes
<1>12. p = Owner[i] * BLOCK_SIZE + Tid(i)
  BY <1>2, <1>3
<1>13. i % stride = Owner[i] * BLOCK_SIZE + Tid(i)
  BY <1>12 DEF p
<1>14. QED
  BY <1>1, <1>3, <1>6, <1>9, <1>11, <1>13

(* The inputs a thread visits have its place. *)
LEMMA StartUnique ==
  ASSUME NEW th \in Threads, NEW i \in Inputs
  PROVE  i % stride = Start(th) <=> Owner[i] = th[1] /\ Tid(i) = th[2]
<1>1. th[1] \in Nat /\ th[2] \in 0 .. BLOCK_SIZE - 1 /\ th[1] * BLOCK_SIZE \in Nat
  BY ThreadPair, Sizes DEF Tids
<1>2. Owner[i] = (i % stride) \div BLOCK_SIZE /\ Tid(i) = (i % stride) % BLOCK_SIZE
  BY DEF Owner, Tid
<1>3. ASSUME i % stride = Start(th)
      PROVE  Owner[i] = th[1] /\ Tid(i) = th[2]
  <2> DEFINE p == i % stride
  <2>1. p = th[1] * BLOCK_SIZE + th[2] /\ p \in Nat
    BY <1>1, <1>3 DEF Start
  <2> HIDE DEF p
  <2>2. p \div BLOCK_SIZE = th[1] /\ p % BLOCK_SIZE = th[2]
    BY <1>1, <2>1, Sizes, DivModUnique
  <2>3. QED
    BY <1>2, <2>2 DEF p
<1>4. ASSUME Owner[i] = th[1], Tid(i) = th[2]
      PROVE  i % stride = Start(th)
  BY <1>4, InputPlace DEF Start
<1>5. QED
  BY <1>3, <1>4

(* The lanes of a warp by number. *)
Lane(w, l) == <<w[1], w[2] * warpSize + l>>

LEMMA LaneFacts ==
  ASSUME NEW w \in Warps, NEW l \in 0 .. warpSize - 1
  PROVE  /\ Lane(w, l) \in Threads /\ Lane(w, l) \in Lanes(w)
         /\ Lane(w, l)[1] = w[1] /\ Lane(w, l)[2] % warpSize = l
         /\ Lane(w, l)[2] \div warpSize = w[2]
         /\ \A d \in Nat : <<Lane(w, l)[1], Lane(w, l)[2] + d>> = Lane(w, l + d)
<1>1. Lane(w, l) \in Lanes(w)
  BY DEF Lane, Lanes
<1>2. Lane(w, l) \in Threads /\ Lane(w, l)[1] = w[1]
  BY <1>1, LaneOf
<1>3. Lane(w, l)[2] = w[2] * warpSize + l /\ w[2] * warpSize \in Nat /\ l \in Nat
  BY WarpPair, Sizes DEF Lane
<1>4. Lane(w, l)[2] % warpSize = l /\ Lane(w, l)[2] \div warpSize = w[2]
  BY <1>3, LaneNumber
<1>5. ASSUME NEW d \in Nat
      PROVE  <<Lane(w, l)[1], Lane(w, l)[2] + d>> = Lane(w, l + d)
  <2>1. Lane(w, l)[2] + d = w[2] * warpSize + (l + d)
    BY <1>3
  <2>2. QED
    BY <1>2, <2>1, Zenon DEF Lane
<1>6. QED
  BY <1>1, <1>2, <1>4, <1>5

LEMMA FirstLaneZero ==
  ASSUME NEW w \in Warps
  PROVE  FirstLane(w) = Lane(w, 0) /\ 0 \in 0 .. warpSize - 1
<1>1. w[2] * warpSize \in Nat
  BY WarpPair, Sizes
<1>2. QED
  BY <1>1, Sizes DEF FirstLane, Lane

LEMMA LaneNamed ==
  ASSUME NEW w \in Warps, NEW th \in Lanes(w)
  PROVE  \E l \in 0 .. warpSize - 1 : th = Lane(w, l) /\ th[2] % warpSize = l
<1>1. PICK l \in 0 .. warpSize - 1 : th = Lane(w, l)
  BY DEF Lanes, Lane
<1>2. QED
  BY <1>1, LaneFacts

(* Every thread is in one warp. *)
LEMMA WarpsDisjoint ==
  ASSUME NEW w \in Warps, NEW v \in Warps, NEW th \in Lanes(v), th \in Lanes(w)
  PROVE  v = w
<1>1. v[1] = w[1] /\ v[2] = w[2]
  BY LaneOf
<1>2. QED
  BY <1>1, WarpPair

-----------------------------------------------------------------------------
(* Sums. *)

Ones(X) == [i \in Inputs |-> IF i \in X THEN 1 ELSE 0]

(* The inputs of X that fold onto place l when m places are left.          *)
FoldOn(X, pos, l, m) == Ones({i \in X : pos[i] % m = l})

InWarp(w) == {i \in Inputs : Owner[i] = w[1] /\ WarpPos[i] = w[2]}
InBlock(b) == {i \in Inputs : Owner[i] = b}
Visited(th, k) == {i \in Inputs : i % stride = Start(th) /\ i < k}

Offsets == {1, 2, 4, 8, 16}

LEMMA SumTypes ==
  /\ \A X : Ones(X) \in Sums
  /\ \A x, y \in Sums : Plus(x, y) \in Sums
  /\ Garbage \in Sums /\ Nothing \in Sums
  BY DEF Ones, Sums, Plus, Garbage, Nothing

LEMMA Halving ==
  ASSUME NEW o \in Offsets
  PROVE  /\ o \in Nat /\ o > 0 /\ o \div 2 \in Nat /\ o \div 2 <= o
         /\ o \div 2 > 0 => 2 * (o \div 2) = o /\ o \div 2 \in Offsets
         /\ ~(o \div 2 > 0) => o = 1 /\ o \div 2 = 0
  BY DEF Offsets

LEMMA FirstOffset ==
  /\ warpSize \div 2 \in Offsets /\ 2 * (warpSize \div 2) = warpSize
  /\ warpSize \div 2 \in Nat
  BY WarpAssumption DEF Offsets

(* Adding the places l and l + o halves the number of places. *)
LEMMA PlusFold ==
  ASSUME NEW X, X \subseteq Inputs, NEW pos \in [Inputs -> 0 .. 31],
         NEW o \in Offsets, NEW l \in 0 .. o - 1
  PROVE  Plus(FoldOn(X, pos, l, 2 * o), FoldOn(X, pos, l + o, 2 * o)) = FoldOn(X, pos, l, o)
<1>1. ASSUME NEW x \in 0 .. 31
      PROVE  /\ x % o = l <=> x % (2 * o) = l \/ x % (2 * o) = l + o
             /\ l # l + o
  <2>1. CASE o = 1
    BY <2>1
  <2>2. CASE o = 2
    BY <2>2
  <2>3. CASE o = 4
    BY <2>3
  <2>4. CASE o = 8
    BY <2>4
  <2>5. CASE o = 16
    BY <2>5
  <2>6. QED
    BY <2>1, <2>2, <2>3, <2>4, <2>5 DEF Offsets
<1>2. ASSUME NEW i \in Inputs
      PROVE  FoldOn(X, pos, l, 2 * o)[i] + FoldOn(X, pos, l + o, 2 * o)[i]
               = FoldOn(X, pos, l, o)[i]
  <2>1. pos[i] \in 0 .. 31
    OBVIOUS
  <2>2. QED
    BY <1>1, <2>1 DEF FoldOn, Ones
<1>3. QED
  BY <1>2 DEF Plus, FoldOn, Ones

LEMMA LastFold ==
  ASSUME NEW X, X \subseteq Inputs, NEW pos \in [Inputs -> 0 .. 31]
  PROVE  FoldOn(X, pos, 0, 1) = Ones(X)
<1>1. ASSUME NEW i \in Inputs
      PROVE  pos[i] % 1 = 0
  <2>1. pos[i] \in 0 .. 31
    OBVIOUS
  <2>2. QED
    BY <2>1
<1>2. {i \in X : pos[i] % 1 = 0} = X
  BY <1>1
<1>3. QED
  BY <1>2 DEF FoldOn

LEMMA PositionTypes ==
  /\ LanePos \in [Inputs -> 0 .. 31] /\ WarpPos \in [Inputs -> 0 .. 31]
  /\ \A w : InWarp(w) \subseteq Inputs
  /\ \A b : InBlock(b) \subseteq Inputs
<1>1. ASSUME NEW i \in Inputs
      PROVE  LanePos[i] \in 0 .. 31 /\ WarpPos[i] \in 0 .. 31
  <2>1. LanePos[i] \in 0 .. warpSize - 1 /\ WarpPos[i] \in 0 .. numWarps - 1
    BY InputPlace
  <2> DEFINE x == LanePos[i]
             y == WarpPos[i]
  <2>2. x \in 0 .. warpSize - 1 /\ y \in 0 .. numWarps - 1
    BY <2>1
  <2> HIDE DEF x, y
  <2>3. x \in 0 .. 31 /\ y \in 0 .. 31
    BY <2>2, Sizes
  <2>4. QED
    BY <2>3 DEF x, y
<1>2. /\ LanePos = [i \in Inputs |-> LanePos[i]]
      /\ WarpPos = [i \in Inputs |-> WarpPos[i]]
  BY DEF LanePos, WarpPos
<1>3. QED
  BY <1>1, <1>2 DEF InWarp, InBlock

(* What a thread has after the loop is what its warp holds on its lane.    *)
LEMMA LoopFold ==
  ASSUME NEW w \in Warps, NEW l \in 0 .. warpSize - 1, NEW k \in Nat, k >= n
  PROVE  Ones(Visited(Lane(w, l), k)) = FoldOn(InWarp(w), LanePos, l, warpSize)
<1>1. ASSUME NEW i \in Inputs
      PROVE  i \in Visited(Lane(w, l), k) <=> i \in InWarp(w) /\ LanePos[i] % warpSize = l
  <2>1. /\ i < k /\ LanePos[i] % warpSize = LanePos[i]
    <3>1. LanePos[i] \in 0 .. warpSize - 1 /\ i \in Nat /\ i < n
      BY InputPlace, Sizes DEF Inputs
    <3> DEFINE x == LanePos[i]
    <3>2. x \in Nat /\ x = 0 * warpSize + x
      BY <3>1, Sizes
    <3> HIDE DEF x
    <3>3. x % warpSize = x
      BY <3>1, <3>2, Sizes, DivModUnique DEF x
    <3>4. QED
      BY <3>1, <3>3, Sizes DEF x
  <2>2. i % stride = Start(Lane(w, l)) <=> Owner[i] = w[1] /\ Tid(i) = Lane(w, l)[2]
    BY StartUnique, LaneFacts
  <2>3. Tid(i) = Lane(w, l)[2] <=> WarpPos[i] = w[2] /\ LanePos[i] = l
    <3>1. /\ Tid(i) = WarpPos[i] * warpSize + LanePos[i]
          /\ Lane(w, l)[2] = w[2] * warpSize + l
          /\ LanePos[i] = Tid(i) % warpSize /\ WarpPos[i] = Tid(i) \div warpSize
      BY InputPlace DEF Lane, LanePos, WarpPos
    <3>2. QED
      BY <3>1, LaneFacts
  <2>4. QED
    BY <2>1, <2>2, <2>3 DEF Visited, InWarp
<1>2. Visited(Lane(w, l), k) = {i \in InWarp(w) : LanePos[i] % warpSize = l}
  BY <1>1 DEF Visited, InWarp
<1>3. QED
  BY <1>2, Zenon DEF FoldOn

(* What a warp leaves in shared memory is what its block holds there.      *)
LEMMA GatherFold ==
  ASSUME NEW b \in Blocks, NEW l \in 0 .. warpSize - 1
  PROVE  IF l < numWarps THEN Ones(InWarp(<<b, l>>)) = FoldOn(InBlock(b), WarpPos, l, warpSize)
                         ELSE Nothing = FoldOn(InBlock(b), WarpPos, l, warpSize)
<1>1. ASSUME NEW i \in Inputs
      PROVE  WarpPos[i] % warpSize = l <=> WarpPos[i] = l
  <2> DEFINE x == WarpPos[i]
  <2>1. x \in Nat /\ x < warpSize /\ x = 0 * warpSize + x
    BY InputPlace, Sizes
  <2> HIDE DEF x
  <2>2. x % warpSize = x
    BY <2>1, Sizes, DivModUnique
  <2>3. QED
    BY <2>2 DEF x
<1>2. CASE l < numWarps
  <2>1. InWarp(<<b, l>>) = {i \in InBlock(b) : WarpPos[i] % warpSize = l}
    BY <1>1 DEF InWarp, InBlock
  <2>2. QED
    BY <1>2, <2>1 DEF FoldOn
<1>3. CASE ~(l < numWarps)
  <2>1. \A i \in Inputs : WarpPos[i] # l
    BY <1>3, InputPlace, Sizes
  <2>2. {i \in InBlock(b) : WarpPos[i] % warpSize = l} = {}
    BY <1>1, <2>1 DEF InBlock
  <2>3. Ones({}) = Nothing
    BY DEF Ones, Nothing
  <2>4. QED
    BY <1>3, <2>2, <2>3 DEF FoldOn
<1>4. QED
  BY <1>2, <1>3

-----------------------------------------------------------------------------
(* The inductive invariant of the warps. *)

(* A thread in the loop has the inputs of its place up to its index.       *)
Looping(w) ==
  \A l \in 0 .. warpSize - 1 :
    /\ idx[Lane(w, l)] % stride = Start(Lane(w, l))
    /\ val[Lane(w, l)] = Ones(Visited(Lane(w, l), idx[Lane(w, l)]))

(* While a warp exchanges sums, its first lanes hold the inputs of X that  *)
(* fold onto them; the other lanes do not matter any more.                 *)
Exchanging(w, X, pos) ==
  /\ offset[w] \in Offsets /\ 2 * offset[w] <= warpSize
  /\ \A l \in 0 .. 2 * offset[w] - 1 :
       val[Lane(w, l)] = FoldOn(X, pos, l, 2 * offset[w])

Stored(w) == arrived[w] = 1 /\ sdata[w[1]][w[2]] = Ones(InWarp(w))
AllStored(b) == \A v \in Warps : v[1] = b => Stored(v)

AfterBarrier == {"gather", "reduceBlock", "output"}

Position(w) ==
  /\ pc[w] \in {"notLaunched", "loop", "reduceWarp", "store"} => arrived[w] = 0
  /\ pc[w] \in {"notLaunched", "loop"} => Looping(w)
  /\ pc[w] = "reduceWarp" => Exchanging(w, InWarp(w), LanePos)
  /\ pc[w] = "store" => val[Lane(w, 0)] = Ones(InWarp(w))
  /\ pc[w] \in AfterBarrier \cup {"sync", "done"} => Stored(w)
  /\ pc[w] \in AfterBarrier => w[2] = 0 /\ AllStored(w[1])
  /\ pc[w] = "reduceBlock" => Exchanging(w, InBlock(w[1]), WarpPos)
  /\ pc[w] = "output" => val[Lane(w, 0)] = Ones(InBlock(w[1]))

SharedInv ==
  /\ TypeOK
  /\ \A w \in Warps : Position(w)
  /\ hostPc = "launch" => \A w \in Warps : pc[w] = "notLaunched"
  /\ hostPc \in {"launch", "copy"} => hostI = 0
  /\ hostPc = "sum" => hostI < gridDim

-----------------------------------------------------------------------------
(* Steps of the warps. *)

Labels == {"notLaunched", "loop", "reduceWarp", "store", "sync",
           "gather", "reduceBlock", "output", "done"}

(* The labels and counters of a warp that takes a step, and those of the   *)
(* others, which it leaves alone together with their registers and cells.  *)
LEMMA Frame ==
  ASSUME TypeOK, NEW w \in Warps, Step(w), NEW v \in Warps, v # w
  PROVE  /\ pc'[v] = pc[v] /\ offset'[v] = offset[v] /\ arrived'[v] = arrived[v]
         /\ sdata'[v[1]][v[2]] = sdata[v[1]][v[2]]
         /\ \A l \in 0 .. warpSize - 1 :
              val'[Lane(v, l)] = val[Lane(v, l)] /\ idx'[Lane(v, l)] = idx[Lane(v, l)]
<1> USE DEF TypeOK, Goto, StartShuffle
<1>1. ASSUME NEW l \in 0 .. warpSize - 1
      PROVE  Lane(v, l) \in Threads /\ Lane(v, l) \notin Lanes(w) /\ Lane(v, l) \notin Running(w)
  BY LaneFacts, WarpsDisjoint DEF Running
<1>2. v[1] # w[1] \/ v[2] # w[2]
  BY WarpPair
<1>3. v[1] \in Blocks /\ w[1] \in Blocks /\ v[2] \in Tids /\ w[2] \in Tids
  BY WarpPair, WarpInBlock
<1>4. CASE Accumulate(w)
  BY <1>1, <1>4 DEF Accumulate
<1>5. CASE EndLoop(w)
  BY <1>5 DEF EndLoop
<1>6. CASE Shuffle(w)
  BY <1>1, <1>6 DEF Shuffle
<1>7. CASE StoreWarpSum(w)
  BY <1>2, <1>3, <1>7 DEF StoreWarpSum
<1>8. CASE LeaveSync(w)
  BY <1>8 DEF LeaveSync
<1>9. CASE Gather(w)
  BY <1>1, <1>9 DEF Gather
<1>10. CASE Output(w)
  BY <1>10 DEF Output
<1>11. QED
  BY <1>4, <1>5, <1>6, <1>7, <1>8, <1>9, <1>10 DEF Step

(* The exchange: each of the first lanes adds the one offset further on.   *)
LEMMA ExchangeValue ==
  ASSUME TypeOK, NEW w \in Warps, Shuffle(w),
         NEW X, X \subseteq Inputs, NEW pos \in [Inputs -> 0 .. 31],
         Exchanging(w, X, pos)
  PROVE  \A l \in 0 .. offset[w] - 1 : val'[Lane(w, l)] = FoldOn(X, pos, l, offset[w])
<1> DEFINE o == offset[w]
<1>1. o \in Offsets /\ o \in Nat /\ 2 * o <= warpSize
  BY Halving DEF Exchanging
<1>2. SUFFICES ASSUME NEW l \in 0 .. o - 1
               PROVE  val'[Lane(w, l)] = FoldOn(X, pos, l, o)
  OBVIOUS
<1>3. /\ l \in 0 .. 2 * o - 1 /\ l + o \in 0 .. 2 * o - 1
      /\ l \in 0 .. warpSize - 1 /\ l + o < warpSize
  BY <1>1, Sizes
<1>4. /\ val[Lane(w, l)] = FoldOn(X, pos, l, 2 * o)
      /\ val[Lane(w, l + o)] = FoldOn(X, pos, l + o, 2 * o)
  BY <1>3 DEF Exchanging
<1>5. ShflDown(Lane(w, l), o) = val[Lane(w, l + o)]
  BY <1>1, <1>3, LaneFacts DEF ShflDown
<1>6. val'[Lane(w, l)] = Plus(val[Lane(w, l)], ShflDown(Lane(w, l), o))
  BY <1>3, LaneFacts DEF Shuffle
<1>7. Plus(FoldOn(X, pos, l, 2 * o), FoldOn(X, pos, l + o, 2 * o)) = FoldOn(X, pos, l, o)
  BY <1>1, PlusFold
<1>8. QED
  BY <1>4, <1>5, <1>6, <1>7

LEMMA ShuffleTypes ==
  ASSUME TypeOK, NEW w \in Warps, Shuffle(w)
  PROVE  TypeOK'
<1> USE DEF TypeOK, Shuffle, Goto, host
<1>1. offset[w] \in Nat /\ offset[w] \div 2 \in 0 .. warpSize \div 2
  <2> DEFINE h == warpSize \div 2
  <2>1. h \in Nat /\ offset[w] \in 0 .. h
    BY FirstOffset
  <2> HIDE DEF h
  <2>2. offset[w] \in Nat /\ offset[w] \div 2 \in 0 .. h
    BY <2>1
  <2>3. QED
    BY <2>2 DEF h
<1>2. ASSUME NEW th \in Lanes(w)
      PROVE  Plus(val[th], ShflDown(th, offset[w])) \in Sums
  <2>1. PICK l \in 0 .. warpSize - 1 : th = Lane(w, l) /\ th[2] % warpSize = l
    BY LaneNamed
  <2>2. ShflDown(th, offset[w]) \in Sums
    <3>1. CASE l + offset[w] < warpSize
      <4>1. l + offset[w] \in 0 .. warpSize - 1
        BY <1>1, <3>1, Sizes
      <4>2. Lane(w, l + offset[w]) \in Threads
        BY <4>1, LaneFacts
      <4>3. QED
        BY ZenonT(60), <1>1, <2>1, <3>1, <4>2, LaneFacts DEF ShflDown
    <3>2. CASE ~(l + offset[w] < warpSize)
      BY <2>1, <3>2, LaneFacts DEF ShflDown
    <3>3. QED
      BY <3>1, <3>2
  <2>3. QED
    BY <2>1, <2>2, LaneFacts, SumTypes
<1>3. val' \in [Threads -> Sums]
  BY <1>2
<1>4. offset' \in [Warps -> 0 .. warpSize \div 2]
  BY <1>1
<1>5. pc' \in [Warps -> Labels]
  BY DEF Labels
<1>6. QED
  BY <1>3, <1>4, <1>5 DEF Labels

LEMMA ShuffleStep ==
  ASSUME SharedInv, NEW w \in Warps, Shuffle(w)
  PROVE  TypeOK' /\ Position(w)'
<1> DEFINE o == offset[w]
<1>1. TypeOK /\ Position(w) /\ pc[w] \in {"reduceWarp", "reduceBlock"}
  BY DEF SharedInv, Shuffle
<1>2. TypeOK'
  BY <1>1, ShuffleTypes
<1>3. /\ sdata' = sdata /\ arrived' = arrived /\ offset'[w] = o \div 2
      /\ pc'[w] = IF o \div 2 > 0 THEN pc[w]
                  ELSE IF pc[w] = "reduceWarp" THEN "store" ELSE "output"
  BY <1>1 DEF Shuffle, Goto, TypeOK
<1>4. ASSUME NEW X, X \subseteq Inputs, NEW pos \in [Inputs -> 0 .. 31],
             Exchanging(w, X, pos)
      PROVE  /\ o \div 2 > 0 => Exchanging(w, X, pos)'
             /\ ~(o \div 2 > 0) => val'[Lane(w, 0)] = Ones(X)
  <2>1. \A l \in 0 .. o - 1 : val'[Lane(w, l)] = FoldOn(X, pos, l, o)
    BY <1>1, <1>4, ExchangeValue
  <2>2. o \in Offsets /\ 2 * o <= warpSize
    BY <1>4 DEF Exchanging
  <2>3. CASE o \div 2 > 0
    <3>1. 2 * (o \div 2) = o /\ o \div 2 \in Offsets /\ o \in Nat /\ o <= warpSize
      BY <2>2, <2>3, Halving, Sizes
    <3>2. offset'[w] \in Offsets /\ 2 * offset'[w] = o
      BY <1>3, <3>1
    <3>3. \A l \in 0 .. 2 * offset'[w] - 1 :
            val'[Lane(w, l)] = FoldOn(X, pos, l, 2 * offset'[w])
      BY <2>1, <3>2
    <3>4. QED
      BY <2>3, <3>1, <3>2, <3>3 DEF Exchanging
  <2>4. CASE ~(o \div 2 > 0)
    <3>1. o = 1
      BY <2>2, <2>4, Halving
    <3>2. QED
      BY <1>4, <2>1, <2>4, <3>1, LastFold
  <2>5. QED
    BY <2>3, <2>4
<1>5. CASE pc[w] = "reduceWarp"
  <2>1. Exchanging(w, InWarp(w), LanePos) /\ arrived[w] = 0
    BY <1>1, <1>5 DEF Position
  <2>2. /\ o \div 2 > 0 => Exchanging(w, InWarp(w), LanePos)'
        /\ ~(o \div 2 > 0) => val'[Lane(w, 0)] = Ones(InWarp(w))
    BY <1>4, <2>1, PositionTypes
  <2>3. QED
    BY <1>2, <1>3, <1>5, <2>1, <2>2 DEF Position, AfterBarrier, Lane, Ones, InWarp
<1>6. CASE pc[w] = "reduceBlock"
  <2>1. /\ Exchanging(w, InBlock(w[1]), WarpPos)
        /\ Stored(w) /\ w[2] = 0 /\ AllStored(w[1])
    BY <1>1, <1>6 DEF Position, AfterBarrier
  <2>2. /\ o \div 2 > 0 => Exchanging(w, InBlock(w[1]), WarpPos)'
        /\ ~(o \div 2 > 0) => val'[Lane(w, 0)] = Ones(InBlock(w[1]))
    BY <1>4, <2>1, PositionTypes
  <2>3. Stored(w)' /\ AllStored(w[1])'
    BY <1>3, <2>1 DEF Stored, AllStored, Ones, InWarp
  <2>4. QED
    BY <1>2, <1>3, <1>6, <2>1, <2>2, <2>3 DEF Position, AfterBarrier, Lane, Ones, InBlock
<1>7. QED
  BY <1>1, <1>5, <1>6

LEMMA LoopStep ==
  ASSUME SharedInv, NEW w \in Warps, Accumulate(w)
  PROVE  TypeOK' /\ Position(w)'
<1> USE DEF SharedInv
<1>1. TypeOK /\ Looping(w) /\ pc[w] = "loop" /\ arrived[w] = 0
  BY DEF Position, Accumulate
<1>2. ASSUME NEW l \in 0 .. warpSize - 1
      PROVE  LET th == Lane(w, l)
             IN  /\ idx'[th] \in 0 .. n - 1 + stride /\ val'[th] \in Sums
                 /\ idx'[th] % stride = Start(th)
                 /\ val'[th] = Ones(Visited(th, idx'[th]))
  <2> DEFINE th == Lane(w, l)
             j == idx[th]
  <2>1. /\ th \in Threads /\ th \in Lanes(w) /\ j \in Nat /\ j <= n - 1 + stride
        /\ j % stride = Start(th) /\ val[th] = Ones(Visited(th, j))
    BY <1>1, LaneFacts, Sizes DEF TypeOK, Looping
  <2>2. CASE th \in Running(w)
    <3>1. j < n /\ j \in Inputs
      BY <2>1, <2>2, Sizes DEF Running, Inputs
    <3>2. idx'[th] = j + stride /\ val'[th] = Plus(Ones(Visited(th, j)), Input(j))
      BY <1>1, <2>1, <2>2 DEF Accumulate, TypeOK
    <3>3. /\ (j + stride) % stride = j % stride
          /\ \A i \in Nat : i % stride = j % stride /\ j <= i /\ i < j + stride => i = j
      BY <2>1, Sizes, NextInStride
    <3>4. ASSUME NEW i \in Inputs
          PROVE  /\ i \in Visited(th, j + stride) <=> i \in Visited(th, j) \/ i = j
                 /\ i = j => i \notin Visited(th, j)
      <4>1. i \in Nat /\ j + stride > j /\ stride \in Nat /\ j \in Nat
        BY <2>1, Sizes DEF Inputs
      <4> HIDE DEF j
      <4>2. i % stride = Start(th) /\ i < j + stride => i < j \/ i = j
        BY <2>1, <3>3, <4>1
      <4>3. QED
        BY <2>1, <4>1, <4>2 DEF Visited
    <3>5. Plus(Ones(Visited(th, j)), Input(j)) = Ones(Visited(th, j + stride))
      <4>1. ASSUME NEW i \in Inputs
            PROVE  Ones(Visited(th, j))[i] + Input(j)[i] = Ones(Visited(th, j + stride))[i]
        BY <3>1, <3>4 DEF Ones, Input
      <4>2. QED
        BY <4>1 DEF Plus, Ones
    <3>6. idx'[th] \in 0 .. n - 1 + stride
      BY <2>1, <3>1, <3>2, Sizes
    <3>7. val'[th] = Ones(Visited(th, idx'[th])) /\ idx'[th] % stride = Start(th)
      BY <2>1, <3>2, <3>3, <3>5
    <3>8. QED
      BY <3>6, <3>7, SumTypes
  <2>3. CASE th \notin Running(w)
    <3>1. idx'[th] = j /\ val'[th] = val[th]
      BY <1>1, <2>1, <2>3 DEF Accumulate, TypeOK
    <3>2. QED
      BY <1>1, <2>1, <3>1 DEF TypeOK
  <2>4. QED
    BY <2>2, <2>3
<1>3. TypeOK'
  <2>1. ASSUME NEW th \in Threads
        PROVE  idx'[th] \in 0 .. n - 1 + stride /\ val'[th] \in Sums
    <3>1. CASE th \in Lanes(w)
      BY <1>2, <3>1, LaneNamed
    <3>2. CASE th \notin Lanes(w)
      BY <1>1, <3>2 DEF Accumulate, Running, TypeOK
    <3>3. QED
      BY <3>1, <3>2
  <2>2. /\ idx' = [th \in Threads |-> idx'[th]] /\ val' = [th \in Threads |-> val'[th]]
    BY DEF Accumulate
  <2>3. idx' \in [Threads -> 0 .. n - 1 + stride] /\ val' \in [Threads -> Sums]
    BY <2>1, <2>2
  <2>4. QED
    BY <1>1, <2>3 DEF Accumulate, TypeOK, host
<1>4. Looping(w)'
  BY <1>2 DEF Looping, Lane, Start, Visited, Ones
<1>5. pc'[w] = "loop" /\ arrived'[w] = 0
  BY <1>1 DEF Accumulate
<1>6. QED
  BY <1>3, <1>4, <1>5 DEF Position, AfterBarrier

LEMMA EndLoopStep ==
  ASSUME SharedInv, NEW w \in Warps, EndLoop(w)
  PROVE  TypeOK' /\ Position(w)'
<1> USE DEF SharedInv, EndLoop, StartShuffle, Goto
<1>1. TypeOK /\ Looping(w) /\ arrived[w] = 0
  BY DEF Position
<1>2. TypeOK'
  <2>1. warpSize \div 2 \in 0 .. warpSize \div 2
    BY FirstOffset
  <2>2. QED
    BY <2>1 DEF TypeOK, host
<1>3. ASSUME NEW l \in 0 .. warpSize - 1
      PROVE  val[Lane(w, l)] = FoldOn(InWarp(w), LanePos, l, warpSize)
  <2>1. Lane(w, l) \notin Running(w) /\ Lane(w, l) \in Lanes(w) /\ Lane(w, l) \in Threads
    BY LaneFacts
  <2>2. idx[Lane(w, l)] \in Nat /\ idx[Lane(w, l)] >= n
    BY <1>1, <2>1, Sizes DEF Running, TypeOK
  <2>3. QED
    BY <1>1, <2>2, LoopFold DEF Looping
<1>4. offset'[w] \in Offsets /\ 2 * offset'[w] = warpSize
  BY <1>1, FirstOffset DEF TypeOK
<1>5. \A l \in 0 .. 2 * offset'[w] - 1 :
        val'[Lane(w, l)] = FoldOn(InWarp(w), LanePos, l, 2 * offset'[w])
  BY <1>3, <1>4
<1>6. Exchanging(w, InWarp(w), LanePos)'
  BY <1>4, <1>5, Sizes DEF Exchanging
<1>7. pc'[w] = "reduceWarp" /\ arrived'[w] = 0
  BY <1>1 DEF TypeOK
<1>8. QED
  BY <1>2, <1>6, <1>7 DEF Position, AfterBarrier

LEMMA StoreStep ==
  ASSUME SharedInv, NEW w \in Warps, StoreWarpSum(w)
  PROVE  TypeOK' /\ Position(w)'
<1> USE DEF SharedInv, StoreWarpSum, Goto
<1>1. /\ TypeOK /\ arrived[w] = 0 /\ val[FirstLane(w)] = Ones(InWarp(w))
      /\ w[1] \in Blocks /\ w[2] \in Tids
  BY FirstLaneZero, WarpPair, WarpInBlock DEF Position
<1>2. TypeOK'
  BY <1>1, SumTypes DEF TypeOK, host
<1>3. Stored(w)' /\ pc'[w] = "sync"
  BY <1>1 DEF Stored, TypeOK
<1>4. QED
  BY <1>2, <1>3 DEF Position, AfterBarrier

(* The barrier lets a warp through when all warps of its block have stored *)
(* their sums.                                                             *)
LEMMA LeaveStep ==
  ASSUME SharedInv, NEW w \in Warps, LeaveSync(w)
  PROVE  TypeOK' /\ Position(w)'
<1> USE DEF SharedInv, LeaveSync, Goto
<1>1. TypeOK /\ Stored(w)
  BY DEF Position
<1>2. TypeOK'
  BY DEF TypeOK, host
<1>3. AllStored(w[1])
  <2>1. ASSUME NEW v \in Warps, v[1] = w[1]
        PROVE  Stored(v)
    <3>1. arrived[v] >= 1 /\ Position(v)
      BY <1>1, <2>1 DEF Released, Stored
    <3>2. arrived[v] # 0 /\ pc[v] \in Labels
      BY <1>1, <3>1 DEF TypeOK, Labels
    <3>3. QED
      BY <3>1, <3>2 DEF Position, AfterBarrier, Labels
  <2>2. QED
    BY <2>1 DEF AllStored
<1>4. AllStored(w[1])' /\ Stored(w)'
  BY <1>1, <1>3 DEF AllStored, Stored
<1>5. (pc'[w] = "gather" /\ w[2] = 0) \/ pc'[w] = "done"
  BY <1>1 DEF TypeOK
<1>6. QED
  BY <1>2, <1>4, <1>5 DEF Position, AfterBarrier

LEMMA GatherStep ==
  ASSUME SharedInv, NEW w \in Warps, Gather(w)
  PROVE  TypeOK' /\ Position(w)'
<1> USE DEF SharedInv, Gather, StartShuffle, Goto
<1>1. TypeOK /\ Stored(w) /\ w[2] = 0 /\ AllStored(w[1]) /\ w[1] \in Blocks
  BY WarpPair DEF Position, AfterBarrier
<1>2. ASSUME NEW l \in 0 .. warpSize - 1
      PROVE  val'[Lane(w, l)] = FoldOn(InBlock(w[1]), WarpPos, l, warpSize)
  <2>1. /\ Lane(w, l) \in Threads /\ Lane(w, l) \in Lanes(w)
        /\ Lane(w, l)[1] = w[1] /\ Lane(w, l)[2] = l
    BY <1>1, LaneFacts, Sizes DEF Lane
  <2>2. CASE l < numWarps
    <3>1. <<w[1], l>> \in Warps
      BY <1>1, <2>2, Sizes DEF Warps
    <3>2. sdata[w[1]][l] = Ones(InWarp(<<w[1], l>>))
      BY <1>1, <3>1 DEF AllStored, Stored
    <3>3. val'[Lane(w, l)] = sdata[w[1]][l]
      BY <2>1, <2>2, Sizes
    <3>4. QED
      BY <1>1, <2>2, <3>2, <3>3, GatherFold
  <2>3. CASE ~(l < numWarps)
    <3>1. val'[Lane(w, l)] = Nothing
      BY <2>1, <2>3, Sizes
    <3>2. QED
      BY <1>1, <2>3, <3>1, GatherFold
  <2>4. QED
    BY <2>2, <2>3
<1>3. TypeOK'
  <2>1. ASSUME NEW th \in Threads
        PROVE  val'[th] \in Sums
    <3>1. CASE th \in Lanes(w)
      <4>1. PICK l \in 0 .. warpSize - 1 : th = Lane(w, l)
        BY <3>1, LaneNamed
      <4>2. val'[th] = FoldOn(InBlock(w[1]), WarpPos, l, warpSize)
        BY <1>2, <4>1
      <4>3. QED
        BY <4>2, SumTypes DEF FoldOn
    <3>2. CASE th \notin Lanes(w)
      BY <1>1, <3>2 DEF TypeOK
    <3>3. QED
      BY <3>1, <3>2
  <2>2. warpSize \div 2 \in 0 .. warpSize \div 2
    BY FirstOffset
  <2>3. val' \in [Threads -> Sums]
    BY <2>1
  <2>4. QED
    BY <1>1, <2>2, <2>3 DEF TypeOK, host
<1>4. offset'[w] \in Offsets /\ 2 * offset'[w] = warpSize
  BY <1>1, FirstOffset DEF TypeOK
<1>5. \A l \in 0 .. 2 * offset'[w] - 1 :
        val'[Lane(w, l)] = FoldOn(InBlock(w[1]), WarpPos, l, 2 * offset'[w])
  BY <1>2, <1>4
<1>6. Exchanging(w, InBlock(w[1]), WarpPos)'
  BY <1>4, <1>5, Sizes DEF Exchanging
<1>7. Stored(w)' /\ AllStored(w[1])' /\ pc'[w] = "reduceBlock"
  BY <1>1 DEF TypeOK, Stored, AllStored
<1>8. QED
  BY <1>1, <1>3, <1>6, <1>7 DEF Position, AfterBarrier

LEMMA OutputStep ==
  ASSUME SharedInv, NEW w \in Warps, Output(w)
  PROVE  TypeOK' /\ Position(w)'
<1> USE DEF SharedInv, Output, Goto
<1>1. TypeOK /\ Stored(w) /\ w[1] \in Blocks
  BY WarpPair DEF Position, AfterBarrier
<1>2. val[FirstLane(w)] \in Sums
  BY <1>1, FirstLaneZero, LaneFacts DEF TypeOK
<1>3. TypeOK'
  BY <1>1, <1>2 DEF TypeOK, host
<1>4. Stored(w)' /\ pc'[w] = "done"
  BY <1>1 DEF Stored, TypeOK
<1>5. QED
  BY <1>3, <1>4 DEF Position, AfterBarrier

LEMMA OwnStep ==
  ASSUME SharedInv, NEW w \in Warps, Step(w)
  PROVE  TypeOK' /\ Position(w)'
  BY LoopStep, EndLoopStep, ShuffleStep, StoreStep, LeaveStep, GatherStep, OutputStep
     DEF Step

(* What a warp has stored stays: it does so once, before the barrier.      *)
LEMMA StoredStays ==
  ASSUME SharedInv, NEW w \in Warps, Step(w), NEW v \in Warps, Stored(v)
  PROVE  Stored(v)'
<1>1. CASE v # w
  BY <1>1, Frame DEF SharedInv, Stored
<1>2. CASE v = w
  <2>1. pc[w] # "store"
    BY <1>2 DEF SharedInv, Position, Stored
  <2>2. arrived' = arrived /\ sdata' = sdata
    BY <2>1 DEF Step, Accumulate, EndLoop, Shuffle, StoreWarpSum, LeaveSync, Gather, Output
  <2>3. QED
    BY <2>2 DEF Stored
<1>3. QED
  BY <1>1, <1>2

LEMMA StepShared ==
  ASSUME SharedInv, NEW w \in Warps, Step(w)
  PROVE  SharedInv'
<1>1. TypeOK' /\ Position(w)'
  BY OwnStep
<1>2. ASSUME NEW v \in Warps, v # w
      PROVE  Position(v)'
  <2>1. /\ pc'[v] = pc[v] /\ offset'[v] = offset[v] /\ arrived'[v] = arrived[v]
        /\ sdata'[v[1]][v[2]] = sdata[v[1]][v[2]]
        /\ \A l \in 0 .. warpSize - 1 :
             val'[Lane(v, l)] = val[Lane(v, l)] /\ idx'[Lane(v, l)] = idx[Lane(v, l)]
    BY <1>2, Frame DEF SharedInv
  <2>2. Position(v)
    BY DEF SharedInv
  <2>3. Looping(v) => Looping(v)'
    BY <2>1 DEF Looping
  <2>4. ASSUME NEW X, NEW pos, Exchanging(v, X, pos)
        PROVE  Exchanging(v, X, pos)'
    <3>1. offset[v] \in Nat /\ 2 * offset[v] <= warpSize
      BY <2>4, Halving DEF Exchanging
    <3>2. QED
      BY <2>1, <2>4, <3>1, Sizes DEF Exchanging
  <2>5. Stored(v) => Stored(v)'
    BY StoredStays
  <2>6. AllStored(v[1]) => AllStored(v[1])'
    BY StoredStays DEF AllStored
  <2>7. val'[Lane(v, 0)] = val[Lane(v, 0)]
    BY <2>1, FirstLaneZero
  <2>8. QED
    BY <2>1, <2>2, <2>3, <2>4, <2>5, <2>6, <2>7 DEF Position
<1>3. hostPc' = hostPc /\ hostI' = hostI /\ pc[w] # "notLaunched"
  BY DEF Step, Accumulate, EndLoop, Shuffle, StoreWarpSum, LeaveSync, Gather, Output, host
<1>4. QED
  BY <1>1, <1>2, <1>3 DEF SharedInv

-----------------------------------------------------------------------------
(* The beginning, and the host. *)

LEMMA InitShared == Init => SharedInv
<1> SUFFICES ASSUME Init
             PROVE  SharedInv
  OBVIOUS
<1>1. ASSUME NEW th \in Threads
      PROVE  /\ idx[th] \in 0 .. n - 1 + stride /\ idx[th] % stride = Start(th)
             /\ val[th] = Ones(Visited(th, idx[th]))
  <2>1. idx[th] = Start(th) /\ Start(th) \in 0 .. stride - 1
    BY StartPlace DEF Init, Start
  <2> DEFINE j == Start(th)
  <2>2. j \in 0 .. stride - 1
    BY <2>1
  <2> HIDE DEF j
  <2>3. j = 0 * stride + j /\ j \in Nat /\ j \in 0 .. n - 1 + stride
    BY <2>2, Sizes
  <2>4. j % stride = j
    BY <2>2, <2>3, Sizes, DivModUnique
  <2>5. ASSUME NEW i \in Inputs, i % stride = j, i < j
        PROVE  FALSE
    <3>1. i \in Nat /\ j < i + stride /\ i <= j
      BY <2>3, <2>5, <2>2, Sizes DEF Inputs
    <3>2. j = i
      BY <2>3, <2>4, <2>5, <3>1, Sizes, NextInStride
    <3>3. QED
      BY <2>5, <3>1, <3>2
  <2>6. Visited(th, j) = {}
    BY <2>5 DEF Visited, j
  <2>7. val[th] = Ones({})
    BY DEF Init, Ones, Nothing
  <2>8. QED
    BY <2>1, <2>3, <2>4, <2>6, <2>7 DEF j
<1>2. TypeOK
  <2>1. idx \in [Threads -> 0 .. n - 1 + stride]
    BY <1>1 DEF Init
  <2>2. 0 \in 0 .. warpSize \div 2 /\ 0 \in 0 .. gridDim
    BY FirstOffset, Sizes
  <2>3. QED
    BY <2>1, <2>2, SumTypes DEF Init, TypeOK
<1>3. ASSUME NEW w \in Warps
      PROVE  Position(w)
  <2>1. Looping(w)
    BY <1>1, LaneFacts DEF Looping
  <2>2. pc[w] = "notLaunched" /\ arrived[w] = 0
    BY DEF Init
  <2>3. QED
    BY <2>1, <2>2 DEF Position, AfterBarrier
<1>4. QED
  BY <1>2, <1>3 DEF Init, SharedInv

LEMMA LaunchShared ==
  ASSUME SharedInv, Launch
  PROVE  SharedInv'
<1> USE DEF SharedInv, Launch
<1>1. TypeOK' /\ hostPc' = "copy"
  BY DEF TypeOK
<1>2. ASSUME NEW w \in Warps
      PROVE  Position(w)'
  <2>1. pc'[w] = "loop" /\ arrived'[w] = 0 /\ Looping(w)
    BY DEF Position
  <2>2. Looping(w)'
    BY <2>1 DEF Looping
  <2>3. QED
    BY <2>1, <2>2 DEF Position, AfterBarrier
<1>3. QED
  BY <1>1, <1>2

(* The host's copies and additions change nothing on the device. *)
LEMMA DeviceUnchanged ==
  ASSUME NEW w \in Warps, Position(w), UNCHANGED device
  PROVE  Position(w)'
<1> USE DEF device
<1>1. Looping(w) => Looping(w)'
  BY DEF Looping
<1>2. ASSUME NEW X, NEW pos, Exchanging(w, X, pos)
      PROVE  Exchanging(w, X, pos)'
  BY <1>2 DEF Exchanging
<1>3. (Stored(w) => Stored(w)') /\ (AllStored(w[1]) => AllStored(w[1])')
  BY DEF Stored, AllStored
<1>4. QED
  BY <1>1, <1>2, <1>3 DEF Position

LEMMA HostShared ==
  ASSUME SharedInv, CopyBack \/ HostAdd
  PROVE  SharedInv'
<1> USE DEF SharedInv
<1>1. \A w \in Warps : Position(w)'
  BY DeviceUnchanged DEF CopyBack, HostAdd
<1>2. CASE CopyBack
  BY <1>1, <1>2, Sizes DEF CopyBack, device, TypeOK
<1>3. CASE HostAdd
  <2>1. hostI \in Blocks /\ hostI + 1 \in 0 .. gridDim
    BY <1>3, Sizes DEF HostAdd, TypeOK, Blocks
  <2>2. TypeOK'
    BY <1>3, <2>1, SumTypes DEF HostAdd, device, TypeOK
  <2>3. QED
    BY <1>1, <1>3, <2>2 DEF HostAdd
<1>4. QED
  BY <1>2, <1>3

LEMMA NextShared == SharedInv /\ [Next]_vars => SharedInv'
<1> SUFFICES ASSUME SharedInv, [Next]_vars
             PROVE  SharedInv'
  OBVIOUS
<1>1. CASE Host
  BY <1>1, LaunchShared, HostShared DEF Host
<1>2. ASSUME NEW w \in Warps, Step(w)
      PROVE  SharedInv'
  BY <1>2, StepShared
<1>3. CASE UNCHANGED vars
  BY <1>3, DeviceUnchanged DEF vars, device, host, SharedInv, TypeOK
<1>4. QED
  BY <1>1, <1>2, <1>3 DEF Next

THEOREM SharedInvariant == Spec => []SharedInv
<1>1. Init => SharedInv
  BY InitShared
<1>2. SharedInv /\ [Next]_vars => SharedInv'
  BY NextShared
<1>3. QED
  BY <1>1, <1>2, PTL DEF Spec

(* The variables keep their types: no index passes the end of the array by *)
(* more than one stride, and no offset exceeds half a warp.                *)
THEOREM TypeCorrect == Spec => []TypeOK
<1>1. SharedInv => TypeOK
  BY DEF SharedInv
<1>2. QED
  BY <1>1, SharedInvariant, PTL

(* The share of a warp, by the places of its threads. *)
LEMMA ShareOfWarp ==
  ASSUME NEW w \in Warps
  PROVE  WarpShare(w) = Ones(InWarp(w))
<1>1. ASSUME NEW i \in Inputs
      PROVE  i % stride \in {th[1] * BLOCK_SIZE + th[2] : th \in Lanes(w)} <=> i \in InWarp(w)
  <2>1. ASSUME NEW th \in Lanes(w), i % stride = th[1] * BLOCK_SIZE + th[2]
        PROVE  i \in InWarp(w)
    <3>1. th \in Threads /\ th[1] = w[1] /\ th[2] \div warpSize = w[2]
      BY LaneOf
    <3>2. Owner[i] = th[1] /\ Tid(i) = th[2]
      BY <2>1, <3>1, StartUnique DEF Start
    <3>3. WarpPos[i] = Tid(i) \div warpSize
      BY DEF WarpPos
    <3>4. QED
      BY <3>1, <3>2, <3>3 DEF InWarp
  <2>2. ASSUME i \in InWarp(w)
        PROVE  \E th \in Lanes(w) : i % stride = th[1] * BLOCK_SIZE + th[2]
    <3> DEFINE th == <<Owner[i], Tid(i)>>
    <3>1. Owner[i] \in Blocks /\ Tid(i) \in Tids
          /\ i % stride = Owner[i] * BLOCK_SIZE + Tid(i)
      BY InputPlace
    <3>2. th \in Threads /\ th[1] = Owner[i] /\ th[2] = Tid(i)
      BY <3>1, ThreadPair
    <3> HIDE DEF th
    <3>3. th[1] = w[1] /\ th[2] \div warpSize = w[2]
      BY <2>2, <3>2 DEF InWarp, WarpPos
    <3>4. th \in Lanes(w)
      BY <3>2, <3>3, LaneOf
    <3>5. QED
      BY <3>1, <3>2, <3>4
  <2>3. QED
    BY <2>1, <2>2
<1>2. QED
  BY <1>1 DEF WarpShare, Ones

(* For every block size and any number of inputs, lane 0 of a warp ends    *)
(* the exchange with every input of the warp, once.                        *)
THEOREM WarpSumsComplete == Spec => []WarpSumComplete
<1>1. SharedInv => WarpSumComplete
  BY ShareOfWarp, FirstLaneZero DEF SharedInv, Position, WarpSumComplete
<1>2. QED
  BY <1>1, SharedInvariant, PTL

(* The first warp of a block never reads a sum that is not there yet.      *)
THEOREM SumsReady == Spec => []BlockSumsReady
<1>1. SharedInv => BlockSumsReady
  <2> SUFFICES ASSUME SharedInv, NEW w \in Warps, pc[w] = "gather",
                      NEW j \in 0 .. numWarps - 1
               PROVE  sdata[w[1]][j] = WarpShare(<<w[1], j>>)
    BY DEF BlockSumsReady
  <2>1. <<w[1], j>> \in Warps
    BY WarpPair DEF Warps
  <2>2. AllStored(w[1])
    BY DEF SharedInv, Position, AfterBarrier
  <2>3. QED
    BY <2>1, <2>2, ShareOfWarp DEF AllStored, Stored
<1>2. QED
  BY <1>1, SharedInvariant, PTL

-----------------------------------------------------------------------------
(* The result. *)

(* The blocks whose sum the host has added so far. *)
AddedUpTo(k) == [i \in Inputs |-> IF Owner[i] < k THEN 1 ELSE 0]

ResultInv ==
  /\ SharedInv
  /\ \A b \in Blocks :
       partial[b] = IF pc[<<b, 0>>] = "done" THEN Red!BlockSum(b) ELSE Garbage
  /\ hostPc \in {"sum", "done"} => KernelDone /\ h_partial = partial
  /\ final_sum = AddedUpTo(hostI)
  /\ hostPc = "done" => hostI = gridDim

LEMMA FirstWarp == \A b \in Blocks : <<b, 0>> \in Warps
  BY Sizes DEF Warps

LEMMA SumOfBlock == \A b \in Blocks : Ones(InBlock(b)) = Red!BlockSum(b)
  BY DEF Ones, InBlock, Red!BlockSum

(* A sum that has been stored is not the garbage that was there before.    *)
LEMMA BlockSumIsSet == \A b \in Blocks : Red!BlockSum(b) # Garbage
<1>1. 0 \in Inputs
  BY Sizes DEF Inputs
<1>2. QED
  BY <1>1 DEF Red!BlockSum, Garbage

LEMMA OwnerType == \A i \in Inputs : Owner[i] \in Blocks /\ Owner[i] \in Nat
  BY InputPlace, Sizes DEF Blocks

(* A warp in the middle of the kernel changes partial only by storing the  *)
(* sum of its block where nothing was stored before.                       *)
LEMMA OutputValue ==
  ASSUME ResultInv, NEW w \in Warps, Step(w)
  PROVE  /\ hostPc \notin {"sum", "done"}
         /\ \/ /\ pc[<<w[1], 0>>] = "output" /\ w = <<w[1], 0>>
               /\ pc'[w] = "done"
               /\ partial' = [partial EXCEPT ![w[1]] = Red!BlockSum(w[1])]
            \/ /\ partial' = partial
               /\ \A b \in Blocks : pc'[<<b, 0>>] = "done" <=> pc[<<b, 0>>] = "done"
<1> USE DEF ResultInv, SharedInv
<1>1. pc[w] # "done"
  BY DEF Step, Accumulate, EndLoop, Shuffle, StoreWarpSum, LeaveSync, Gather, Output
<1>2. hostPc \notin {"sum", "done"}
  BY <1>1 DEF KernelDone
<1>3. CASE Output(w)
  <2>1. w[2] = 0 /\ val[Lane(w, 0)] = Ones(InBlock(w[1])) /\ w[1] \in Blocks
        /\ w = <<w[1], 0>>
    BY <1>3, WarpPair DEF Output, Position, AfterBarrier
  <2>2. val[FirstLane(w)] = Red!BlockSum(w[1])
    BY <2>1, FirstLaneZero, SumOfBlock
  <2>3. pc[w] = "output" /\ pc'[w] = "done"
    BY <1>3 DEF Output, Goto, TypeOK
  <2>4. QED
    BY <1>2, <1>3, <2>1, <2>2, <2>3 DEF Output
<1>4. CASE ~Output(w)
  <2>1. partial' = partial
    BY <1>4 DEF Step, Accumulate, EndLoop, Shuffle, StoreWarpSum, LeaveSync, Gather
  <2>2. pc'[w] # "done" \/ w[2] # 0
    BY <1>1, <1>4 DEF Step, Accumulate, EndLoop, Shuffle, StoreWarpSum, LeaveSync, Gather,
                      Goto, TypeOK
  <2>3. ASSUME NEW b \in Blocks
        PROVE  pc'[<<b, 0>>] = "done" <=> pc[<<b, 0>>] = "done"
    <3>1. CASE w = <<b, 0>>
      BY <1>1, <2>2, <3>1
    <3>2. CASE w # <<b, 0>>
      BY <3>2, FirstWarp, Frame
    <3>3. QED
      BY <3>1, <3>2
  <2>4. QED
    BY <1>2, <2>1, <2>3
<1>5. QED
  BY <1>3, <1>4

(* Adding the next partial sum. *)
LEMMA AddValue ==
  ASSUME ResultInv, HostAdd
  PROVE  final_sum' = AddedUpTo(hostI + 1)
<1> USE DEF ResultInv, SharedInv, HostAdd
<1>1. hostI \in Blocks /\ hostI \in Nat
  BY Sizes DEF TypeOK, Blocks
<1>2. h_partial[hostI] = Red!BlockSum(hostI)
  BY <1>1, FirstWarp DEF KernelDone
<1>3. ASSUME NEW i \in Inputs
      PROVE  AddedUpTo(hostI)[i] + Red!BlockSum(hostI)[i] = AddedUpTo(hostI + 1)[i]
  BY <1>1, OwnerType DEF AddedUpTo, Red!BlockSum
<1>4. Plus(AddedUpTo(hostI), Red!BlockSum(hostI)) = AddedUpTo(hostI + 1)
  BY <1>3 DEF Plus, AddedUpTo
<1>5. QED
  BY <1>2, <1>4

LEMMA InitResult == Init => ResultInv
<1> SUFFICES ASSUME Init
             PROVE  ResultInv
  OBVIOUS
<1>1. SharedInv
  BY InitShared
<1>2. final_sum = AddedUpTo(hostI)
  BY OwnerType DEF Init, Nothing, AddedUpTo
<1>3. \A b \in Blocks : partial[b] = Garbage /\ pc[<<b, 0>>] # "done"
  BY FirstWarp DEF Init
<1>4. QED
  BY <1>1, <1>2, <1>3 DEF Init, ResultInv

LEMMA NextResult == ResultInv /\ [Next]_vars => ResultInv'
<1> SUFFICES ASSUME ResultInv, [Next]_vars
             PROVE  ResultInv'
  OBVIOUS
<1> USE DEF ResultInv
<1>1. SharedInv'
  BY NextShared
<1>2. ASSUME NEW w \in Warps, Step(w)
      PROVE  ResultInv'
  <2>1. hostPc' = hostPc /\ hostI' = hostI /\ final_sum' = final_sum
    BY <1>2 DEF Step, Accumulate, EndLoop, Shuffle, StoreWarpSum, LeaveSync, Gather,
                Output, host
  <2>2. \A b \in Blocks :
          partial'[b] = IF pc'[<<b, 0>>] = "done" THEN Red!BlockSum(b) ELSE Garbage
    <3>1. \A b \in Blocks : b # w[1] => pc'[<<b, 0>>] = pc[<<b, 0>>]
      BY <1>2, Frame, FirstWarp, WarpPair DEF SharedInv
    <3>2. CASE /\ partial' = partial
               /\ \A b \in Blocks : pc'[<<b, 0>>] = "done" <=> pc[<<b, 0>>] = "done"
      BY <3>2
    <3>3. CASE /\ pc'[<<w[1], 0>>] = "done"
               /\ partial' = [partial EXCEPT ![w[1]] = Red!BlockSum(w[1])]
      BY <3>1, <3>3 DEF SharedInv, TypeOK
    <3>4. QED
      BY <1>2, <3>2, <3>3, OutputValue
  <2>3. QED
    BY <1>1, <1>2, <2>1, <2>2, OutputValue DEF AddedUpTo, Red!BlockSum, Garbage
<1>3. CASE Launch
  <2>1. \A b \in Blocks : pc'[<<b, 0>>] = "loop" /\ pc[<<b, 0>>] = "notLaunched"
    BY <1>3, FirstWarp DEF Launch, SharedInv
  <2>2. QED
    BY <1>1, <1>3, <2>1 DEF Launch, AddedUpTo, Red!BlockSum, Garbage
<1>4. CASE CopyBack
  BY <1>1, <1>4 DEF CopyBack, device, KernelDone, AddedUpTo, Red!BlockSum, Garbage
<1>5. CASE HostAdd
  <2>1. hostI + 1 <= gridDim /\ hostI \in Nat
    BY <1>5, Sizes DEF HostAdd, SharedInv, TypeOK
  <2>2. QED
    BY <1>1, <1>5, <2>1, AddValue, Sizes
       DEF HostAdd, device, KernelDone, AddedUpTo, Red!BlockSum, Garbage
<1>6. CASE UNCHANGED vars
  BY <1>1, <1>6 DEF vars, device, host, KernelDone, AddedUpTo, Red!BlockSum, Garbage
<1>7. QED
  BY <1>2, <1>3, <1>4, <1>5, <1>6 DEF Next, Host

(* Whatever the grid and the number of inputs, each block stores one sum,  *)
(* and the program prints one that has every input in it once.             *)
THEOREM ComputesSum == Spec => ImplementsReduction
<1>1. Init => Red!RInit
  BY DEF Init, Red!RInit
<1>2. ResultInv /\ [Next]_vars
        => [Red!RNext]_<<partial, IF hostPc = "done" THEN final_sum ELSE Garbage>>
  <2> SUFFICES ASSUME ResultInv, [Next]_vars
               PROVE  [Red!RNext]_<<partial, IF hostPc = "done" THEN final_sum ELSE Garbage>>
    OBVIOUS
  <2>1. ASSUME NEW w \in Warps, Step(w)
        PROVE  [Red!RNext]_<<partial, IF hostPc = "done" THEN final_sum ELSE Garbage>>
    <3>1. hostPc' = hostPc
      BY <2>1 DEF Step, Accumulate, EndLoop, Shuffle, StoreWarpSum, LeaveSync, Gather,
                  Output, host
    <3>2. hostPc # "done" /\ w[1] \in Blocks
      BY <2>1, OutputValue, WarpPair
    <3>3. CASE partial' = partial
      BY <3>1, <3>2, <3>3
    <3>4. CASE partial' # partial
      <4>1. Red!Publish(w[1])
        BY <2>1, <3>1, <3>2, <3>4, OutputValue DEF ResultInv, Red!Publish
      <4>2. QED
        BY <3>2, <4>1 DEF Red!RNext
    <3>5. QED
      BY <3>3, <3>4
  <2>2. CASE Launch \/ CopyBack
    BY <2>2 DEF Launch, CopyBack, device
  <2>3. CASE HostAdd /\ hostI + 1 < gridDim
    BY <2>3 DEF HostAdd, device
  <2>4. CASE HostAdd /\ ~(hostI + 1 < gridDim)
    <3>1. hostI + 1 = gridDim
      BY <2>4, Sizes DEF HostAdd, ResultInv, SharedInv, TypeOK
    <3>2. final_sum' = Red!Total
      <4>1. \A i \in Inputs : Owner[i] < gridDim
        BY OwnerType, Sizes DEF Blocks
      <4>2. AddedUpTo(gridDim) = Red!Total
        BY <4>1 DEF AddedUpTo, Red!Total
      <4>3. QED
        BY <2>4, <3>1, <4>2, AddValue
    <3>3. \A b \in Blocks : partial[b] # Garbage
      BY <2>4, FirstWarp, BlockSumIsSet DEF HostAdd, ResultInv, KernelDone
    <3>4. Red!Finish
      BY <2>4, <3>2, <3>3 DEF HostAdd, device, Red!Finish
    <3>5. QED
      BY <3>4 DEF Red!RNext
  <2>5. CASE UNCHANGED vars
    BY <2>5 DEF vars, device, host
  <2>6. QED
    BY <2>1, <2>2, <2>3, <2>4, <2>5 DEF Next, Host
<1>3. Init => ResultInv
  BY InitResult
<1>4. ResultInv /\ [Next]_vars => ResultInv'
  BY NextResult
<1>5. QED
  BY <1>1, <1>2, <1>3, <1>4, PTL DEF Spec, ImplementsReduction, Red!RSpec
=============================================================================
