---------------------------- MODULE DoubleBuffer ----------------------------
(***************************************************************************)
(* One thread block of matrixMulDoubleBuffered (src/CUDA/DoubleBuffer.cu). *)
(* Threads run independently and meet only at __syncthreads().  The shared *)
(* tiles have two buffers: while the block multiplies out of curr, it      *)
(* copies the next tile into the other one, so a single barrier per tile   *)
(* must separate the last read of a buffer from the write that reuses it.  *)
(***************************************************************************)
EXTENDS GemmBlock

VARIABLES
  curr, next      \* per thread: which buffer it reads and which it fills

vars == <<tileA, tileB, C, pc, t, k, curr, next, sum, arrived>>

Init ==
  /\ tileA = [b \in 0 .. 1 |-> [th \in Threads |-> Garbage]]
  /\ tileB = [b \in 0 .. 1 |-> [th \in Threads |-> Garbage]]
  /\ C = [c \in ArrayCells |-> Unwritten]
  /\ pc = [th \in Threads |-> "preloadA"]
  /\ t = [th \in Threads |-> 0]
  /\ k = [th \in Threads |-> 0]
  /\ curr = [th \in Threads |-> 0]
  /\ next = [th \in Threads |-> 1]
  /\ sum = [th \in Threads |-> {}]
  /\ arrived = [th \in Threads |-> 0]

-----------------------------------------------------------------------------
(* The thread copies its element of tile n of A (of B) into the buffer. *)
LoadA(th, buffer, n) ==
  /\ tileA' = [tileA EXCEPT ![buffer][th] = ElemOfA(n, th)]
  /\ UNCHANGED <<tileB, C, t, k, curr, next, sum>>

LoadB(th, buffer, n) ==
  /\ tileB' = [tileB EXCEPT ![buffer][th] = ElemOfB(n, th)]
  /\ UNCHANGED <<tileA, C, t, k, curr, next, sum>>

(* Faulty: a thread outside the matrix returns before the barriers. *)
PreloadAEarlyReturn(th) ==
  /\ pc[th] = "preloadA"
  /\ IF InRange(th)
       THEN LoadA(th, curr[th], 0) /\ Goto(th, "preloadB")
       ELSE Goto(th, "done") /\ UNCHANGED <<tileA, tileB, C, t, k, curr, next, sum>>
  /\ UNCHANGED arrived

PreloadA(th) ==
  /\ pc[th] = "preloadA"
  /\ LoadA(th, curr[th], 0)
  /\ Goto(th, "preloadB")
  /\ UNCHANGED arrived

PreloadB(th) ==
  /\ pc[th] = "preloadB"
  /\ LoadB(th, curr[th], 0)
  /\ Goto(th, "sync1")
  /\ Arrive(th)

(* Faulty: the next tile goes into the buffer being read. *)
PrefetchAIntoCurr(th) ==
  /\ pc[th] = "prefetchA"
  /\ t[th] + 1 < numTiles
  /\ LoadA(th, curr[th], t[th] + 1)
  /\ Goto(th, "prefetchB")
  /\ UNCHANGED arrived

(* if(t + 1 < numTiles): the first half of the prefetch, or no prefetch. *)
PrefetchA(th) ==
  /\ pc[th] = "prefetchA"
  /\ t[th] + 1 < numTiles
  /\ LoadA(th, next[th], t[th] + 1)
  /\ Goto(th, "prefetchB")
  /\ UNCHANGED arrived

SkipPrefetch(th) ==
  /\ pc[th] = "prefetchA"
  /\ ~(t[th] + 1 < numTiles)
  /\ Goto(th, "compute")
  /\ UNCHANGED <<tileA, tileB, C, t, k, curr, next, sum, arrived>>

PrefetchB(th) ==
  /\ pc[th] = "prefetchB"
  /\ LoadB(th, next[th], t[th] + 1)
  /\ Goto(th, "compute")
  /\ UNCHANGED arrived

(* Faulty: the inner loop ends one iteration early. *)
AccumulateOneLess(th) ==
  /\ pc[th] = "compute"
  /\ sum' = [sum EXCEPT ![th] = @ \union
       Product(t[th], k[th], tileA[curr[th]][<<threadIdxY(th), k[th]>>],
                             tileB[curr[th]][<<k[th], threadIdxX(th)>>])]
  /\ IF k[th] + 2 < TILE_SIZE
       THEN /\ k' = [k EXCEPT ![th] = @ + 1]
            /\ UNCHANGED <<pc, arrived>>
       ELSE /\ k' = [k EXCEPT ![th] = 0]
            /\ Goto(th, "sync2")
            /\ Arrive(th)
  /\ UNCHANGED <<tileA, tileB, C, t, curr, next>>

(* One iteration of the inner loop; the last one ends at the barrier. *)
Accumulate(th) ==
  /\ pc[th] = "compute"
  /\ sum' = [sum EXCEPT ![th] = @ \union
       Product(t[th], k[th], tileA[curr[th]][<<threadIdxY(th), k[th]>>],
                             tileB[curr[th]][<<k[th], threadIdxX(th)>>])]
  /\ IF k[th] + 1 < TILE_SIZE
       THEN /\ k' = [k EXCEPT ![th] = @ + 1]
            /\ UNCHANGED <<pc, arrived>>
       ELSE /\ k' = [k EXCEPT ![th] = 0]
            /\ Goto(th, "sync2")
            /\ Arrive(th)
  /\ UNCHANGED <<tileA, tileB, C, t, curr, next>>

LeaveSync1(th) ==
  /\ pc[th] = "sync1"
  /\ Released(th)
  /\ Goto(th, IF t[th] < numTiles THEN "prefetchA" ELSE "store")
  /\ UNCHANGED <<tileA, tileB, C, t, k, curr, next, sum, arrived>>

(* Faulty: the buffer number is incremented instead of flipped. *)
LeaveSync2Increment(th) ==
  /\ pc[th] = "sync2"
  /\ Released(th)
  /\ curr' = [curr EXCEPT ![th] = @ + 1]
  /\ next' = [next EXCEPT ![th] = 1 - @]
  /\ t' = [t EXCEPT ![th] = @ + 1]
  /\ Goto(th, IF t[th] + 1 < numTiles THEN "prefetchA" ELSE "store")
  /\ UNCHANGED <<tileA, tileB, C, k, sum, arrived>>

(* The barrier that ends an iteration, the buffer swap and the loop test. *)
LeaveSync2(th) ==
  /\ pc[th] = "sync2"
  /\ Released(th)
  /\ curr' = [curr EXCEPT ![th] = 1 - @]
  /\ next' = [next EXCEPT ![th] = 1 - @]
  /\ t' = [t EXCEPT ![th] = @ + 1]
  /\ Goto(th, IF t[th] + 1 < numTiles THEN "prefetchA" ELSE "store")
  /\ UNCHANGED <<tileA, tileB, C, k, sum, arrived>>

Store(th) ==
  /\ pc[th] = "store"
  /\ C' = IF InRange(th) THEN [C EXCEPT ![OutIndex(th)] = sum[th]] ELSE C
  /\ Goto(th, "done")
  /\ UNCHANGED <<tileA, tileB, t, k, curr, next, sum, arrived>>

Step(th) ==
  \/ PreloadA(th) \/ PreloadB(th) \/ LeaveSync1(th)
  \/ PrefetchA(th) \/ SkipPrefetch(th) \/ PrefetchB(th)
  \/ Accumulate(th) \/ LeaveSync2(th) \/ Store(th)

Next == \E th \in Threads : Step(th)

Spec == Init /\ [][Next]_vars

(* The hardware scheduler never abandons a thread that can run. *)
FairSpec == Spec /\ \A th \in Threads : WF_vars(Step(th))

-----------------------------------------------------------------------------
Labels == {"preloadA", "preloadB", "sync1", "prefetchA", "prefetchB",
           "compute", "sync2", "store", "done"}

(* Every variable keeps its type; in particular curr and next stay the two *)
(* buffer numbers through any number of swaps (lines 68-69).               *)
TypeOK ==
  /\ tileA \in [0 .. 1 -> [Threads -> Int]]
  /\ tileB \in [0 .. 1 -> [Threads -> Int]]
  /\ DOMAIN C = ArrayCells
  /\ pc \in [Threads -> Labels]
  /\ t \in [Threads -> 0 .. numTiles]
  /\ k \in [Threads -> Lanes]
  /\ curr \in [Threads -> 0 .. 1]
  /\ next \in [Threads -> 0 .. 1]
  /\ DOMAIN sum = Threads
  /\ arrived \in [Threads -> Nat]

(* The shared cells a thread's next statement writes, and those it reads. *)
WritesNext(th) ==
  CASE pc[th] = "preloadA"  -> {<<"A", curr[th], th>>}
    [] pc[th] = "preloadB"  -> {<<"B", curr[th], th>>}
    [] pc[th] = "prefetchA" ->
         IF t[th] + 1 < numTiles THEN {<<"A", next[th], th>>} ELSE {}
    [] pc[th] = "prefetchB" -> {<<"B", next[th], th>>}
    [] OTHER -> {}

ReadsNext(th) ==
  IF pc[th] = "compute"
    THEN {<<"A", curr[th], <<threadIdxY(th), k[th]>>>>,
          <<"B", curr[th], <<k[th], threadIdxX(th)>>>>}
    ELSE {}

(* No data race in shared memory: two threads are never both ready to      *)
(* access one cell when one of the accesses is a write, although a thread  *)
(* that left the barrier early already fills the buffer for tile t + 1     *)
(* while others still multiply tile t (lines 41-65).                       *)
NoRace ==
  \A th, u \in Threads :
    th # u => WritesNext(th) \cap (ReadsNext(u) \cup WritesNext(u)) = {}

(* A thread that multiplies tile t sees the complete tile t: every cell of *)
(* the row of A and the column of B it has still to read holds the element *)
(* of that tile, not a stale or an early one, whoever loaded it (59-63).   *)
TileComplete ==
  \A th \in Threads : pc[th] = "compute" =>
    \A kk \in k[th] .. TILE_SIZE - 1 :
      LET a == <<threadIdxY(th), kk>>
          b == <<kk, threadIdxX(th)>>
      IN  /\ tileA[curr[th]][a] = ElemOfA(t[th], a)
          /\ tileB[curr[th]][b] = ElemOfB(t[th], b)

(* The guards of the loads keep every global read inside A and B, whatever *)
(* the sizes and the block, although the last tile overhangs the matrices. *)
LoadsInBounds ==
  \A b \in 0 .. 1, th \in Threads :
    tileA[b][th] # OutOfBounds /\ tileB[b][th] # OutOfBounds
=============================================================================
