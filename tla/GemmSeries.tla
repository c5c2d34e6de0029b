------------------------------ MODULE GemmSeries ------------------------------
(***************************************************************************)
(* All matrix products with their hosts: one or several outputs per        *)
(* thread, one tile in shared memory with two barriers per tile or two     *)
(* with one, loads of several elements at once.  They are made of the same *)
(* few statements; GemmPlans has the order of these and their indices.     *)
(* DoubleBuffer and TiledMatMul have two of the kernels again, one element *)
(* at a time and for all sizes; here are their grids and hosts.            *)
(***************************************************************************)
EXTENDS GemmPlans

CONSTANT
  Plans      \* a sequence with, for each call under study, PlanOf(the call)

ASSUME GemmSeriesAssumption ==
  \A i \in DOMAIN Plans : Plans[i].shown \subseteq DOMAIN Plans[i].product

Plan == Plans \* a definition, for TLC to evaluate it once

Blank == {}                  \* an output zeroed by cudaMemset
Unwritten == {<<-1, Garbage, Garbage>>}

VARIABLES
  job,             \* the number of the call; it never changes
  pc,              \* per thread: index of its next statement
  As, Bs,          \* __shared__: [block -> [buffer -> [cell -> element]]]
  sum,             \* registers: [thread -> [output -> set of products]]
  C,               \* device memory
  hostPc, result   \* index of the host's next statement, the matrix it has

vars == <<job, pc, As, Bs, sum, C, hostPc, result>>

plan == Plan[job]
BlocksOf(threads) == {th[1] : th \in threads}
Buffers == {0, 1}

Init ==
  /\ job \in DOMAIN Plan
  /\ pc = [th \in plan.threads |-> 0]
  /\ As = [b \in BlocksOf(plan.threads) |-> [x \in Buffers |-> [c \in plan.tileA |-> Garbage]]]
  /\ Bs = [b \in BlocksOf(plan.threads) |-> [x \in Buffers |-> [c \in plan.tileB |-> Garbage]]]
  /\ sum = [th \in plan.threads |-> [o \in plan.outputs |-> {}]]
  /\ C = [c \in DOMAIN plan.product |-> Unwritten]
  /\ hostPc = 1
  /\ result = C

At(th, op) == pc[th] \in DOMAIN plan.code /\ plan.code[pc[th]].op = op
Statement(th) == plan.code[pc[th]]
Advance(th) == pc' = [pc EXCEPT ![th] = @ + 1] /\ UNCHANGED <<job, hostPc, result>>

(* The thread's share of a tile of A and of one of B. *)
LoadTile(th) ==
  /\ At(th, "load")
  /\ LET s == Statement(th)
     IN  /\ As' = [As EXCEPT ![th[1]][s.buffer] = Overwrite(@, plan.loadsA[th][s.tile])]
         /\ Bs' = [Bs EXCEPT ![th[1]][s.buffer] = Overwrite(@, plan.loadsB[th][s.tile])]
  /\ Advance(th)
  /\ UNCHANGED <<sum, C>>

(* Faulty: no barrier. *)
ReleasedAtOnce(th) == TRUE
(* __syncthreads() lets a thread go on once its whole block has arrived. *)
Released(th) == \A u \in plan.threads : u[1] = th[1] => pc[u] >= pc[th]

Synchronize(th) ==
  /\ At(th, "sync")
  /\ Released(th)
  /\ Advance(th)
  /\ UNCHANGED <<As, Bs, sum, C>>

(* for (k ...) sum += As[row][k] * Bs[k][column]; products with the zeros  *)
(* beyond the matrices add nothing.                                        *)
Products(th, s, o) ==
  {<<s.tile * plan.depth + k, As[th[1]][s.buffer][<<plan.row[th][o], k>>],
                              Bs[th[1]][s.buffer][<<k, plan.column[th][o]>>]>> :
     k \in 0 .. plan.depth - 1}
MultiplyTile(th) ==
  /\ At(th, "multiply")
  /\ sum' = [sum EXCEPT ![th] = [o \in DOMAIN @ |->
       @[o] \cup {p \in Products(th, Statement(th), o) : Zero \notin {p[2], p[3]}}]]
  /\ Advance(th)
  /\ UNCHANGED <<As, Bs, C>>

(* matmul.cu: the same from global memory. *)
MultiplyAll(th) ==
  /\ At(th, "dotProduct")
  /\ sum' = [sum EXCEPT ![th] = [o \in DOMAIN @ |->
       IF plan.cell[th][o] \in DOMAIN C THEN plan.product[plan.cell[th][o]] ELSE {}]]
  /\ Advance(th)
  /\ UNCHANGED <<As, Bs, C>>

(* if (row < rowsA && col < colsB) C[row * colsB + col] = sum[w]; *)
Store(th) ==
  /\ At(th, "store")
  /\ LET o == Statement(th).output
         c == plan.cell[th][o]
     IN  C' = Overwrite(C, [x \in {c} \cap DOMAIN C |-> sum[th][o]])
  /\ Advance(th)
  /\ UNCHANGED <<As, Bs, sum>>

Step(th) == LoadTile(th) \/ Synchronize(th) \/ MultiplyTile(th) \/ MultiplyAll(th) \/ Store(th)

-----------------------------------------------------------------------------
HostAt(statement) ==
  /\ hostPc \in DOMAIN plan.host
  /\ plan.host[hostPc] = statement
  /\ hostPc' = hostPc + 1
  /\ UNCHANGED <<job, As, Bs, sum>>

(* cudaMemset(d_C, 0, size) *)
Memset ==
  /\ HostAt("memset")
  /\ C' = [c \in DOMAIN C |-> Blank]
  /\ UNCHANGED <<pc, result>>

Launch ==
  /\ HostAt("launch")
  /\ pc' = [th \in plan.threads |-> 1]
  /\ UNCHANGED <<C, result>>

(* Faulty: the host does not wait. *)
CopyBackAtOnce ==
  /\ HostAt("copyBack")
  /\ result' = C
  /\ UNCHANGED <<pc, C>>

(* The copy to the host waits for the kernel. *)
CopyBack ==
  /\ HostAt("copyBack")
  /\ \A th \in plan.threads : pc[th] > Len(plan.code)
  /\ result' = C
  /\ UNCHANGED <<pc, C>>

HostStep == Memset \/ Launch \/ CopyBack
Returned == hostPc > Len(plan.host)

Next == HostStep \/ \E th \in plan.threads : Step(th)

Spec == Init /\ [][Next]_vars

-----------------------------------------------------------------------------
(* Every variable keeps its type; no load is from past the end of a        *)
(* matrix.                                                                 *)
TypeOK ==
  /\ job \in DOMAIN Plan
  /\ DOMAIN pc = plan.threads
  /\ \A th \in plan.threads : pc[th] \in 0 .. Len(plan.code) + 1
  /\ \A b \in BlocksOf(plan.threads), x \in Buffers :
       /\ DOMAIN As[b][x] = plan.tileA /\ \A c \in plan.tileA : As[b][x][c] # Beyond
       /\ DOMAIN Bs[b][x] = plan.tileB /\ \A c \in plan.tileB : Bs[b][x][c] # Beyond
  /\ DOMAIN C = DOMAIN plan.product
  /\ DOMAIN result = DOMAIN C
  /\ hostPc \in 1 .. Len(plan.host) + 1

(* The cells a thread's next statement writes, and which of them it reads. *)
WritesA(th) ==
  IF At(th, "load") THEN plan.loadsA[th][Statement(th).tile] ELSE <<>>
WritesB(th) ==
  IF At(th, "load") THEN plan.loadsB[th][Statement(th).tile] ELSE <<>>
ReadsA(th) ==
  IF At(th, "multiply") THEN {plan.row[th][o] : o \in DOMAIN sum[th]} \X (0 .. plan.depth - 1) ELSE {}
ReadsB(th) ==
  IF At(th, "multiply") THEN (0 .. plan.depth - 1) \X {plan.column[th][o] : o \in DOMAIN sum[th]} ELSE {}

(* No data race: nothing a thread is about to load is read by another one  *)
(* before the next barrier, or loaded by another one with another value.   *)
Conflict(writes, othersWrites, othersReads) ==
  \E c \in DOMAIN writes :
    c \in othersReads \/ (c \in DOMAIN othersWrites /\ othersWrites[c] # writes[c])
NoRace ==
  \A th, u \in plan.threads :
    /\ th # u /\ th[1] = u[1] /\ At(th, "load")
    /\ At(u, "load") \/ At(u, "multiply")
    /\ Statement(u).buffer = Statement(th).buffer
    => /\ ~Conflict(WritesA(th), WritesA(u), ReadsA(u))
       /\ ~Conflict(WritesB(th), WritesB(u), ReadsB(u))

(* Shared memory is used as it is meant to be. *)
MemorySafe == TypeOK /\ NoRace

(* Each program implements KernelCall: every element of C, of kernel7.cu   *)
(* every one in the corner that main prints, is the whole dot product of   *)
(* its row and column, written by one thread of one block by the time the  *)
(* host copies it, and not overwritten.                                    *)
Shown(matrix) == [c \in plan.shown |-> matrix[c]]
Call == INSTANCE KernelCall WITH
  Cleared <- Blank, expected <- Shown(plan.product), returned <- Returned,
  output <- Shown(C), result <- Shown(result)
ImplementsMatMul == Call!KSpec
=============================================================================
