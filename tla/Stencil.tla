------------------------------- MODULE Stencil -------------------------------
(***************************************************************************)
(* A kernel that computes each output pixel from the input pixels around   *)
(* it, and its host.  A block loads a window of the input into shared      *)
(* memory; what a sum does not find there is read from global memory.      *)
(* The kernels of BicubicForward and Convolution are made of the same few  *)
(* statements, which are defined here once; those modules give the plan of *)
(* a call: the sequence of its statements, and which thread loads, reads   *)
(* and writes what.  A pixel is represented by its coordinates, a sum by   *)
(* the set of its terms <<tap, pixel>>: which weight for which pixel.      *)
(***************************************************************************)
EXTENDS Integers, Sequences, Tables

CONSTANT
  Plans        \* a sequence with, for each call under study, the record
               \*   code, host: sequences of statements
               \*   threads: set of <<block, thread>>
               \*   array: the cells of a shared array
               \*   inputs: what the input consists of, pixels and zeros
               \*   loads: [thread -> [its cells -> pixel]]
               \*   ahead: the same for the second shared array
               \*   taps: a sequence with, for each strip of outputs,
               \*         [thread -> [its outputs -> [tap -> source]]]
               \*   pixels: those of the output; a store to any other one
               \*     goes to memory behind it, which is taken to be
               \*     nobody else's
               \*   confined: whether the program is to stay in input and
               \*     output (kernel3.cu of the convolutions does not)
               \*   image: [output -> sum], the intended result

ASSUME StencilAssumption ==
  \A j \in DOMAIN Plans : DOMAIN Plans[j].image \subseteq Plans[j].pixels

Plan == Plans \* a definition, for TLC to evaluate it once

Garbage == <<-1, -1>>                   \* uninitialised memory
Blank == {}                             \* an output zeroed by cudaMemset
Unwritten == {<<Garbage, Garbage>>}
FromWindow(cell) == <<"window", cell>>  \* the sources of a tap
FromGlobal(pixel) == <<"global", pixel>>

VARIABLES
  job,           \* the number of the call; it never changes
  pc,            \* per thread: index of its next statement; -n when it has
                 \* returned at statement n
  cur, nxt,      \* the two shared arrays: [block -> [cell -> pixel]]
  results,       \* per thread: the sums in its registers
  output,        \* device memory
  hostPc, result \* index of the host's next statement, the image it returns

device == <<pc, cur, nxt, results, output>>
vars == <<job, device, hostPc, result>>

plan == Plan[job]
Threads == plan.threads
Blocks == {th[1] : th \in Threads}
NotLaunched == 0

Init ==
  /\ job \in DOMAIN Plan
  /\ pc = [th \in Threads |-> NotLaunched]
  /\ cur = [b \in Blocks |-> [c \in plan.array |-> Garbage]]
  /\ nxt = cur
  /\ results = [th \in Threads |-> <<>>]
  /\ output = [p \in plan.pixels |-> Unwritten]
  /\ hostPc = 1
  /\ result = output

-----------------------------------------------------------------------------
(* The statements of a kernel. *)

At(th, statement) == pc[th] \in DOMAIN plan.code /\ plan.code[pc[th]] = statement
Ended(th) == pc[th] < 0 \/ pc[th] > Len(plan.code)
Advance(th) == pc' = [pc EXCEPT ![th] = @ + 1] /\ UNCHANGED <<job, hostPc, result>>

(* The thread's part of the block's window. *)
Load(th) ==
  /\ At(th, "load")
  /\ cur' = [cur EXCEPT ![th[1]] = Overwrite(@, plan.loads[th])]
  /\ Advance(th)
  /\ UNCHANGED <<nxt, results, output>>

(* Faulty: no barrier. *)
ReleasedAtOnce(th) == TRUE
(* __syncthreads() lets a thread go on once its whole block has arrived; a *)
(* thread that returned before it never does.                              *)
Released(th) ==
  \A u \in Threads : u[1] = th[1] => (IF pc[u] < 0 THEN -pc[u] ELSE pc[u]) >= pc[th]

Sync(th) ==
  /\ At(th, "sync")
  /\ Released(th)
  /\ Advance(th)
  /\ UNCHANGED <<cur, nxt, results, output>>

(* if (out_x >= outW || out_y >= outH) return; *)
ReturnIfOutside(th) ==
  /\ At(th, "returnIfOutside")
  /\ IF DOMAIN plan.taps[1][th] = {}
       THEN pc' = [pc EXCEPT ![th] = -@] /\ UNCHANGED <<job, hostPc, result>>
       ELSE Advance(th)
  /\ UNCHANGED <<cur, nxt, results, output>>

(* The sums of the thread's outputs, whose taps in the window are read     *)
(* from the array a.                                                       *)
Value(source, a) == IF source[1] = "window" THEN a[source[2]] ELSE source[2]
Sums(taps, a) ==
  [o \in DOMAIN taps |-> {<<i, Value(taps[o][i], a)>> : i \in DOMAIN taps[o]}]

Interpolate(th) ==
  /\ At(th, "interpolate")
  /\ results' = [results EXCEPT ![th] = Sums(plan.taps[1][th], cur[th[1]])]
  /\ Advance(th)
  /\ UNCHANGED <<cur, nxt, output>>

(* Faulty: the next window replaces the one in use. *)
PrefetchIntoCur(th) ==
  /\ At(th, "prefetch")
  /\ cur' = [cur EXCEPT ![th[1]] = Overwrite(@, plan.ahead[th])]
  /\ Advance(th)
  /\ UNCHANGED <<nxt, results, output>>

(* The thread's part of the next window, loaded into the second array while *)
(* other threads are still at their sums.                                   *)
Prefetch(th) ==
  /\ At(th, "prefetch")
  /\ nxt' = [nxt EXCEPT ![th[1]] = Overwrite(@, plan.ahead[th])]
  /\ Advance(th)
  /\ UNCHANGED <<cur, results, output>>

Write(th) ==
  /\ At(th, "write")
  /\ output' = Overwrite(output, results[th])
  /\ Advance(th)
  /\ UNCHANGED <<cur, nxt, results>>

(* Sums and stores with nothing between them; storeNext is for the second  *)
(* strip of outputs and the second array, after the two have been swapped. *)
Store(th) ==
  /\ \/ At(th, "store") /\ output' = Overwrite(output, Sums(plan.taps[1][th], cur[th[1]]))
     \/ At(th, "storeNext") /\ output' = Overwrite(output, Sums(plan.taps[2][th], nxt[th[1]]))
  /\ Advance(th)
  /\ UNCHANGED <<cur, nxt, results>>

Step(th) ==
  \/ Load(th) \/ Sync(th) \/ ReturnIfOutside(th)
  \/ Interpolate(th) \/ Prefetch(th) \/ Write(th) \/ Store(th)

-----------------------------------------------------------------------------
(* The host. *)

HostAt(statement) ==
  /\ hostPc \in DOMAIN plan.host
  /\ plan.host[hostPc] = statement
  /\ hostPc' = hostPc + 1
  /\ UNCHANGED <<job, cur, nxt, results>>

(* cudaMemset(d_output, 0, ...) *)
Memset ==
  /\ HostAt("memset")
  /\ output' = [p \in plan.pixels |-> Blank]
  /\ UNCHANGED <<pc, result>>

Launch ==
  /\ HostAt("launch")
  /\ pc' = [th \in Threads |-> 1]
  /\ UNCHANGED <<output, result>>

(* Faulty: the host does not wait. *)
CopyBackAtOnce ==
  /\ HostAt("copyBack")
  /\ result' = [p \in plan.pixels |-> output[p]]
  /\ UNCHANGED <<pc, output>>

(* The copy to the host waits for the kernel, as do cudaEventSynchronize   *)
(* and cudaDeviceSynchronize before it where there are any.                *)
CopyBack ==
  /\ HostAt("copyBack")
  /\ \A th \in Threads : Ended(th)
  /\ result' = [p \in plan.pixels |-> output[p]]
  /\ UNCHANGED <<pc, output>>

HostStep == Memset \/ Launch \/ CopyBack
Returned == hostPc > Len(plan.host)

Next == HostStep \/ \E th \in Threads : Step(th)

Spec == Init /\ [][Next]_vars

-----------------------------------------------------------------------------
(* Every variable keeps its type: arrays and pictures have their cells and *)
(* pixels, and a thread has sums of its own outputs.                       *)
TypeOK ==
  /\ job \in DOMAIN Plan
  /\ DOMAIN pc = Threads
  /\ \A th \in Threads : pc[th] \in -Len(plan.code) .. Len(plan.code) + 1
  /\ \A a \in {cur, nxt} : DOMAIN a = Blocks /\ \A b \in Blocks : DOMAIN a[b] = plan.array
  /\ \A th \in Threads : DOMAIN results[th] \subseteq DOMAIN plan.taps[1][th]
  /\ plan.pixels \subseteq DOMAIN output
  /\ DOMAIN result = plan.pixels
  /\ hostPc \in 1 .. Len(plan.host) + 1

(* The shared cells that a thread's next statement writes and reads. *)
WritesNext(th) ==
  (IF At(th, "load") THEN {"cur"} \X DOMAIN plan.loads[th] ELSE {}) \cup
  (IF At(th, "prefetch") THEN {"nxt"} \X DOMAIN plan.ahead[th] ELSE {})
SourcesIn(taps, memory) ==
  {s[2] : s \in {x \in UNION {{taps[o][i] : i \in DOMAIN taps[o]} : o \in DOMAIN taps} :
                   x[1] = memory}}
ReadsNext(th) ==
  (IF At(th, "interpolate") \/ At(th, "store")
     THEN {"cur"} \X SourcesIn(plan.taps[1][th], "window") ELSE {}) \cup
  (IF At(th, "storeNext") THEN {"nxt"} \X SourcesIn(plan.taps[2][th], "window") ELSE {})

(* No data race: no cell that a thread is about to load is read or loaded  *)
(* by another one before the next barrier.                                 *)
NoRace ==
  \A th \in Threads : WritesNext(th) # {} =>
    \A u \in Threads : th # u /\ th[1] = u[1] =>
      WritesNext(th) \cap (ReadsNext(u) \cup WritesNext(u)) = {}

(* What it reads from the input, and the outputs that it stores. *)
InputsNext(th) ==
  (IF At(th, "load") THEN {plan.loads[th][c] : c \in DOMAIN plan.loads[th]} ELSE {}) \cup
  (IF At(th, "prefetch") THEN {plan.ahead[th][c] : c \in DOMAIN plan.ahead[th]} ELSE {}) \cup
  (IF At(th, "interpolate") \/ At(th, "store")
     THEN SourcesIn(plan.taps[1][th], "global") ELSE {}) \cup
  (IF At(th, "storeNext") THEN SourcesIn(plan.taps[2][th], "global") ELSE {})
OutputsNext(th) ==
  (IF At(th, "write") THEN DOMAIN results[th] ELSE {}) \cup
  (IF At(th, "store") THEN DOMAIN plan.taps[1][th] ELSE {}) \cup
  (IF At(th, "storeNext") THEN DOMAIN plan.taps[2][th] ELSE {})

(* What a thread reads from the input lies in it, whatever the size of the *)
(* image and of the blocks: neither before its start nor past its end.     *)
ReadsInBounds == \A th \in Threads : InputsNext(th) \subseteq plan.inputs

(* And what it stores lies in the output.                                  *)
StoresInBounds == \A th \in Threads : OutputsNext(th) \subseteq plan.pixels

(* In shared memory it keeps to the cells of the arrays. *)
CellsInBounds ==
  \A th \in Threads : WritesNext(th) \cup ReadsNext(th) \subseteq {"cur", "nxt"} \X plan.array

(* Threads do not get in each other's way in shared memory and stay in its *)
(* arrays; those of all programs but one stay in the images, too.          *)
MemorySafe ==
  /\ TypeOK /\ NoRace /\ CellsInBounds
  /\ plan.confined => ReadsInBounds /\ StoresInBounds

(* Every call, for every scale, border and partly filled block, hands back *)
(* the image of the sequential program: each output is the sum of the taps *)
(* it should be, by way of the window or past it, by whichever thread; it  *)
(* is written by the time the host copies it, and never overwritten with   *)
(* another value.                                                          *)
Cropped(picture) == [p \in DOMAIN plan.image |-> picture[p]]
Filter == INSTANCE KernelCall WITH
  Cleared <- Blank, expected <- plan.image, returned <- Returned,
  output <- Cropped(output), result <- Cropped(result)
ImplementsFilter == Filter!KSpec

(* The picture that is shown or saved is that of the sequential program.   *)
MatchesCpu == Returned => Cropped(result) = plan.image
=============================================================================
