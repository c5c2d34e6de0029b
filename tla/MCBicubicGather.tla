-------------------------- MODULE MCBicubicGather --------------------------
(***************************************************************************)
(* Both gathering versions: one block of 2 x 2 threads, some without a     *)
(* pixel, at scales from 1/2 to 4, and many blocks of one thread; a device *)
(* that is too small.  Pixels far from the border, the first of which is   *)
(* in an image of 5 x 5, are the matter of BicubicGatherProofs.            *)
(***************************************************************************)
EXTENDS BicubicGather

Call(version, tile, limit, size) ==
  [code |-> version[1], host |-> version[2], TILE |-> tile, sharedMemPerBlock |-> limit,
   inW |-> size[1], inH |-> size[2], outW |-> size[3], outH |-> size[4]]

Versions == {<<v7, v7Host>>, <<v8, v8Host>>}
OneBlock == {<<2, 2, 4, 4>>, <<2, 1, 8, 4>>, <<2, 2, 1, 1>>, <<1, 2, 3, 5>>}
SomeBlocks == {<<3, 1, 12, 4>>, <<4, 1, 2, 1>>, <<3, 2, 4, 3>>}

MCJobs ==
  {Call(v, 2, 10000, s) : v \in Versions, s \in OneBlock} \cup
  {Call(v, 1, 10000, s) : v \in Versions, s \in SomeBlocks} \cup
  {Call(<<v7, v7Host>>, 2, 20, <<2, 2, 4, 4>>), Call(<<v7, v7Host>>, 2, 10000, <<3, 1, 6, 1>>),
   Call(<<v7, v7Host>>, 2, 10000, <<1, 2, 1, 2>>)}

(* TLC computes a function whole when it compares it, and keeps it: the     *)
(* look-up tables of all calls.                                            *)
ASSUME TablesComputed == Indices = Indices /\ Visited = Visited /\ CpuGradient = CpuGradient

(* Liveness is checked for the calls in which a block has idle threads.    *)
LiveJobs == {j \in Jobs : j.TILE = 2 /\ \E th \in Threads(j) : ~Inside(j, th)}
LiveStep == job \in LiveJobs /\ Next

(* As long as the host or some thread can take a step, one of them does.   *)
FairSpec == Spec /\ WF_vars(LiveStep)

(* The calls return, in particular none of the threads without a pixel     *)
(* keeps its block at the barrier.                                         *)
CallsReturn == job \in LiveJobs => <>Returned
=============================================================================
