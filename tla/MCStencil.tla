------------------------------ MODULE MCStencil ------------------------------
(***************************************************************************)
(* The forward pass of the bicubic resize and the convolutions, in all the *)
(* versions that are correct, and the programs with one thread per output; *)
(* and, for runs of their own, the convolution that tests no borders, and  *)
(* the two that load four pixels at once.                                  *)
(***************************************************************************)
EXTENDS Stencil, FiniteSetsExt

Bicubic == INSTANCE BicubicForward
Conv == INSTANCE Convolution
One == INSTANCE OneOutput

BicubicCall(version, tile, size) ==
  [kernel |-> version[1], host |-> version[2], TILE |-> tile,
   inW |-> size[1], inH |-> size[2], outW |-> size[3], outH |-> size[4]]

(* One block of 2 x 2 threads: enlarged to an odd size, and reduced by     *)
(* more than the windows of any version are made for.                      *)
OneBlock(version) == IF version[1].per = 1 THEN {<<1, 1, 2, 2>>, <<18, 1, 2, 1>>}
                     ELSE {<<1, 2, 3, 4>>, <<1, 1, 4, 4>>, <<3, 2, 4, 3>>, <<18, 1, 2, 1>>}

(* Blocks of one thread, to have many of them; the last ones stick out.    *)
Grid(version) == IF version[1].per = 1 THEN {<<1, 1, 3, 1>>, <<5, 2, 2, 2>>}
                 ELSE {<<2, 1, 5, 1>>, <<5, 2, 3, 3>>}

BicubicJobs ==
  UNION {{BicubicCall(v, 2, s) : s \in OneBlock(v)} : v \in Bicubic!Versions} \cup
  {BicubicCall(<<Bicubic!v1, Bicubic!v1Host>>, 2, <<1, 2, 3, 2>>)} \cup
  UNION {{BicubicCall(v, 1, s) : s \in Grid(v)} : v \in Bicubic!Versions}

ConvCall(kernel, host, TILE, WPT, rows, cols) ==
  [kernel |-> kernel, host |-> host, TILE |-> TILE, WPT |-> WPT, rows |-> rows, cols |-> cols]

(* Images that end inside a block, beside one or below one, or where it    *)
(* ends, and, where the host surrounds them with zeros, single pixels.     *)
ConvJobs ==
  {ConvCall(Conv!naive, Conv!naiveHost, 2, 1, s[1], s[2]) : s \in {<<1, 3>>, <<3, 2>>}} \cup
  {ConvCall(Conv!kernel1, Conv!kernel1Host, 2, 1, s[1], s[2]) : s \in {<<1, 3>>, <<3, 2>>}} \cup
  {ConvCall(Conv!kernel2, Conv!kernel2Host, 2, 2, s[1], s[2]) : s \in {<<3, 3>>, <<1, 4>>}} \cup
  {ConvCall(Conv!kernel3, Conv!kernel3Host, 2, 2, 1, 1),
   ConvCall(Conv!kernel3, Conv!kernel3Host, 4, 2, 1, 1),
   ConvCall(Conv!kernel3, Conv!kernel3Host, 4, 2, 2, 2),
   ConvCall(Conv!kernel4, Conv!kernel4Host, 4, 2, 2, 1),
   ConvCall(Conv!kernel4, Conv!kernel4Host, 3, 3, 2, 1),
   ConvCall(Conv!kernel4, Conv!kernel4Host, 3, 3, 1, 2)}

OneCall(kernel, host, dim, rows, depth, cols) ==
  [kernel |-> kernel, host |-> host, dim |-> dim, team |-> 3, rows |-> rows, depth |-> depth,
   cols |-> cols, nonZero |-> {<<0, 1>>, <<2, 0>>, <<2, 2>>}]
Copied(kernel, dim, rows, depth, cols) == OneCall(kernel, One!LaunchAndCopy, dim, rows, depth, cols)

(* Outputs that end inside a block; for the transposes also several        *)
(* blocks; teams of three threads for two or four blocks of rows.  The     *)
(* sparse matrix has a row of each kind: with one, none and two non-zeros. *)
OneJobs ==
  {Copied(k, 2, 1, 1, 3) : k \in {One!vectorAdd, One!vectorAddUniMem, One!vectorMul}} \cup
  {Copied(One!matrixMul1D, 4, 2, 2, 3), Copied(One!matrixMul, 2, 1, 2, 3),
   Copied(One!matrixAdd, 2, 1, 1, 3), Copied(One!gpu_sparse_matmul, 2, 3, 3, 2)} \cup
  {Copied(k, 2, n, 1, n) : k \in {One!transposeNoConflict, One!transposeFinal, One!transpose16},
                           n \in {1, 2}} \cup
  {Copied(k, d, 2, 1, 2) : k \in {One!transposeNoConflict, One!transposeFinal, One!transpose16,
                                   One!transpose2D, One!transpose2D_vec}, d \in {1, 2}} \cup
  {Copied(k, d, 4, 1, 4) : k \in {One!transpose_blocked_parallel, One!transpose_blocked_float},
                           d \in {1, 2}} \cup
  {OneCall(One!matVelOpenMP, One!Accumulating, d, 4, 4, 4) : d \in {1, 2}}

(* kernel3.cu of the convolutions has no bounds tests, since its host pads *)
(* the image.  It reads outside the padded image even if this is a block;  *)
(* and where it ends inside a block, it also stores outside.               *)
Kernel3Plan(size) == Conv!Plan(ConvCall(Conv!kernel3, Conv!kernel3Host, 4, 2, size, size))
ASSUME Kernel3LeavesItsImages ==
  /\ \E th \in Kernel3Plan(2).threads : \E c \in DOMAIN Kernel3Plan(2).loads[th] :
       Kernel3Plan(2).loads[th][c] \notin Kernel3Plan(2).inputs
  /\ \E th \in Kernel3Plan(1).threads :
       ~(DOMAIN Kernel3Plan(1).taps[1][th] \subseteq Kernel3Plan(1).pixels)

(* back.cu is not among them.  Its kernel reads taps from cells that hold  *)
(* other pixels, or that nobody loads.                                     *)
BackPlan ==
  Bicubic!Plan(BicubicCall(<<Bicubic!back, Bicubic!backHost>>, 1, <<2, 1, 4, 1>>))
ASSUME BackReadsOtherCells ==
  \E th \in BackPlan.threads : \E o \in DOMAIN BackPlan.taps[1][th] : \E i \in Bicubic!Taps :
    LET source == BackPlan.taps[1][th][o][i]
    IN  /\ source[1] = "window"
        /\ \/ source[2] \notin DOMAIN BackPlan.loads[th]
           \/ <<i, BackPlan.loads[th][source[2]]>> \notin BackPlan.image[o]

CallsOf(jobs) == FoldSet(LAMBDA call, seq : Append(seq, call), <<>>, jobs)
BicubicCalls == CallsOf(BicubicJobs)
ConvCalls == CallsOf(ConvJobs)
OneCalls == CallsOf(OneJobs)

(* The calls are among those that the theorems of StencilProofs are about, *)
(* but for the sparse product.                                             *)
ASSUME CallsAdmissible ==
  /\ \A n \in DOMAIN BicubicCalls : Bicubic!Admissible(BicubicCalls[n])
  /\ \A n \in DOMAIN ConvCalls : Conv!Admissible(ConvCalls[n])
  /\ \A n \in DOMAIN OneCalls :
       OneCalls[n].kernel = One!gpu_sparse_matmul \/ One!Admissible(OneCalls[n])

MCPlans == [n \in DOMAIN BicubicCalls |-> Bicubic!Plan(BicubicCalls[n])] \o
           [n \in DOMAIN ConvCalls |-> Conv!Plan(ConvCalls[n])] \o
           [n \in DOMAIN OneCalls |-> One!Plan(OneCalls[n])]

(* Liveness is checked for the calls in which a block with a barrier has   *)
(* idle threads.                                                           *)
LiveJobs == {j \in DOMAIN Plan : (\E n \in DOMAIN Plan[j].code : Plan[j].code[n] = "sync") /\
  \E th \in Plan[j].threads :
    DOMAIN Plan[j].taps[1][th] = {} /\ \E u \in Plan[j].threads : u # th /\ u[1] = th[1]}
LiveStep == job \in LiveJobs /\ Next

(* As long as the host or some thread can take a step, one of them does.   *)
FairSpec == Spec /\ WF_vars(LiveStep)

(* The calls return: no block waits at its barrier for ever for the        *)
(* threads that have no output.                                            *)
CallsReturn == job \in LiveJobs => <>Returned

-----------------------------------------------------------------------------
(* kernel5.cu and kernel6.cu: two blocks side by side, and a row of gray   *)
(* pixels that reaches into the second one.                                *)
FoursJobs ==
  {ConvCall(Conv!kernel5, Conv!kernel5Host, 4, 4, 1, 4),
   ConvCall(Conv!kernel6, Conv!kernel6Host, 4, 4, 1, 4)}
FoursCalls == CallsOf(FoursJobs)
FoursPlans == [n \in DOMAIN FoursCalls |-> Conv!Plan(FoursCalls[n])]
=============================================================================
