---------------------------- MODULE MCGemmSeries ----------------------------
(***************************************************************************)
(* The series of matrix products: blocks of up to eight threads with two   *)
(* or three tiles, and several blocks; where the kernel is written for it, *)
(* with a last block that overhangs the matrix.                            *)
(***************************************************************************)
EXTENDS GemmSeries

(* A call whose matrices main fills with random numbers. *)
MakeCall(kernel, host, tile, perThread, width, size) ==
  [kernel |-> kernel, host |-> host, data |-> "random",
   TSM |-> tile[1], TSN |-> tile[2], TSK |-> tile[3],
   WPTM |-> perThread[1], WPTN |-> perThread[2], WIDTH |-> width, SMS |-> 1,
   corner |-> 3, rows |-> size[1], depth |-> size[2], cols |-> size[3]]
Constant(call) == [call EXCEPT !.data = "constant"]
Adjusted(call) == [call EXCEPT !.SMS = 2]

RandomCalls ==
  <<MakeCall(matmul, matmulHost, <<2, 2, 1>>, <<1, 1>>, 1, <<3, 2, 2>>),
    MakeCall(matrixTil, matrixTilHost, <<2, 2, 2>>, <<1, 1>>, 1, <<2, 6, 2>>),
    MakeCall(matrixTil, matrixTilHost, <<1, 1, 1>>, <<1, 1>>, 1, <<2, 2, 1>>),
    MakeCall(matrixMulDoubleBuffered, matrixMulDoubleBufferedHost, <<2, 2, 2>>, <<1, 1>>, 1, <<1, 3, 1>>),
    MakeCall(matrixMulDoubleBuffered, matrixMulDoubleBufferedHost, <<1, 1, 1>>, <<1, 1>>, 1, <<2, 3, 2>>),
    MakeCall(matrixMulTiled, matrixMulTiledHost, <<2, 2, 2>>, <<1, 1>>, 1, <<1, 3, 1>>),
    MakeCall(matrixMulTiled, matrixMulTiledHost, <<1, 1, 1>>, <<1, 1>>, 1, <<1, 2, 2>>),
    MakeCall(kernel2, kernel2Host, <<2, 2, 2>>, <<1, 2>>, 2, <<2, 6, 2>>),
    MakeCall(kernel2, kernel2Host, <<4, 4, 4>>, <<1, 2>>, 2, <<4, 8, 4>>),
    MakeCall(kernel2, kernel2Host, <<1, 1, 1>>, <<1, 1>>, 1, <<1, 3, 2>>),
    MakeCall(kernel3, kernel3Host, <<4, 4, 4>>, <<1, 4>>, 4, <<4, 8, 4>>),
    MakeCall(kernel4, kernel4Host, <<2, 4, 4>>, <<1, 2>>, 2, <<2, 8, 4>>),
    MakeCall(kernel4, kernel4Host, <<1, 2, 4>>, <<1, 2>>, 2, <<2, 8, 2>>),
    MakeCall(WPT, WPTHost, <<2, 4, 2>>, <<1, 2>>, 1, <<1, 4, 3>>),
    MakeCall(WPT, WPTHost, <<1, 2, 1>>, <<1, 2>>, 1, <<1, 2, 3>>)>>

ConstantCalls ==
  <<MakeCall(vectorised, vectorisedHost, <<2, 2, 2>>, <<1, 1>>, 2, <<2, 4, 2>>),
    MakeCall(vectorised, vectorisedHost, <<2, 2, 2>>, <<1, 1>>, 2, <<2, 3, 1>>),
    MakeCall(gemmFinal, gemmFinalHost, <<4, 4, 2>>, <<1, 2>>, 1, <<4, 4, 4>>),
    MakeCall(gemm16, gemm16Host, <<2, 2, 2>>, <<1, 2>>, 1, <<2, 4, 2>>),
    MakeCall(gemm2D, gemm2DHost, <<4, 4, 2>>, <<2, 2>>, 1, <<4, 4, 4>>),
    Adjusted(MakeCall(gemm2D, gemm2DHost, <<2, 2, 1>>, <<2, 2>>, 1, <<2, 2, 2>>)),
    MakeCall(gemm2D_vec, gemm2D_vecHost, <<4, 4, 2>>, <<2, 2>>, 2, <<8, 8, 8>>),
    Adjusted(MakeCall(gemm2D_vec, gemm2D_vecHost, <<2, 2, 3>>, <<2, 2>>, 2, <<6, 6, 6>>))>>

MCCalls == RandomCalls \o [i \in DOMAIN ConstantCalls |-> Constant(ConstantCalls[i])]
ASSUME CallsAdmissible == \A i \in DOMAIN MCCalls : Admissible(MCCalls[i]) /\ Program(MCCalls[i])
MCPlans == [i \in DOMAIN MCCalls |-> PlanOf(MCCalls[i])]

(* main of the last five kernels fills each matrix with one number.  They  *)
(* would not multiply others: they load elements of other rows or columns, *)
(* and where loads overlap, different ones into the same cell.             *)
ASSUME RightForConstantsOnly ==
  \A i \in DOMAIN ConstantCalls :
    LET j == [ConstantCalls[i] EXCEPT !.rows = 4, !.depth = 4, !.cols = 4]
    IN  \E th \in Threads(j) :
          LET loads == LoadsB(j, th, 0)
          IN  \E c \in DOMAIN loads : loads[c] # B(j, c[1], th[1][2] * j.TSN + c[2])

(* vector.cu writes a part of the matrix only, and no dot product there. *)
Int4 == INSTANCE Int4Product
Int4Call == [N |-> 8, TILE_SIZE |-> 4, WIDTH |-> 2]
ASSUME Int4IsNoProduct ==
  /\ \E c \in (0 .. Int4Call.N - 1) \X (0 .. Int4Call.N - 1) : c \notin Int4!Stored(Int4Call)
  /\ \A th \in Int4!Threads(Int4Call), w \in 0 .. Int4Call.WIDTH - 1 :
       Int4!Sum(Int4Call, th, w) #
         Int4!DotProduct(Int4Call, <<Int4!globalRow(Int4Call, th), Int4!Column(Int4Call, th, w)>>)
=============================================================================
