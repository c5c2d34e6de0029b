------------------------------- MODULE MatMul -------------------------------
(***************************************************************************)
(* What a matrix-multiplication thread block promises to its caller,       *)
(* whatever it does inside: every output cell the block owns is written    *)
(* once, with the whole dot product of its row and column, in any order.   *)
(* The tiled kernels are shown to implement this specification.            *)
(***************************************************************************)
CONSTANTS
  ArrayCells,   \* indices of the whole output array C
  OutCells,     \* the indices that the block owns
  DotProduct,   \* DotProduct[c]: the value that belongs in C[c]
  Unwritten     \* contents of a cell no thread has stored to

VARIABLE C

(* The output buffer as the block finds it. *)
MInit == C = [c \in ArrayCells |-> Unwritten]

(* One thread stores its result. *)
WriteCell(c) ==
  /\ C[c] = Unwritten
  /\ C' = [C EXCEPT ![c] = DotProduct[c]]

MNext == \E c \in OutCells : WriteCell(c)

MSpec == MInit /\ [][MNext]_C
=============================================================================
