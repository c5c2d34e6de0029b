---------------------------- MODULE MCSparseCoo ----------------------------
(***************************************************************************)
(* SparseCoo with a 2 x 2 matrix that has three non-zeros, two of them in  *)
(* one row, and blocks that overhang both the non-zeros and the columns.   *)
(***************************************************************************)
EXTENDS SparseCoo

MCrowIdx == [p \in 0 .. 2 |-> IF p < 2 THEN 0 ELSE 1]

ASSUME BlocksOverhang == nnz % TY # 0 /\ N % TX # 0 /\ nnz % flat_threads # 0
=============================================================================
