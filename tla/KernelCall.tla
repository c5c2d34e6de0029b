----------------------------- MODULE KernelCall -----------------------------
(***************************************************************************)
(* What a program that computes an array on the device promises: its       *)
(* elements become, in any order, those of the sequential program, none is *)
(* ever changed to anything else, and the caller is handed the whole array. *)
(***************************************************************************)
CONSTANT Cleared  \* the contents of an element after cudaMemset

VARIABLES
  expected,   \* what the sequential program computes; it never changes
  output,     \* the array in device memory
  result,     \* the array handed to the caller
  returned    \* whether it has been

KInit == returned = FALSE

Clear ==
  /\ output' = [p \in DOMAIN expected |-> Cleared]
  /\ \A p \in DOMAIN expected : output[p] # expected[p]
  /\ UNCHANGED <<expected, result, returned>>

(* Some elements get their value, and keep it. *)
Produce ==
  /\ DOMAIN output' = DOMAIN expected
  /\ \A p \in DOMAIN expected : output'[p] \in {output[p], expected[p]}
  /\ UNCHANGED <<expected, result, returned>>

Return ==
  /\ ~returned
  /\ output = expected
  /\ result' = expected
  /\ returned' = TRUE
  /\ UNCHANGED <<expected, output>>

KNext == Clear \/ Produce \/ Return

KSpec == KInit /\ [][KNext]_<<expected, output, result, returned>>
=============================================================================
