------------------------------ MODULE Reduction ------------------------------
(***************************************************************************)
(* What a two-level GPU reduction promises to its caller: every block      *)
(* publishes one partial sum, in any order, that counts each input the     *)
(* block is responsible for exactly once; and the host's result, set once, *)
(* counts every input of the array exactly once.                           *)
(***************************************************************************)
EXTENDS Integers

CONSTANTS
  Inputs,      \* indices of the input array
  Blocks,      \* the thread blocks of the grid
  Owner,       \* Owner[i]: the block that is responsible for input i
  Unset        \* a result nobody has produced yet

VARIABLES
  partial,     \* partial[b]: how often each input is counted in b's sum
  result       \* the same for the sum the host prints

BlockSum(b) == [i \in Inputs |-> IF Owner[i] = b THEN 1 ELSE 0]
Total == [i \in Inputs |-> 1]

RInit ==
  /\ partial = [b \in Blocks |-> Unset]
  /\ result = Unset

Publish(b) ==
  /\ partial[b] = Unset
  /\ partial' = [partial EXCEPT ![b] = BlockSum(b)]
  /\ UNCHANGED result

Finish ==
  /\ \A b \in Blocks : partial[b] # Unset
  /\ result = Unset
  /\ result' = Total
  /\ UNCHANGED partial

RNext == (\E b \in Blocks : Publish(b)) \/ Finish

RSpec == RInit /\ [][RNext]_<<partial, result>>
=============================================================================
