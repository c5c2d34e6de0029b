------------------------------ MODULE Gradient ------------------------------
(***************************************************************************)
(* What the backward pass of the bicubic resize promises: the gradient of  *)
(* every input pixel grows, contribution by contribution and in any order, *)
(* to the one that bicubic_backward_cpu adds up sequentially, and the      *)
(* caller is handed that complete gradient.                                *)
(***************************************************************************)
CONSTANT Stale  \* what uninitialised memory adds to a sum

VARIABLES
  expected,    \* expected[p]: what the CPU adds to pixel p; it never changes
  grad,        \* the gradient being accumulated in device memory
  result       \* the gradient image returned to the caller

Pixels == DOMAIN expected
Unset == [p \in Pixels |-> {Stale}]
Zeros == [p \in Pixels |-> {}]

GInit == grad = Unset /\ result = Unset

Clear ==
  /\ grad = Unset
  /\ grad' = Zeros
  /\ UNCHANGED <<expected, result>>

(* Some contributions arrive, each at its pixel and none of them again. *)
Accumulate ==
  /\ grad # Unset
  /\ DOMAIN grad' = Pixels
  /\ \A p \in Pixels : grad[p] \subseteq grad'[p] /\ grad'[p] \subseteq expected[p]
  /\ UNCHANGED <<expected, result>>

Return ==
  /\ grad = expected
  /\ result = Unset
  /\ result' = expected
  /\ UNCHANGED <<expected, grad>>

GNext == Clear \/ Accumulate \/ Return

GSpec == GInit /\ [][GNext]_<<expected, grad, result>>
=============================================================================
