------------------------------- MODULE Tables -------------------------------
(***************************************************************************)
(* Functions that are looked up often, and changes of them.                *)
(***************************************************************************)

(* The same function; TLC computes its values once and not at every use.   *)
Table(f) == CHOOSE g \in {f} : g = f

(* f, with the value of g wherever g has one. *)
Overwrite(f, g) ==
  [x \in DOMAIN f \cup DOMAIN g |-> IF x \in DOMAIN g THEN g[x] ELSE f[x]]
=============================================================================
