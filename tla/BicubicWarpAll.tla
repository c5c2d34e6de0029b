--------------------------- MODULE BicubicWarpAll ---------------------------
(***************************************************************************)
(* The backward kernel of bicubic_optimized_atomic.cu.  Threads outside    *)
(* the output skip the scatter.  For every tap the lanes whose cell is in  *)
(* the window add up what the whole warp contributes, with five            *)
(* __shfl_xor_sync, and lane 0 adds the total to its own cell; the others  *)
(* add their contribution to grad_input.                                   *)
(***************************************************************************)
EXTENDS BicubicWarpPairs

(* The kernel has BicubicScatter's statements and a window for the scale 2. *)
optimized_atomic == WindowedWithShuffles(2)
optimized_atomicHost == <<"memset", "launch", "copyBack">>

ActiveLanes(w) == {th \in Lanes(w) : Active(job, th)}
InBranch(w, i) == {th \in ActiveLanes(w) : CellOf(th, i) \in Cells(job)}

(* val of lane 0 after the five exchanges: what a lane reads from one that *)
(* is not in the branch is undefined, which the stale value stands for.    *)
WarpTotal(w, i) ==
  {Contribution(job, th, i) : th \in InBranch(w, i)} \union
    (IF InBranch(w, i) = Lanes(w) THEN {} ELSE {Stale})

(* What a thread adds for tap i. *)
AddedByLane(w, th, i) ==
  IF th \notin InBranch(w, i) THEN Contrib(th, i)
  ELSE IF Lane(th) = 0 THEN WarpTotal(w, i) ELSE {}

(* One iteration of the loop over m, for the lanes that are in it. *)
ScatterAll(w) ==
  \E r \in 0 .. 3 : LET row == {r} \X (0 .. 3) IN
    /\ ActiveLanes(w) # {}
    /\ AtRow(ActiveLanes(w), r)
    /\ AddRow(w, r, [a \in Lanes(w) \X row |-> AddedByLane(w, a[1], a[2])])
    /\ NextRowTogether(ActiveLanes(w), r)
    /\ UNCHANGED <<job, hostPc, result>>

NextAll ==
  \/ Host
  \/ \E th \in Threads(job) : Zero(th) \/ LeaveSync1(th) \/ LeaveSync2(th) \/ Flush(th)
  \/ \E w \in Warps(job) : ScatterAll(w)

SpecAll == Init /\ [][NextAll]_vars
=============================================================================
