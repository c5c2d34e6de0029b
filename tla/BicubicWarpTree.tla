-------------------------- MODULE BicubicWarpTree --------------------------
(***************************************************************************)
(* The backward kernel of v6_bicubic_fixed.cu.  It differs from            *)
(* BicubicWarpPairs in the exchange: contributions are added up a tree of  *)
(* __shfl_down_sync, each time only where the cells agree; then every lane *)
(* whose predecessor aims at another cell adds its sum.                    *)
(***************************************************************************)
EXTENDS BicubicWarpPairs

(* The kernel has the statements of BicubicWarpPairs. *)
v6_fixed == WindowedWithShuffles(1)
v6_fixedHost == <<"memset", "launch", "copyBack">>

(* __shfl_down_sync by d: one's own register where the warp has no such    *)
(* lane.                                                                   *)
LaneBelow(w, th, d) == IF Lane(th) + d < WARP_SIZE THEN Thread(w, Lane(th) + d) ELSE th

(* contrib of the lanes for a tap after the loop, whose k-th iteration has *)
(* the stride WARP_SIZE / 2^k.                                             *)
TreeContrib(w, i) ==
  LET tree[k \in 0 .. 5] ==
        IF k = 0 THEN [th \in Lanes(w) |-> Contrib(th, i)]
        ELSE [th \in Lanes(w) |->
          LET stride == WARP_SIZE \div 2^k
              peer == LaneBelow(w, th, stride)
          IN  IF stride >= 1 /\ CellOf(peer, i) = CellOf(th, i)
                THEN Plus(tree[k - 1][th], tree[k - 1][peer])
                ELSE tree[k - 1][th]]
  IN  tree[5]

(* Whether a lane adds its sum.  Lane 1 compares with what it gets from    *)
(* lane 0, which is not in the branch of the __shfl_up_sync: the outcome,  *)
(* undecided, is undefined.                                                *)
IsOwner(w, th, i, undecided) ==
  CASE Lane(th) = 0 -> TRUE
    [] Lane(th) = 1 -> undecided
    [] OTHER -> CellOf(Thread(w, Lane(th) - 1), i) # CellOf(th, i)

(* One iteration of the loop over m.  The undefined outcome is taken to be *)
(* the same for its four taps, which leaves out some behaviours: enough to *)
(* refute a property.                                                      *)
ScatterTree(w) ==
  \E r \in 0 .. 3, undecided \in BOOLEAN :
    /\ AtRow(Lanes(w), r)
    /\ AddRow(w, r, [a \in Lanes(w) \X ({r} \X (0 .. 3)) |->
         IF IsOwner(w, a[1], a[2], undecided) THEN TreeContrib(w, a[2])[a[1]] ELSE {}])
    /\ NextRowTogether(Lanes(w), r)
    /\ UNCHANGED <<job, hostPc, result>>

NextTree ==
  \/ Host
  \/ \E th \in Threads(job) : ThreadStep(th)
  \/ \E w \in Warps(job) : ScatterTree(w)

SpecTree == Init /\ [][NextTree]_vars
=============================================================================
