-------------------------- MODULE BicubicWarpPairs --------------------------
(***************************************************************************)
(* The backward kernel of v6_bicubic_warp_reduce.cu.  It follows           *)
(* BicubicScatter, but before the atomic additions neighbouring lanes      *)
(* compare the cells they aim at; where they agree, the lower lane adds    *)
(* both contributions and the upper one none.  The exchanges need all      *)
(* lanes, so that threads outside the output take part with a gradient of  *)
(* 0 and a cell computed from 0.  All exchanges have a full mask: a warp   *)
(* goes through its iteration of the loop over m as one.                   *)
(***************************************************************************)
EXTENDS BicubicScatter

CONSTANT WARP_SIZE

ASSUME WarpAssumption ==
  /\ WARP_SIZE \in {2, 4, 8, 16, 32}
  /\ \A j \in Jobs : j.kernel.shuffles => (j.TILE * j.TILE) % WARP_SIZE = 0

(* The kernel has BicubicScatter's statements and a window for the scale 1. *)
v6_warp_reduce == WindowedWithShuffles(1)
v6_warp_reduceHost == <<"memset", "launch", "copyBack">>

Warps(j) == Blocks(j) \X (0 .. (j.TILE * j.TILE) \div WARP_SIZE - 1)
Lane(th) == th[2] % WARP_SIZE
Thread(w, lane) == <<w[1], w[2] * WARP_SIZE + lane>>
Lanes(w) == {Thread(w, lane) : lane \in 0 .. WARP_SIZE - 1}

(* contrib, <<sy, sx>> and <<gy, gx>> of a thread for tap i; a thread      *)
(* outside the output has g, ix, iy, lx and ly 0.                          *)
Contrib(th, i) == IF Active(job, th) THEN {Contribution(job, th, i)} ELSE {}
CellOf(th, i) == IF Active(job, th) THEN TapCell[job][th][i] ELSE <<i[1] - 1, i[2] - 1>>
PixelOf(th, i) ==
  IF Active(job, th) THEN PixelOfTap[job][th][i]
  ELSE <<Clamp(i[1] - 1, job.inH), Clamp(i[2] - 1, job.inW)>>

(* Faulty: threads outside the output skip the taps, as in BicubicScatter. *)
EnterScatterIfActive(th) == LeaveSync1(th)

(* Every thread of the block goes on to the taps. *)
EnterScatter(th) ==
  /\ pc[th] = "sync1"
  /\ Released(th)
  /\ Goto(th, "scatter")
  /\ UNCHANGED <<job, smem, grad_input, m, hostPc, result>>

(* The lane that __shfl_xor_sync(..., 1) reads. *)
Neighbour(w, th) ==
  Thread(w, IF Lane(th) % 2 = 0 THEN Lane(th) + 1 ELSE Lane(th) - 1)

(* Faulty: the upper lane keeps its contribution. *)
PairContribBoth(w, th, i) ==
  LET nb == Neighbour(w, th)
  IN  IF CellOf(nb, i) = CellOf(th, i) /\ Lane(th) % 2 = 0
        THEN Plus(Contrib(th, i), Contrib(nb, i)) ELSE Contrib(th, i)

(* Faulty: only the rows of the two cells are compared. *)
PairContribRowOnly(w, th, i) ==
  LET nb == Neighbour(w, th)
  IN  IF CellOf(nb, i)[1] # CellOf(th, i)[1] THEN Contrib(th, i)
      ELSE IF Lane(th) % 2 = 0 THEN Plus(Contrib(th, i), Contrib(nb, i)) ELSE {}

(* contrib after the exchange *)
PairContrib(w, th, i) ==
  LET nb == Neighbour(w, th)
  IN  IF CellOf(nb, i) # CellOf(th, i) THEN Contrib(th, i)
      ELSE IF Lane(th) % 2 = 0 THEN Plus(Contrib(th, i), Contrib(nb, i)) ELSE {}

(* base with the sums value[a], a \in adds, atomically added to it. *)
AddAll(base, value, adds) ==
  LET new == UNION {value[a] : a \in adds}
      twice == \E a, b \in adds : a # b /\ value[a] \intersect value[b] # {}
  IN  Plus(base, new) \union (IF twice THEN {Twice} ELSE {})

(* The atomic additions of one row of taps by the lanes of w.  value[th, i] *)
(* is what thread th adds for tap i; nothing is added where it is 0.       *)
AddRow(w, row, value) ==
  LET adds == Lanes(w) \X ({row} \X (0 .. 3))
      shared == {a \in adds : CellOf(a[1], a[2]) \in Cells(job)}
  IN  /\ smem' = [smem EXCEPT ![w[1]] = [c \in Cells(job) |->
           AddAll(@[c], value, {a \in shared : CellOf(a[1], a[2]) = c})]]
      /\ grad_input' = [p \in Pixels(job) |->
           AddAll(grad_input[p], value, {a \in adds \ shared : PixelOf(a[1], a[2]) = p})]

(* The threads of S are at row r of the taps. *)
AtRow(S, r) == \A th \in S : pc[th] = "scatter" /\ m[th] = r

(* m++ for the threads of S, and the second barrier after the last row. *)
NextRowTogether(S, r) ==
  IF r < 3
    THEN /\ m' = [th \in Threads(job) |-> IF th \in S THEN r + 1 ELSE m[th]]
         /\ UNCHANGED <<pc, arrived>>
    ELSE /\ pc' = [th \in Threads(job) |-> IF th \in S THEN "sync2" ELSE pc[th]]
         /\ arrived' = [th \in Threads(job) |-> IF th \in S THEN arrived[th] + 1 ELSE arrived[th]]
         /\ UNCHANGED m

(* One iteration of the loop over m: four exchanges and the additions. *)
ScatterPairs(w) ==
  \E r \in 0 .. 3 :
    /\ AtRow(Lanes(w), r)
    /\ AddRow(w, r, [a \in Lanes(w) \X ({r} \X (0 .. 3)) |-> PairContrib(w, a[1], a[2])])
    /\ NextRowTogether(Lanes(w), r)
    /\ UNCHANGED <<job, hostPc, result>>

ThreadStep(th) == Zero(th) \/ EnterScatter(th) \/ LeaveSync2(th) \/ Flush(th)

NextPairs ==
  \/ Host
  \/ \E th \in Threads(job) : ThreadStep(th)
  \/ \E w \in Warps(job) : ScatterPairs(w)

(* A call of any of the correct versions, with the exchange or without. *)
AllVersions == Versions \cup {<<v6_warp_reduce, v6_warp_reduceHost>>}
NextBackward == IF job.kernel.shuffles THEN NextPairs ELSE Next
SpecBackward == Init /\ [][NextBackward]_vars
=============================================================================
