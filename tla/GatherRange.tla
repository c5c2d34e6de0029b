---------------------------- MODULE GatherRange ----------------------------
(***************************************************************************)
(* The arithmetic of the gathering backward kernels                        *)
(* (v7_bicubic_gather_bwd.cu, v8_option2_ldg_fallback.cu), along one axis: *)
(* which outputs o an input pixel p visits, and with which taps n of an    *)
(* output it finds itself.  in and out are the input and output lengths.   *)
(* Floats are exact rationals, as in BicubicGeometry.                      *)
(***************************************************************************)
EXTENDS BicubicGeometry

(* floor((p - 1.5) / scale - 0.5) and floor((p + 2.5) / scale - 0.5) + 1 *)
Before(p, in, out) == ((2 * p - 3) * out - in) \div (2 * in)
After(p, in, out) == ((2 * p + 5) * out - in) \div (2 * in) + 1

(* Faulty: the range starts two outputs late and ends two early.           *)
OutputsOfNarrow(p, first, in, out) ==
  Greatest(first, Before(p, in, out) + 2) .. Least(out - 1, After(p, in, out) - 2)

(* ox_start .. ox_end of a pixel, where first is the least output to visit *)
OutputsOf(p, first, in, out) ==
  Greatest(first, Before(p, in, out)) .. Least(out - 1, After(p, in, out))

(* dx = 0: the source of the output is a pixel, or is clamped to one.      *)
OnPixel(o, in, out) ==
  LET numerator == (2 * o + 1) * in - out
  IN  \/ numerator <= 0
      \/ numerator >= 2 * out * (in - 1)
      \/ numerator % (2 * out) = 0

(* The taps whose weight cubic(n - 1 - dx) is not 0: that polynomial is 0  *)
(* within its support only where its argument is 1, 2, -1 or -2.           *)
WeighingTaps(o, in, out) == IF OnPixel(o, in, out) THEN {1} ELSE 0 .. 3

Interior(p, in) == 2 <= p /\ p < in - 2

(* Faulty: the branch for pixels far from the border is taken by all.      *)
TapsTowardsInterior(p, o, interior, in, out) ==
  {p - Source(o, in, out) + 1} \cap WeighingTaps(o, in, out)

(* The taps of output o that p finds to be its own.  In the branch         *)
(* `interior` it is the one at the distance p - ix, in the other all that  *)
(* are clamped to p.                                                       *)
TapsTowards(p, o, interior, in, out) ==
  WeighingTaps(o, in, out) \cap
    IF interior THEN {p - Source(o, in, out) + 1}
    ELSE {n \in 0 .. 3 : TapPixel(o, n, in, out) = p}

(* What p gathers: pairs of an output and one of its taps.                 *)
Gathered(p, interior, in, out) ==
  UNION {{o} \X TapsTowards(p, o, interior, in, out) : o \in OutputsOf(p, 0, in, out)}

(* What bicubic_backward_cpu scatters to p, contributions of 0 left out.   *)
Scattered(p, in, out) ==
  {x \in (0 .. out - 1) \X (0 .. 3) :
     x[2] \in WeighingTaps(x[1], in, out) /\ TapPixel(x[1], x[2], in, out) = p}

-----------------------------------------------------------------------------
(* A pixel gathers exactly what the CPU scatters to it, in whichever       *)
(* branch it may be: the range of outputs it visits leaves none out, for   *)
(* enlargements and reductions, and although it is computed without regard *)
(* to the clamping, which sends outputs from far away to the pixels at the *)
(* border.                                                                 *)
GathersAll(in, out) ==
  \A p \in 0 .. in - 1 : \A interior \in {FALSE, Interior(p, in)} :
    Gathered(p, interior, in, out) = Scattered(p, in, out)
=============================================================================
