-------------------------- MODULE BicubicGeometry --------------------------
(***************************************************************************)
(* Index arithmetic of the bicubic kernels, one axis at a time: in and out *)
(* are the input and output lengths, x an output coordinate.  The code     *)
(* computes (x + 0.5f) * scale - 0.5f with scale = in / out in floats; the *)
(* model takes the exact rational ((2x+1)in - out) / 2out.                 *)
(***************************************************************************)
EXTENDS Integers, Tables

Least(a, b) == IF a <= b THEN a ELSE b
Greatest(a, b) == IF a >= b THEN a ELSE b

(* min(max(i, 0), in - 1): the nearest pixel of the input. *)
Clamp(i, in) == Least(Greatest(i, 0), in - 1)

(* floor((x + 0.5) * scale - 0.5) *)
Floor(x, in, out) == ((2 * x + 1) * in - out) \div (2 * out)

(* ix: the floor of the source coordinate after it is clamped to the image. *)
Source(x, in, out) == Clamp(Floor(x, in, out), in)

(* ix0: the first input coordinate of the window of a block whose first    *)
(* output is x0; it may lie outside the image.                             *)
WindowStart(x0, in, out) == Floor(x0, in, out) - 1

(* smem_w = min(ceil(TILE * scale) + 4, SMEM_W) *)
WindowSize(tile, cap, in, out) ==
  Least((tile * in + out - 1) \div out + 4, cap)

(* sx: where the window has tap n of output x. *)
WindowIndex(x, x0, n, in, out) ==
  Source(x, in, out) - WindowStart(x0, in, out) + n - 1

(* gx for tap n of output x, and gx for index i of the window. *)
TapPixel(x, n, in, out) == Clamp(Source(x, in, out) + n - 1, in)
WindowPixel(x0, i, in, out) == Clamp(WindowStart(x0, in, out) + i, in)
=============================================================================
