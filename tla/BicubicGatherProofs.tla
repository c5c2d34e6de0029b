------------------------- MODULE BicubicGatherProofs -------------------------
(***************************************************************************)
(* Proofs about the gathering backward kernels, v7 and v8, for images and  *)
(* tiles of every size: a pixel visits all outputs that reach it, v7 finds *)
(* their gradients in its window, and the program returns the gradient of  *)
(* the CPU.                                                                *)
(***************************************************************************)
EXTENDS BicubicGather, TLAPS

(* What \div rounds to. *)
LEMMA Floors ==
  ASSUME NEW a \in Int, NEW b \in Nat \ {0}
  PROVE  /\ a \div b \in Int
         /\ b * (a \div b) <= a
         /\ a < b * (a \div b) + b
<1>1. a = b * (a \div b) + (a % b) /\ a % b \in 0 .. b - 1 /\ a \div b \in Int
  OBVIOUS
<1>2. QED
  BY <1>1

(* A multiple of b is below a when its factor is at most a \div b, and     *)
(* above a when its factor is at least that.                               *)
LEMMA FloorBounds ==
  ASSUME NEW a \in Int, NEW b \in Nat \ {0}, NEW o \in Int
  PROVE  /\ a <= b * o => a \div b <= o
         /\ b * o <= a => o <= a \div b
<1> DEFINE f == a \div b
<1>1. f \in Int /\ b * f <= a /\ a < b * f + b
  BY Floors
<1>2. ASSUME a <= b * o, o < f
      PROVE  FALSE
  <2>1. o + 1 <= f
    BY <1>1, <1>2
  <2>2. b * (o + 1) <= b * f
    BY <1>1, <2>1
  <2>3. b * (o + 1) = b * o + b
    OBVIOUS
  <2>4. QED
    BY <1>1, <1>2, <2>2, <2>3
<1>3. ASSUME b * o <= a, f < o
      PROVE  FALSE
  <2>1. f + 1 <= o
    BY <1>1, <1>3
  <2>2. b * (f + 1) <= b * o
    BY <1>1, <2>1
  <2>3. b * (f + 1) = b * f + b
    BY <1>1
  <2>4. QED
    BY <1>1, <1>3, <2>2, <2>3
<1>4. QED
  BY <1>1, <1>2, <1>3

-----------------------------------------------------------------------------
Numerator(o, in, out) == (2 * o + 1) * in - out

(* The source coordinate of an output lies at most one pixel to the left   *)
(* of the image; between two pixels it is clamped to neither side.         *)
LEMMA FloorRange ==
  ASSUME NEW in \in Nat \ {0}, NEW out \in Nat \ {0}, NEW o \in 0 .. out - 1
  PROVE  /\ Floor(o, in, out) \in -1 .. in - 1
         /\ ~OnPixel(o, in, out) => Floor(o, in, out) \in 0 .. in - 2
         /\ 2 * out * Floor(o, in, out) <= Numerator(o, in, out)
         /\ Numerator(o, in, out) < 2 * out * Floor(o, in, out) + 2 * out
<1> DEFINE num == Numerator(o, in, out)
           F == Floor(o, in, out)
           w == 2 * out
<1>1. num \in Int /\ w \in Nat \ {0}
  BY DEF Numerator
<1>2. F = num \div w
  BY DEF Floor, Numerator
<1>3. F \in Int /\ w * F <= num /\ num < w * F + w
  <2> HIDE DEF num, w, F
  <2> QED
    BY <1>1, <1>2, Floors
<1>4. -out < num /\ num < w * in
  <2>1. (2 * o + 1) * in >= 1
    <3>1. (2 * o + 1) * in = 2 * (o * in) + in /\ o * in \in Nat
      OBVIOUS
    <3>2. QED
      BY <3>1
  <2>2. (2 * o + 1) * in <= (2 * out) * in
    <3>1. o * in <= (out - 1) * in
      OBVIOUS
    <3>2. (2 * o + 1) * in = 2 * (o * in) + in
      OBVIOUS
    <3>3. (2 * out) * in = 2 * ((out - 1) * in) + 2 * in
      OBVIOUS
    <3>4. o * in \in Int /\ (out - 1) * in \in Int /\ (2 * out) * in \in Int
      OBVIOUS
    <3>5. QED
      BY <3>1, <3>2, <3>3, <3>4
  <2>3. (2 * o + 1) * in \in Int /\ (2 * out) * in \in Int
    OBVIOUS
  <2>4. QED
    BY <2>1, <2>2, <2>3 DEF Numerator
<1>5. F >= -1
  <2>1. SUFFICES ASSUME F <= -2 PROVE FALSE
    BY <1>3
  <2>2. w * F <= w * (-2)
    BY <1>1, <1>3, <2>1
  <2>3. QED
    BY <1>1, <1>3, <1>4, <2>2
<1>6. F <= in - 1
  <2>1. SUFFICES ASSUME in <= F PROVE FALSE
    BY <1>3
  <2>2. w * in <= w * F
    BY <1>1, <1>3, <2>1
  <2>3. QED
    BY <1>1, <1>3, <1>4, <2>2
<1>7. ASSUME ~OnPixel(o, in, out)
      PROVE  F \in 0 .. in - 2
  <2>1. 0 < num /\ num < w * (in - 1)
    BY <1>7, <1>1 DEF OnPixel, Numerator
  <2>2. F >= 0
    <3>1. SUFFICES ASSUME F <= -1 PROVE FALSE
      BY <1>3
    <3>2. w * F <= w * (-1)
      BY <1>1, <1>3, <3>1
    <3>3. QED
      BY <1>1, <1>3, <2>1, <3>2
  <2>3. F <= in - 2
    <3>1. SUFFICES ASSUME in - 1 <= F PROVE FALSE
      BY <1>3
    <3>2. w * (in - 1) <= w * F
      BY <1>1, <1>3, <3>1
    <3>3. QED
      BY <1>1, <1>3, <2>1, <3>2
  <2>4. QED
    BY <1>3, <2>2, <2>3
<1>8. QED
  BY <1>3, <1>5, <1>6, <1>7

(* A tap that weighs is at most two pixels from the source, clamped or     *)
(* not.                                                                    *)
LEMMA TapsAreNear ==
  ASSUME NEW in \in Nat \ {0}, NEW out \in Nat \ {0}, NEW o \in 0 .. out - 1,
         NEW n \in WeighingTaps(o, in, out)
  PROVE  /\ n \in 0 .. 3
         /\ Source(o, in, out) \in 0 .. in - 1
         /\ TapPixel(o, n, in, out) \in 0 .. in - 1
         /\ TapPixel(o, n, in, out) \in Floor(o, in, out) - 1 .. Floor(o, in, out) + 2
<1> DEFINE F == Floor(o, in, out)
<1>1. F \in -1 .. in - 1
  BY FloorRange
<1>2. CASE OnPixel(o, in, out)
  <2>1. n = 1
    BY <1>2 DEF WeighingTaps
  <2> HIDE DEF F
  <2>2. QED
    BY <1>1, <2>1 DEF F, TapPixel, Source, Clamp, Least, Greatest
<1>3. CASE ~OnPixel(o, in, out)
  <2>1. n \in 0 .. 3
    BY <1>3 DEF WeighingTaps
  <2>2. F \in 0 .. in - 2
    BY <1>3, FloorRange
  <2> HIDE DEF F
  <2>3. QED
    BY <2>1, <2>2 DEF F, TapPixel, Source, Clamp, Least, Greatest
<1>4. QED
  BY <1>2, <1>3

(* The outputs a pixel visits include all those with a tap there.          *)
LEMMA OutputsReach ==
  ASSUME NEW in \in Nat \ {0}, NEW out \in Nat \ {0}, NEW o \in 0 .. out - 1,
         NEW p \in 0 .. in - 1,
         p \in Floor(o, in, out) - 1 .. Floor(o, in, out) + 2
  PROVE  o \in OutputsOf(p, 0, in, out)
<1> DEFINE num == Numerator(o, in, out)
           F == Floor(o, in, out)
           b == 2 * in
           low == (2 * p - 3) * out - in
           high == (2 * p + 5) * out - in
<1>1. /\ F \in Int /\ num \in Int /\ b \in Nat \ {0} /\ low \in Int /\ high \in Int
      /\ 2 * out * F <= num /\ num < 2 * out * F + 2 * out
  BY FloorRange DEF Numerator
<1>2. num = b * o + in - out
  BY DEF Numerator
<1>3. low <= b * o
  <2>1. out * (p - 2) <= out * F
    BY <1>1
  <2>2. low = 2 * (out * (p - 2)) + out - in
    OBVIOUS
  <2>3. QED
    BY <1>1, <1>2, <2>1, <2>2
<1>4. b * (o - 1) <= high
  <2>1. out * (F + 1) <= out * (p + 2)
    BY <1>1
  <2>2. high = 2 * (out * (p + 2)) + out - in
    OBVIOUS
  <2>3. out * (F + 1) = out * F + out
    BY <1>1
  <2>4. b * (o - 1) = b * o - b
    OBVIOUS
  <2>5. QED
    BY <1>1, <1>2, <2>1, <2>2, <2>3, <2>4
<1>5. low \div b <= o /\ o - 1 <= high \div b
  <2>1. o \in Int /\ o - 1 \in Int
    OBVIOUS
  <2> HIDE DEF low, high, b
  <2>2. QED
    BY <1>1, <1>3, <1>4, <2>1, FloorBounds
<1>6. low \div b \in Int /\ high \div b \in Int
  <2> HIDE DEF low, high, b
  <2> QED
    BY <1>1, Floors
<1>7. Before(p, in, out) = low \div b /\ After(p, in, out) = high \div b + 1
  BY DEF Before, After
<1> HIDE DEF low, high, b
<1>8. QED
  BY <1>5, <1>6, <1>7 DEF OutputsOf, Least, Greatest

(* Each input pixel gathers exactly what the sequential program scatters   *)
(* to it, for all sizes of the two images.                                 *)
THEOREM GatheringIsComplete ==
  ASSUME NEW in \in Nat \ {0}, NEW out \in Nat \ {0}
  PROVE  GathersAll(in, out)
<1>1. SUFFICES ASSUME NEW p \in 0 .. in - 1, NEW interior \in {FALSE, Interior(p, in)}
               PROVE  Gathered(p, interior, in, out) = Scattered(p, in, out)
  BY DEF GathersAll
<1>2. interior = FALSE \/ (interior = TRUE /\ 2 <= p /\ p < in - 2)
  BY DEF Interior
<1>3. OutputsOf(p, 0, in, out) \subseteq 0 .. out - 1
  <2>1. Before(p, in, out) \in Int /\ After(p, in, out) \in Int
    <3>1. 2 * in \in Nat \ {0} /\ (2 * p - 3) * out - in \in Int /\ (2 * p + 5) * out - in \in Int
      OBVIOUS
    <3>2. QED
      BY <3>1, Floors DEF Before, After
  <2>2. QED
    BY <2>1 DEF OutputsOf, Least, Greatest
<1>4. ASSUME NEW o \in 0 .. out - 1, NEW n \in WeighingTaps(o, in, out)
      PROVE  TapPixel(o, n, in, out) = p <=> n \in TapsTowards(p, o, interior, in, out)
  <2>1. /\ n \in 0 .. 3
        /\ Source(o, in, out) \in 0 .. in - 1
    BY TapsAreNear
  <2>2. CASE interior = FALSE
    BY <2>1, <2>2 DEF TapsTowards
  <2>3. CASE interior = TRUE /\ 2 <= p /\ p < in - 2
    <3>1. TapPixel(o, n, in, out) = p <=> n = p - Source(o, in, out) + 1
      BY <2>1, <2>3 DEF TapPixel, Clamp, Least, Greatest
    <3>2. n \in TapsTowards(p, o, interior, in, out) <=> n = p - Source(o, in, out) + 1
      BY <2>3 DEF TapsTowards
    <3>3. QED
      BY <3>1, <3>2
  <2>4. QED
    BY <1>2, <2>2, <2>3
<1>5. Gathered(p, interior, in, out) \subseteq Scattered(p, in, out)
  <2>1. SUFFICES ASSUME NEW o \in OutputsOf(p, 0, in, out),
                        NEW n \in TapsTowards(p, o, interior, in, out)
                 PROVE  <<o, n>> \in Scattered(p, in, out)
    BY DEF Gathered
  <2>2. o \in 0 .. out - 1 /\ n \in WeighingTaps(o, in, out)
    BY <1>3 DEF TapsTowards
  <2>3. n \in 0 .. 3 /\ TapPixel(o, n, in, out) = p
    BY <1>4, <2>2, TapsAreNear
  <2>4. QED
    BY <2>2, <2>3 DEF Scattered
<1>6. ASSUME NEW x \in Scattered(p, in, out)
      PROVE  x \in Gathered(p, interior, in, out)
  <2> DEFINE o == x[1]
             n == x[2]
  <2>1. /\ o \in 0 .. out - 1 /\ n \in 0 .. 3 /\ x = <<o, n>>
        /\ n \in WeighingTaps(o, in, out) /\ TapPixel(o, n, in, out) = p
    BY DEF Scattered
  <2> HIDE DEF o, n
  <2>2. n \in TapsTowards(p, o, interior, in, out)
    BY <1>4, <2>1
  <2>3. o \in OutputsOf(p, 0, in, out)
    BY <2>1, TapsAreNear, OutputsReach
  <2>4. x \in {o} \X TapsTowards(p, o, interior, in, out)
    BY <2>1, <2>2
  <2>5. QED
    BY <2>3, <2>4 DEF Gathered
<1>7. QED
  BY <1>5, <1>6
-----------------------------------------------------------------------------
(* The window of a block along one axis: f is its first coordinate.        *)

LEMMA FloorsGrow ==
  ASSUME NEW a \in Int, NEW c \in Int, NEW b \in Nat \ {0}, a <= c
  PROVE  a \div b <= c \div b
<1> DEFINE f == a \div b
<1>1. f \in Int /\ b * f <= a
  BY Floors
<1> HIDE DEF f
<1>2. b * f <= c
  BY <1>1
<1>3. f <= c \div b
  BY <1>1, <1>2, FloorBounds
<1>4. QED
  BY <1>3 DEF f

(* The range of a pixel moves with the pixel; it begins before the image   *)
(* ends and ends after the image begins.                                   *)
LEMMA RangesMove ==
  ASSUME NEW in \in Nat \ {0}, NEW out \in Nat \ {0},
         NEW p \in 0 .. in - 1, NEW r \in 0 .. in - 1, p <= r
  PROVE  /\ Before(p, in, out) \in Int /\ After(r, in, out) \in Int
         /\ Before(p, in, out) <= Before(r, in, out)
         /\ After(p, in, out) <= After(r, in, out)
         /\ Before(p, in, out) <= out - 1 /\ 0 <= After(r, in, out)
         /\ Before(p, in, out) <= After(r, in, out)
<1> DEFINE b == 2 * in
           low(x) == (2 * x - 3) * out - in
           high(x) == (2 * x + 5) * out - in
<1>1. b \in Nat \ {0}
  OBVIOUS
<1>2. /\ low(p) \in Int /\ low(r) \in Int /\ high(p) \in Int /\ high(r) \in Int
      /\ low(p) <= low(r) /\ high(p) <= high(r) /\ low(p) <= high(r)
      /\ low(p) < b * out /\ b * (-1) <= high(r)
  <2>1. p * out <= r * out /\ p * out <= (in - 1) * out /\ 0 <= p * out
    OBVIOUS
  <2>2. p * out \in Int /\ r * out \in Int /\ in * out \in Int
    OBVIOUS
  <2>3. /\ low(p) = 2 * (p * out) - 3 * out - in
        /\ low(r) = 2 * (r * out) - 3 * out - in
        /\ high(p) = 2 * (p * out) + 5 * out - in
        /\ high(r) = 2 * (r * out) + 5 * out - in
        /\ b * out = 2 * (in * out) /\ b * (-1) = -(2 * in)
        /\ (in - 1) * out = in * out - out
    OBVIOUS
  <2> HIDE DEF low, high, b
  <2>4. QED
    BY <2>1, <2>2, <2>3
<1>3. /\ Before(p, in, out) = low(p) \div b /\ Before(r, in, out) = low(r) \div b
      /\ After(p, in, out) = high(p) \div b + 1 /\ After(r, in, out) = high(r) \div b + 1
  BY DEF Before, After
<1> HIDE DEF low, high, b
<1>4. /\ low(p) \div b \in Int /\ low(r) \div b \in Int
      /\ high(p) \div b \in Int /\ high(r) \div b \in Int
  BY <1>1, <1>2, Floors
<1>5. /\ low(p) \div b <= low(r) \div b /\ high(p) \div b <= high(r) \div b
      /\ low(p) \div b <= high(r) \div b
  BY <1>1, <1>2, FloorsGrow
<1>6. -1 <= high(r) \div b
  BY <1>1, <1>2, FloorBounds
<1>7. low(p) \div b < out
  <2> DEFINE l == low(p) \div b
  <2>1. l \in Int /\ b * l <= low(p)
    BY <1>1, <1>2, Floors
  <2> HIDE DEF l
  <2>2. ASSUME out <= l
        PROVE  FALSE
    <3>1. b * out <= b * l
      BY <1>1, <2>1, <2>2
    <3>2. b * out \in Int /\ b * l \in Int
      BY <1>1, <2>1
    <3>3. QED
      BY <1>2, <2>1, <3>1, <3>2
  <2>3. l < out
    BY <2>1, <2>2
  <2>4. QED
    BY <2>3 DEF l
<1>8. QED
  BY <1>3, <1>4, <1>5, <1>6, <1>7

LEMMA CeilUp ==
  ASSUME NEW a \in Nat, NEW b \in Nat \ {0}
  PROVE  CeilDiv(a, b) \in Int /\ a <= b * CeilDiv(a, b)
<1> DEFINE s == a + b - 1
           c == s \div b
<1>1. s \in Int
  OBVIOUS
<1> HIDE DEF s
<1>2. c \in Int /\ s < b * c + b
  BY <1>1, Floors
<1> HIDE DEF c
<1>3. b * c \in Int
  BY <1>2
<1>4. a <= b * c
  BY <1>2, <1>3 DEF s
<1>5. QED
  BY <1>2, <1>4 DEF CeilDiv, c, s

(* A window is not empty, lies in the image and contains the outputs that  *)
(* the pixels of its block visit; that these start at the window leaves    *)
(* none out.                                                               *)
LEMMA WindowCovers ==
  ASSUME NEW in \in Nat \ {0}, NEW out \in Nat \ {0}, NEW TILE \in Nat \ {0},
         NEW f \in 0 .. in - 1, NEW p \in 0 .. in - 1, f <= p, p <= f + TILE - 1
  PROVE  LET first == WindowFirst(f, in, out)
             last == WindowLast(f, TILE, in, out)
         IN  /\ first \in Nat /\ last \in Nat /\ first <= last /\ last <= out - 1
             /\ OutputsOf(p, first, in, out) = OutputsOf(p, 0, in, out)
             /\ OutputsOf(p, first, in, out) \subseteq first .. last
<1> DEFINE q == Least(f + TILE - 1, in - 1)
           first == WindowFirst(f, in, out)
           last == WindowLast(f, TILE, in, out)
<1>1. q \in 0 .. in - 1 /\ f <= q /\ p <= q
  BY DEF Least
<1>2. first = Greatest(0, Before(f, in, out)) /\ last = Least(out - 1, After(q, in, out))
  BY DEF WindowFirst, WindowLast
<1> HIDE DEF q, first, last
<1>3. /\ Before(f, in, out) \in Int /\ After(q, in, out) \in Int
      /\ Before(f, in, out) <= out - 1 /\ 0 <= After(q, in, out)
      /\ Before(f, in, out) <= After(q, in, out)
  BY <1>1, RangesMove
<1>4. /\ Before(p, in, out) \in Int /\ After(p, in, out) \in Int
      /\ Before(f, in, out) <= Before(p, in, out)
  BY <1>1, RangesMove
<1>5. After(p, in, out) <= After(q, in, out)
  BY <1>1, RangesMove
<1>6. first \in Nat /\ last \in Nat /\ first <= last /\ last <= out - 1
  BY <1>2, <1>3 DEF Least, Greatest
<1>7. Greatest(first, Before(p, in, out)) = Greatest(0, Before(p, in, out))
  BY <1>2, <1>3, <1>4 DEF Greatest
<1>8. OutputsOf(p, first, in, out) = OutputsOf(p, 0, in, out)
  BY <1>7 DEF OutputsOf
<1>9. OutputsOf(p, first, in, out) \subseteq first .. last
  BY <1>2, <1>3, <1>4, <1>5, <1>6 DEF OutputsOf, Least, Greatest
<1>10. QED
  BY <1>6, <1>8, <1>9 DEF first, last

(* The window is never larger than the memory the host computes from the   *)
(* scale.                                                                  *)
LEMMA WindowFits ==
  ASSUME NEW in \in Nat \ {0}, NEW out \in Nat \ {0}, NEW TILE \in Nat \ {0},
         NEW f \in 0 .. in - 1
  PROVE  /\ MaxWindow(TILE, in, out) \in Int
         /\ WindowLast(f, TILE, in, out) - WindowFirst(f, in, out) + 1
              <= MaxWindow(TILE, in, out)
<1> DEFINE q == Least(f + TILE - 1, in - 1)
           b == 2 * in
           A == (2 * q + 5) * out - in
           B == (2 * f - 3) * out - in
           X == (TILE + 4) * out
           c == CeilDiv(X, in)
           top == A \div b
           low == B \div b
<1>1. q \in Nat /\ q <= f + TILE - 1 /\ X \in Nat /\ b \in Nat \ {0} /\ A \in Int /\ B \in Int
  BY DEF Least
<1>2. c \in Int /\ X <= in * c
  <2> HIDE DEF X
  <2> QED
    BY <1>1, CeilUp
<1>3. top \in Int /\ b * top <= A /\ low \in Int /\ B < b * low + b
  <2> HIDE DEF A, B, b
  <2> QED
    BY <1>1, Floors
<1>4. A - B <= 2 * X
  <2>1. q * out <= (f + TILE - 1) * out
    BY <1>1
  <2>2. (f + TILE - 1) * out = f * out + TILE * out - out
    OBVIOUS
  <2>3. /\ A = 2 * (q * out) + 5 * out - in /\ B = 2 * (f * out) - 3 * out - in
        /\ X = TILE * out + 4 * out
    BY <1>1
  <2>4. q * out \in Int /\ f * out \in Int /\ TILE * out \in Int
    BY <1>1
  <2> HIDE DEF A, B, X, q
  <2>5. QED
    BY <2>1, <2>2, <2>3, <2>4
<1>5. WindowLast(f, TILE, in, out) <= top + 1 /\ low <= WindowFirst(f, in, out)
      /\ WindowLast(f, TILE, in, out) \in Int /\ WindowFirst(f, in, out) \in Int
  <2>1. After(q, in, out) = top + 1 /\ Before(f, in, out) = low
    BY DEF After, Before
  <2> HIDE DEF top, low
  <2>2. QED
    BY <1>3, <2>1 DEF WindowLast, WindowFirst, Least, Greatest, q
<1> HIDE DEF q, A, B, X, c, top, low
<1>6. top - low - 1 < c
  <2>1. SUFFICES ASSUME c <= top - low - 1 PROVE FALSE
    BY <1>2, <1>3
  <2>2. b * c <= b * (top - low - 1)
    BY <1>1, <1>2, <1>3, <2>1
  <2>3. b * (top - low - 1) = b * top - b * low - b
    BY <1>1, <1>3
  <2>4. b * c = 2 * (in * c)
    BY <1>2
  <2>5. in * c \in Int /\ b * top \in Int /\ b * low \in Int /\ b * c \in Int
    BY <1>1, <1>2, <1>3
  <2> HIDE DEF b
  <2>6. QED
    BY <1>1, <1>2, <1>3, <1>4, <2>2, <2>3, <2>4, <2>5
<1>7. MaxWindow(TILE, in, out) = c + 6
  BY DEF MaxWindow, c, X
<1>8. QED
  BY <1>2, <1>3, <1>5, <1>6, <1>7

-----------------------------------------------------------------------------
(* The threads of a block and its window. *)

LEMMA DivMod ==
  ASSUME NEW k \in Nat \ {0}, NEW a \in Nat
  PROVE  a \div k \in Nat /\ a % k \in 0 .. k - 1 /\ a = (a \div k) * k + (a % k)
<1> DEFINE q == a \div k
           r == a % k
<1>1. a = k * q + r /\ r \in 0 .. k - 1 /\ q \in Int
  OBVIOUS
<1> HIDE DEF q, r
<1>2. a < k * q + k /\ k * q + k = k * (q + 1)
  BY <1>1
<1>3. ASSUME q < 0
      PROVE  FALSE
  <2> DEFINE z == -(q + 1)
  <2>1. z \in Nat /\ q + 1 = -z
    BY <1>1, <1>3
  <2> HIDE DEF z
  <2>2. k * z >= 0 /\ k * (-z) = -(k * z)
    BY <2>1
  <2>3. QED
    BY <1>1, <1>2, <2>1, <2>2
<1>4. q \in Nat
  BY <1>1, <1>3
<1>5. q * k = k * q
  BY <1>4
<1>6. q \in Nat /\ r \in 0 .. k - 1 /\ a = q * k + r
  BY <1>1, <1>4, <1>5
<1>7. QED
  BY <1>6 DEF q, r

(* A pair of a quotient and a remainder makes one number. *)
LEMMA PairUnique ==
  ASSUME NEW k \in Nat \ {0}, NEW p \in Nat, NEW q \in Nat,
         NEW r \in 0 .. k - 1, NEW z \in 0 .. k - 1,
         p * k + r = q * k + z
  PROVE  p = q /\ r = z
<1>1. CASE p < q
  <2>1. (p + 1) * k <= q * k
    BY <1>1
  <2>2. (p + 1) * k = p * k + k
    OBVIOUS
  <2>3. QED
    BY <2>1, <2>2
<1>2. CASE q < p
  <2>1. (q + 1) * k <= p * k
    BY <1>2
  <2>2. (q + 1) * k = q * k + k
    OBVIOUS
  <2>3. QED
    BY <2>1, <2>2
<1>3. QED
  BY <1>1, <1>2

LEMMA JobSizes ==
  ASSUME NEW j \in Jobs
  PROVE  /\ j.TILE \in Nat \ {0} /\ j.inW \in Nat \ {0} /\ j.inH \in Nat \ {0}
         /\ j.outW \in Nat \ {0} /\ j.outH \in Nat \ {0}
  BY GatherAssumption

(* The first row or column of a block is in the image. *)
LEMMA FirstInside ==
  ASSUME NEW in \in Nat \ {0}, NEW TILE \in Nat \ {0}, NEW b \in 0 .. CeilDiv(in, TILE) - 1
  PROVE  b * TILE \in 0 .. in - 1
<1> DEFINE s == in + TILE - 1
           c == s \div TILE
<1>1. s \in Int
  OBVIOUS
<1>2. c \in Int /\ TILE * c <= s /\ c = CeilDiv(in, TILE)
  <2> HIDE DEF s
  <2>1. c \in Int /\ TILE * c <= s
    BY <1>1, Floors
  <2>2. QED
    BY <2>1 DEF CeilDiv, s
<1> HIDE DEF c, s
<1>3. b \in Nat /\ b + 1 <= c
  BY <1>2
<1>4. TILE * (b + 1) <= TILE * c
  BY <1>2, <1>3
<1>5. TILE * (b + 1) = b * TILE + TILE /\ b * TILE \in Nat /\ TILE * c \in Int
  BY <1>2, <1>3
<1>6. QED
  BY <1>2, <1>4, <1>5 DEF s

LEMMA ThreadFacts ==
  ASSUME NEW j \in Jobs, NEW th \in Threads(j)
  PROVE  /\ th[1] \in Blocks(j) /\ th[2] \in tids(j) /\ th = <<th[1], th[2]>>
         /\ th[1] = <<th[1][1], th[1][2]>> /\ th[1][1] \in Nat /\ th[1][2] \in Nat
         /\ th[2] \in Nat
         /\ th[2] \div j.TILE \in 0 .. j.TILE - 1 /\ th[2] % j.TILE \in 0 .. j.TILE - 1
         /\ th[2] = (th[2] \div j.TILE) * j.TILE + (th[2] % j.TILE)
<1> DEFINE T == j.TILE
           t == th[2]
           q == t \div T
           r == t % T
<1>1. th[1] \in Blocks(j) /\ t \in tids(j) /\ th = <<th[1], t>>
  BY DEF Threads
<1>2. th[1] = <<th[1][1], th[1][2]>> /\ th[1][1] \in Nat /\ th[1][2] \in Nat
  BY <1>1 DEF Blocks
<1>3. T \in Nat \ {0}
  BY JobSizes
<1>4. T * T \in Nat
  BY <1>3
<1>5. t \in Nat /\ t < T * T
  BY <1>1, <1>4 DEF tids
<1> HIDE DEF t, T
<1>6. q \in Nat /\ r \in 0 .. T - 1 /\ t = q * T + r
  BY <1>3, <1>5, DivMod
<1> HIDE DEF q, r
<1>7. ASSUME q >= T
      PROVE  FALSE
  <2>1. q * T >= T * T
    BY <1>3, <1>6, <1>7
  <2>2. q * T \in Nat
    BY <1>3, <1>6
  <2>3. QED
    BY <1>3, <1>4, <1>5, <1>6, <2>1, <2>2
<1>8. q \in 0 .. T - 1
  BY <1>3, <1>6, <1>7
<1>9. QED
  BY <1>1, <1>2, <1>5, <1>6, <1>8 DEF q, r, t, T

(* No two threads have the same pixel, and every pixel has a thread. *)
LEMMA PixelUnique ==
  ASSUME NEW j \in Jobs, NEW th \in Threads(j), NEW u \in Threads(j),
         PixelOf(j, th) = PixelOf(j, u)
  PROVE  th = u
<1> DEFINE T == j.TILE
           a == th[2] \div T
           c == th[2] % T
           d == u[2] \div T
           e == u[2] % T
<1>1. T \in Nat \ {0}
  BY JobSizes
<1>2. /\ a \in 0 .. T - 1 /\ c \in 0 .. T - 1 /\ d \in 0 .. T - 1 /\ e \in 0 .. T - 1
      /\ th[2] = a * T + c /\ u[2] = d * T + e
  BY ThreadFacts
<1>3. /\ th = <<th[1], th[2]>> /\ u = <<u[1], u[2]>>
      /\ th[1] = <<th[1][1], th[1][2]>> /\ u[1] = <<u[1][1], u[1][2]>>
      /\ th[1][1] \in Nat /\ th[1][2] \in Nat /\ u[1][1] \in Nat /\ u[1][2] \in Nat
  BY ThreadFacts
<1>4. /\ th[1][1] * T + a = u[1][1] * T + d
      /\ th[1][2] * T + c = u[1][2] * T + e
  BY DEF PixelOf
<1> HIDE DEF T, a, c, d, e
<1>5. th[1][1] = u[1][1] /\ a = d
  BY <1>1, <1>2, <1>3, <1>4, PairUnique
<1>6. th[1][2] = u[1][2] /\ c = e
  BY <1>1, <1>2, <1>3, <1>4, PairUnique
<1>7. th[2] = u[2]
  BY <1>2, <1>5, <1>6
<1>8. th[1] = u[1]
  BY <1>3, <1>5, <1>6
<1>9. QED
  BY <1>3, <1>7, <1>8

LEMMA BlockOf ==
  ASSUME NEW in \in Nat \ {0}, NEW TILE \in Nat \ {0}, NEW p \in 0 .. in - 1
  PROVE  /\ p \div TILE \in 0 .. CeilDiv(in, TILE) - 1
         /\ p % TILE \in 0 .. TILE - 1
         /\ p = (p \div TILE) * TILE + (p % TILE)
<1> DEFINE q == p \div TILE
           r == p % TILE
<1>1. q \in Nat /\ r \in 0 .. TILE - 1 /\ p = q * TILE + r
  BY DivMod
<1> HIDE DEF q, r
<1>2. CeilDiv(in, TILE) \in Int /\ in <= TILE * CeilDiv(in, TILE)
  BY CeilUp
<1>3. ASSUME CeilDiv(in, TILE) <= q
      PROVE  FALSE
  <2> DEFINE c == CeilDiv(in, TILE)
  <2> HIDE DEF c
  <2>1. c \in Int /\ in <= TILE * c /\ c <= q
    BY <1>2, <1>3 DEF c
  <2>2. TILE * c <= TILE * q
    BY <1>1, <2>1
  <2>3. TILE * q = q * TILE /\ TILE * q \in Nat /\ TILE * c \in Int
    BY <1>1, <2>1
  <2>4. QED
    BY <1>1, <2>1, <2>2, <2>3
<1>4. q \in 0 .. CeilDiv(in, TILE) - 1
  BY <1>1, <1>2, <1>3
<1>5. QED
  BY <1>1, <1>4 DEF q, r

LEMMA PixelHasThread ==
  ASSUME NEW j \in Jobs, NEW p \in Pixels(j)
  PROVE  \E th \in Threads(j) : PixelOf(j, th) = p /\ Inside(j, th)
<1> DEFINE T == j.TILE
           b == <<p[1] \div T, p[2] \div T>>
           row == p[1] % T
           col == p[2] % T
           t == row * T + col
           th == <<b, t>>
<1>1. /\ T \in Nat \ {0} /\ p = <<p[1], p[2]>>
      /\ p[1] \in 0 .. j.inH - 1 /\ p[2] \in 0 .. j.inW - 1
  BY JobSizes DEF Pixels
<1>2. /\ b \in Blocks(j) /\ row \in 0 .. T - 1 /\ col \in 0 .. T - 1
      /\ p[1] = b[1] * T + row /\ p[2] = b[2] * T + col
  BY <1>1, BlockOf, JobSizes DEF Blocks
<1> HIDE DEF T, row, col, b
<1>3. t \in Nat /\ t < T * T
  <2>1. row * T <= (T - 1) * T
    BY <1>1, <1>2
  <2>2. (T - 1) * T = T * T - T /\ row * T \in Nat /\ T * T \in Nat
    BY <1>1, <1>2
  <2>3. QED
    BY <1>1, <1>2, <2>1, <2>2
<1>4. t \in tids(j)
  <2>1. T * T \in Nat
    BY <1>1
  <2> HIDE DEF t
  <2>2. QED
    BY <1>3, <2>1 DEF tids, T
<1>5. t \div T = row /\ t % T = col
  <2>1. t \div T \in Nat /\ t % T \in 0 .. T - 1 /\ t = (t \div T) * T + (t % T)
    <3> HIDE DEF t
    <3> QED
      BY <1>1, <1>3, DivMod
  <2>2. QED
    BY <1>1, <1>2, <2>1, PairUnique
<1> HIDE DEF t
<1>6. th \in Threads(j)
  BY <1>2, <1>4 DEF Threads
<1>7. PixelOf(j, th) = <<b[1] * T + row, b[2] * T + col>>
  BY <1>5 DEF PixelOf, T
<1>8. PixelOf(j, th) = p
  BY <1>1, <1>2, <1>7
<1>9. QED
  BY <1>6, <1>8 DEF Inside

-----------------------------------------------------------------------------
(* The window of a block, and what its threads load and visit. *)

(* The calls these proofs are about: a kernel with its own host. *)
VersionCalls ==
  \A j \in Jobs : \/ j.code = v7 /\ j.host = v7Host
                  \/ j.code = v8 /\ j.host = v8Host

LEMMA WindowInImage ==
  ASSUME NEW in \in Nat \ {0}, NEW out \in Nat \ {0}, NEW TILE \in Nat \ {0},
         NEW f \in 0 .. in - 1
  PROVE  /\ WindowFirst(f, in, out) \in Nat /\ WindowLast(f, TILE, in, out) \in Nat
         /\ WindowFirst(f, in, out) <= WindowLast(f, TILE, in, out)
         /\ WindowLast(f, TILE, in, out) <= out - 1
<1>1. f <= f /\ f <= f + TILE - 1
  OBVIOUS
<1>2. QED
  BY <1>1, WindowCovers

LEMMA WindowFacts ==
  ASSUME NEW j \in Jobs, NEW b \in Blocks(j)
  PROVE  /\ Row0(j, b) \in Nat /\ Col0(j, b) \in Nat
         /\ tile_smem_h(j, b) \in Nat \ {0} /\ tile_smem_w(j, b) \in Nat \ {0}
         /\ Row0(j, b) + tile_smem_h(j, b) <= j.outH
         /\ Col0(j, b) + tile_smem_w(j, b) <= j.outW
         /\ smemSize(j) \in Nat
         /\ tile_smem_h(j, b) * tile_smem_w(j, b) \in Nat
         /\ tile_smem_h(j, b) * tile_smem_w(j, b) <= smemSize(j)
<1> DEFINE T == j.TILE
           h == tile_smem_h(j, b)
           w == tile_smem_w(j, b)
           H == MaxWindow(j.TILE, j.inH, j.outH)
           W == MaxWindow(j.TILE, j.inW, j.outW)
<1>1. /\ b[1] * T \in 0 .. j.inH - 1 /\ b[2] * T \in 0 .. j.inW - 1
  BY FirstInside, JobSizes DEF Blocks
<1>2. /\ Row0(j, b) \in Nat /\ h \in Nat \ {0} /\ Row0(j, b) + h <= j.outH
  <2> DEFINE first == WindowFirst(b[1] * T, j.inH, j.outH)
             last == WindowLast(b[1] * T, T, j.inH, j.outH)
  <2>1. first \in Nat /\ last \in Nat /\ first <= last /\ last <= j.outH - 1
    BY <1>1, JobSizes, WindowInImage
  <2>2. Row0(j, b) = first /\ h = last - first + 1
    BY DEF Row0, tile_smem_h
  <2> HIDE DEF first, last, h
  <2>3. QED
    BY <2>1, <2>2, JobSizes
<1>3. /\ Col0(j, b) \in Nat /\ w \in Nat \ {0} /\ Col0(j, b) + w <= j.outW
  <2> DEFINE first == WindowFirst(b[2] * T, j.inW, j.outW)
             last == WindowLast(b[2] * T, T, j.inW, j.outW)
  <2>1. first \in Nat /\ last \in Nat /\ first <= last /\ last <= j.outW - 1
    BY <1>1, JobSizes, WindowInImage
  <2>2. Col0(j, b) = first /\ w = last - first + 1
    BY DEF Col0, tile_smem_w
  <2> HIDE DEF first, last, w
  <2>3. QED
    BY <2>1, <2>2, JobSizes
<1>4. H \in Int /\ h <= H
  BY <1>1, JobSizes, WindowFits DEF tile_smem_h, Row0
<1>5. W \in Int /\ w <= W
  BY <1>1, JobSizes, WindowFits DEF tile_smem_w, Col0
<1>6. smemSize(j) = H * W
  BY DEF smemSize
<1> HIDE DEF h, w, H, W
<1>7. h * w <= H * w /\ H * w <= H * W /\ h * w \in Nat /\ H * w \in Nat /\ H * W \in Nat
  BY <1>2, <1>3, <1>4, <1>5
<1>8. smemSize(j) \in Nat /\ h * w \in Nat /\ h * w <= smemSize(j)
  BY <1>6, <1>7
<1>9. QED
  BY <1>2, <1>3, <1>8 DEF h, w

(* What index i of the window gets is an output, and so every output of    *)
(* the window is reached by its index.                                     *)
LEMMA IndexFacts ==
  ASSUME NEW j \in Jobs, NEW b \in Blocks(j)
  PROVE  /\ \A i \in 0 .. tile_smem_h(j, b) * tile_smem_w(j, b) - 1 :
              OutputAt(j, b, i) \in OutPixels(j)
         /\ \A r \in Row0(j, b) .. Row0(j, b) + tile_smem_h(j, b) - 1,
               c \in Col0(j, b) .. Col0(j, b) + tile_smem_w(j, b) - 1 :
              /\ IndexOf(j, b, <<r, c>>) \in 0 .. tile_smem_h(j, b) * tile_smem_w(j, b) - 1
              /\ OutputAt(j, b, IndexOf(j, b, <<r, c>>)) = <<r, c>>
<1> DEFINE h == tile_smem_h(j, b)
           w == tile_smem_w(j, b)
           R == Row0(j, b)
           C == Col0(j, b)
<1>1. /\ R \in Nat /\ C \in Nat /\ h \in Nat \ {0} /\ w \in Nat \ {0}
      /\ R + h <= j.outH /\ C + w <= j.outW /\ j.outH \in Nat /\ j.outW \in Nat
      /\ h * w \in Nat
  BY WindowFacts, JobSizes
<1>2. ASSUME NEW i \in 0 .. h * w - 1
      PROVE  OutputAt(j, b, i) \in OutPixels(j)
  <2> DEFINE q == i \div w
             z == i % w
  <2>1. OutputAt(j, b, i) = <<R + q, C + z>>
    BY DEF OutputAt
  <2> HIDE DEF h, w, R, C
  <2>2. i \in Nat /\ i < h * w
    BY <1>1
  <2>3. q \in Nat /\ z \in 0 .. w - 1 /\ i = q * w + z
    BY <1>1, <2>2, DivMod
  <2> HIDE DEF q, z
  <2>4. ASSUME h <= q
        PROVE  FALSE
    <3>1. h * w <= q * w
      BY <1>1, <2>3, <2>4
    <3>2. q * w \in Nat
      BY <1>1, <2>3
    <3>3. QED
      BY <1>1, <2>2, <2>3, <3>1, <3>2
  <2>5. q < h
    BY <1>1, <2>3, <2>4
  <2>6. R + q \in 0 .. j.outH - 1 /\ C + z \in 0 .. j.outW - 1
    BY <1>1, <2>3, <2>5
  <2>7. QED
    BY <2>1, <2>6 DEF OutPixels
<1>3. ASSUME NEW r \in R .. R + h - 1, NEW c \in C .. C + w - 1
      PROVE  /\ IndexOf(j, b, <<r, c>>) \in 0 .. h * w - 1
             /\ OutputAt(j, b, IndexOf(j, b, <<r, c>>)) = <<r, c>>
  <2> DEFINE k == r - R
             l == c - C
             i == k * w + l
  <2>1. IndexOf(j, b, <<r, c>>) = i
    BY DEF IndexOf
  <2>2. OutputAt(j, b, i) = <<R + (i \div w), C + (i % w)>>
    BY DEF OutputAt
  <2> HIDE DEF h, w, R, C
  <2>3. k \in 0 .. h - 1 /\ l \in 0 .. w - 1 /\ r = R + k /\ c = C + l
    BY <1>1
  <2> HIDE DEF k, l
  <2>4. i \in 0 .. h * w - 1
    <3>1. k * w <= (h - 1) * w
      BY <1>1, <2>3
    <3>2. (h - 1) * w = h * w - w /\ k * w \in Nat
      BY <1>1, <2>3
    <3>3. QED
      BY <1>1, <2>3, <3>1, <3>2
  <2>5. i \div w = k /\ i % w = l
    <3>1. i \in Nat
      BY <1>1, <2>4
    <3>2. i \div w \in Nat /\ i % w \in 0 .. w - 1 /\ i = (i \div w) * w + (i % w)
      <4> HIDE DEF i
      <4> QED
        BY <1>1, <3>1, DivMod
    <3>3. QED
      BY <1>1, <2>3, <3>2, PairUnique
  <2>6. QED
    BY <2>1, <2>2, <2>3, <2>4, <2>5
<1>4. QED
  BY <1>2, <1>3

(* Each index of the window is some thread's to load. *)
LEMMA IndexHasThread ==
  ASSUME NEW j \in Jobs, NEW b \in Blocks(j),
         NEW i \in 0 .. tile_smem_h(j, b) * tile_smem_w(j, b) - 1
  PROVE  \E u \in Threads(j) : u[1] = b /\ i \in MyIndices(j, u)
<1> DEFINE n == j.TILE * j.TILE
           u == <<b, i % n>>
<1>1. i \in Nat
  BY WindowFacts
<1>2. n \in Nat \ {0}
  <2>1. \A k \in Nat \ {0} : k * k \in Nat \ {0}
    OBVIOUS
  <2>2. QED
    BY <2>1, JobSizes
<1> HIDE DEF n
<1>3. i % n \in 0 .. n - 1
  BY <1>1, <1>2, DivMod
<1>4. u \in Threads(j)
  BY <1>3 DEF Threads, tids, n
<1>5. i \in MyIndices(j, u)
  BY <1>4 DEF MyIndices, n
<1>6. QED
  BY <1>4, <1>5

LEMMA MyIndicesType ==
  ASSUME NEW j \in Jobs, NEW th \in Threads(j), NEW i \in MyIndices(j, th)
  PROVE  /\ i \in 0 .. tile_smem_h(j, th[1]) * tile_smem_w(j, th[1]) - 1
         /\ i \in 0 .. smemSize(j) - 1
         /\ OutputAt(j, th[1], i) \in OutPixels(j)
<1>1. th[1] \in Blocks(j)
  BY ThreadFacts
<1>2. i \in 0 .. tile_smem_h(j, th[1]) * tile_smem_w(j, th[1]) - 1
  BY DEF MyIndices
<1>3. OutputAt(j, th[1], i) \in OutPixels(j)
  BY <1>1, <1>2, IndexFacts
<1>4. i \in 0 .. smemSize(j) - 1
  BY <1>1, <1>2, WindowFacts
<1>5. QED
  BY <1>2, <1>3, <1>4

(* The ranges of a thread with a pixel: whether or not they start at the   *)
(* window, they are those of the pixel, and lie in the window of its       *)
(* block.                                                                  *)
LEMMA RangesOfThread ==
  ASSUME NEW j \in Jobs, NEW th \in Threads(j), Inside(j, th)
  PROVE  LET p == PixelOf(j, th)
             b == th[1]
             rows == OutputsOf(p[1], 0, j.inH, j.outH)
             cols == OutputsOf(p[2], 0, j.inW, j.outW)
         IN  /\ p[1] \in 0 .. j.inH - 1 /\ p[2] \in 0 .. j.inW - 1 /\ p = <<p[1], p[2]>>
             /\ OutputsOf(p[1], Row0(j, b), j.inH, j.outH) = rows
             /\ OutputsOf(p[2], Col0(j, b), j.inW, j.outW) = cols
             /\ rows \subseteq Row0(j, b) .. Row0(j, b) + tile_smem_h(j, b) - 1
             /\ cols \subseteq Col0(j, b) .. Col0(j, b) + tile_smem_w(j, b) - 1
<1> DEFINE p == PixelOf(j, th)
           b == th[1]
           T == j.TILE
<1>1. p[1] \in 0 .. j.inH - 1 /\ p[2] \in 0 .. j.inW - 1 /\ p = <<p[1], p[2]>>
  BY DEF Inside, Pixels
<1>2. /\ b \in Blocks(j) /\ b[1] * T \in 0 .. j.inH - 1 /\ b[2] * T \in 0 .. j.inW - 1
  BY FirstInside, JobSizes, ThreadFacts DEF Blocks
<1>3. /\ b[1] * T <= p[1] /\ p[1] <= b[1] * T + T - 1
      /\ b[2] * T <= p[2] /\ p[2] <= b[2] * T + T - 1
  <2>1. p[1] = b[1] * T + (th[2] \div T) /\ p[2] = b[2] * T + (th[2] % T)
    BY DEF PixelOf
  <2>2. th[2] \div T \in 0 .. T - 1 /\ th[2] % T \in 0 .. T - 1
    BY ThreadFacts
  <2>3. b[1] * T \in Int /\ b[2] * T \in Int /\ T \in Nat
    BY <1>2, JobSizes
  <2> HIDE DEF p, b, T
  <2>4. QED
    BY <2>1, <2>2, <2>3
<1>4. /\ OutputsOf(p[1], Row0(j, b), j.inH, j.outH) = OutputsOf(p[1], 0, j.inH, j.outH)
      /\ OutputsOf(p[1], Row0(j, b), j.inH, j.outH)
           \subseteq Row0(j, b) .. Row0(j, b) + tile_smem_h(j, b) - 1
  <2> DEFINE first == WindowFirst(b[1] * T, j.inH, j.outH)
             last == WindowLast(b[1] * T, T, j.inH, j.outH)
  <2>1. /\ first \in Nat /\ last \in Nat
        /\ OutputsOf(p[1], first, j.inH, j.outH) = OutputsOf(p[1], 0, j.inH, j.outH)
        /\ OutputsOf(p[1], first, j.inH, j.outH) \subseteq first .. last
    BY <1>1, <1>2, <1>3, JobSizes, WindowCovers
  <2>2. Row0(j, b) = first /\ tile_smem_h(j, b) = last - first + 1
    BY DEF Row0, tile_smem_h
  <2> HIDE DEF first, last, p, b
  <2>3. QED
    BY <2>1, <2>2
<1>5. /\ OutputsOf(p[2], Col0(j, b), j.inW, j.outW) = OutputsOf(p[2], 0, j.inW, j.outW)
      /\ OutputsOf(p[2], Col0(j, b), j.inW, j.outW)
           \subseteq Col0(j, b) .. Col0(j, b) + tile_smem_w(j, b) - 1
  <2> DEFINE first == WindowFirst(b[2] * T, j.inW, j.outW)
             last == WindowLast(b[2] * T, T, j.inW, j.outW)
  <2>1. /\ first \in Nat /\ last \in Nat
        /\ OutputsOf(p[2], first, j.inW, j.outW) = OutputsOf(p[2], 0, j.inW, j.outW)
        /\ OutputsOf(p[2], first, j.inW, j.outW) \subseteq first .. last
    BY <1>1, <1>2, <1>3, JobSizes, WindowCovers
  <2>2. Col0(j, b) = first /\ tile_smem_w(j, b) = last - first + 1
    BY DEF Col0, tile_smem_w
  <2> HIDE DEF first, last, p, b
  <2>3. QED
    BY <2>1, <2>2
<1>6. QED
  BY <1>1, <1>4, <1>5

(* What a thread visits, taken apart. *)
LEMMA VisitsAre ==
  ASSUME VersionCalls, NEW j \in Jobs, NEW th \in Threads(j), Inside(j, th), NEW v
  PROVE  LET p == PixelOf(j, th)
             inside == InteriorPixel(j, p)
         IN  v \in Visits(j, th) <=>
               \E r \in OutputsOf(p[1], 0, j.inH, j.outH), c \in OutputsOf(p[2], 0, j.inW, j.outW) :
               \E m \in TapsTowards(p[1], r, inside, j.inH, j.outH),
                  n \in TapsTowards(p[2], c, inside, j.inW, j.outW) : v = <<<<r, c>>, m, n>>
<1> DEFINE p == PixelOf(j, th)
           inside == InteriorPixel(j, p)
           rows == OutputsOf(p[1], 0, j.inH, j.outH)
           cols == OutputsOf(p[2], 0, j.inW, j.outW)
           M(r) == TapsTowards(p[1], r, inside, j.inH, j.outH)
           N(c) == TapsTowards(p[2], c, inside, j.inW, j.outW)
<1>1. /\ OutputsOf(p[1], Row0(j, th[1]), j.inH, j.outH) = rows
      /\ OutputsOf(p[2], Col0(j, th[1]), j.inW, j.outW) = cols
  BY RangesOfThread
<1>2. Visits(j, th) = UNION {{o} \X M(o[1]) \X N(o[2]) : o \in rows \X cols}
  <2>1. OutputsOf(p[1], IF j.code = v8 THEN 0 ELSE Row0(j, th[1]), j.inH, j.outH) = rows
    BY <1>1
  <2>2. OutputsOf(p[2], IF j.code = v8 THEN 0 ELSE Col0(j, th[1]), j.inW, j.outW) = cols
    BY <1>1
  <2> HIDE DEF rows, cols
  <2>3. QED
    BY <2>1, <2>2 DEF Visits
<1> HIDE DEF p, inside, rows, cols, M, N
<1>3. ASSUME v \in Visits(j, th)
      PROVE  \E r \in rows, c \in cols : \E m \in M(r), n \in N(c) : v = <<<<r, c>>, m, n>>
  <2>1. PICK o \in rows \X cols : v \in {o} \X M(o[1]) \X N(o[2])
    BY <1>2, <1>3
  <2>2. o[1] \in rows /\ o[2] \in cols /\ o = <<o[1], o[2]>>
    BY <2>1
  <2>3. v[2] \in M(o[1]) /\ v[3] \in N(o[2]) /\ v = <<o, v[2], v[3]>>
    BY <2>1
  <2>4. QED
    BY <2>2, <2>3
<1>4. ASSUME NEW r \in rows, NEW c \in cols, NEW m \in M(r), NEW n \in N(c),
             v = <<<<r, c>>, m, n>>
      PROVE  v \in Visits(j, th)
  <2>1. v \in {<<r, c>>} \X M(r) \X N(c)
    BY <1>4
  <2>2. <<r, c>> \in rows \X cols /\ <<r, c>>[1] = r /\ <<r, c>>[2] = c
    OBVIOUS
  <2> DEFINE o == <<r, c>>
  <2>3. v \in {o} \X M(o[1]) \X N(o[2])
    BY <2>1, <2>2
  <2>4. QED
    BY <1>2, <2>2, <2>3
<1>5. QED
  BY <1>3, <1>4 DEF p, inside, rows, cols, M, N

(* What a thread visits is in the window of its block, and is what the CPU *)
(* adds to its pixel: both axes are complete, so their product is.         *)
LEMMA VisitsFacts ==
  ASSUME VersionCalls, NEW j \in Jobs, NEW th \in Threads(j), Inside(j, th)
  PROVE  /\ \A v \in Visits(j, th) :
              /\ v[1][1] \in Row0(j, th[1]) .. Row0(j, th[1]) + tile_smem_h(j, th[1]) - 1
              /\ v[1][2] \in Col0(j, th[1]) .. Col0(j, th[1]) + tile_smem_w(j, th[1]) - 1
              /\ v[1] = <<v[1][1], v[1][2]>>
         /\ {<<v[1][1], v[1][2], v[2], v[3]>> : v \in Visits(j, th)}
              = CpuGradient[j][PixelOf(j, th)]
<1> DEFINE p == PixelOf(j, th)
           inside == InteriorPixel(j, p)
           rows == OutputsOf(p[1], 0, j.inH, j.outH)
           cols == OutputsOf(p[2], 0, j.inW, j.outW)
           M(r) == TapsTowards(p[1], r, inside, j.inH, j.outH)
           N(c) == TapsTowards(p[2], c, inside, j.inW, j.outW)
<1>1. /\ p[1] \in 0 .. j.inH - 1 /\ p[2] \in 0 .. j.inW - 1
      /\ rows \subseteq Row0(j, th[1]) .. Row0(j, th[1]) + tile_smem_h(j, th[1]) - 1
      /\ cols \subseteq Col0(j, th[1]) .. Col0(j, th[1]) + tile_smem_w(j, th[1]) - 1
  BY RangesOfThread
<1>2. \A v : v \in Visits(j, th) <=>
        \E r \in rows, c \in cols : \E m \in M(r), n \in N(c) : v = <<<<r, c>>, m, n>>
  BY VisitsAre
<1>3. /\ Gathered(p[1], inside, j.inH, j.outH) = Scattered(p[1], j.inH, j.outH)
      /\ Gathered(p[2], inside, j.inW, j.outW) = Scattered(p[2], j.inW, j.outW)
  <2>1. GathersAll(j.inH, j.outH) /\ GathersAll(j.inW, j.outW)
    BY JobSizes, GatheringIsComplete
  <2>2. inside \in {FALSE, Interior(p[1], j.inH)} /\ inside \in {FALSE, Interior(p[2], j.inW)}
    BY DEF InteriorPixel, Interior
  <2> HIDE DEF inside, p
  <2>3. QED
    BY <1>1, <2>1, <2>2 DEF GathersAll
<1>4. /\ Gathered(p[1], inside, j.inH, j.outH) = UNION {{o} \X M(o) : o \in rows}
      /\ Gathered(p[2], inside, j.inW, j.outW) = UNION {{o} \X N(o) : o \in cols}
  BY DEF Gathered
<1>5. CpuGradient[j][p] =
        {<<y[1], x[1], y[2], x[2]>> : y \in Scattered(p[1], j.inH, j.outH),
                                      x \in Scattered(p[2], j.inW, j.outW)}
  BY DEF CpuGradient, Inside
<1> HIDE DEF p, inside, rows, cols, M, N
<1>6. ASSUME NEW v \in Visits(j, th)
      PROVE  /\ v[1][1] \in Row0(j, th[1]) .. Row0(j, th[1]) + tile_smem_h(j, th[1]) - 1
             /\ v[1][2] \in Col0(j, th[1]) .. Col0(j, th[1]) + tile_smem_w(j, th[1]) - 1
             /\ v[1] = <<v[1][1], v[1][2]>>
             /\ <<v[1][1], v[1][2], v[2], v[3]>> \in CpuGradient[j][p]
  <2>1. PICK r \in rows, c \in cols : \E m \in M(r), n \in N(c) : v = <<<<r, c>>, m, n>>
    BY <1>2
  <2>2. PICK m \in M(r), n \in N(c) : v = <<<<r, c>>, m, n>>
    BY <2>1
  <2>3. v[1] = <<r, c>> /\ v[1][1] = r /\ v[1][2] = c /\ v[2] = m /\ v[3] = n
    BY <2>2
  <2>4. <<r, m>> \in Scattered(p[1], j.inH, j.outH) /\ <<c, n>> \in Scattered(p[2], j.inW, j.outW)
    <3>1. <<r, m>> \in {r} \X M(r) /\ <<c, n>> \in {c} \X N(c)
      OBVIOUS
    <3>2. QED
      BY <1>3, <1>4, <3>1
  <2>5. <<r, c, m, n>> \in CpuGradient[j][p]
    BY <1>5, <2>4
  <2>6. QED
    BY <1>1, <2>3, <2>5
<1>7. ASSUME NEW z \in CpuGradient[j][p]
      PROVE  \E v \in Visits(j, th) : z = <<v[1][1], v[1][2], v[2], v[3]>>
  <2>1. PICK y \in Scattered(p[1], j.inH, j.outH), x \in Scattered(p[2], j.inW, j.outW) :
          z = <<y[1], x[1], y[2], x[2]>>
    BY <1>5
  <2>2. y[1] \in rows /\ y[2] \in M(y[1])
    BY <1>3, <1>4
  <2>3. x[1] \in cols /\ x[2] \in N(x[1])
    BY <1>3, <1>4
  <2> DEFINE v == <<<<y[1], x[1]>>, y[2], x[2]>>
  <2>4. v \in Visits(j, th)
    BY <1>2, <2>2, <2>3
  <2>5. z = <<v[1][1], v[1][2], v[2], v[3]>>
    BY <2>1
  <2>6. QED
    BY <2>4, <2>5
<1>8. {<<v[1][1], v[1][2], v[2], v[3]>> : v \in Visits(j, th)} = CpuGradient[j][p]
  BY <1>6, <1>7
<1>9. QED
  BY <1>6, <1>8 DEF p

(* So the index that v7 reads for a visited output is the one that holds   *)
(* its gradient.                                                           *)
LEMMA VisitedIndex ==
  ASSUME VersionCalls, NEW j \in Jobs, NEW th \in Threads(j), Inside(j, th),
         NEW v \in Visits(j, th)
  PROVE  /\ IndexOf(j, th[1], v[1])
              \in 0 .. tile_smem_h(j, th[1]) * tile_smem_w(j, th[1]) - 1
         /\ OutputAt(j, th[1], IndexOf(j, th[1], v[1])) = v[1]
<1> DEFINE b == th[1]
           r == v[1][1]
           c == v[1][2]
<1>1. /\ r \in Row0(j, b) .. Row0(j, b) + tile_smem_h(j, b) - 1
      /\ c \in Col0(j, b) .. Col0(j, b) + tile_smem_w(j, b) - 1
      /\ v[1] = <<r, c>>
  BY VisitsFacts
<1> HIDE DEF r, c
<1>2. b \in Blocks(j)
  BY ThreadFacts
<1>3. /\ IndexOf(j, b, <<r, c>>) \in 0 .. tile_smem_h(j, b) * tile_smem_w(j, b) - 1
      /\ OutputAt(j, b, IndexOf(j, b, <<r, c>>)) = <<r, c>>
  BY <1>1, <1>2, IndexFacts
<1>4. QED
  BY <1>1, <1>3

-----------------------------------------------------------------------------
(* The invariant.  The number of a thread's statement says how far it is:  *)
(* "gather" is the last one of both kernels, "launch" the last but one of  *)
(* both hosts.                                                             *)

Windowed == job.code = v7
LastStatement == IF Windowed THEN 4 ELSE 2
LaunchAt == IF Windowed THEN 3 ELSE 2

Control ==
  /\ job \in Jobs
  /\ pc \in [Threads(job) -> {1 - LastStatement} \cup (0 .. LastStatement + 1)]
  /\ hostPc \in 1 .. LaunchAt + 2
  /\ failed \in BOOLEAN /\ (failed => hostPc = LaunchAt + 2)

(* Nothing runs before the launch, nor without one. *)
Schedule ==
  hostPc <= LaunchAt \/ failed => \A th \in Threads(job) : pc[th] = 0

(* Exactly the threads without a pixel return early. *)
Returns ==
  \A th \in Threads(job) : /\ pc[th] < 0 => ~Inside(job, th)
                           /\ pc[th] >= LastStatement => Inside(job, th)

(* Nobody is past the barrier before the whole block has arrived. *)
Barrier ==
  Windowed => \A th, u \in Threads(job) :
    th[1] = u[1] /\ Reached(pc[th]) >= 3 => Reached(pc[u]) >= 2

(* Who has arrived at the barrier has loaded its indices. *)
Loaded ==
  /\ smem \in [Blocks(job) -> [0 .. smemSize(job) - 1 -> OutPixels(job) \cup {Garbage}]]
  /\ Windowed => \A th \in Threads(job) :
       Reached(pc[th]) >= 2 =>
         \A i \in MyIndices(job, th) : smem[th[1]][i] = OutputAt(job, th[1], i)

(* A pixel has its whole sum when its thread has ended, and none before. *)
Gradients ==
  /\ DOMAIN grad_input = Pixels(job)
  /\ hostPc = 1 => grad_input = Uninitialised
  /\ hostPc > 1 => /\ grad_input = [p \in Pixels(job) |-> grad_input[p]]
                   /\ \A th \in Threads(job) : Inside(job, th) =>
                        grad_input[PixelOf(job, th)] =
                          IF pc[th] = LastStatement + 1
                          THEN CpuGradient[job][PixelOf(job, th)] ELSE {}

ResultRight ==
  result = IF hostPc < LaunchAt + 2 THEN Uninitialised
           ELSE IF failed THEN Zeros ELSE CpuGradient[job]

Inv == Control /\ Schedule /\ Returns /\ Barrier /\ Loaded /\ Gradients /\ ResultRight

LEMMA Codes ==
  /\ Len(v7) = 4 /\ Len(v8) = 2 /\ v7 # v8 /\ DOMAIN v7 = 1 .. 4 /\ DOMAIN v8 = 1 .. 2
  /\ v7[1] = "load" /\ v7[2] = "sync" /\ v7[3] = "returnIfOutside" /\ v7[4] = "gather"
  /\ v8[1] = "returnIfOutside" /\ v8[2] = "gather"
  /\ Len(v7Host) = 4 /\ Len(v8Host) = 3
  /\ DOMAIN v7Host = 1 .. 4 /\ DOMAIN v8Host = 1 .. 3
  /\ v7Host[1] = "memset" /\ v7Host[2] = "checkDevice"
  /\ v7Host[3] = "launch" /\ v7Host[4] = "copyBack"
  /\ v8Host[1] = "memset" /\ v8Host[2] = "launch" /\ v8Host[3] = "copyBack"
<1>1. Len(v7) = 4 /\ Len(v8) = 2 /\ DOMAIN v7 = 1 .. 4 /\ DOMAIN v8 = 1 .. 2
  BY DEF v7, v8
<1>2. v7 # v8
  BY <1>1
<1>3. Len(v7Host) = 4 /\ Len(v8Host) = 3 /\ DOMAIN v7Host = 1 .. 4 /\ DOMAIN v8Host = 1 .. 3
  BY DEF v7Host, v8Host
<1>4. /\ v7[1] = "load" /\ v7[2] = "sync" /\ v7[3] = "returnIfOutside" /\ v7[4] = "gather"
      /\ v8[1] = "returnIfOutside" /\ v8[2] = "gather"
  BY DEF v7, v8
<1>5. /\ v7Host[1] = "memset" /\ v7Host[2] = "checkDevice"
      /\ v7Host[3] = "launch" /\ v7Host[4] = "copyBack"
      /\ v8Host[1] = "memset" /\ v8Host[2] = "launch" /\ v8Host[3] = "copyBack"
  BY DEF v7Host, v8Host
<1>6. QED
  BY <1>1, <1>2, <1>3, <1>4, <1>5

(* What the number of a statement stands for. *)
LEMMA Statements ==
  ASSUME VersionCalls, job \in Jobs
  PROVE  /\ Len(job.code) = LastStatement /\ Len(job.host) = LaunchAt + 1
         /\ Windowed <=> job.code # v8
         /\ \A th \in Threads(job) :
              /\ At(th, "load") <=> Windowed /\ pc[th] = 1
              /\ At(th, "sync") <=> Windowed /\ pc[th] = 2
              /\ At(th, "returnIfOutside") <=> pc[th] = LastStatement - 1
              /\ At(th, "gather") <=> pc[th] = LastStatement
         /\ HostAt("memset") => hostPc = 1
         /\ HostAt("checkDevice") => Windowed /\ hostPc = 2
         /\ HostAt("launch") => hostPc = LaunchAt
         /\ HostAt("copyBack") => hostPc = LaunchAt + 1
<1>1. CASE job.code = v7 /\ job.host = v7Host
  BY <1>1, Codes DEF Windowed, LastStatement, LaunchAt, At, HostAt
<1>2. CASE job.code = v8 /\ job.host = v8Host
  BY <1>2, Codes DEF Windowed, LastStatement, LaunchAt, At, HostAt
<1>3. QED
  BY <1>1, <1>2 DEF VersionCalls

-----------------------------------------------------------------------------
(* The steps of a thread. *)

LEMMA ThreadMoves ==
  ASSUME VersionCalls, Inv, NEW th \in Threads(job), Step(th)
  PROVE  /\ job' = job /\ hostPc' = hostPc /\ result' = result /\ failed' = failed
         /\ hostPc > LaunchAt /\ ~failed
         /\ pc[th] \in 1 .. LastStatement
         /\ \E n : /\ pc' = [pc EXCEPT ![th] = n]
                   /\ \/ n = pc[th] + 1
                      \/ n = 1 - LastStatement /\ pc[th] = LastStatement - 1
                   /\ n < 0 => ~Inside(job, th)
                   /\ n >= LastStatement => Inside(job, th)
                   /\ Windowed /\ n \in {3, -3} =>
                        \A u \in Threads(job) : u[1] = th[1] => Reached(pc[u]) >= 2
<1>1. Control /\ Schedule /\ Returns /\ Barrier /\ job \in Jobs
  BY DEF Inv, Control
<1>2. LastStatement \in {2, 4} /\ (Windowed => LastStatement = 4) /\ LaunchAt \in {2, 3}
  BY DEF LastStatement, LaunchAt
<1>3. /\ job' = job /\ hostPc' = hostPc /\ result' = result /\ failed' = failed
  BY DEF Step, Load, Sync, ReturnIfOutside, Gather, Advance
<1>4. pc[th] \in 1 .. LastStatement
  BY <1>1, <1>2, Statements DEF Step, Load, Sync, ReturnIfOutside, Gather
<1>5. hostPc > LaunchAt /\ ~failed
  BY <1>1, <1>2, <1>4 DEF Control, Schedule
<1>6. CASE Load(th) \/ Sync(th) \/ Gather(th)
  <2> DEFINE n == pc[th] + 1
  <2>1. pc' = [pc EXCEPT ![th] = n]
    BY <1>6 DEF Load, Sync, Gather, Advance
  <2>2. n \in 2 .. LastStatement + 1
    BY <1>2, <1>4
  <2>3. ASSUME n >= LastStatement
        PROVE  Inside(job, th)
    <3>1. CASE Gather(th)
      <4>1. pc[th] = LastStatement
        BY <1>1, <3>1, Statements DEF Gather
      <4>2. QED
        BY <1>1, <1>2, <4>1 DEF Returns
    <3>2. CASE Load(th) \/ Sync(th)
      BY <1>1, <1>2, <2>3, <3>2, Statements DEF Load, Sync
    <3>3. QED
      BY <1>6, <3>1, <3>2
  <2>4. ASSUME Windowed, n \in {3, -3}, NEW u \in Threads(job), u[1] = th[1]
        PROVE  Reached(pc[u]) >= 2
    <3>1. pc[th] = 2
      BY <1>2, <1>4, <2>2, <2>4
    <3>2. Sync(th)
      BY <1>1, <1>2, <1>6, <2>4, <3>1, Statements DEF Load, Gather
    <3>3. QED
      BY <2>4, <3>1, <3>2 DEF Sync, Released
  <2> HIDE DEF n
  <2>5. ~(n < 0)
    BY <1>2, <2>2
  <2>6. n = pc[th] + 1
    BY DEF n
  <2>7. \E k : /\ pc' = [pc EXCEPT ![th] = k]
               /\ \/ k = pc[th] + 1
                  \/ k = 1 - LastStatement /\ pc[th] = LastStatement - 1
               /\ k < 0 => ~Inside(job, th)
               /\ k >= LastStatement => Inside(job, th)
               /\ Windowed /\ k \in {3, -3} =>
                    \A u \in Threads(job) : u[1] = th[1] => Reached(pc[u]) >= 2
    BY <2>1, <2>3, <2>4, <2>5, <2>6
  <2>8. QED
    BY <1>3, <1>4, <1>5, <2>7
<1>7. CASE ReturnIfOutside(th)
  <2> DEFINE n == IF Inside(job, th) THEN pc[th] + 1 ELSE 1 - LastStatement
  <2>1. pc[th] = LastStatement - 1
    BY <1>1, <1>7, Statements DEF ReturnIfOutside
  <2>2. -pc[th] = 1 - LastStatement
    BY <1>2, <2>1
  <2>3. pc' = [pc EXCEPT ![th] = n]
    BY <1>7, <2>2 DEF ReturnIfOutside, Advance
  <2>4. n = pc[th] + 1 \/ (n = 1 - LastStatement /\ pc[th] = LastStatement - 1)
    BY <2>1
  <2>5. (n < 0 => ~Inside(job, th)) /\ (n >= LastStatement => Inside(job, th))
    BY <1>2, <2>1
  <2>6. ASSUME Windowed, n \in {3, -3}, NEW u \in Threads(job), u[1] = th[1]
        PROVE  Reached(pc[u]) >= 2
    <3>1. Reached(pc[th]) >= 3
      BY <1>2, <2>1, <2>6 DEF Reached
    <3>2. QED
      BY <1>1, <2>6, <3>1 DEF Barrier
  <2> HIDE DEF n
  <2>7. QED
    BY <1>3, <1>4, <1>5, <2>3, <2>4, <2>5, <2>6
<1>8. QED
  BY <1>6, <1>7 DEF Step

LEMMA ThreadKeepsControl ==
  ASSUME VersionCalls, Inv, NEW th \in Threads(job), Step(th)
  PROVE  (Control /\ Schedule /\ Returns /\ Barrier)'
<1>1. Control /\ Schedule /\ Returns /\ Barrier /\ job \in Jobs
  BY DEF Inv, Control
<1>2. /\ job' = job /\ hostPc' = hostPc /\ failed' = failed
      /\ hostPc > LaunchAt /\ ~failed /\ pc[th] \in 1 .. LastStatement
  BY ThreadMoves
<1>3. PICK n : /\ pc' = [pc EXCEPT ![th] = n]
               /\ \/ n = pc[th] + 1
                  \/ n = 1 - LastStatement /\ pc[th] = LastStatement - 1
               /\ n < 0 => ~Inside(job, th)
               /\ n >= LastStatement => Inside(job, th)
               /\ Windowed /\ n \in {3, -3} =>
                    \A u \in Threads(job) : u[1] = th[1] => Reached(pc[u]) >= 2
  BY ThreadMoves
<1>4. /\ LastStatement \in {2, 4} /\ (Windowed => LastStatement = 4) /\ LaunchAt \in {2, 3}
      /\ LastStatement' = LastStatement /\ LaunchAt' = LaunchAt /\ Windowed' = Windowed
  BY <1>2 DEF LastStatement, LaunchAt, Windowed
<1>5. /\ n \in {1 - LastStatement} \cup (0 .. LastStatement + 1)
      /\ pc \in [Threads(job) -> {1 - LastStatement} \cup (0 .. LastStatement + 1)]
  BY <1>1, <1>2, <1>3, <1>4 DEF Control
<1>6. pc' \in [Threads(job) -> {1 - LastStatement} \cup (0 .. LastStatement + 1)]
  BY <1>3, <1>5
<1>7. pc'[th] = n /\ \A u \in Threads(job) : u # th => pc'[u] = pc[u]
  BY <1>3, <1>5
<1>8. Control'
  BY <1>1, <1>2, <1>4, <1>6 DEF Control
<1>9. Schedule'
  BY <1>1, <1>2, <1>4 DEF Schedule, Control
<1>10. Returns'
  BY <1>1, <1>2, <1>3, <1>4, <1>7 DEF Returns
<1>11. ASSUME Windowed, NEW s \in Threads(job), NEW u \in Threads(job), s[1] = u[1],
              Reached(pc'[s]) >= 3
       PROVE  Reached(pc'[u]) >= 2
  <2>1. \A x \in Threads(job) : pc[x] \in -3 .. 5
    BY <1>4, <1>5, <1>11
  <2>2. n \in -3 .. 5 /\ pc[th] \in 1 .. 4
    BY <1>2, <1>4, <1>5, <1>11
  <2>3. Reached(pc[th]) >= 2 => Reached(n) >= 2
    BY <1>3, <1>4, <1>11, <2>2 DEF Reached
  <2>4. ASSUME Reached(n) >= 3
        PROVE  \A x \in Threads(job) : x[1] = th[1] => Reached(pc[x]) >= 2
    <3>1. n \in {3, -3} \/ pc[th] \in {3, 4}
      BY <1>3, <1>4, <1>11, <2>2, <2>4 DEF Reached
    <3>2. CASE n \in {3, -3}
      BY <1>3, <1>11, <3>2
    <3>3. CASE pc[th] \in {3, 4}
      BY <1>1, <1>11, <3>3 DEF Barrier, Reached
    <3>4. QED
      BY <3>1, <3>2, <3>3
  <2>5. Reached(pc[u]) >= 2
    <3>1. CASE s = th
      BY <1>7, <1>11, <2>4, <3>1
    <3>2. CASE s # th
      BY <1>1, <1>7, <1>11, <3>2 DEF Barrier
    <3>3. QED
      BY <3>1, <3>2
  <2>6. QED
    BY <1>7, <2>3, <2>5
<1>12. Barrier'
  <2> SUFFICES ASSUME Windowed, NEW s \in Threads(job), NEW u \in Threads(job), s[1] = u[1],
                      Reached(pc'[s]) >= 3
               PROVE  Reached(pc'[u]) >= 2
    BY <1>2, <1>4 DEF Barrier, Reached
  <2> QED
    BY <1>11
<1>13. QED
  BY <1>8, <1>9, <1>10, <1>12

LEMMA Numbers ==
  /\ LastStatement \in {2, 4} /\ LaunchAt \in {2, 3}
  /\ Windowed => LastStatement = 4 /\ LaunchAt = 3
  /\ ~Windowed => LastStatement = 2 /\ LaunchAt = 2
  BY DEF LastStatement, LaunchAt

LEMMA SameCall ==
  ASSUME job' = job
  PROVE  /\ Windowed' = Windowed /\ LastStatement' = LastStatement /\ LaunchAt' = LaunchAt
         /\ Uninitialised' = Uninitialised /\ Zeros' = Zeros
  BY DEF Windowed, LastStatement, LaunchAt, Uninitialised, Zeros

LEMMA ResultStays ==
  ASSUME Inv, job' = job, hostPc' = hostPc, failed' = failed, result' = result
  PROVE  ResultRight'
  BY SameCall DEF Inv, ResultRight

(* A step that leaves the shared memory alone, of a thread that has        *)
(* arrived already.                                                        *)
LEMMA LoadedStays ==
  ASSUME Inv, job' = job, smem' = smem,
         \A th \in Threads(job) : Windowed /\ Reached(pc'[th]) >= 2 => Reached(pc[th]) >= 2
  PROVE  Loaded'
  BY SameCall DEF Inv, Loaded, Reached

(* A step that leaves the gradients alone, by which no thread ends. *)
LEMMA GradientsStay ==
  ASSUME Inv, job' = job, grad_input' = grad_input,
         hostPc' = hostPc \/ (hostPc > 1 /\ hostPc' > 1),
         \A th \in Threads(job) : pc'[th] = LastStatement + 1 <=> pc[th] = LastStatement + 1
  PROVE  Gradients'
<1>1. /\ LastStatement' = LastStatement /\ Uninitialised' = Uninitialised
  BY SameCall
<1>2. hostPc \in 1 .. 5 /\ (hostPc' = 1 => hostPc = 1) /\ (hostPc' > 1 => hostPc > 1)
  BY Numbers DEF Inv, Control
<1>3. (DOMAIN grad_input = Pixels(job))' /\ (hostPc = 1 => grad_input = Uninitialised)'
  BY <1>1, <1>2 DEF Inv, Gradients
<1>4. ASSUME hostPc' > 1
      PROVE  /\ grad_input' = [p \in Pixels(job') |-> grad_input'[p]]
             /\ \A th \in Threads(job') : Inside(job', th) =>
                  grad_input'[PixelOf(job', th)] =
                    IF pc'[th] = LastStatement' + 1
                    THEN CpuGradient[job'][PixelOf(job', th)] ELSE {}
  <2>1. hostPc > 1
    BY <1>2, <1>4
  <2>2. grad_input = [p \in Pixels(job) |-> grad_input[p]]
    BY <2>1 DEF Inv, Gradients
  <2>3. ASSUME NEW th \in Threads(job), Inside(job, th)
        PROVE  grad_input[PixelOf(job, th)] =
                 IF pc'[th] = LastStatement + 1
                 THEN CpuGradient[job][PixelOf(job, th)] ELSE {}
    BY <2>1, <2>3 DEF Inv, Gradients
  <2>4. QED
    BY <1>1, <2>2, <2>3
<1>5. QED
  BY <1>3, <1>4 DEF Gradients

LEMMA LoadKeeps ==
  ASSUME VersionCalls, Inv, NEW th \in Threads(job), Load(th)
  PROVE  (Loaded /\ Gradients)'
<1>1. Control /\ Loaded /\ job \in Jobs
  BY DEF Inv, Control
<1>2. /\ job' = job /\ hostPc' = hostPc /\ grad_input' = grad_input
      /\ Windowed /\ pc[th] = 1 /\ LastStatement = 4
  BY <1>1, Statements, Numbers DEF Load, Advance
<1>3. \A u \in Threads(job) : pc'[u] = IF u = th THEN 2 ELSE pc[u]
  BY <1>1, <1>2 DEF Load, Advance, Control
<1>4. Gradients'
  BY <1>2, <1>3, GradientsStay
<1>5. th[1] \in Blocks(job) /\ Indices[job][th] = MyIndices(job, th)
  BY <1>1, ThreadFacts DEF Indices
<1>6. smem' = [smem EXCEPT ![th[1]] = [i \in 0 .. smemSize(job) - 1 |->
        IF i \in MyIndices(job, th) THEN OutputAt(job, th[1], i) ELSE smem[th[1]][i]]]
  <2>1. DOMAIN smem[th[1]] = 0 .. smemSize(job) - 1
    BY <1>1, <1>5 DEF Loaded
  <2>2. th[1] \in DOMAIN smem
    BY <1>1, <1>5 DEF Loaded
  <2>3. QED
    BY <1>5, <2>1, <2>2 DEF Load
<1>7. smem' \in [Blocks(job) -> [0 .. smemSize(job) - 1 -> OutPixels(job) \cup {Garbage}]]
  <2>1. \A i \in MyIndices(job, th) : OutputAt(job, th[1], i) \in OutPixels(job)
    BY <1>1, MyIndicesType
  <2>2. smem[th[1]] \in [0 .. smemSize(job) - 1 -> OutPixels(job) \cup {Garbage}]
    BY <1>1, <1>5 DEF Loaded
  <2>3. [i \in 0 .. smemSize(job) - 1 |->
          IF i \in MyIndices(job, th) THEN OutputAt(job, th[1], i) ELSE smem[th[1]][i]]
            \in [0 .. smemSize(job) - 1 -> OutPixels(job) \cup {Garbage}]
    BY <2>1, <2>2
  <2>4. QED
    BY <1>1, <1>6, <2>3 DEF Loaded
<1>8. ASSUME NEW u \in Threads(job), Reached(pc'[u]) >= 2, NEW i \in MyIndices(job, u)
      PROVE  smem'[u[1]][i] = OutputAt(job, u[1], i)
  <2>1. i \in 0 .. smemSize(job) - 1 /\ u[1] \in Blocks(job)
    BY <1>1, MyIndicesType, ThreadFacts
  <2>2. CASE u[1] = th[1] /\ i \in MyIndices(job, th)
    BY <1>1, <1>6, <2>1, <2>2 DEF Loaded
  <2>3. CASE ~(u[1] = th[1] /\ i \in MyIndices(job, th))
    <3>1. u # th
      BY <1>8, <2>3
    <3>2. smem[u[1]][i] = OutputAt(job, u[1], i)
      BY <1>1, <1>2, <1>3, <1>8, <3>1 DEF Loaded
    <3>3. smem'[u[1]][i] = smem[u[1]][i]
      BY <1>1, <1>6, <2>1, <2>3 DEF Loaded
    <3>4. QED
      BY <3>2, <3>3
  <2>4. QED
    BY <2>2, <2>3
<1>9. Loaded'
  BY <1>2, <1>7, <1>8, SameCall DEF Loaded, Reached
<1>10. QED
  BY <1>4, <1>9

LEMMA PassingKeeps ==
  ASSUME VersionCalls, Inv, NEW th \in Threads(job), Sync(th) \/ ReturnIfOutside(th)
  PROVE  (Loaded /\ Gradients)'
<1>1. Control /\ job \in Jobs
  BY DEF Inv, Control
<1>2. /\ job' = job /\ hostPc' = hostPc /\ grad_input' = grad_input /\ smem' = smem
  BY DEF Sync, ReturnIfOutside, Advance
<1>3. (Windowed => pc[th] \in {2, 3}) /\ pc[th] \in 1 .. LastStatement - 1
  BY <1>1, Statements, Numbers DEF Sync, ReturnIfOutside
<1>4. Step(th)
  BY DEF Step
<1>5. PICK n : /\ pc' = [pc EXCEPT ![th] = n]
               /\ n = pc[th] + 1 \/ n = 1 - LastStatement
  BY <1>4, ThreadMoves
<1>6. \A u \in Threads(job) : pc'[u] = IF u = th THEN n ELSE pc[u]
  BY <1>1, <1>5 DEF Control
<1>7. \A u \in Threads(job) : pc'[u] = LastStatement + 1 <=> pc[u] = LastStatement + 1
  BY <1>3, <1>5, <1>6, Numbers
<1>8. \A u \in Threads(job) : Windowed /\ Reached(pc'[u]) >= 2 => Reached(pc[u]) >= 2
  BY <1>3, <1>6 DEF Reached
<1>9. QED
  BY <1>2, <1>7, <1>8, LoadedStays, GradientsStay

(* A thread gathers the gradients of exactly the contributions the CPU     *)
(* adds to its pixel: in v7 the whole block has loaded its window.         *)
LEMMA GathersRight ==
  ASSUME VersionCalls, Inv, NEW th \in Threads(job), Gather(th)
  PROVE  /\ pc[th] = LastStatement /\ Inside(job, th)
         /\ grad_input' = [grad_input EXCEPT ![PixelOf(job, th)] =
                             CpuGradient[job][PixelOf(job, th)]]
<1> DEFINE b == th[1]
<1>1. Control /\ Returns /\ Barrier /\ Loaded /\ job \in Jobs
  BY DEF Inv, Control
<1>2. pc[th] = LastStatement
  BY <1>1, Statements DEF Gather
<1>3. Inside(job, th)
  BY <1>1, <1>2, Numbers DEF Returns
<1>4. Visited[job][th] = Visits(job, th)
  BY <1>1, <1>3 DEF Visited
<1>5. ASSUME NEW v \in Visits(job, th)
      PROVE  GradientOf(th, v[1]) = v[1]
  <2> DEFINE i == IndexOf(job, b, v[1])
  <2>1. CASE job.code = v8
    BY <2>1 DEF GradientOf
  <2>2. CASE job.code # v8
    <3>1. Windowed /\ LastStatement = 4
      BY <1>1, <2>2, Statements, Numbers
    <3>2. b \in Blocks(job)
      BY <1>1, ThreadFacts
    <3>4. /\ i \in 0 .. tile_smem_h(job, b) * tile_smem_w(job, b) - 1
          /\ OutputAt(job, b, i) = v[1]
      BY <1>1, <1>3, VisitedIndex
    <3>5. PICK u \in Threads(job) : u[1] = b /\ i \in MyIndices(job, u)
      BY <1>1, <3>2, <3>4, IndexHasThread
    <3>6. Reached(pc[u]) >= 2
      BY <1>1, <1>2, <3>1, <3>5 DEF Barrier, Reached
    <3>7. smem[b][i] = v[1]
      BY <1>1, <3>1, <3>4, <3>5, <3>6 DEF Loaded
    <3>8. QED
      BY <2>2, <3>7 DEF GradientOf
  <2>3. QED
    BY <2>1, <2>2
<1>6. {<<GradientOf(th, v[1])[1], GradientOf(th, v[1])[2], v[2], v[3]>> : v \in Visits(job, th)}
        = {<<v[1][1], v[1][2], v[2], v[3]>> : v \in Visits(job, th)}
  <2>1. \A v \in Visits(job, th) :
          <<GradientOf(th, v[1])[1], GradientOf(th, v[1])[2], v[2], v[3]>>
            = <<v[1][1], v[1][2], v[2], v[3]>>
    BY <1>5
  <2>2. QED
    BY <2>1
<1>7. {<<v[1][1], v[1][2], v[2], v[3]>> : v \in Visits(job, th)}
        = CpuGradient[job][PixelOf(job, th)]
  BY <1>1, <1>3, VisitsFacts
<1>8. grad_input' = [grad_input EXCEPT ![PixelOf(job, th)] =
                       CpuGradient[job][PixelOf(job, th)]]
  BY <1>4, <1>6, <1>7 DEF Gather
<1>9. QED
  BY <1>2, <1>3, <1>8

LEMMA GatherKeeps ==
  ASSUME VersionCalls, Inv, NEW th \in Threads(job), Gather(th)
  PROVE  (Loaded /\ Gradients)'
<1> DEFINE p == PixelOf(job, th)
<1>1. Control /\ Gradients /\ job \in Jobs /\ Step(th)
  BY DEF Inv, Control, Step
<1>2. /\ job' = job /\ hostPc' = hostPc /\ smem' = smem
      /\ pc[th] = LastStatement /\ Inside(job, th)
      /\ grad_input' = [grad_input EXCEPT ![p] = CpuGradient[job][p]]
  BY GathersRight DEF Gather, Advance
<1>3. \A u \in Threads(job) : pc'[u] = IF u = th THEN LastStatement + 1 ELSE pc[u]
  BY <1>1, <1>2 DEF Gather, Advance, Control
<1>4. Loaded'
  BY <1>2, <1>3, LoadedStays, Numbers DEF Reached
<1>5. hostPc > LaunchAt
  BY <1>1, ThreadMoves
<1>6. /\ hostPc > 1 /\ p \in Pixels(job) /\ DOMAIN grad_input = Pixels(job)
      /\ \A u \in Threads(job) : Inside(job, u) =>
           grad_input[PixelOf(job, u)] =
             IF pc[u] = LastStatement + 1 THEN CpuGradient[job][PixelOf(job, u)] ELSE {}
  BY <1>1, <1>2, <1>5, Numbers DEF Gradients, Inside, Control
<1>7. ASSUME NEW u \in Threads(job), Inside(job, u)
      PROVE  grad_input'[PixelOf(job, u)] =
               IF pc'[u] = LastStatement + 1 THEN CpuGradient[job][PixelOf(job, u)] ELSE {}
  <2>1. CASE u = th
    BY <1>2, <1>3, <1>6, <2>1
  <2>2. CASE u # th
    <3>1. PixelOf(job, u) # p
      BY <1>1, <2>2, PixelUnique
    <3>2. PixelOf(job, u) \in Pixels(job)
      BY <1>7 DEF Inside
    <3>3. QED
      BY <1>2, <1>3, <1>6, <1>7, <2>2, <3>1, <3>2
  <2>3. QED
    BY <2>1, <2>2
<1>8. DOMAIN grad_input' = Pixels(job) /\ grad_input' = [x \in Pixels(job) |-> grad_input'[x]]
  BY <1>2, <1>6
<1>9. Gradients'
  <2>1. LastStatement' = LastStatement /\ Uninitialised' = Uninitialised
    BY <1>2, SameCall
  <2>2. hostPc' > 1 /\ hostPc' # 1
    BY <1>2, <1>6
  <2>3. QED
    BY <1>2, <1>7, <1>8, <2>1, <2>2 DEF Gradients
<1>10. QED
  BY <1>4, <1>9

LEMMA ThreadKeeps ==
  ASSUME VersionCalls, Inv, NEW th \in Threads(job), Step(th)
  PROVE  Inv'
<1>1. (Control /\ Schedule /\ Returns /\ Barrier)'
  BY ThreadKeepsControl
<1>2. ResultRight'
  BY ThreadMoves, ResultStays
<1>3. (Loaded /\ Gradients)'
  BY LoadKeeps, PassingKeeps, GatherKeeps DEF Step
<1>4. QED
  BY <1>1, <1>2, <1>3 DEF Inv

-----------------------------------------------------------------------------
(* The steps of the host. *)

LEMMA AllGathered ==
  ASSUME Inv, hostPc > 1, \A th \in Threads(job) : Ended(th),
         Len(job.code) = LastStatement
  PROVE  grad_input = CpuGradient[job]
<1>1. Control /\ Returns /\ Gradients /\ job \in Jobs
  BY DEF Inv, Control
<1>2. ASSUME NEW p \in Pixels(job)
      PROVE  grad_input[p] = CpuGradient[job][p]
  <2>1. PICK th \in Threads(job) : PixelOf(job, th) = p /\ Inside(job, th)
    BY <1>1, PixelHasThread
  <2>2. pc[th] = LastStatement + 1
    BY <1>1, <2>1, Numbers DEF Returns, Control, Ended
  <2>3. QED
    BY <1>1, <2>1, <2>2 DEF Gradients
<1>3. grad_input = [p \in Pixels(job) |-> grad_input[p]]
  BY <1>1 DEF Gradients
<1>4. CpuGradient[job] = [p \in Pixels(job) |-> CpuGradient[job][p]]
  BY <1>1 DEF CpuGradient
<1>5. QED
  BY <1>2, <1>3, <1>4

LEMMA MemsetKeeps ==
  ASSUME VersionCalls, Inv, Memset
  PROVE  Inv'
<1>1. /\ job \in Jobs /\ Control /\ Schedule /\ Loaded /\ ResultRight
      /\ Returns /\ Barrier /\ Gradients
  BY DEF Inv, Control
<1>2. /\ job' = job /\ smem' = smem /\ pc' = pc /\ result' = result /\ failed' = failed
      /\ hostPc' = hostPc + 1 /\ grad_input' = Zeros
  BY DEF Memset, HostAt, NextHost
<1>3. hostPc = 1 /\ hostPc' = 2 /\ hostPc <= LaunchAt /\ hostPc' <= LaunchAt /\ ~failed
  BY <1>1, <1>2, Statements, Numbers DEF Memset, Control
<1>4. (Control /\ Schedule /\ Returns /\ Barrier)'
  BY <1>1, <1>2, <1>3, SameCall, Numbers
     DEF Control, Schedule, Returns, Barrier, Reached
<1>5. Loaded'
  BY <1>2, LoadedStays
<1>6. Gradients'
  <2>1. \A th \in Threads(job) : pc[th] # LastStatement + 1
    BY <1>1, <1>3, Numbers DEF Schedule
  <2>2. grad_input' = [p \in Pixels(job) |-> {}]
    BY <1>2 DEF Zeros
  <2>3. QED
    BY <1>2, <1>3, <2>1, <2>2, SameCall DEF Gradients, Inside
<1>7. ResultRight'
  BY <1>1, <1>2, <1>3, SameCall, Numbers DEF ResultRight
<1>8. QED
  BY <1>4, <1>5, <1>6, <1>7 DEF Inv

LEMMA CheckDeviceKeeps ==
  ASSUME VersionCalls, Inv, CheckDevice
  PROVE  Inv'
<1>1. /\ job \in Jobs /\ Control /\ Schedule /\ Loaded /\ ResultRight
      /\ Returns /\ Barrier /\ Gradients
  BY DEF Inv, Control
<1>2. /\ job' = job /\ smem' = smem /\ pc' = pc /\ grad_input' = grad_input
      /\ \/ failed' = TRUE /\ result' = Zeros /\ hostPc' = Len(job.host) + 1
         \/ hostPc' = hostPc + 1 /\ failed' = failed /\ result' = result
  BY DEF CheckDevice, HostAt, NextHost
<1>3. hostPc = 2 /\ Windowed /\ LaunchAt = 3 /\ ~failed /\ Len(job.host) + 1 = 5
  <2>1. HostAt("checkDevice")
    BY DEF CheckDevice
  <2>2. hostPc = 2 /\ Windowed /\ Len(job.host) = LaunchAt + 1
    BY <1>1, <2>1, Statements
  <2>3. QED
    BY <1>1, <2>2, Numbers DEF Control
<1>4. Control'
  <2>1. hostPc' \in 1 .. LaunchAt + 2 /\ failed' \in BOOLEAN /\ (failed' => hostPc' = LaunchAt + 2)
    <3>1. failed' \in BOOLEAN
      BY <1>1, <1>2, Zenon DEF Control
    <3>2. CASE hostPc' = 5
      BY <1>3, <3>1, <3>2
    <3>3. CASE hostPc' = 3 /\ failed' = failed
      BY <1>3, <3>1, <3>3
    <3>4. hostPc' = 5 \/ (hostPc' = 3 /\ failed' = failed)
      BY <1>2, <1>3
    <3>5. QED
      BY <3>2, <3>3, <3>4
  <2>2. QED
    BY <1>1, <1>2, <2>1, SameCall DEF Control
<1>5. Schedule'
  <2>1. hostPc <= LaunchAt
    BY <1>3
  <2>2. \A th \in Threads(job) : pc[th] = 0
    BY <1>1, <2>1 DEF Schedule
  <2>3. QED
    BY <1>2, <2>2 DEF Schedule
<1>6. (Returns /\ Barrier)'
  BY <1>1, <1>2, SameCall DEF Returns, Barrier, Reached
<1>7. Loaded'
  BY <1>2, LoadedStays
<1>8. Gradients'
  BY <1>2, <1>3, GradientsStay
<1>9. ResultRight'
  BY <1>1, <1>2, <1>3, SameCall DEF ResultRight
<1>10. QED
  BY <1>4, <1>5, <1>6, <1>7, <1>8, <1>9 DEF Inv

LEMMA LaunchKeeps ==
  ASSUME VersionCalls, Inv, Launch
  PROVE  Inv'
<1>1. /\ job \in Jobs /\ Control /\ Schedule /\ Loaded /\ ResultRight
  BY DEF Inv, Control
<1>2. /\ job' = job /\ smem' = smem /\ pc' = [th \in Threads(job) |-> 1]
      /\ grad_input' = grad_input /\ result' = result /\ failed' = failed
      /\ hostPc' = hostPc + 1
  BY DEF Launch, HostAt, NextHost
<1>3. hostPc = LaunchAt /\ hostPc > 1 /\ hostPc' > 1 /\ ~failed
  BY <1>1, <1>2, Statements, Numbers DEF Launch, Control
<1>4. \A th \in Threads(job) : pc'[th] = 1 /\ pc[th] = 0
  BY <1>1, <1>2, <1>3, Numbers DEF Schedule
<1>5. Control'
  BY <1>1, <1>2, <1>3, SameCall, Numbers DEF Control
<1>6. Schedule'
  BY <1>2, <1>3, SameCall, Numbers DEF Schedule
<1>7. (Returns /\ Barrier)'
  BY <1>2, <1>4, SameCall, Numbers DEF Returns, Barrier, Reached
<1>8. Loaded'
  BY <1>2, <1>4, LoadedStays DEF Reached
<1>9. Gradients'
  BY <1>2, <1>3, <1>4, GradientsStay, Numbers
<1>10. ResultRight'
  BY <1>1, <1>2, <1>3, SameCall, Numbers DEF ResultRight
<1>11. QED
  BY <1>5, <1>6, <1>7, <1>8, <1>9, <1>10 DEF Inv

LEMMA CopyBackKeeps ==
  ASSUME VersionCalls, Inv, CopyBack
  PROVE  Inv' /\ ~failed /\ hostPc = LaunchAt + 1 /\ grad_input = CpuGradient[job]
<1>1. /\ job \in Jobs /\ Control /\ Schedule /\ Loaded /\ ResultRight
      /\ Returns /\ Barrier /\ Gradients
  BY DEF Inv, Control
<1>2. /\ job' = job /\ smem' = smem /\ pc' = pc /\ grad_input' = grad_input
      /\ result' = grad_input /\ failed' = failed /\ hostPc' = hostPc + 1
  BY DEF CopyBack, HostAt, NextHost
<1>3. hostPc = LaunchAt + 1 /\ hostPc > 1 /\ hostPc' > 1 /\ hostPc' = LaunchAt + 2 /\ ~failed
  BY <1>1, <1>2, Statements, Numbers DEF CopyBack, Control
<1>4. \A th \in Threads(job) : Ended(th)
  BY DEF CopyBack
<1>5. grad_input = CpuGradient[job]
  BY <1>1, <1>3, <1>4, AllGathered, Statements
<1>6. Control' /\ Schedule' /\ (Returns /\ Barrier)'
  <2>1. Control'
    BY <1>1, <1>2, <1>3, SameCall, Numbers DEF Control
  <2>2. Schedule'
    BY <1>2, <1>3, SameCall, Numbers DEF Schedule
  <2>3. (Returns /\ Barrier)'
    BY <1>1, <1>2, SameCall DEF Returns, Barrier, Reached
  <2>4. QED
    BY <2>1, <2>2, <2>3
<1>7. Loaded'
  BY <1>2, LoadedStays
<1>8. Gradients'
  BY <1>2, <1>3, GradientsStay
<1>9. ResultRight'
  BY <1>2, <1>3, <1>5, SameCall DEF ResultRight
<1>10. QED
  BY <1>3, <1>5, <1>6, <1>7, <1>8, <1>9 DEF Inv

LEMMA InvInit ==
  ASSUME VersionCalls, Init
  PROVE  Inv
<1>1. /\ job \in Jobs /\ pc = [th \in Threads(job) |-> 0] /\ hostPc = 1 /\ failed = FALSE
      /\ smem = [b \in Blocks(job) |-> [i \in 0 .. smemSize(job) - 1 |-> Garbage]]
      /\ grad_input = Uninitialised /\ result = Uninitialised
  BY DEF Init
<1>2. Control /\ Schedule /\ Returns /\ Barrier
  <2>1. Control
    <3>1. pc \in [Threads(job) -> {1 - LastStatement} \cup (0 .. LastStatement + 1)]
      BY <1>1, Numbers
    <3>2. hostPc \in 1 .. LaunchAt + 2
      BY <1>1, Numbers
    <3>3. failed \in BOOLEAN /\ ~failed
      BY <1>1, Zenon
    <3>4. QED
      BY <1>1, <3>1, <3>2, <3>3 DEF Control
  <2>2. \A th \in Threads(job) : pc[th] = 0 /\ Reached(pc[th]) = 0
    BY <1>1 DEF Reached
  <2>3. QED
    BY <2>1, <2>2, Numbers DEF Schedule, Returns, Barrier
<1>3. Loaded
  BY <1>1 DEF Loaded, Reached
<1>4. Gradients
  BY <1>1 DEF Gradients, Uninitialised
<1>5. ResultRight
  BY <1>1, Numbers DEF ResultRight
<1>6. QED
  BY <1>2, <1>3, <1>4, <1>5 DEF Inv

LEMMA InvStep ==
  ASSUME VersionCalls, Inv, [Next]_vars
  PROVE  Inv'
<1>1. CASE Host
  BY <1>1, MemsetKeeps, CheckDeviceKeeps, LaunchKeeps, CopyBackKeeps DEF Host
<1>2. CASE \E th \in Threads(job) : Step(th)
  BY <1>2, ThreadKeeps
<1>3. CASE UNCHANGED vars
  <2>1. /\ job' = job /\ pc' = pc /\ smem' = smem /\ grad_input' = grad_input
        /\ hostPc' = hostPc /\ result' = result /\ failed' = failed
    BY <1>3 DEF vars
  <2>2. (Control /\ Schedule /\ Returns /\ Barrier)'
    BY <2>1, SameCall DEF Inv, Control, Schedule, Returns, Barrier, Reached
  <2>3. Loaded' /\ Gradients' /\ ResultRight'
    BY <2>1, LoadedStays, GradientsStay, ResultStays
  <2>4. QED
    BY <2>2, <2>3 DEF Inv
<1>4. QED
  BY <1>1, <1>2, <1>3 DEF Next

LEMMA InvHolds ==
  ASSUME VersionCalls
  PROVE  Spec => []Inv
<1>1. Init => Inv
  BY InvInit
<1>2. Inv /\ [Next]_vars => Inv'
  BY InvStep
<1>3. QED
  BY <1>1, <1>2, PTL DEF Spec

-----------------------------------------------------------------------------
(* MemorySafe: the variables keep their types, the loads of a window stay  *)
(* in the memory that the host has sized from the scale, what a thread     *)
(* reads there its block loads, and nobody reads while another one is      *)
(* about to load: for all sizes of images and tiles.                       *)
THEOREM MemoryIsSafe ==
  ASSUME VersionCalls
  PROVE  Spec => []MemorySafe
<1>1. ASSUME Inv
      PROVE  TypeOK
  <2>1. Control /\ Loaded /\ Gradients /\ ResultRight /\ job \in Jobs
    BY <1>1 DEF Inv, Control
  <2>2. pc \in [Threads(job) -> -Len(job.code) .. Len(job.code) + 1]
    <3>1. Len(job.code) = LastStatement
      BY <2>1, Statements
    <3>2. {1 - LastStatement} \cup (0 .. LastStatement + 1)
            \subseteq -LastStatement .. LastStatement + 1
      BY Numbers
    <3>3. QED
      BY <2>1, <3>1, <3>2 DEF Control
  <2>3. hostPc \in 1 .. Len(job.host) + 1
    BY <2>1, Statements, Numbers DEF Control
  <2>4. DOMAIN result = Pixels(job)
    BY <2>1 DEF ResultRight, Uninitialised, Zeros, CpuGradient
  <2>5. QED
    BY <2>1, <2>2, <2>3, <2>4 DEF TypeOK, Control, Loaded, Gradients
<1>2. ASSUME Inv
      PROVE  NoRace
  <2>1. Control /\ Barrier /\ job \in Jobs
    BY <1>2 DEF Inv, Control
  <2>2. SUFFICES ASSUME NEW th \in Threads(job), NEW u \in Threads(job), th[1] = u[1],
                        job.code # v8, At(th, "gather"), At(u, "load")
                 PROVE  FALSE
    BY DEF NoRace, ReadsNext, WritesNext
  <2>3. Windowed /\ pc[th] = 4 /\ pc[u] = 1
    BY <2>1, <2>2, Statements, Numbers
  <2>4. QED
    BY <2>1, <2>2, <2>3 DEF Barrier, Reached
<1>3. ASSUME Inv
      PROVE  InBounds
  <2>1. Control /\ Returns /\ job \in Jobs
    BY <1>3 DEF Inv, Control
  <2>2. ASSUME NEW th \in Threads(job)
        PROVE  WritesNext(th) \subseteq 0 .. smemSize(job) - 1
    <3>1. Indices[job][th] = MyIndices(job, th)
      BY <2>1 DEF Indices
    <3>2. QED
      BY <2>1, <3>1, MyIndicesType DEF WritesNext
  <2>3. ASSUME NEW th \in Threads(job), NEW i \in ReadsNext(th)
        PROVE  i \in UNION {Indices[job][u] : u \in {x \in Threads(job) : x[1] = th[1]}}
    <3> DEFINE b == th[1]
    <3>1. At(th, "gather") /\ \E v \in Visited[job][th] : i = IndexOf(job, b, v[1])
      BY <2>3 DEF ReadsNext
    <3>2. Inside(job, th)
      BY <2>1, <3>1, Statements, Numbers DEF Returns
    <3>3. PICK v \in Visits(job, th) : i = IndexOf(job, b, v[1])
      BY <2>1, <3>1, <3>2 DEF Visited
    <3>4. b \in Blocks(job)
      BY <2>1, ThreadFacts
    <3>5. i \in 0 .. tile_smem_h(job, b) * tile_smem_w(job, b) - 1
      BY <2>1, <3>2, <3>3, <3>4, VisitedIndex
    <3>6. PICK u \in Threads(job) : u[1] = b /\ i \in MyIndices(job, u)
      BY <2>1, <3>4, <3>5, IndexHasThread
    <3>7. i \in Indices[job][u]
      BY <2>1, <3>6 DEF Indices
    <3>8. QED
      BY <3>6, <3>7
  <2>4. QED
    BY <2>2, <2>3 DEF InBounds
<1>4. Inv => MemorySafe
  BY <1>1, <1>2, <1>3 DEF MemorySafe
<1>5. QED
  BY <1>4, InvHolds, PTL

(* ImplementsGradient: whoever is not told of an error gets the gradient   *)
(* of the CPU, each pixel of it in one store.                              *)
THEOREM ComputesGradient ==
  ASSUME VersionCalls
  PROVE  Spec => ImplementsGradient
<1>1. ASSUME NEW j \in Jobs
      PROVE  /\ DOMAIN CpuGradient[j] = Pixels(j) /\ <<0, 0>> \in Pixels(j)
             /\ \A p \in Pixels(j) : Stale \notin CpuGradient[j][p]
  <2>1. <<0, 0>> \in Pixels(j)
    BY JobSizes DEF Pixels
  <2>2. ASSUME NEW p \in Pixels(j), Stale \in CpuGradient[j][p]
        PROVE  FALSE
    <3>1. PICK y \in Scattered(p[1], j.inH, j.outH), x \in Scattered(p[2], j.inW, j.outW) :
            Stale = <<y[1], x[1], y[2], x[2]>>
      BY <2>2 DEF CpuGradient
    <3>2. y[1] \in 0 .. j.outH - 1
      BY DEF Scattered
    <3>3. QED
      BY <3>1, <3>2, JobSizes DEF Stale
  <2>3. QED
    BY <2>1, <2>2 DEF CpuGradient
<1> DEFINE returned == IF failed THEN Uninitialised ELSE result
<1>2. ASSUME job \in Jobs
      PROVE  /\ Grad!Pixels = Pixels(job) /\ Grad!Unset = Uninitialised
             /\ Grad!Zeros = Zeros
  BY <1>1, <1>2 DEF Grad!Pixels, Grad!Unset, Grad!Zeros, Uninitialised, Zeros
<1>3. ASSUME Init
      PROVE  Grad!GInit
  BY <1>2, <1>3 DEF Init, Grad!GInit
<1>4. ASSUME Inv, [Next]_vars
      PROVE  [Grad!GNext]_<<CpuGradient[job], grad_input, returned>>
  <2>1. Control /\ Gradients /\ ResultRight /\ job \in Jobs /\ Inv'
    BY <1>4, InvStep DEF Inv, Control
  <2>2. CASE Memset
    <3>1. /\ job' = job /\ result' = result /\ failed' = failed /\ grad_input' = Zeros
          /\ hostPc = 1 /\ Uninitialised' = Uninitialised
      BY <2>1, <2>2, Statements, SameCall DEF Memset, HostAt
    <3>2. grad_input = Uninitialised
      BY <2>1, <3>1 DEF Gradients
    <3>3. Grad!Clear
      BY <1>2, <2>1, <3>1, <3>2 DEF Grad!Clear
    <3>4. QED
      BY <3>3 DEF Grad!GNext
  <2>3. CASE CheckDevice
    <3>1. /\ job' = job /\ grad_input' = grad_input /\ Uninitialised' = Uninitialised
          /\ failed' = TRUE \/ (failed' = failed /\ result' = result)
      BY <2>3, SameCall DEF CheckDevice, HostAt
    <3>2. hostPc = 2 /\ ~failed /\ result = Uninitialised
      BY <2>1, <2>3, Statements, Numbers DEF CheckDevice, Control, ResultRight
    <3>3. returned' = returned
      BY <3>1, <3>2
    <3>4. QED
      BY <3>1, <3>3
  <2>4. CASE Launch
    <3>1. /\ job' = job /\ grad_input' = grad_input /\ result' = result /\ failed' = failed
          /\ Uninitialised' = Uninitialised
      BY <2>4, SameCall DEF Launch, HostAt
    <3>2. QED
      BY <3>1
  <2>5. CASE CopyBack
    <3>1. /\ job' = job /\ grad_input' = grad_input /\ result' = grad_input /\ failed' = failed
          /\ ~failed /\ hostPc = LaunchAt + 1 /\ grad_input = CpuGradient[job]
      BY <1>4, <2>5, CopyBackKeeps DEF CopyBack, HostAt
    <3>2. result = Uninitialised
      BY <2>1, <3>1, Numbers DEF ResultRight
    <3>3. Grad!Return
      BY <1>2, <2>1, <3>1, <3>2 DEF Grad!Return
    <3>4. QED
      BY <3>3 DEF Grad!GNext
  <2>6. ASSUME NEW th \in Threads(job), Gather(th)
        PROVE  Grad!Accumulate
    <3> DEFINE p == PixelOf(job, th)
    <3>1. /\ job' = job /\ result' = result /\ failed' = failed /\ hostPc > 1
          /\ pc[th] = LastStatement /\ Inside(job, th)
          /\ grad_input' = [grad_input EXCEPT ![p] = CpuGradient[job][p]]
          /\ Uninitialised' = Uninitialised
      <4>1. /\ job' = job /\ result' = result /\ failed' = failed /\ hostPc > LaunchAt
        BY <1>4, <2>6, ThreadMoves DEF Step
      <4>2. hostPc > 1
        BY <2>1, <4>1, Numbers DEF Control
      <4>3. /\ pc[th] = LastStatement /\ Inside(job, th)
            /\ grad_input' = [grad_input EXCEPT ![p] = CpuGradient[job][p]]
        BY <1>4, <2>6, GathersRight
      <4>4. QED
        BY <4>1, <4>2, <4>3, SameCall
    <3>2. /\ DOMAIN grad_input = Pixels(job)
          /\ \A x \in Pixels(job) : grad_input[x] = {} \/ grad_input[x] = CpuGradient[job][x]
      <4>1. ASSUME NEW x \in Pixels(job)
            PROVE  grad_input[x] = {} \/ grad_input[x] = CpuGradient[job][x]
        <5>1. PICK u \in Threads(job) : PixelOf(job, u) = x /\ Inside(job, u)
          BY <2>1, PixelHasThread
        <5>2. QED
          BY <2>1, <3>1, <5>1 DEF Gradients
      <4>2. QED
        BY <2>1, <4>1 DEF Gradients
    <3>3. /\ DOMAIN grad_input' = Pixels(job)
          /\ \A x \in Pixels(job) : /\ grad_input[x] \subseteq grad_input'[x]
                                    /\ grad_input'[x] \subseteq CpuGradient[job][x]
      BY <3>1, <3>2 DEF Inside
    <3>4. grad_input # Uninitialised
      <4>1. Stale \notin grad_input[<<0, 0>>]
        BY <1>1, <2>1, <3>2
      <4>2. Stale \in Uninitialised[<<0, 0>>]
        BY <1>1, <2>1 DEF Uninitialised
      <4>3. QED
        BY <4>1, <4>2
    <3>5. QED
      BY <1>2, <2>1, <3>1, <3>3, <3>4 DEF Grad!Accumulate
  <2>7. ASSUME NEW th \in Threads(job), Load(th) \/ Sync(th) \/ ReturnIfOutside(th)
        PROVE  UNCHANGED <<CpuGradient[job], grad_input, returned>>
    <3>1. /\ job' = job /\ grad_input' = grad_input /\ result' = result /\ failed' = failed
          /\ Uninitialised' = Uninitialised
      BY <2>7, SameCall DEF Load, Sync, ReturnIfOutside, Advance
    <3>2. QED
      BY <3>1
  <2>8. CASE UNCHANGED vars
    <3>1. /\ job' = job /\ grad_input' = grad_input /\ result' = result /\ failed' = failed
          /\ Uninitialised' = Uninitialised
      BY <2>8, SameCall DEF vars
    <3>2. QED
      BY <3>1
  <2>9. QED
    BY <1>4, <2>2, <2>3, <2>4, <2>5, <2>6, <2>7, <2>8 DEF Next, Host, Step, Grad!GNext
<1>5. /\ Init => Grad!GInit
      /\ Inv /\ [Next]_vars =>
           [Grad!GNext]_<<CpuGradient[job], grad_input,
                          IF failed THEN Uninitialised ELSE result>>
  BY <1>3, <1>4
<1>6. QED
  BY <1>5, InvHolds, PTL DEF Spec, ImplementsGradient, Grad!GSpec
=============================================================================
