------------------------ MODULE BicubicScatterProofs ------------------------
(***************************************************************************)
(* Proofs about BicubicScatter and BicubicWarpPairs, for every set of      *)
(* calls of their seven correct versions, of any size: every contribution  *)
(* of every tap reaches its pixel, and reaches it once.                    *)
(***************************************************************************)
EXTENDS BicubicWarpPairs, TLAPS

-----------------------------------------------------------------------------
(* The calls these proofs are about. *)

VersionCalls == \A j \in Jobs : <<j.kernel, j.host>> \in AllVersions

LongCode == <<"zero", "sync1", "scatter", "sync2", "flush">>
Long(j) == j.kernel.code = LongCode

LEMMA JobFacts ==
  ASSUME VersionCalls, NEW j \in Jobs
  PROVE  /\ {j.TILE, j.inW, j.inH, j.outW, j.outH} \subseteq Nat \ {0}
         /\ j.kernel.shift = 0 /\ Cells(j) = Window(j)
         /\ j.host = <<"memset", "launch", "copyBack">> /\ SMEM(j) \in Nat
         /\ Long(j) \/ (j.kernel.code = <<"scatter">> /\ Window(j) = {})
         /\ j.kernel.shuffles \in BOOLEAN /\ (j.kernel.shuffles => Long(j))
<1>1. {j.TILE, j.inW, j.inH, j.outW, j.outH} \subseteq Nat \ {0}
  BY BicubicAssumption
<1>2. <<j.kernel, j.host>> \in AllVersions
  BY DEF VersionCalls
<1>3. j.host = <<"memset", "launch", "copyBack">>
  BY <1>2 DEF AllVersions, Versions, v1Host, v2Host, v3Host, v4Host, v5Host, optimizedHost,
              v6_warp_reduceHost
<1>4. j.kernel \in {v1, v2, v3, v4, v5, optimized, v6_warp_reduce}
  BY <1>2 DEF AllVersions, Versions
<1>5. CASE j.kernel # v1
  <2>1. j.kernel \in {Windowed(1), Windowed(2), WindowedWithShuffles(1)}
    BY <1>4, <1>5 DEF v2, v3, v4, v5, optimized, v6_warp_reduce
  <2>2. /\ j.kernel.shift = 0 /\ j.kernel.bound = "window" /\ Long(j)
        /\ j.kernel.maxScale \in {1, 2} /\ j.kernel.shuffles \in BOOLEAN
    <3>1. CASE j.kernel = Windowed(1)
      <4>1. j.kernel.shuffles = FALSE
        BY <3>1 DEF Windowed
      <4>2. QED
        BY <3>1, <4>1 DEF Windowed, Long, LongCode
    <3>2. CASE j.kernel = Windowed(2)
      <4>1. j.kernel.shuffles = FALSE
        BY <3>2 DEF Windowed
      <4>2. QED
        BY <3>2, <4>1 DEF Windowed, Long, LongCode
    <3>3. CASE j.kernel = WindowedWithShuffles(1)
      BY <3>3 DEF WindowedWithShuffles, Windowed, Long, LongCode
    <3>4. QED
      BY <2>1, <3>1, <3>2, <3>3
  <2>3. SMEM(j) \in Nat
    BY <1>1, <2>2 DEF SMEM
  <2>4. QED
    BY <1>1, <1>3, <2>2, <2>3 DEF Cells
<1>6. CASE j.kernel = v1
  <2>1. /\ j.kernel.shift = 0 /\ j.kernel.bound = "window" /\ j.kernel.maxScale = 0
        /\ j.kernel.code = <<"scatter">> /\ j.kernel.shuffles = FALSE
    BY <1>6 DEF v1, Windowed
  <2>2. Window(j) = {}
    <3>1. SMEM(j) = 0
      BY <2>1 DEF SMEM
    <3>2. 0 .. smem_h(j) - 1 = {}
      <4> DEFINE a == (j.TILE * j.inH + j.outH - 1) \div j.outH + 4
      <4>1. a \in Int
        BY <1>1
      <4>2. smem_h(j) = Least(a, 0)
        BY <3>1 DEF smem_h, WindowSize
      <4> HIDE DEF a
      <4>3. QED
        BY <4>1, <4>2 DEF Least
    <3>3. QED
      BY <3>2 DEF Window
  <2>3. QED
    BY <1>1, <1>3, <2>1, <2>2 DEF Cells, SMEM
<1>7. QED
  BY <1>5, <1>6

(* The labels that follow. *)
LEMMA After ==
  /\ Following(LongCode, "scatter") = "sync2"
  /\ Following(<<"scatter">>, "scatter") = "done"
  /\ Following(<<"memset", "launch", "copyBack">>, "memset") = "launch"
  /\ Following(<<"memset", "launch", "copyBack">>, "launch") = "copyBack"
  /\ Following(<<"memset", "launch", "copyBack">>, "copyBack") = "done"
<1>1. Following(LongCode, "scatter") = "sync2"
  <2> DEFINE n == CHOOSE n \in DOMAIN LongCode : LongCode[n] = "scatter"
  <2>1. DOMAIN LongCode = 1 .. 5 /\ LongCode[3] = "scatter"
    BY DEF LongCode
  <2>2. n \in 1 .. 5 /\ LongCode[n] = "scatter"
    BY <2>1
  <2> HIDE DEF n
  <2>3. n = 3
    BY <2>2 DEF LongCode
  <2>4. Len(LongCode) = 5 /\ LongCode[5] # "scatter" /\ LongCode[1 + n] = "sync2"
    BY <2>3 DEF LongCode
  <2>5. QED
    BY <2>4 DEF Following, n
<1>2. Following(<<"scatter">>, "scatter") = "done"
  BY DEF Following
<1> DEFINE host == <<"memset", "launch", "copyBack">>
<1>3. /\ DOMAIN host = 1 .. 3 /\ Len(host) = 3
      /\ host[1] = "memset" /\ host[2] = "launch" /\ host[3] = "copyBack"
  OBVIOUS
<1> HIDE DEF host
<1>4. Following(host, "memset") = "launch"
  <2> DEFINE n == CHOOSE n \in DOMAIN host : host[n] = "memset"
  <2>1. n \in 1 .. 3 /\ host[n] = "memset"
    BY <1>3
  <2> HIDE DEF n
  <2>2. n = 1
    BY <1>3, <2>1
  <2>3. host[1 + n] = "launch" /\ host[Len(host)] # "memset"
    BY <1>3, <2>2
  <2>4. QED
    BY <2>3 DEF Following, n
<1>5. Following(host, "launch") = "copyBack"
  <2> DEFINE n == CHOOSE n \in DOMAIN host : host[n] = "launch"
  <2>1. n \in 1 .. 3 /\ host[n] = "launch"
    BY <1>3
  <2> HIDE DEF n
  <2>2. n = 2
    BY <1>3, <2>1
  <2>3. host[1 + n] = "copyBack" /\ host[Len(host)] # "launch"
    BY <1>3, <2>2
  <2>4. QED
    BY <2>3 DEF Following, n
<1>6. Following(host, "copyBack") = "done"
  BY <1>3 DEF Following
<1>7. QED
  BY <1>1, <1>2, <1>4, <1>5, <1>6 DEF host

-----------------------------------------------------------------------------
(* Arithmetic. *)

LEMMA DivMod ==
  ASSUME NEW k \in Nat \ {0}, NEW a \in Nat
  PROVE  a \div k \in Nat /\ a % k \in 0 .. k - 1 /\ a = (a \div k) * k + (a % k)
<1> DEFINE q == a \div k
           r == a % k
<1>1. a = k * q + r /\ r \in 0 .. k - 1 /\ q \in Int
  OBVIOUS
<1> HIDE DEF q, r
<1>2. a < k * q + k /\ k * q + k = k * (q + 1)
  BY <1>1
<1>3. ASSUME q < 0
      PROVE  FALSE
  <2> DEFINE z == -(q + 1)
  <2>1. z \in Nat /\ q + 1 = -z
    BY <1>1, <1>3
  <2> HIDE DEF z
  <2>2. k * z >= 0 /\ k * (-z) = -(k * z)
    BY <2>1
  <2>3. QED
    BY <1>1, <1>2, <2>1, <2>2
<1>4. q \in Nat
  BY <1>1, <1>3
<1>5. q * k = k * q
  BY <1>4
<1>6. q \in Nat /\ r \in 0 .. k - 1 /\ a = q * k + r
  BY <1>1, <1>4, <1>5
<1>7. QED
  BY <1>6 DEF q, r

(* A pair of a quotient and a remainder makes one number. *)
LEMMA PairUnique ==
  ASSUME NEW k \in Nat \ {0}, NEW p \in Nat, NEW q \in Nat,
         NEW r \in 0 .. k - 1, NEW z \in 0 .. k - 1,
         p * k + r = q * k + z
  PROVE  p = q /\ r = z
<1>1. CASE p < q
  <2>1. (p + 1) * k <= q * k
    BY <1>1
  <2>2. (p + 1) * k = p * k + k
    OBVIOUS
  <2>3. QED
    BY <2>1, <2>2
<1>2. CASE q < p
  <2>1. (q + 1) * k <= p * k
    BY <1>2
  <2>2. (q + 1) * k = q * k + k
    OBVIOUS
  <2>3. QED
    BY <2>1, <2>2
<1>3. QED
  BY <1>1, <1>2

(* A square that is a number of whole warps has an even side. *)
LEMMA EvenSide ==
  ASSUME NEW W \in {2, 4, 8, 16, 32}, NEW T \in Nat, (T * T) % W = 0
  PROVE  T % 2 = 0
<1>1. (T * T) % 2 = 0
  <2> DEFINE n == T * T
  <2>1. n \in Nat /\ n % W = 0
    OBVIOUS
  <2> HIDE DEF n
  <2>2. n % 2 = 0
    <3>1. CASE W = 2
      BY <2>1, <3>1
    <3>2. CASE W = 4
      BY <2>1, <3>2
    <3>3. CASE W = 8
      BY <2>1, <3>3
    <3>4. CASE W = 16
      BY <2>1, <3>4
    <3>5. CASE W = 32
      BY <2>1, <3>5
    <3>6. QED
      BY <3>1, <3>2, <3>3, <3>4, <3>5
  <2>3. QED
    BY <2>2 DEF n
<1>2. ASSUME T % 2 # 0
      PROVE  FALSE
  <2> DEFINE a == T \div 2
  <2>1. a \in Nat /\ T = 2 * a + 1
    BY <1>2
  <2> HIDE DEF a
  <2>2. T * T = 2 * (2 * (a * a) + 2 * a) + 1
    BY <2>1
  <2> DEFINE b == 2 * (a * a) + 2 * a
  <2>3. b \in Nat /\ T * T = 2 * b + 1
    BY <2>1, <2>2
  <2> HIDE DEF b
  <2>4. QED
    BY <1>1, <2>3
<1>3. QED
  BY <1>2

(* With an even side, two neighbours t and t + 1 are in one row. *)
LEMMA NextInRow ==
  ASSUME NEW T \in Nat \ {0}, T % 2 = 0, NEW t \in Nat, t % 2 = 0
  PROVE  (t + 1) \div T = t \div T /\ (t + 1) % T = (t % T) + 1
<1> DEFINE q == t \div T
           r == t % T
           p == (t + 1) \div T
           z == (t + 1) % T
           h == T \div 2
           s == t \div 2
<1>1. /\ q \in Nat /\ r \in 0 .. T - 1 /\ t = q * T + r
      /\ p \in Nat /\ z \in 0 .. T - 1 /\ t + 1 = p * T + z
  <2>1. q \in Nat /\ r \in 0 .. T - 1 /\ t = q * T + r
    BY DivMod
  <2> DEFINE u == t + 1
  <2>2. u \in Nat
    OBVIOUS
  <2> HIDE DEF u
  <2>3. u \div T \in Nat /\ u % T \in 0 .. T - 1 /\ u = (u \div T) * T + (u % T)
    BY <2>2, DivMod
  <2>4. QED
    BY <2>1, <2>3 DEF u
<1>2. h \in Nat /\ T = 2 * h /\ s \in Nat /\ t = 2 * s
  OBVIOUS
<1> HIDE DEF q, r, p, z, h, s
<1>3. q * T = 2 * (q * h)
  BY <1>1, <1>2
<1> DEFINE g == q * h
<1>4. g \in Nat /\ q * T = 2 * g
  BY <1>1, <1>2, <1>3
<1> HIDE DEF g
<1>5. r + 1 \in 0 .. T - 1
  BY <1>1, <1>2, <1>4
<1>6. q * T + (r + 1) = p * T + z
  BY <1>1, <1>4
<1>7. q = p /\ r + 1 = z
  BY <1>1, <1>5, <1>6, PairUnique
<1>8. QED
  BY <1>7 DEF q, r, p, z

LEMMA FloorType ==
  ASSUME NEW x \in Int, NEW in \in Nat \ {0}, NEW out \in Nat \ {0}
  PROVE  Floor(x, in, out) \in Int
<1>1. ((2 * x + 1) * in - out) \in Int /\ 2 * out \in Nat \ {0}
  OBVIOUS
<1>2. QED
  BY <1>1 DEF Floor

LEMMA ClampType ==
  ASSUME NEW i \in Int, NEW in \in Nat \ {0}
  PROVE  Clamp(i, in) \in 0 .. in - 1
  BY DEF Clamp, Least, Greatest

(* The pixel of a tap's place in the window is the pixel of the tap. *)
LEMMA SamePixel ==
  ASSUME NEW x \in Int, NEW x0 \in Int, NEW in \in Nat \ {0}, NEW out \in Nat \ {0},
         NEW k \in Int
  PROVE  /\ WindowPixel(x0, WindowIndex(x, x0, k, in, out) + 0, in, out)
              = TapPixel(x, k, in, out)
         /\ TapPixel(x, k, in, out) \in 0 .. in - 1
<1> DEFINE s == Source(x, in, out)
           w == WindowStart(x0, in, out)
<1>1. s \in Int /\ w \in Int
  BY FloorType, ClampType DEF Source, WindowStart
<1> HIDE DEF s, w
<1>2. w + (s - w + k - 1 + 0) = s + k - 1 /\ s + k - 1 \in Int
  BY <1>1
<1>3. QED
  BY <1>2, ClampType DEF WindowPixel, WindowIndex, TapPixel, s, w

-----------------------------------------------------------------------------
(* Threads and their taps. *)

LEMMA ThreadPair ==
  ASSUME NEW j \in Jobs, NEW th \in Threads(j)
  PROVE  /\ th[1] \in Blocks(j) /\ th[2] \in tids(j) /\ th = <<th[1], th[2]>>
         /\ th[1] = <<th[1][1], th[1][2]>> /\ th[1][1] \in Nat /\ th[1][2] \in Nat
         /\ th[2] \in Nat /\ th[2] < j.TILE * j.TILE
<1>1. th[1] \in Blocks(j) /\ th[2] \in tids(j) /\ th = <<th[1], th[2]>>
  BY DEF Threads
<1>2. th[1] = <<th[1][1], th[1][2]>> /\ th[1][1] \in Nat /\ th[1][2] \in Nat
  BY <1>1 DEF Blocks
<1>3. j.TILE \in Nat \ {0}
  BY BicubicAssumption
<1>4. j.TILE * j.TILE \in Nat
  BY <1>3
<1>5. th[2] \in Nat /\ th[2] < j.TILE * j.TILE
  BY <1>1, <1>4 DEF tids
<1>6. QED
  BY <1>1, <1>2, <1>5

(* The row and the column of a thread in its block. *)
LEMMA RowAndColumn ==
  ASSUME NEW j \in Jobs, NEW th \in Threads(j)
  PROVE  /\ th[2] \div j.TILE \in 0 .. j.TILE - 1 /\ th[2] % j.TILE \in 0 .. j.TILE - 1
         /\ th[2] = (th[2] \div j.TILE) * j.TILE + (th[2] % j.TILE)
         /\ out_x(j, th) \in Nat /\ out_y(j, th) \in Nat
<1> DEFINE T == j.TILE
           q == th[2] \div T
           r == th[2] % T
<1>1. T \in Nat \ {0} /\ th[2] \in Nat /\ th[2] < T * T
  BY ThreadPair, BicubicAssumption
<1>2. q \in Nat /\ r \in 0 .. T - 1 /\ th[2] = q * T + r
  BY <1>1, DivMod
<1> HIDE DEF q, r
<1>3. ASSUME q >= T
      PROVE  FALSE
  <2>1. q * T >= T * T
    BY <1>1, <1>2, <1>3
  <2>2. QED
    BY <1>1, <1>2, <2>1
<1>4. q \in 0 .. T - 1
  BY <1>1, <1>2, <1>3
<1>5. th[1][1] * T \in Nat /\ th[1][2] * T \in Nat
  BY <1>1, ThreadPair
<1>6. out_x(j, th) = th[1][2] * T + r /\ out_y(j, th) = th[1][1] * T + q
  BY DEF out_x, out_y, q, r
<1>7. out_x(j, th) \in Nat /\ out_y(j, th) \in Nat
  BY <1>1, <1>2, <1>4, <1>5, <1>6
<1>8. QED
  BY <1>2, <1>4, <1>7 DEF q, r

(* Every contribution has one author. *)
LEMMA ContributionUnique ==
  ASSUME NEW j \in Jobs, NEW th \in Threads(j), NEW u \in Threads(j),
         NEW i \in Taps, NEW k \in Taps, Contribution(j, th, i) = Contribution(j, u, k)
  PROVE  th = u /\ i = k
<1>1. i = <<i[1], i[2]>> /\ k = <<k[1], k[2]>>
  BY DEF Taps
<1>2. out_y(j, th) = out_y(j, u) /\ out_x(j, th) = out_x(j, u) /\ i[1] = k[1] /\ i[2] = k[2]
  BY DEF Contribution
<1> DEFINE T == j.TILE
           Col(t) == t[2] % T
           Row(t) == t[2] \div T
<1>3. T \in Nat \ {0}
  BY BicubicAssumption
<1>4. ASSUME NEW t \in Threads(j)
      PROVE  /\ t[1][1] \in Nat /\ t[1][2] \in Nat
             /\ Col(t) \in 0 .. T - 1 /\ Row(t) \in 0 .. T - 1
             /\ out_x(j, t) = t[1][2] * T + Col(t) /\ out_y(j, t) = t[1][1] * T + Row(t)
  BY RowAndColumn, ThreadPair DEF out_x, out_y
<1> HIDE DEF T, Col, Row
<1>5. th[1][2] = u[1][2] /\ Col(th) = Col(u)
  <2> DEFINE p == th[1][2]
             q == u[1][2]
             r == Col(th)
             z == Col(u)
  <2>1. /\ p \in Nat /\ q \in Nat /\ r \in 0 .. T - 1 /\ z \in 0 .. T - 1
        /\ p * T + r = q * T + z
    BY <1>2, <1>4
  <2> HIDE DEF p, q, r, z
  <2>2. p = q /\ r = z
    BY <1>3, <2>1, PairUnique
  <2>3. QED
    BY <2>2 DEF p, q, r, z
<1>6. th[1][1] = u[1][1] /\ Row(th) = Row(u)
  <2> DEFINE p == th[1][1]
             q == u[1][1]
             r == Row(th)
             z == Row(u)
  <2>1. /\ p \in Nat /\ q \in Nat /\ r \in 0 .. T - 1 /\ z \in 0 .. T - 1
        /\ p * T + r = q * T + z
    BY <1>2, <1>4
  <2> HIDE DEF p, q, r, z
  <2>2. p = q /\ r = z
    BY <1>3, <2>1, PairUnique
  <2>3. QED
    BY <2>2 DEF p, q, r, z
<1>7. th[2] = u[2]
  <2>1. \A t \in Threads(j) : t[2] = Row(t) * T + Col(t)
    BY RowAndColumn DEF Row, Col, T
  <2>2. QED
    BY <1>5, <1>6, <2>1
<1>8. /\ th = <<th[1], th[2]>> /\ th[1] = <<th[1][1], th[1][2]>>
      /\ u = <<u[1], u[2]>> /\ u[1] = <<u[1][1], u[1][2]>>
  BY ThreadPair
<1>9. th = u
  BY <1>5, <1>6, <1>7, <1>8, Zenon
<1>10. i = k
  BY <1>1, <1>2, Zenon
<1>11. QED
  BY <1>9, <1>10

(* Contributions of threads inside the output are no marks.                *)
LEMMA ContributionType ==
  ASSUME NEW j \in Jobs, NEW th \in Threads(j), NEW i \in Taps
  PROVE  /\ Contribution(j, th, i) # Stale /\ Contribution(j, th, i) # Twice
         /\ Active(j, th) => Contribution(j, th, i) \in
              (0 .. j.outH - 1) \X (0 .. j.outW - 1) \X (0 .. 3) \X (0 .. 3)
<1> DEFINE x == out_x(j, th)
           y == out_y(j, th)
<1>1. x \in Nat /\ y \in Nat
  BY RowAndColumn
<1>2. i[1] \in 0 .. 3 /\ i[2] \in 0 .. 3
  BY DEF Taps
<1>3. Contribution(j, th, i) = <<y, x, i[1], i[2]>>
  BY DEF Contribution
<1>4. j.outH \in Nat /\ j.outW \in Nat
  BY BicubicAssumption
<1>5. Active(j, th) => x < j.outW /\ y < j.outH
  BY DEF Active
<1> HIDE DEF x, y
<1>6. <<y, x, i[1], i[2]>> # Stale /\ <<y, x, i[1], i[2]>> # Twice
  <2>1. y # -1 /\ y # -2
    BY <1>1
  <2>2. QED
    BY <2>1 DEF Stale, Twice
<1>7. x < j.outW /\ y < j.outH => x \in 0 .. j.outW - 1 /\ y \in 0 .. j.outH - 1
  BY <1>1, <1>4
<1>8. QED
  BY <1>2, <1>3, <1>5, <1>6, <1>7

(* The pixel of a tap follows from its block and its cell, even where the  *)
(* window does not have that cell.                                         *)
LEMMA PixelFromCell ==
  ASSUME VersionCalls, NEW j \in Jobs, NEW th \in Threads(j), NEW i \in Taps
  PROVE  /\ PixelOfTap[j][th][i] \in Pixels(j)
         /\ PixelOfTap[j][th][i] =
              <<WindowPixel(th[1][1] * j.TILE, TapCell[j][th][i][1], j.inH, j.outH),
                WindowPixel(th[1][2] * j.TILE, TapCell[j][th][i][2], j.inW, j.outW)>>
<1> DEFINE x == out_x(j, th)
           y == out_y(j, th)
           X == th[1][2] * j.TILE
           Y == th[1][1] * j.TILE
           cx == WindowIndex(x, X, i[2], j.inW, j.outW) + 0
           cy == WindowIndex(y, Y, i[1], j.inH, j.outH) + 0
<1>1. /\ j.TILE \in Nat \ {0} /\ j.inW \in Nat \ {0} /\ j.inH \in Nat \ {0}
      /\ j.outW \in Nat \ {0} /\ j.outH \in Nat \ {0} /\ j.kernel.shift = 0
  BY JobFacts
<1>2. /\ x \in Nat /\ y \in Nat /\ th[1][1] \in Nat /\ th[1][2] \in Nat
      /\ th[1] \in Blocks(j)
  BY RowAndColumn, ThreadPair
<1>3. X \in Int /\ Y \in Int
  BY <1>1, <1>2
<1>4. i[1] \in Int /\ i[2] \in Int
  BY DEF Taps
<1>5. TapCell[j][th][i] = <<cy, cx>>
  BY <1>1 DEF TapCell
<1>6. PixelOfTap[j][th][i] = <<TapPixel(y, i[1], j.inH, j.outH), TapPixel(x, i[2], j.inW, j.outW)>>
  BY DEF PixelOfTap
<1> HIDE DEF x, y, X, Y
<1> DEFINE kx == i[2]
           ky == i[1]
           inW == j.inW
           inH == j.inH
           outW == j.outW
           outH == j.outH
<1>8. /\ WindowPixel(X, cx, inW, outW) = TapPixel(x, kx, inW, outW)
      /\ TapPixel(x, kx, inW, outW) \in 0 .. inW - 1
  <2> HIDE DEF kx, inW, outW
  <2>1. kx \in Int /\ inW \in Nat \ {0} /\ outW \in Nat \ {0} /\ x \in Int
    BY <1>1, <1>2, <1>4 DEF kx, inW, outW
  <2>2. cx = WindowIndex(x, X, kx, inW, outW) + 0
    BY DEF kx, inW, outW
  <2> HIDE DEF cx
  <2>3. QED
    BY <1>3, <2>1, <2>2, SamePixel
<1>9. /\ WindowPixel(Y, cy, inH, outH) = TapPixel(y, ky, inH, outH)
      /\ TapPixel(y, ky, inH, outH) \in 0 .. inH - 1
  <2> HIDE DEF ky, inH, outH
  <2>1. ky \in Int /\ inH \in Nat \ {0} /\ outH \in Nat \ {0} /\ y \in Int
    BY <1>1, <1>2, <1>4 DEF ky, inH, outH
  <2>2. cy = WindowIndex(y, Y, ky, inH, outH) + 0
    BY DEF ky, inH, outH
  <2> HIDE DEF cy
  <2>3. QED
    BY <1>3, <2>1, <2>2, SamePixel
<1> HIDE DEF cx, cy
<1>10. PixelOfTap[j][th][i] \in Pixels(j)
  BY <1>6, <1>8, <1>9 DEF Pixels
<1>11. TapCell[j][th][i][1] = cy /\ TapCell[j][th][i][2] = cx
  BY <1>5
<1>12. QED
  BY <1>6, <1>8, <1>9, <1>10, <1>11 DEF X, Y

(* A tap that the window has is flushed from there to its pixel.           *)
LEMMA PixelOfWindow ==
  ASSUME VersionCalls, NEW j \in Jobs, NEW th \in Threads(j), NEW i \in Taps
  PROVE  /\ PixelOfTap[j][th][i] \in Pixels(j)
         /\ TapCell[j][th][i] \in Window(j) =>
              PixelOfCell[j][th[1]][TapCell[j][th][i]] = PixelOfTap[j][th][i]
<1>1. ASSUME NEW c \in Window(j)
      PROVE  PixelOfCell[j][th[1]][c] =
               <<WindowPixel(th[1][1] * j.TILE, c[1], j.inH, j.outH),
                 WindowPixel(th[1][2] * j.TILE, c[2], j.inW, j.outW)>>
  BY ThreadPair DEF PixelOfCell
<1>2. QED
  BY <1>1, PixelFromCell

(* Threads of a block that aim at one cell aim at one pixel.               *)
LEMMA SameCellSamePixel ==
  ASSUME VersionCalls, NEW j \in Jobs, NEW th \in Threads(j), NEW u \in Threads(j),
         th[1] = u[1], NEW i \in Taps, TapCell[j][th][i] = TapCell[j][u][i]
  PROVE  PixelOfTap[j][th][i] = PixelOfTap[j][u][i]
  BY PixelFromCell

(* Every cell of a window is visited by one thread of its block.           *)
LEMMA CellOwner ==
  ASSUME VersionCalls, NEW j \in Jobs, NEW c \in Window(j)
  PROVE  \E t \in tids(j) : c \in MyCells[j][t] /\ \A s \in tids(j) : c \in MyCells[j][s] => s = t
<1> DEFINE a == c[1] * smem_w(j) + c[2]
           k == j.TILE * j.TILE
           t == a % k
<1>1. \A s \in tids(j) : c \in MyCells[j][s] <=> t = s
  BY DEF MyCells
<1>2. a \in Nat
  <2> DEFINE h == smem_h(j)
             w == smem_w(j)
  <2>1. c[1] \in 0 .. h - 1 /\ c[2] \in 0 .. w - 1 /\ a = c[1] * w + c[2]
    BY DEF Window
  <2>2. w \in Int
    <3>1. j.TILE \in Nat \ {0} /\ j.inW \in Nat \ {0} /\ j.outW \in Nat \ {0}
      BY BicubicAssumption
    <3> DEFINE n == (j.TILE * j.inW + j.outW - 1) \div j.outW + 4
               z == SMEM(j)
    <3>2. n \in Int /\ z \in Int
      BY <3>1, JobFacts
    <3>3. w = IF n <= z THEN n ELSE z
      BY DEF smem_w, WindowSize, Least
    <3> HIDE DEF n, z
    <3>4. QED
      BY <3>2, <3>3
  <2> HIDE DEF h, w, a
  <2>3. c[1] \in Nat /\ c[2] \in Nat /\ w \in Nat
    BY <2>1, <2>2
  <2>4. c[1] * w \in Nat
    BY <2>3
  <2>5. QED
    BY <2>1, <2>3, <2>4
<1>3. k \in Nat \ {0}
  <2>1. j.TILE \in Nat \ {0}
    BY BicubicAssumption
  <2>2. QED
    BY <2>1
<1>4. tids(j) = 0 .. k - 1
  BY DEF tids
<1> HIDE DEF a, k
<1>5. t \in tids(j)
  BY <1>2, <1>3, <1>4, DivMod
<1>6. QED
  BY <1>1, <1>5

LEMMA MyCellsType ==
  ASSUME NEW j \in Jobs, NEW t \in tids(j)
  PROVE  MyCells[j][t] \subseteq Window(j)
  BY DEF MyCells

(* What iteration r of a thread adds to a cell and, past the window, to a  *)
(* pixel.                                                                  *)
ToCell(j, th, r, c) ==
  {Contribution(j, th, i) : i \in {k \in Taps : k[1] = r /\ TapCell[j][th][k] = c}}
ToPixel(j, th, r, p) ==
  {Contribution(j, th, i) : i \in {k \in Taps :
     k[1] = r /\ TapCell[j][th][k] \notin Cells(j) /\ PixelOfTap[j][th][k] = p}}

LEMMA PlusNothing ==
  ASSUME NEW S
  PROVE  Plus(S, {}) = S
  BY DEF Plus

LEMMA PlusNew ==
  ASSUME NEW S, NEW T, S \cap T = {}
  PROVE  Plus(S, T) = S \cup T
  BY DEF Plus

LEMMA RowAdded ==
  ASSUME NEW j \in Jobs, NEW th \in Threads(j), NEW r \in 0 .. 3, NEW sums
  PROVE  /\ \A c \in DOMAIN sums : c \in Cells(j) =>
              AddTo(sums, Additions[j][th][r].cells)[c] = Plus(sums[c], ToCell(j, th, r, c))
         /\ \A p \in DOMAIN sums :
              AddTo(sums, Additions[j][th][r].pixels)[p] = Plus(sums[p], ToPixel(j, th, r, p))
<1> DEFINE Added(taps, place) == [x \in {place[i] : i \in taps} |->
             {Contribution(j, th, i) : i \in {k \in taps : place[k] = x}}]
           cells == Added(SharedTaps(j, th, r), TapCell[j][th])
           pixels == Added(GlobalTaps(j, th, r), PixelOfTap[j][th])
<1>1. Additions[j][th][r] = [cells |-> cells, pixels |-> pixels]
  BY DEF Additions
<1>2. /\ SharedTaps(j, th, r) = {k \in Taps : k[1] = r /\ TapCell[j][th][k] \in Cells(j)}
      /\ GlobalTaps(j, th, r) = {k \in Taps : k[1] = r /\ TapCell[j][th][k] \notin Cells(j)}
  <2>1. \A k : k \in {r} \X (0 .. 3) <=> k \in Taps /\ k[1] = r
    BY DEF Taps
  <2>2. QED
    BY <2>1 DEF SharedTaps, GlobalTaps
<1>3. ASSUME NEW c \in DOMAIN sums, c \in Cells(j)
      PROVE  AddTo(sums, cells)[c] = Plus(sums[c], ToCell(j, th, r, c))
  <2>1. {k \in SharedTaps(j, th, r) : TapCell[j][th][k] = c}
          = {k \in Taps : k[1] = r /\ TapCell[j][th][k] = c}
    BY <1>2, <1>3
  <2>2. CASE c \in DOMAIN cells
    <3>1. cells[c] = ToCell(j, th, r, c)
      BY <2>1, <2>2 DEF ToCell
    <3> HIDE DEF cells
    <3>2. QED
      BY <2>2, <3>1 DEF AddTo
  <2>3. CASE c \notin DOMAIN cells
    <3>1. {k \in SharedTaps(j, th, r) : TapCell[j][th][k] = c} = {}
      BY <2>3
    <3>2. ToCell(j, th, r, c) = {}
      BY <2>1, <3>1 DEF ToCell
    <3> HIDE DEF cells
    <3>3. QED
      BY <2>3, <3>2, PlusNothing DEF AddTo
  <2>4. QED
    BY <2>2, <2>3
<1>4. ASSUME NEW p \in DOMAIN sums
      PROVE  AddTo(sums, pixels)[p] = Plus(sums[p], ToPixel(j, th, r, p))
  <2>1. {k \in GlobalTaps(j, th, r) : PixelOfTap[j][th][k] = p}
          = {k \in Taps : k[1] = r /\ TapCell[j][th][k] \notin Cells(j) /\ PixelOfTap[j][th][k] = p}
    BY <1>2
  <2>2. CASE p \in DOMAIN pixels
    <3>1. pixels[p] = ToPixel(j, th, r, p)
      BY <2>1, <2>2 DEF ToPixel
    <3> HIDE DEF pixels
    <3>2. QED
      BY <2>2, <3>1 DEF AddTo
  <2>3. CASE p \notin DOMAIN pixels
    <3>1. {k \in GlobalTaps(j, th, r) : PixelOfTap[j][th][k] = p} = {}
      BY <2>3
    <3>2. ToPixel(j, th, r, p) = {}
      BY <2>1, <3>1 DEF ToPixel
    <3> HIDE DEF pixels
    <3>3. QED
      BY <2>3, <3>2, PlusNothing DEF AddTo
  <2>4. QED
    BY <2>2, <2>3
<1>5. Additions[j][th][r].cells = cells /\ Additions[j][th][r].pixels = pixels
  BY <1>1
<1> HIDE DEF cells, pixels
<1>6. QED
  BY <1>3, <1>4, <1>5

-----------------------------------------------------------------------------
(* The exchange between neighbours in a warp.                              *)

LEMMA Pair ==
  ASSUME VersionCalls, job \in Jobs, job.kernel.shuffles, NEW w \in Warps(job), NEW th \in Lanes(w)
  PROVE  /\ th \in Threads(job) /\ th[1] = w[1] /\ w[1] \in Blocks(job)
         /\ Neighbour(w, th) \in Lanes(w) /\ Neighbour(w, th) # th
         /\ Neighbour(w, Neighbour(w, th)) = th
         /\ Lane(th) % 2 = 0 <=> Lane(Neighbour(w, th)) % 2 # 0
         /\ Lane(th) % 2 # 0 /\ Active(job, th) => Active(job, Neighbour(w, th))
<1> DEFINE W == WARP_SIZE
           T == job.TILE
           n == T * T
           q == w[2]
<1>1. /\ W \in {2, 4, 8, 16, 32} /\ T \in Nat \ {0} /\ n \in Nat /\ n % W = 0
      /\ w[1] \in Blocks(job) /\ q \in 0 .. (n \div W) - 1
  <2>1. W \in {2, 4, 8, 16, 32} /\ n % W = 0
    BY WarpAssumption
  <2>2. T \in Nat \ {0}
    BY BicubicAssumption
  <2>3. w[1] \in Blocks(job) /\ q \in 0 .. (n \div W) - 1
    BY DEF Warps
  <2>4. QED
    BY <2>1, <2>2, <2>3
<1>2. tids(job) = 0 .. n - 1
  BY DEF tids
<1> HIDE DEF n
<1>3. ASSUME NEW l \in 0 .. W - 1
      PROVE  /\ Thread(w, l) = <<w[1], q * W + l>> /\ Thread(w, l) \in Lanes(w)
             /\ q * W + l \in 0 .. n - 1 /\ (q * W) % 2 = 0
             /\ Thread(w, l) \in Threads(job) /\ Lane(Thread(w, l)) = l
  <2>1. Thread(w, l) = <<w[1], q * W + l>> /\ Thread(w, l) \in Lanes(w)
    BY DEF Thread, Lanes
  <2>2. q * W + l \in 0 .. n - 1 /\ (q * W + l) % W = l /\ (q * W) % 2 = 0
    <3>1. /\ W \in {2, 4, 8, 16, 32} /\ n \in Nat /\ n % W = 0
          /\ q \in 0 .. (n \div W) - 1 /\ l \in 0 .. W - 1
      BY <1>1
    <3> HIDE DEF W, q
    <3>2. CASE W = 2
      BY ONLY <3>1, <3>2
    <3>3. CASE W = 4
      BY ONLY <3>1, <3>3
    <3>4. CASE W = 8
      BY ONLY <3>1, <3>4
    <3>5. CASE W = 16
      BY ONLY <3>1, <3>5
    <3>6. CASE W = 32
      BY ONLY <3>1, <3>6
    <3>7. QED
      BY <3>1, <3>2, <3>3, <3>4, <3>5, <3>6
  <2>3. Thread(w, l) \in Threads(job)
    <3>1. q * W + l \in tids(job)
      BY <1>2, <2>2
    <3> DEFINE t == q * W + l
    <3> HIDE DEF t
    <3>2. <<w[1], t>> \in Blocks(job) \X tids(job)
      BY <1>1, <3>1 DEF t
    <3>3. QED
      BY <2>1, <3>2 DEF Threads, t
  <2>4. Lane(Thread(w, l)) = l
    BY <2>1, <2>2 DEF Lane
  <2>5. QED
    BY <2>1, <2>2, <2>3, <2>4
<1>4. PICK l \in 0 .. W - 1 : th = Thread(w, l)
  BY DEF Lanes
<1>5. CASE l % 2 = 0
  <2>1. l + 1 \in 0 .. W - 1 /\ (l + 1) % 2 # 0 /\ (l + 1) - 1 = l
    BY <1>1, <1>5
  <2>2. Lane(th) = l /\ Neighbour(w, th) = Thread(w, l + 1)
    BY <1>3, <1>4, <1>5 DEF Neighbour
  <2>3. Lane(Thread(w, l + 1)) = l + 1
    BY <1>3, <2>1
  <2>4. Neighbour(w, Thread(w, l + 1)) = th
    BY <1>4, <2>1, <2>3 DEF Neighbour
  <2>5. Thread(w, l + 1) # th
    BY <2>1, <2>2, <2>3
  <2>6. QED
    BY <1>1, <1>3, <1>4, <1>5, <2>1, <2>2, <2>3, <2>4, <2>5
<1>6. CASE l % 2 # 0
  <2>1. l - 1 \in 0 .. W - 1 /\ (l - 1) % 2 = 0 /\ (l - 1) + 1 = l
    BY <1>1, <1>6
  <2>2. Lane(th) = l /\ Neighbour(w, th) = Thread(w, l - 1)
    BY <1>3, <1>4, <1>6 DEF Neighbour
  <2>3. Lane(Thread(w, l - 1)) = l - 1
    BY <1>3, <2>1
  <2>4. Neighbour(w, Thread(w, l - 1)) = th
    BY <1>4, <2>1, <2>3 DEF Neighbour
  <2>5. Thread(w, l - 1) # th
    BY <2>1, <2>2, <2>3
  <2>6. ASSUME Active(job, th)
        PROVE  Active(job, Thread(w, l - 1))
    <3> DEFINE u == Thread(w, l - 1)
               t == q * W + (l - 1)
    <3>1. u = <<w[1], t>> /\ t \in Nat /\ (q * W) % 2 = 0 /\ u \in Threads(job)
      BY <1>1, <1>3, <2>1
    <3>2. th = <<w[1], t + 1>> /\ t % 2 = 0
      <4>1. th = <<w[1], q * W + l>>
        BY <1>3, <1>4
      <4>2. q * W \in Nat
        BY <1>1
      <4>3. t + 1 = q * W + l /\ t % 2 = 0
        BY <2>1, <3>1, <4>2
      <4>4. QED
        BY <4>1, <4>3
    <3> HIDE DEF t, u
    <3>3. T % 2 = 0
      BY <1>1, EvenSide DEF n
    <3>4. (t + 1) \div T = t \div T /\ (t + 1) % T = (t % T) + 1
      BY <1>1, <3>1, <3>2, <3>3, NextInRow
    <3>5. out_y(job, th) = out_y(job, u) /\ out_x(job, th) = w[1][2] * T + ((t % T) + 1)
          /\ out_x(job, u) = w[1][2] * T + (t % T)
      BY <3>1, <3>2, <3>4 DEF out_x, out_y
    <3>6. w[1][2] * T \in Nat /\ t % T \in Nat
      <4>1. w[1][2] \in Nat
        BY <3>1, ThreadPair
      <4>2. t % T \in Nat
        <5> HIDE DEF T
        <5>1. t % T \in 0 .. T - 1
          BY <1>1, <3>1, DivMod
        <5>2. QED
          BY <1>1, <5>1
      <4>3. QED
        BY <1>1, <4>1, <4>2
    <3>7. job.outW \in Nat
      BY BicubicAssumption
    <3>8. out_x(job, u) < job.outW
      BY <2>6, <3>5, <3>6, <3>7 DEF Active
    <3>9. QED
      BY <2>6, <3>5, <3>8 DEF Active, u
  <2>7. QED
    BY SMTT(30), <1>1, <1>3, <1>4, <1>6, <2>1, <2>2, <2>3, <2>4, <2>5, <2>6
<1>7. QED
  BY <1>5, <1>6

(* The lane that adds the contribution of th for tap i: its own, or the    *)
(* lower one of the pair if both aim at one cell.                          *)
Carrier(w, th, i) ==
  IF CellOf(Neighbour(w, th), i) # CellOf(th, i) \/ Lane(th) % 2 = 0 THEN th
  ELSE Neighbour(w, th)

LEMMA OneCarrier ==
  ASSUME VersionCalls, job \in Jobs, job.kernel.shuffles, NEW w \in Warps(job),
         NEW th \in Lanes(w), Active(job, th), NEW i \in Taps, NEW u \in Lanes(w), NEW k \in Taps
  PROVE  Contribution(job, th, i) \in PairContrib(w, u, k) <=> k = i /\ u = Carrier(w, th, i)
<1> DEFINE x == Contribution(job, th, i)
           nb == Neighbour(w, u)
<1>1. /\ th \in Threads(job) /\ u \in Threads(job) /\ nb \in Threads(job) /\ nb # u
      /\ nb \in Lanes(w) /\ Neighbour(w, nb) = u
      /\ Lane(u) % 2 = 0 <=> Lane(nb) % 2 # 0
  BY Pair
<1>2. ASSUME NEW v \in Threads(job)
      PROVE  x \in Contrib(v, k) <=> v = th /\ k = i
  BY <1>1, ContributionUnique DEF Contrib
<1>3. Contrib(u, k) \cap Contrib(nb, k) = {}
  <2>1. ASSUME Active(job, u), Active(job, nb), Contribution(job, u, k) = Contribution(job, nb, k)
        PROVE  FALSE
    BY <1>1, <2>1, ContributionUnique
  <2>2. QED
    BY <2>1 DEF Contrib
<1>4. x \in PairContrib(w, u, k) <=>
        \/ x \in Contrib(u, k) /\ (CellOf(nb, k) # CellOf(u, k) \/ Lane(u) % 2 = 0)
        \/ x \in Contrib(nb, k) /\ CellOf(nb, k) = CellOf(u, k) /\ Lane(u) % 2 = 0
  BY <1>3 DEF PairContrib, Plus
<1> HIDE DEF x
<1>5. x \in PairContrib(w, u, k) <=>
        /\ k = i
        /\ \/ u = th /\ (CellOf(nb, k) # CellOf(u, k) \/ Lane(u) % 2 = 0)
           \/ nb = th /\ CellOf(nb, k) = CellOf(u, k) /\ Lane(u) % 2 = 0
  BY <1>1, <1>2, <1>4
<1>6. CASE u = th
  BY <1>1, <1>5, <1>6 DEF Carrier, x
<1>7. CASE nb = th
  BY <1>1, <1>5, <1>7 DEF Carrier, x
<1>8. CASE u # th /\ nb # th
  <2>1. Neighbour(w, th) # u
    BY <1>8, Pair
  <2>2. QED
    BY <1>5, <1>8, <2>1 DEF Carrier, x
<1>9. QED
  BY <1>6, <1>7, <1>8

(* Nobody adds anything else. *)
LEMMA OnlyCarried ==
  ASSUME VersionCalls, job \in Jobs, job.kernel.shuffles, NEW w \in Warps(job),
         NEW u \in Lanes(w), NEW k \in Taps, NEW x \in PairContrib(w, u, k)
  PROVE  \E th \in Lanes(w) : Active(job, th) /\ x = Contribution(job, th, k)
<1> DEFINE nb == Neighbour(w, u)
<1>1. u \in Threads(job) /\ nb \in Threads(job) /\ nb \in Lanes(w) /\ nb # u
  BY Pair
<1>2. Contrib(u, k) \cap Contrib(nb, k) = {}
  <2>1. ASSUME Active(job, u), Active(job, nb), Contribution(job, u, k) = Contribution(job, nb, k)
        PROVE  FALSE
    BY <1>1, <2>1, ContributionUnique
  <2>2. QED
    BY <2>1 DEF Contrib
<1>3. x \in Contrib(u, k) \/ x \in Contrib(nb, k)
  BY <1>2 DEF PairContrib, Plus
<1>4. QED
  BY <1>1, <1>3 DEF Contrib

(* The carrier aims at the cell and at the pixel of the contribution.      *)
LEMMA CarrierPlace ==
  ASSUME VersionCalls, job \in Jobs, job.kernel.shuffles, NEW w \in Warps(job),
         NEW th \in Lanes(w), Active(job, th), NEW i \in Taps
  PROVE  /\ Carrier(w, th, i) \in Lanes(w)
         /\ CellOf(Carrier(w, th, i), i) = TapCell[job][th][i]
         /\ PixelOf(Carrier(w, th, i), i) = PixelOfTap[job][th][i]
<1> DEFINE nb == Neighbour(w, th)
<1>1. /\ th \in Threads(job) /\ nb \in Threads(job) /\ nb \in Lanes(w) /\ th[1] = nb[1]
      /\ Lane(th) % 2 # 0 => Active(job, nb)
  BY Pair
<1>2. CellOf(th, i) = TapCell[job][th][i] /\ PixelOf(th, i) = PixelOfTap[job][th][i]
  BY DEF CellOf, PixelOf
<1>3. CASE CellOf(nb, i) # CellOf(th, i) \/ Lane(th) % 2 = 0
  BY <1>2, <1>3 DEF Carrier
<1>4. CASE ~(CellOf(nb, i) # CellOf(th, i) \/ Lane(th) % 2 = 0)
  <2>1. Carrier(w, th, i) = nb /\ CellOf(nb, i) = CellOf(th, i) /\ Active(job, nb)
    BY <1>1, <1>4 DEF Carrier
  <2>2. CellOf(nb, i) = TapCell[job][nb][i] /\ PixelOf(nb, i) = PixelOfTap[job][nb][i]
    BY <2>1 DEF CellOf, PixelOf
  <2>3. PixelOfTap[job][th][i] = PixelOfTap[job][nb][i]
    <3>1. TapCell[job][th][i] = TapCell[job][nb][i]
      BY <1>2, <2>1, <2>2
    <3> HIDE DEF nb
    <3>2. QED
      BY <1>1, <3>1, SameCellSamePixel
  <2>4. QED
    BY <1>1, <1>2, <2>1, <2>2, <2>3
<1>5. QED
  BY <1>3, <1>4

(* What the threads of S add in iteration r, to a cell and to a pixel.     *)
CellRow(S, r, c) == UNION {ToCell(job, th, r, c) : th \in {u \in S : Active(job, u)}}
PixelRow(S, r, p) == UNION {ToPixel(job, th, r, p) : th \in {u \in S : Active(job, u)}}

(* The additions of a warp, and those that go to its window.               *)
Adds(w, r) == Lanes(w) \X ({r} \X (0 .. 3))
WindowAdds(w, r) == {a \in Adds(w, r) : CellOf(a[1], a[2]) \in Cells(job)}
PairValue(w, r) == [a \in Adds(w, r) |-> PairContrib(w, a[1], a[2])]

LEMMA AddsFacts ==
  ASSUME NEW w, NEW r \in 0 .. 3
  PROVE  /\ \A a \in Adds(w, r) : /\ a[1] \in Lanes(w) /\ a[2] \in Taps /\ a[2][1] = r
                                  /\ a = <<a[1], a[2]>>
                                  /\ PairValue(w, r)[a] = PairContrib(w, a[1], a[2])
         /\ \A th \in Lanes(w) : \A i \in Taps : i[1] = r => <<th, i>> \in Adds(w, r)
<1>1. \A i : i \in {r} \X (0 .. 3) <=> i \in Taps /\ i[1] = r
  BY DEF Taps
<1>2. \A a \in Adds(w, r) : a = <<a[1], a[2]>> /\ a[1] \in Lanes(w) /\ a[2] \in {r} \X (0 .. 3)
  BY DEF Adds
<1>3. QED
  BY <1>1, <1>2 DEF Adds, PairValue

(* No contribution is added by two lanes. *)
LEMMA AddedOnce ==
  ASSUME VersionCalls, job \in Jobs, job.kernel.shuffles, NEW w \in Warps(job), NEW r \in 0 .. 3,
         NEW A \in SUBSET Adds(w, r), NEW base
  PROVE  AddAll(base, PairValue(w, r), A) = Plus(base, UNION {PairValue(w, r)[a] : a \in A})
<1>1. ASSUME NEW a \in A, NEW b \in A, NEW x \in PairValue(w, r)[a] \cap PairValue(w, r)[b]
      PROVE  a = b
  <2>1. /\ a[1] \in Lanes(w) /\ a[2] \in Taps /\ a = <<a[1], a[2]>>
        /\ b[1] \in Lanes(w) /\ b[2] \in Taps /\ b = <<b[1], b[2]>>
        /\ x \in PairContrib(w, a[1], a[2]) /\ x \in PairContrib(w, b[1], b[2])
    BY <1>1, AddsFacts
  <2>2. PICK th \in Lanes(w) : Active(job, th) /\ x = Contribution(job, th, a[2])
    BY <2>1, OnlyCarried
  <2>3. a[1] = Carrier(w, th, a[2]) /\ b[2] = a[2] /\ b[1] = Carrier(w, th, a[2])
    BY <2>1, <2>2, OneCarrier
  <2>4. QED
    BY <2>1, <2>3
<1>2. ~ \E a, b \in A : a # b /\ PairValue(w, r)[a] \cap PairValue(w, r)[b] # {}
  BY <1>1
<1>3. QED
  BY <1>2 DEF AddAll, Plus

(* What arrives at a cell, and at a pixel, is what the lanes have for it.  *)
LEMMA WarpCell ==
  ASSUME VersionCalls, job \in Jobs, job.kernel.shuffles, NEW w \in Warps(job), NEW r \in 0 .. 3,
         NEW c \in Cells(job)
  PROVE  UNION {PairValue(w, r)[a] : a \in {a \in WindowAdds(w, r) : CellOf(a[1], a[2]) = c}}
           = CellRow(Lanes(w), r, c)
<1> DEFINE A == {a \in WindowAdds(w, r) : CellOf(a[1], a[2]) = c}
<1>1. \A a : a \in A <=> a \in Adds(w, r) /\ CellOf(a[1], a[2]) = c
  BY DEF WindowAdds
<1> HIDE DEF A
<1>2. ASSUME NEW x, NEW a \in A, x \in PairValue(w, r)[a]
      PROVE  x \in CellRow(Lanes(w), r, c)
  <2>1. /\ a \in Adds(w, r) /\ CellOf(a[1], a[2]) = c /\ a[1] \in Lanes(w) /\ a[2] \in Taps
        /\ a[2][1] = r /\ x \in PairContrib(w, a[1], a[2])
    BY <1>1, <1>2, AddsFacts
  <2>2. PICK th \in Lanes(w) : Active(job, th) /\ x = Contribution(job, th, a[2])
    BY <2>1, OnlyCarried
  <2>3. a[1] = Carrier(w, th, a[2])
    BY <2>1, <2>2, OneCarrier
  <2>4. TapCell[job][th][a[2]] = c
    BY <2>1, <2>2, <2>3, CarrierPlace
  <2>5. x \in ToCell(job, th, r, c)
    BY <2>1, <2>2, <2>4 DEF ToCell
  <2>6. QED
    BY <2>2, <2>5 DEF CellRow
<1>3. ASSUME NEW x \in CellRow(Lanes(w), r, c)
      PROVE  \E a \in A : x \in PairValue(w, r)[a]
  <2>1. PICK th \in Lanes(w) : Active(job, th) /\ x \in ToCell(job, th, r, c)
    BY DEF CellRow
  <2>2. PICK i \in Taps : i[1] = r /\ TapCell[job][th][i] = c /\ x = Contribution(job, th, i)
    BY <2>1 DEF ToCell
  <2>3. Carrier(w, th, i) \in Lanes(w) /\ CellOf(Carrier(w, th, i), i) = c
    BY <2>1, <2>2, CarrierPlace
  <2>4. x \in PairContrib(w, Carrier(w, th, i), i)
    BY <2>1, <2>2, <2>3, OneCarrier
  <2> DEFINE a == <<Carrier(w, th, i), i>>
  <2>5. a \in Adds(w, r) /\ a[1] = Carrier(w, th, i) /\ a[2] = i
    BY <2>2, <2>3, AddsFacts
  <2> HIDE DEF a
  <2>6. a \in A /\ x \in PairValue(w, r)[a]
    BY <1>1, <2>3, <2>4, <2>5, AddsFacts
  <2>7. QED
    BY <2>6
<1>4. UNION {PairValue(w, r)[a] : a \in A} = CellRow(Lanes(w), r, c)
  BY <1>2, <1>3
<1>5. QED
  BY <1>4 DEF A

LEMMA WarpPixel ==
  ASSUME VersionCalls, job \in Jobs, job.kernel.shuffles, NEW w \in Warps(job), NEW r \in 0 .. 3,
         NEW p
  PROVE  UNION {PairValue(w, r)[a] :
                  a \in {a \in Adds(w, r) \ WindowAdds(w, r) : PixelOf(a[1], a[2]) = p}}
           = PixelRow(Lanes(w), r, p)
<1> DEFINE A == {a \in Adds(w, r) \ WindowAdds(w, r) : PixelOf(a[1], a[2]) = p}
<1>1. \A a : a \in A <=> /\ a \in Adds(w, r) /\ CellOf(a[1], a[2]) \notin Cells(job)
                         /\ PixelOf(a[1], a[2]) = p
  BY DEF WindowAdds
<1> HIDE DEF A
<1>2. ASSUME NEW x, NEW a \in A, x \in PairValue(w, r)[a]
      PROVE  x \in PixelRow(Lanes(w), r, p)
  <2>1. /\ a \in Adds(w, r) /\ CellOf(a[1], a[2]) \notin Cells(job) /\ PixelOf(a[1], a[2]) = p
        /\ a[1] \in Lanes(w) /\ a[2] \in Taps
        /\ a[2][1] = r /\ x \in PairContrib(w, a[1], a[2])
    BY <1>1, <1>2, AddsFacts
  <2>2. PICK th \in Lanes(w) : Active(job, th) /\ x = Contribution(job, th, a[2])
    BY <2>1, OnlyCarried
  <2>3. a[1] = Carrier(w, th, a[2])
    BY <2>1, <2>2, OneCarrier
  <2>4. TapCell[job][th][a[2]] \notin Cells(job) /\ PixelOfTap[job][th][a[2]] = p
    BY <2>1, <2>2, <2>3, CarrierPlace
  <2>5. x \in ToPixel(job, th, r, p)
    BY <2>1, <2>2, <2>4 DEF ToPixel
  <2>6. QED
    BY <2>2, <2>5 DEF PixelRow
<1>3. ASSUME NEW x \in PixelRow(Lanes(w), r, p)
      PROVE  \E a \in A : x \in PairValue(w, r)[a]
  <2>1. PICK th \in Lanes(w) : Active(job, th) /\ x \in ToPixel(job, th, r, p)
    BY DEF PixelRow
  <2>2. PICK i \in Taps : /\ i[1] = r /\ TapCell[job][th][i] \notin Cells(job)
                          /\ PixelOfTap[job][th][i] = p /\ x = Contribution(job, th, i)
    BY <2>1 DEF ToPixel
  <2>3. /\ Carrier(w, th, i) \in Lanes(w) /\ PixelOf(Carrier(w, th, i), i) = p
        /\ CellOf(Carrier(w, th, i), i) \notin Cells(job)
    BY <2>1, <2>2, CarrierPlace
  <2>4. x \in PairContrib(w, Carrier(w, th, i), i)
    BY <2>1, <2>2, <2>3, OneCarrier
  <2> DEFINE a == <<Carrier(w, th, i), i>>
  <2>5. a \in Adds(w, r) /\ a[1] = Carrier(w, th, i) /\ a[2] = i
    BY <2>2, <2>3, AddsFacts
  <2> HIDE DEF a
  <2>6. a \in A /\ x \in PairValue(w, r)[a]
    BY <1>1, <2>3, <2>4, <2>5, AddsFacts
  <2>7. QED
    BY <2>6
<1>4. UNION {PairValue(w, r)[a] : a \in A} = PixelRow(Lanes(w), r, p)
  BY <1>2, <1>3
<1>5. QED
  BY <1>4 DEF A

-----------------------------------------------------------------------------
(* The invariant.                                                          *)

Here(b) == {th \in Threads(job) : th[1] = b}

(* The label of a thread says how often it has arrived, and at which       *)
(* iteration of its loop it is.                                            *)
Position(th) ==
  /\ pc[th] \in {"notLaunched", "zero"} => arrived[th] = 0 /\ m[th] = 0
  /\ pc[th] = "sync1" => arrived[th] = 1 /\ m[th] = 0
  /\ pc[th] = "scatter" => /\ (Active(job, th) \/ job.kernel.shuffles)
                            /\ arrived[th] = (IF Long(job) THEN 1 ELSE 0)
  /\ pc[th] \in {"sync2", "flush"} => arrived[th] = 2
  /\ pc[th] = "done" => arrived[th] = (IF Long(job) THEN 2 ELSE 0)
  /\ pc[th] \in {"zero", "sync1", "sync2", "flush"} => Long(job)

(* The barriers: a thread behind one has seen its whole block arrive.      *)
Barriers(th) ==
  /\ pc[th] \in {"scatter", "sync2", "flush", "done"} /\ Long(job) =>
       \A u \in Here(th[1]) : arrived[u] >= 1
  /\ pc[th] \in {"flush", "done"} /\ Long(job) =>
       \A u \in Here(th[1]) : arrived[u] = 2

Schedule ==
  /\ hostPc \in {"memset", "launch"} => \A th \in Threads(job) : pc[th] = "notLaunched"
  /\ hostPc \in {"copyBack", "done"} => \A th \in Threads(job) : pc[th] # "notLaunched"
  /\ hostPc = "done" => \A th \in Threads(job) : pc[th] = "done"

(* A cell of a window has what the threads of its block have added to it,  *)
(* from when its owner has zeroed it.                                      *)
ArrivedIn(b, c, x) ==
  \E u \in Here(b) : \E i \in Taps :
    i \in AddedTaps(u) /\ TapCell[job][u][i] = c /\ x = Contribution(job, u, i)
CellsRight ==
  \A th \in Threads(job) : \A c \in MyCells[job][th[2]] :
    IF pc[th] \in {"notLaunched", "zero"} THEN smem[th[1]][c] = {Stale}
    ELSE \A x : x \in smem[th[1]][c] <=> ArrivedIn(th[1], c, x)

(* A pixel has what was added to it past the windows, or from one.         *)
ArrivedAt(p, x) ==
  \E u \in Threads(job) : \E i \in Taps :
    /\ i \in AddedTaps(u) /\ PixelOfTap[job][u][i] = p /\ x = Contribution(job, u, i)
    /\ TapCell[job][u][i] \in Cells(job) => Flushed(u[1], TapCell[job][u][i])
PixelsRight ==
  \A p \in Pixels(job) :
    IF hostPc = "memset" THEN grad_input[p] = {Stale}
    ELSE \A x : x \in grad_input[p] <=> ArrivedAt(p, x)

ResultRight == result = IF hostPc = "done" THEN CpuGradient[job] ELSE Uninitialised

Labels == {"notLaunched", "zero", "sync1", "scatter", "sync2", "flush", "done"}
ControlType ==
  /\ pc \in [Threads(job) -> Labels]
  /\ m \in [Threads(job) -> 0 .. 3]
  /\ arrived \in [Threads(job) -> 0 .. 2]
  /\ hostPc \in {"memset", "launch", "copyBack", "done"}
DataType ==
  /\ smem \in [Blocks(job) -> [Cells(job) -> SUBSET Sources]]
  /\ grad_input \in [Pixels(job) -> SUBSET Sources]
  /\ result \in [Pixels(job) -> SUBSET Sources]

Control ==
  /\ job \in Jobs
  /\ ControlType
  /\ \A th \in Threads(job) : Position(th) /\ Barriers(th)
  /\ Schedule
Data == CellsRight /\ PixelsRight /\ ResultRight
Inv == Control /\ DataType /\ Data

-----------------------------------------------------------------------------
(* Where the threads and the host are.                                     *)

(* A step of a thread, with its effect on the control alone: it goes from  *)
(* one label to another one, and counts its arrival.                       *)
Moves(th, label) ==
  /\ job' = job /\ hostPc' = hostPc
  /\ pc[th] \notin {"notLaunched", "done"} /\ label # "notLaunched"
  /\ Goto(th, label)
  /\ m' = m

LEMMA MoveControl ==
  ASSUME Control, NEW th \in Threads(job), NEW label \in Labels, Moves(th, label),
         arrived[th] < 2 \/ label \notin {"sync1", "sync2"},
         Position(th)', Barriers(th)'
  PROVE  Control'
<1>1. /\ job' = job /\ job \in Jobs /\ hostPc' = hostPc /\ m' = m
      /\ pc[th] \notin {"notLaunched", "done"} /\ label # "notLaunched"
      /\ ControlType /\ Schedule
  BY DEF Control, Moves
<1>2. pc' = [pc EXCEPT ![th] = label]
  BY DEF Moves, Goto
<1>3. ASSUME NEW u \in Threads(job)
      PROVE  /\ arrived'[u] \in arrived[u] .. 2
             /\ u # th => arrived'[u] = arrived[u]
  BY <1>1 DEF Moves, Goto, ControlType
<1>4. ControlType'
  <2>1. arrived' \in [Threads(job) -> 0 .. 2]
    <3>1. arrived' = [u \in Threads(job) |-> arrived'[u]]
      BY <1>1 DEF Moves, Goto, ControlType
    <3>2. \A u \in Threads(job) : arrived'[u] \in 0 .. 2
      BY <1>1, <1>3 DEF ControlType
    <3>3. QED
      BY <3>1, <3>2
  <2>2. QED
    BY <1>1, <1>2, <2>1 DEF ControlType
<1>5. ASSUME NEW u \in Threads(job), u # th
      PROVE  (Position(u) /\ Barriers(u))'
  <2>1. Position(u) /\ Barriers(u)
    BY DEF Control
  <2>2. pc'[u] = pc[u] /\ arrived'[u] = arrived[u] /\ m'[u] = m[u]
    BY <1>1, <1>2, <1>3, <1>5 DEF ControlType
  <2>3. Position(u)'
    BY <1>1, <2>1, <2>2 DEF Position
  <2>4. Here(u[1])' = Here(u[1]) /\ Here(u[1]) \subseteq Threads(job)
    BY <1>1 DEF Here
  <2>5. \A v \in Here(u[1]) : arrived[v] \in 0 .. 2 /\ arrived'[v] \in arrived[v] .. 2
    BY <1>1, <1>3, <2>4 DEF ControlType
  <2>6. Barriers(u)'
    BY <1>1, <2>1, <2>2, <2>4, <2>5 DEF Barriers
  <2>7. QED
    BY <2>3, <2>6
<1>6. Schedule'
  <2>1. pc[th] # "notLaunched" /\ pc[th] # "done"
    BY <1>1
  <2>2. hostPc = "copyBack"
    BY <1>1, <2>1 DEF Schedule, ControlType
  <2>3. \A u \in Threads(job) : pc'[u] # "notLaunched"
    BY <1>1, <1>2, <2>2 DEF Schedule, ControlType
  <2>4. QED
    BY <1>1, <2>2, <2>3 DEF Schedule
<1>7. \A u \in Threads(job') : (Position(u) /\ Barriers(u))'
  BY <1>1, <1>5
<1>8. QED
  BY <1>1, <1>4, <1>6, <1>7 DEF Control

(* What a label says of the thread and of its block. *)
LEMMA AtLabel ==
  ASSUME VersionCalls, Control, NEW th \in Threads(job)
  PROVE  /\ pc[th] \in Labels /\ m[th] \in 0 .. 3 /\ arrived[th] \in 0 .. 2
         /\ Position(th) /\ Barriers(th)
         /\ pc[th] # "notLaunched" => hostPc \in {"copyBack", "done"}
         /\ pc[th] \notin {"notLaunched", "done"} => hostPc = "copyBack"
         /\ Here(th[1]) \subseteq Threads(job)
         /\ \A u \in Here(th[1]) : arrived[u] \in 0 .. 2 /\ u[1] = th[1]
  BY DEF Control, ControlType, Schedule, Here

LEMMA ZeroMoves ==
  ASSUME VersionCalls, Control, NEW th \in Threads(job), Zero(th)
  PROVE  Moves(th, "sync1") /\ Control'
<1>1. Moves(th, "sync1")
  BY DEF Zero, Moves
<1>2. pc[th] = "zero" /\ arrived[th] = 0 /\ m[th] = 0 /\ Long(job)
  BY AtLabel DEF Zero, Position
<1>3. job' = job /\ pc'[th] = "sync1" /\ arrived'[th] = 1 /\ m'[th] = 0
  BY <1>1, <1>2 DEF Moves, Goto, Control, ControlType
<1>4. Position(th)' /\ Barriers(th)'
  BY <1>2, <1>3 DEF Position, Barriers
<1>5. QED
  BY <1>1, <1>2, <1>4, MoveControl DEF Labels

LEMMA LeaveSync1Moves ==
  ASSUME VersionCalls, Control, NEW th \in Threads(job), LeaveSync1(th)
  PROVE  /\ pc[th] = "sync1" /\ m[th] = 0
         /\ Moves(th, IF Active(job, th) THEN "scatter" ELSE "sync2") /\ Control'
<1> DEFINE label == IF Active(job, th) THEN "scatter" ELSE "sync2"
<1>1. Moves(th, label)
  BY DEF LeaveSync1, Moves
<1>2. pc[th] = "sync1" /\ arrived[th] = 1 /\ m[th] = 0 /\ Long(job)
  BY AtLabel DEF LeaveSync1, Position
<1>3. \A u \in Here(th[1]) : arrived[u] >= 1
  BY <1>2 DEF LeaveSync1, Released, Here
<1>4. /\ job' = job /\ pc'[th] = label /\ m'[th] = 0
      /\ arrived'[th] = IF Active(job, th) THEN 1 ELSE 2
  BY <1>1, <1>2 DEF Moves, Goto, Control, ControlType
<1>5. \A u \in Here(th[1]) : arrived'[u] >= 1
  BY <1>1, <1>3, AtLabel DEF Moves, Goto, Control, ControlType
<1>6. Here(th[1])' = Here(th[1]) /\ Long(job)' = Long(job)
  BY <1>4 DEF Here
<1>7. Position(th)' /\ Barriers(th)'
  BY <1>2, <1>4, <1>5, <1>6 DEF Position, Barriers
<1>8. QED
  BY <1>1, <1>2, <1>7, MoveControl DEF Labels

LEMMA EnterScatterMoves ==
  ASSUME VersionCalls, Control, job.kernel.shuffles, NEW th \in Threads(job), EnterScatter(th)
  PROVE  pc[th] = "sync1" /\ m[th] = 0 /\ Moves(th, "scatter") /\ Control'
<1>1. Moves(th, "scatter")
  BY DEF EnterScatter, Moves
<1>2. pc[th] = "sync1" /\ arrived[th] = 1 /\ m[th] = 0 /\ Long(job)
  BY AtLabel DEF EnterScatter, Position
<1>3. \A u \in Here(th[1]) : arrived[u] >= 1
  BY <1>2 DEF EnterScatter, Released, Here
<1>4. job' = job /\ pc'[th] = "scatter" /\ m'[th] = 0 /\ arrived' = arrived
  BY <1>1, <1>2 DEF Moves, Goto, Control, ControlType
<1>5. Here(th[1])' = Here(th[1]) /\ Long(job)' = Long(job)
  BY <1>4 DEF Here
<1>6. Position(th)' /\ Barriers(th)'
  BY <1>2, <1>3, <1>4, <1>5 DEF Position, Barriers
<1>7. QED
  BY <1>1, <1>2, <1>6, MoveControl DEF Labels

LEMMA LeaveSync2Moves ==
  ASSUME VersionCalls, Control, NEW th \in Threads(job), LeaveSync2(th)
  PROVE  Moves(th, "flush") /\ pc[th] = "sync2" /\ Control'
<1>1. Moves(th, "flush")
  BY DEF LeaveSync2, Moves
<1>2. pc[th] = "sync2" /\ arrived[th] = 2 /\ Long(job)
  BY AtLabel DEF LeaveSync2, Position
<1>3. \A u \in Here(th[1]) : arrived[u] = 2
  BY <1>2, AtLabel DEF LeaveSync2, Released, Here
<1>4. job' = job /\ pc'[th] = "flush" /\ m' = m /\ arrived' = arrived
  BY <1>1 DEF Moves, Goto, Control, ControlType
<1>5. Here(th[1])' = Here(th[1]) /\ Long(job)' = Long(job)
  BY <1>4 DEF Here
<1>6. Position(th)' /\ Barriers(th)'
  BY <1>2, <1>3, <1>4, <1>5 DEF Position, Barriers
<1>7. QED
  BY <1>1, <1>2, <1>6, MoveControl DEF Labels

LEMMA FlushMoves ==
  ASSUME VersionCalls, Control, NEW th \in Threads(job), Flush(th)
  PROVE  /\ Moves(th, "done") /\ pc[th] = "flush" /\ Long(job) /\ Control'
         /\ \A u \in Here(th[1]) : arrived[u] = 2
<1>1. Moves(th, "done")
  BY DEF Flush, Moves
<1>2. pc[th] = "flush" /\ arrived[th] = 2 /\ Long(job)
  BY AtLabel DEF Flush, Position
<1>3. \A u \in Here(th[1]) : arrived[u] = 2
  BY <1>2, AtLabel DEF Barriers
<1>4. job' = job /\ pc'[th] = "done" /\ m' = m /\ arrived' = arrived
  BY <1>1 DEF Moves, Goto, Control, ControlType
<1>5. Here(th[1])' = Here(th[1]) /\ Long(job)' = Long(job)
  BY <1>4 DEF Here
<1>6. Position(th)' /\ Barriers(th)'
  BY <1>2, <1>3, <1>4, <1>5 DEF Position, Barriers
<1>7. QED
  BY <1>1, <1>2, <1>3, <1>6, MoveControl DEF Labels

(* An iteration of the loop over m.  The thread stays, or leaves the loop. *)
LEMMA ScatterMoves ==
  ASSUME VersionCalls, Control, ~job.kernel.shuffles, NEW th \in Threads(job), ScatterRow(th)
  PROVE  /\ job' = job /\ hostPc' = hostPc /\ pc[th] = "scatter" /\ Active(job, th)
         /\ pc' \in [Threads(job) -> Labels] /\ m' \in [Threads(job) -> 0 .. 3]
         /\ \A u \in Threads(job) : u # th => pc'[u] = pc[u] /\ m'[u] = m[u]
         /\ \/ m[th] < 3 /\ pc'[th] = "scatter" /\ m'[th] = m[th] + 1
            \/ m[th] = 3 /\ pc'[th] = (IF Long(job) THEN "sync2" ELSE "done")
         /\ Long(job) => \A u \in Here(th[1]) : arrived[u] >= 1 /\ pc[u] \notin {"flush", "done"}
         /\ Control'
<1>1. /\ job' = job /\ hostPc' = hostPc /\ pc[th] = "scatter" /\ NextRow(th)
  BY DEF ScatterRow
<1>2. /\ pc[th] = "scatter" /\ Active(job, th) /\ arrived[th] = (IF Long(job) THEN 1 ELSE 0)
      /\ m[th] \in 0 .. 3
  BY <1>1, AtLabel DEF Position
<1>3. Long(job) => \A u \in Here(th[1]) : arrived[u] >= 1 /\ pc[u] \notin {"flush", "done"}
  <2>1. Long(job) => \A u \in Here(th[1]) : arrived[u] >= 1
    BY <1>2, AtLabel DEF Barriers
  <2>2. ASSUME Long(job), NEW u \in Here(th[1]), pc[u] \in {"flush", "done"}
        PROVE  FALSE
    <3>1. u \in Threads(job) /\ th \in Here(u[1])
      BY DEF Here
    <3>2. arrived[th] = 2
      BY <2>2, <3>1, AtLabel DEF Barriers
    <3>3. QED
      BY <1>2, <2>2, <3>2
  <2>3. QED
    BY <2>1, <2>2
<1>4. CASE m[th] < 3
  <2>1. /\ m' = [m EXCEPT ![th] = @ + 1] /\ pc' = pc /\ arrived' = arrived
    BY <1>1, <1>4 DEF NextRow
  <2>2. /\ pc'[th] = "scatter" /\ m'[th] = m[th] + 1 /\ m' \in [Threads(job) -> 0 .. 3]
        /\ \A u \in Threads(job) : u # th => m'[u] = m[u]
    BY <1>2, <1>4, <2>1 DEF Control, ControlType
  <2>3. ASSUME NEW u \in Threads(job)
        PROVE  (Position(u) /\ Barriers(u))'
    <3>1. Position(u) /\ Barriers(u)
      BY DEF Control
    <3>2. Position(u)'
      BY <1>1, <2>1, <2>2, <3>1 DEF Position
    <3>3. Barriers(u)'
      BY <1>1, <2>1, <3>1 DEF Barriers, Here
    <3>4. QED
      BY <3>2, <3>3
  <2>4. Control'
    BY <1>1, <2>1, <2>2, <2>3 DEF Control, ControlType, Schedule
  <2>5. QED
    BY <1>1, <1>2, <1>3, <1>4, <2>1, <2>2, <2>4 DEF Control, ControlType
<1>5. CASE ~(m[th] < 3)
  <2> DEFINE label == IF Long(job) THEN "sync2" ELSE "done"
  <2>1. /\ Goto(th, Following(job.kernel.code, "scatter")) /\ m' = m
    BY <1>1, <1>5 DEF NextRow
  <2>2. Following(job.kernel.code, "scatter") = label
    <3>1. Long(job) \/ job.kernel.code = <<"scatter">>
      BY JobFacts DEF Control
    <3>2. LongCode # <<"scatter">>
      BY DEF LongCode
    <3>3. QED
      BY <3>1, <3>2, After DEF Long
  <2>3. Moves(th, label)
    BY <1>1, <2>1, <2>2 DEF Moves
  <2>4. /\ pc'[th] = label /\ m'[th] = 3 /\ arrived'[th] = (IF Long(job) THEN 2 ELSE 0)
    BY <1>2, <1>5, <2>1, <2>3 DEF Moves, Goto, Control, ControlType
  <2>5. Here(th[1])' = Here(th[1]) /\ Long(job)' = Long(job)
    BY <1>1 DEF Here
  <2>6. Long(job) => \A u \in Here(th[1]) : arrived'[u] >= 1
    BY <1>3, <2>3, AtLabel DEF Moves, Goto, Control, ControlType
  <2>7. Position(th)' /\ Barriers(th)'
    BY <1>1, <1>2, <2>4, <2>5, <2>6 DEF Position, Barriers
  <2>8. Control'
    BY <1>2, <2>3, <2>7, MoveControl DEF Labels
  <2>9. pc' \in [Threads(job) -> Labels] /\ m' \in [Threads(job) -> 0 .. 3]
    BY <1>1, <2>8 DEF Control, ControlType
  <2>10. \A u \in Threads(job) : u # th => pc'[u] = pc[u] /\ m'[u] = m[u]
    BY <2>3 DEF Moves, Goto, Control, ControlType
  <2>11. QED
    BY <1>1, <1>2, <1>3, <1>5, <2>4, <2>8, <2>9, <2>10
<1>6. QED
  BY <1>4, <1>5

(* The same for the threads S of block b together: one thread, or a warp.  *)
RowDone(S, b, r) ==
  /\ job' = job /\ hostPc = "copyBack" /\ hostPc' = "copyBack" /\ r \in 0 .. 3
  /\ b \in Blocks(job) /\ S \subseteq Here(b)
  /\ \A th \in S : pc[th] = "scatter" /\ m[th] = r
  /\ pc' \in [Threads(job) -> Labels] /\ m' \in [Threads(job) -> 0 .. 3]
  /\ \A u \in Threads(job) \ S : pc'[u] = pc[u] /\ m'[u] = m[u]
  /\ \A th \in S : \/ r < 3 /\ pc'[th] = "scatter" /\ m'[th] = r + 1
                   \/ r = 3 /\ pc'[th] = (IF Long(job) THEN "sync2" ELSE "done")
  /\ Long(job) => \A u \in Here(b) : arrived[u] >= 1 /\ pc[u] \notin {"flush", "done"}

LEMMA ScatterRowDone ==
  ASSUME VersionCalls, Control, ~job.kernel.shuffles, NEW th \in Threads(job), ScatterRow(th)
  PROVE  RowDone({th}, th[1], m[th]) /\ Active(job, th) /\ Control'
<1>1. /\ job' = job /\ hostPc' = hostPc /\ pc[th] = "scatter" /\ Active(job, th)
      /\ pc' \in [Threads(job) -> Labels] /\ m' \in [Threads(job) -> 0 .. 3]
      /\ \A u \in Threads(job) : u # th => pc'[u] = pc[u] /\ m'[u] = m[u]
      /\ \/ m[th] < 3 /\ pc'[th] = "scatter" /\ m'[th] = m[th] + 1
         \/ m[th] = 3 /\ pc'[th] = (IF Long(job) THEN "sync2" ELSE "done")
      /\ Long(job) => \A u \in Here(th[1]) : arrived[u] >= 1 /\ pc[u] \notin {"flush", "done"}
      /\ Control'
  BY ScatterMoves
<1>2. hostPc = "copyBack" /\ m[th] \in 0 .. 3
  BY <1>1, AtLabel
<1>3. th[1] \in Blocks(job) /\ {th} \subseteq Here(th[1])
  BY DEF Threads, Here
<1>4. QED
  BY <1>1, <1>2, <1>3 DEF RowDone

LEMMA PairsRowDone ==
  ASSUME VersionCalls, Control, job.kernel.shuffles, NEW w \in Warps(job), NEW r \in 0 .. 3,
         AtRow(Lanes(w), r), NextRowTogether(Lanes(w), r), UNCHANGED <<job, hostPc>>
  PROVE  RowDone(Lanes(w), w[1], r) /\ Control'
<1> DEFINE S == Lanes(w)
           b == w[1]
<1>1. job \in Jobs /\ job' = job /\ hostPc' = hostPc /\ Long(job)
  BY JobFacts DEF Control
<1>2. b \in Blocks(job) /\ S \subseteq Here(b) /\ S \subseteq Threads(job)
      /\ \E th \in S : TRUE
  <2>1. \A th \in Lanes(w) : th \in Threads(job) /\ th[1] = w[1]
    BY <1>1, Pair
  <2>2. Thread(w, 0) \in Lanes(w)
    BY WarpAssumption DEF Lanes
  <2>3. b \in Blocks(job)
    BY DEF Warps
  <2>4. QED
    BY <2>1, <2>2, <2>3 DEF Here
<1> HIDE DEF S, b
<1>3. \A th \in S : pc[th] = "scatter" /\ m[th] = r
  BY DEF AtRow, S
<1>4. \A th \in S : arrived[th] = 1 /\ Barriers(th) /\ th[1] = b
  BY <1>1, <1>2, <1>3, AtLabel DEF Position, Here
<1>5. hostPc = "copyBack"
  BY <1>2, <1>3, AtLabel
<1>6. \A u \in Here(b) : arrived[u] >= 1 /\ pc[u] \notin {"flush", "done"}
  <2>1. \A u \in Here(b) : arrived[u] >= 1
    BY <1>1, <1>2, <1>3, <1>4 DEF Barriers
  <2>2. ASSUME NEW u \in Here(b), pc[u] \in {"flush", "done"}
        PROVE  FALSE
    <3>1. PICK th \in S : TRUE
      BY <1>2
    <3>2. u \in Threads(job) /\ th \in Here(u[1])
      BY <1>2, <3>1 DEF Here
    <3>3. arrived[th] = 2
      BY <1>1, <2>2, <3>2, AtLabel DEF Barriers
    <3>4. QED
      BY <1>4, <3>1, <3>3
  <2>3. QED
    BY <2>1, <2>2
<1>7. ControlType /\ Schedule
  BY DEF Control
<1>8. /\ pc' \in [Threads(job) -> Labels] /\ m' \in [Threads(job) -> 0 .. 3]
      /\ arrived' \in [Threads(job) -> 0 .. 2]
      /\ \A u \in Threads(job) \ S : pc'[u] = pc[u] /\ m'[u] = m[u] /\ arrived'[u] = arrived[u]
      /\ \A th \in S : \/ r < 3 /\ pc'[th] = "scatter" /\ m'[th] = r + 1 /\ arrived'[th] = 1
                       \/ r = 3 /\ pc'[th] = "sync2" /\ m'[th] = r /\ arrived'[th] = 2
  <2>1. CASE r < 3
    <3>1. /\ m' = [th \in Threads(job) |-> IF th \in S THEN r + 1 ELSE m[th]]
          /\ pc' = pc /\ arrived' = arrived
      BY <2>1 DEF NextRowTogether, S
    <3>2. r + 1 \in 0 .. 3
      BY <2>1
    <3>3. m' \in [Threads(job) -> 0 .. 3]
      BY <1>7, <3>1, <3>2 DEF ControlType
    <3>4. QED
      BY <1>2, <1>3, <1>4, <1>7, <2>1, <3>1, <3>3 DEF ControlType
  <2>2. CASE ~(r < 3)
    <3>1. /\ pc' = [th \in Threads(job) |-> IF th \in S THEN "sync2" ELSE pc[th]]
          /\ arrived' = [th \in Threads(job) |-> IF th \in S THEN arrived[th] + 1 ELSE arrived[th]]
          /\ m' = m
      BY <2>2 DEF NextRowTogether, S
    <3>2. \A th \in S : arrived[th] + 1 = 2
      BY <1>4
    <3>3. /\ arrived' \in [Threads(job) -> 0 .. 2] /\ pc' \in [Threads(job) -> Labels]
      BY <1>7, <3>1, <3>2 DEF ControlType, Labels
    <3>4. QED
      BY <1>2, <1>3, <1>7, <2>2, <3>1, <3>2, <3>3 DEF ControlType
  <2>3. QED
    BY <2>1, <2>2
<1>9. RowDone(S, b, r)
  BY <1>1, <1>2, <1>3, <1>5, <1>6, <1>8 DEF RowDone
<1>10. ControlType' /\ Schedule'
  <2>1. ControlType'
    BY <1>1, <1>5, <1>8 DEF ControlType
  <2>2. \A u \in Threads(job) : pc'[u] # "notLaunched"
    BY <1>5, <1>7, <1>8 DEF Schedule
  <2>3. QED
    BY <1>1, <1>5, <2>1, <2>2 DEF Schedule
<1>11. ASSUME NEW u \in Threads(job)
       PROVE  (Position(u) /\ Barriers(u))'
  <2>1. Position(u) /\ Barriers(u)
    BY DEF Control
  <2>2. Here(u[1])' = Here(u[1]) /\ Here(u[1]) \subseteq Threads(job)
    BY <1>1 DEF Here
  <2>3. \A v \in Here(u[1]) : arrived[v] \in 0 .. 2 /\ arrived'[v] \in arrived[v] .. 2
    BY <1>4, <1>7, <1>8, <2>2 DEF ControlType
  <2>4. CASE u \in S
    <3>1. u[1] = b
      BY <1>4, <2>4
    <3>2. \A v \in Here(u[1]) : arrived'[v] >= 1
      BY <1>6, <2>3, <3>1
    <3>3. QED
      BY <1>1, <1>8, <2>1, <2>2, <2>4, <3>2 DEF Position, Barriers
  <2>5. CASE u \notin S
    <3>1. pc'[u] = pc[u] /\ m'[u] = m[u] /\ arrived'[u] = arrived[u]
      BY <1>8, <2>5
    <3>2. Position(u)'
      BY <1>1, <2>1, <3>1 DEF Position
    <3>3. Barriers(u)'
      BY <1>1, <2>1, <2>2, <2>3, <3>1 DEF Barriers
    <3>4. QED
      BY <3>2, <3>3
  <2>6. QED
    BY <2>4, <2>5
<1>12. QED
  BY <1>1, <1>9, <1>10, <1>11 DEF Control, S, b

LEMMA MemsetMoves ==
  ASSUME VersionCalls, Control, Memset
  PROVE  /\ hostPc = "memset" /\ hostPc' = "launch" /\ job' = job
         /\ pc' = pc /\ m' = m /\ \A u \in Threads(job) : pc[u] = "notLaunched"
         /\ Control'
<1>1. /\ hostPc = "memset" /\ hostPc' = "launch"
      /\ job' = job /\ pc' = pc /\ m' = m /\ arrived' = arrived
  BY JobFacts, After DEF Memset, HostAt, Control
<1>2. \A u \in Threads(job) : pc[u] = "notLaunched"
  BY <1>1 DEF Control, Schedule
<1>3. ControlType' /\ Schedule'
  BY <1>1, <1>2 DEF Control, ControlType, Schedule
<1>4. ASSUME NEW u \in Threads(job)
      PROVE  (Position(u) /\ Barriers(u))'
  BY <1>1 DEF Control, Position, Barriers, Here
<1>5. QED
  BY <1>1, <1>2, <1>3, <1>4 DEF Control

LEMMA LaunchMoves ==
  ASSUME VersionCalls, Control, Launch
  PROVE  /\ hostPc = "launch" /\ hostPc' = "copyBack" /\ job' = job /\ m' = m
         /\ \A u \in Threads(job) :
              /\ pc[u] = "notLaunched" /\ m[u] = 0
              /\ \/ Long(job) /\ pc'[u] = "zero"
                 \/ /\ ~Long(job) /\ Window(job) = {}
                    /\ pc'[u] = (IF Active(job, u) THEN "scatter" ELSE "done")
         /\ Control'
<1>1. /\ hostPc = "launch" /\ hostPc' = "copyBack"
      /\ job' = job /\ m' = m /\ arrived' = arrived
  BY JobFacts, After DEF Launch, HostAt, Control
<1>2. \A u \in Threads(job) : pc[u] = "notLaunched" /\ arrived[u] = 0 /\ m[u] = 0
  BY <1>1, AtLabel DEF Control, Schedule, Position
<1>3. LongCode[1] = "zero" /\ LongCode # <<"scatter">> /\ <<"scatter">>[1] = "scatter"
  BY DEF LongCode
<1>4. /\ pc' \in [Threads(job) -> Labels]
      /\ \A u \in Threads(job) :
           \/ Long(job) /\ pc'[u] = "zero"
           \/ /\ ~Long(job) /\ Window(job) = {}
              /\ pc'[u] = (IF Active(job, u) THEN "scatter" ELSE "done")
  <2>1. CASE Long(job)
    <3>1. job.kernel.code[1] = "zero"
      BY <2>1, <1>3 DEF Long
    <3>2. QED
      BY <2>1, <3>1 DEF Launch, Labels
  <2>2. CASE ~Long(job)
    <3>1. Window(job) = {} /\ job.kernel.code[1] = "scatter"
      BY <2>2, <1>3, JobFacts DEF Control
    <3>2. QED
      BY <2>2, <3>1 DEF Launch, Labels
  <2>3. QED
    BY <2>1, <2>2
<1>5. ControlType'
  BY <1>1, <1>4 DEF Control, ControlType
<1>6. ASSUME NEW u \in Threads(job)
      PROVE  (Position(u) /\ Barriers(u))'
  <2>1. arrived'[u] = 0 /\ m'[u] = 0
    BY <1>1, <1>2
  <2>2. Position(u)'
    BY <1>1, <1>4, <2>1 DEF Position
  <2>3. Barriers(u)'
    BY <1>1, <1>4 DEF Barriers
  <2>4. QED
    BY <2>2, <2>3
<1>7. Schedule'
  BY <1>1, <1>4 DEF Schedule
<1>8. QED
  BY <1>1, <1>2, <1>4, <1>5, <1>6, <1>7 DEF Control

LEMMA CopyBackMoves ==
  ASSUME VersionCalls, Control, CopyBack
  PROVE  /\ hostPc = "copyBack" /\ hostPc' = "done" /\ job' = job
         /\ pc' = pc /\ m' = m /\ \A u \in Threads(job) : pc[u] = "done"
         /\ Control'
<1>1. /\ hostPc = "copyBack" /\ hostPc' = "done"
      /\ job' = job /\ pc' = pc /\ m' = m /\ arrived' = arrived
  BY JobFacts, After DEF CopyBack, HostAt, Control, device
<1>2. \A u \in Threads(job) : pc[u] = "done"
  BY DEF CopyBack
<1>3. ControlType' /\ Schedule'
  BY <1>1, <1>2 DEF Control, ControlType, Schedule
<1>4. ASSUME NEW u \in Threads(job)
      PROVE  (Position(u) /\ Barriers(u))'
  BY <1>1 DEF Control, Position, Barriers, Here
<1>5. QED
  BY <1>1, <1>2, <1>3, <1>4 DEF Control

-----------------------------------------------------------------------------
(* What the sums hold.                                                     *)

LEMMA AddedTapsFacts ==
  ASSUME VersionCalls, Control, NEW u \in Threads(job), NEW i \in AddedTaps(u)
  PROVE  i \in Taps /\ Active(job, u) /\ pc[u] \in {"scatter", "sync2", "flush", "done"}
  BY AtLabel DEF AddedTaps, Labels

(* A thread that has begun to add has seen its whole block zero its cells. *)
LEMMA ZeroedBefore ==
  ASSUME VersionCalls, Control, NEW b, NEW th \in Here(b), Long(job),
         pc[th] \in {"notLaunched", "zero"}
  PROVE  \A u \in Here(b) : AddedTaps(u) = {}
<1>1. th \in Threads(job) /\ arrived[th] = 0
  BY AtLabel DEF Here, Position
<1>2. ASSUME NEW u \in Here(b), NEW i \in AddedTaps(u)
      PROVE  FALSE
  <2>1. u \in Threads(job) /\ th \in Here(u[1])
    BY DEF Here
  <2>2. arrived[th] >= 1
    BY <1>2, <2>1, AddedTapsFacts, AtLabel DEF Barriers
  <2>3. QED
    BY <1>1, <2>2
<1>3. QED
  BY <1>2

(* The thread that zeroes and flushes a cell. *)
LEMMA Owner ==
  ASSUME VersionCalls, job \in Jobs, NEW b \in Blocks(job), NEW c \in Cells(job)
  PROVE  \E th \in Here(b) : /\ c \in MyCells[job][th[2]]
                             /\ \A u \in Here(b) : c \in MyCells[job][u[2]] => u = th
<1>1. c \in Window(job)
  BY JobFacts
<1>2. PICK t \in tids(job) :
        c \in MyCells[job][t] /\ \A s \in tids(job) : c \in MyCells[job][s] => s = t
  BY <1>1, CellOwner
<1>3. <<b, t>> \in Here(b)
  BY DEF Here, Threads
<1>4. ASSUME NEW u \in Here(b), c \in MyCells[job][u[2]]
      PROVE  u = <<b, t>>
  <2>1. u \in Threads(job) /\ u[1] = b
    BY DEF Here
  <2>2. u[2] \in tids(job) /\ u = <<u[1], u[2]>>
    BY <2>1 DEF Threads
  <2>3. u[2] = t
    BY <1>2, <1>4, <2>2
  <2>4. QED
    BY <2>1, <2>2, <2>3
<1>5. QED
  BY <1>2, <1>3, <1>4

LEMMA MyCellsAre ==
  ASSUME VersionCalls, job \in Jobs, NEW th \in Threads(job)
  PROVE  /\ MyCells[job][th[2]] \subseteq Cells(job)
         /\ \A u \in Here(th[1]) : u # th =>
              MyCells[job][th[2]] \cap MyCells[job][u[2]] = {}
<1>1. th[2] \in tids(job) /\ th[1] \in Blocks(job) /\ th \in Here(th[1])
  BY DEF Threads, Here
<1>2. MyCells[job][th[2]] \subseteq Cells(job)
  BY <1>1, MyCellsType, JobFacts
<1>3. ASSUME NEW u \in Here(th[1]), u # th, NEW c \in MyCells[job][th[2]] \cap MyCells[job][u[2]]
      PROVE  FALSE
  BY <1>1, <1>2, <1>3, Owner
<1>4. QED
  BY <1>2, <1>3

(* Which sums a contribution is in follows from its one author.            *)
LEMMA OfOneAuthor ==
  ASSUME VersionCalls, job \in Jobs, NEW th \in Threads(job), NEW i \in Taps
  PROVE  /\ \A b, c : ArrivedIn(b, c, Contribution(job, th, i)) <=>
              th[1] = b /\ i \in AddedTaps(th) /\ TapCell[job][th][i] = c
         /\ \A p : ArrivedAt(p, Contribution(job, th, i)) <=>
              /\ i \in AddedTaps(th) /\ PixelOfTap[job][th][i] = p
              /\ TapCell[job][th][i] \in Cells(job) => Flushed(th[1], TapCell[job][th][i])
<1>1. ASSUME NEW u \in Threads(job), NEW k \in Taps,
             Contribution(job, th, i) = Contribution(job, u, k)
      PROVE  u = th /\ k = i
  BY <1>1, ContributionUnique
<1>2. th \in Here(th[1]) /\ \A b : Here(b) \subseteq Threads(job) /\ \A u \in Here(b) : u[1] = b
  BY DEF Here
<1>3. QED
  BY <1>1, <1>2 DEF ArrivedIn, ArrivedAt

(* A step that adds nothing and flushes nothing leaves the sums as they    *)
(* should be.                                                              *)
LEMMA SumsStay ==
  ASSUME job' = job,
         \A u \in Threads(job) : AddedTaps(u)' = AddedTaps(u),
         \A u \in Threads(job) : pc'[u] = "done" <=> pc[u] = "done"
  PROVE  /\ \A b, c : Flushed(b, c)' = Flushed(b, c)
         /\ \A b, c, x : ArrivedIn(b, c, x)' = ArrivedIn(b, c, x)
         /\ \A p, x : ArrivedAt(p, x)' = ArrivedAt(p, x)
<1>1. \A b, c : Flushed(b, c)' = Flushed(b, c)
  BY DEF Flushed
<1>2. \A b, c, x : ArrivedIn(b, c, x)' = ArrivedIn(b, c, x)
  BY DEF ArrivedIn, Here
<1>3. \A p, x : ArrivedAt(p, x)' = ArrivedAt(p, x)
  BY <1>1 DEF ArrivedAt
<1>4. QED
  BY <1>1, <1>2, <1>3

(* The types of the sums. *)
LEMMA PlusType ==
  ASSUME NEW S \in SUBSET Sources, NEW T \in SUBSET Sources
  PROVE  Plus(S, T) \in SUBSET Sources
  BY DEF Plus, Sources

LEMMA RowType ==
  ASSUME VersionCalls, job \in Jobs, NEW th \in Threads(job), Active(job, th), NEW r \in 0 .. 3
  PROVE  /\ \A c : ToCell(job, th, r, c) \in SUBSET Sources
         /\ \A p : ToPixel(job, th, r, p) \in SUBSET Sources
<1>1. \A i \in Taps : Contribution(job, th, i) \in Sources
  BY ContributionType DEF Sources
<1>2. QED
  BY <1>1 DEF ToCell, ToPixel

LEMMA ZeroKeeps ==
  ASSUME VersionCalls, Inv, NEW th \in Threads(job), Zero(th)
  PROVE  (DataType /\ Data)'
<1>1. Control /\ DataType /\ CellsRight /\ PixelsRight /\ ResultRight
  BY DEF Inv, Data
<1>2. /\ job \in Jobs /\ job' = job /\ hostPc' = hostPc /\ grad_input' = grad_input
      /\ result' = result /\ m' = m /\ pc[th] = "zero" /\ Long(job)
  BY <1>1, AtLabel DEF Zero, Control, Position
<1>3. pc' = [pc EXCEPT ![th] = "sync1"] /\ pc \in [Threads(job) -> Labels]
  BY <1>1 DEF Zero, Goto, Control, ControlType
<1>4. \A u \in Threads(job) : AddedTaps(u)' = AddedTaps(u)
  BY <1>2, <1>3 DEF AddedTaps
<1>5. \A u \in Threads(job) : pc'[u] = "done" <=> pc[u] = "done"
  BY <1>2, <1>3
<1>6. /\ \A b, c, x : ArrivedIn(b, c, x)' = ArrivedIn(b, c, x)
      /\ \A p, x : ArrivedAt(p, x)' = ArrivedAt(p, x)
  BY <1>2, <1>4, <1>5, SumsStay
<1>7. th[1] \in Blocks(job) /\ th \in Here(th[1])
  BY DEF Threads, Here
<1>8. /\ smem' \in [Blocks(job) -> [Cells(job) -> SUBSET Sources]]
      /\ \A b \in Blocks(job) : \A c \in Cells(job) :
           smem'[b][c] = IF b = th[1] /\ c \in MyCells[job][th[2]] THEN {} ELSE smem[b][c]
  <2>1. smem' = [smem EXCEPT ![th[1]] =
          [c \in Cells(job) |-> IF c \in MyCells[job][th[2]] THEN {} ELSE @[c]]]
    BY DEF Zero
  <2>2. smem \in [Blocks(job) -> [Cells(job) -> SUBSET Sources]]
    BY <1>1 DEF DataType
  <2>3. QED
    BY <1>7, <2>1, <2>2
<1>9. DataType'
  BY <1>1, <1>2, <1>8 DEF DataType, Sources
<1>10. CellsRight'
  <2>1. SUFFICES ASSUME NEW u \in Threads(job), NEW c \in MyCells[job][u[2]]
                 PROVE  IF pc'[u] \in {"notLaunched", "zero"} THEN smem'[u[1]][c] = {Stale}
                        ELSE \A x : x \in smem'[u[1]][c] <=> ArrivedIn(u[1], c, x)
    BY <1>2, <1>6 DEF CellsRight
  <2>2. u[1] \in Blocks(job) /\ c \in Cells(job) /\ u \in Here(u[1])
    BY <1>2, MyCellsAre DEF Threads, Here
  <2>3. CASE u = th
    <3>1. smem'[u[1]][c] = {} /\ pc'[u] = "sync1"
      BY <1>3, <1>8, <2>2, <2>3
    <3>2. \A w \in Here(u[1]) : AddedTaps(w) = {}
      BY <1>1, <1>2, <1>7, <2>3, ZeroedBefore
    <3>3. \A x : ~ArrivedIn(u[1], c, x)
      BY <3>2 DEF ArrivedIn
    <3>4. QED
      BY <3>1, <3>3
  <2>4. CASE u # th
    <3>1. u[1] = th[1] => c \notin MyCells[job][th[2]]
      <4>1. u[1] = th[1] => u \in Here(th[1])
        BY <2>2
      <4>2. QED
        BY <1>2, <2>4, <4>1, MyCellsAre
    <3>2. smem'[u[1]][c] = smem[u[1]][c] /\ pc'[u] = pc[u]
      BY <1>3, <1>8, <2>2, <2>4, <3>1
    <3>3. QED
      BY <1>1, <3>2 DEF CellsRight
  <2>5. QED
    BY <2>3, <2>4
<1>11. PixelsRight'
  BY <1>1, <1>2, <1>6 DEF PixelsRight
<1>12. ResultRight'
  BY <1>1, <1>2 DEF ResultRight, Uninitialised
<1>13. QED
  BY <1>9, <1>10, <1>11, <1>12 DEF Data

(* A step that only passes a barrier. *)
LEMMA PassingKeeps ==
  ASSUME VersionCalls, Inv, job' = job, hostPc' = hostPc, smem' = smem,
         grad_input' = grad_input, result' = result,
         \A u \in Threads(job) : AddedTaps(u)' = AddedTaps(u),
         \A u \in Threads(job) : pc'[u] = "done" <=> pc[u] = "done",
         \A u \in Threads(job) :
           pc'[u] \in {"notLaunched", "zero"} <=> pc[u] \in {"notLaunched", "zero"}
  PROVE  (DataType /\ Data)'
<1>1. Control /\ DataType /\ CellsRight /\ PixelsRight /\ ResultRight
  BY DEF Inv, Data
<1>2. /\ \A b, c, x : ArrivedIn(b, c, x)' = ArrivedIn(b, c, x)
      /\ \A p, x : ArrivedAt(p, x)' = ArrivedAt(p, x)
  BY SumsStay
<1>3. DataType'
  BY <1>1 DEF DataType, Sources
<1>4. CellsRight'
  BY <1>1, <1>2 DEF CellsRight
<1>5. PixelsRight'
  BY <1>1, <1>2 DEF PixelsRight
<1>6. ResultRight'
  BY <1>1 DEF ResultRight, Uninitialised
<1>7. QED
  BY <1>3, <1>4, <1>5, <1>6 DEF Data

LEMMA LeaveSync1Keeps ==
  ASSUME VersionCalls, Inv, NEW th \in Threads(job), LeaveSync1(th)
  PROVE  (DataType /\ Data)'
<1> DEFINE label == IF Active(job, th) THEN "scatter" ELSE "sync2"
<1>1. Control
  BY DEF Inv
<1>2. pc[th] = "sync1" /\ m[th] = 0 /\ Moves(th, label)
  BY <1>1, LeaveSync1Moves
<1>3. /\ job' = job /\ hostPc' = hostPc /\ m' = m /\ pc' = [pc EXCEPT ![th] = label]
      /\ smem' = smem /\ grad_input' = grad_input /\ result' = result
      /\ pc \in [Threads(job) -> Labels]
  BY <1>1, <1>2 DEF Moves, Goto, LeaveSync1, Control, ControlType
<1>4. AddedTaps(th)' = AddedTaps(th)
  <2>1. \A i \in Taps : ~(i[1] < 0)
    BY DEF Taps
  <2>2. AddedTaps(th) = {} /\ pc'[th] = label /\ m'[th] = 0
    BY <1>2, <1>3 DEF AddedTaps
  <2>3. AddedTaps(th)' = {}
    BY <1>3, <2>1, <2>2 DEF AddedTaps
  <2>4. QED
    BY <2>2, <2>3
<1>5. ASSUME NEW u \in Threads(job), u # th
      PROVE  pc'[u] = pc[u] /\ AddedTaps(u)' = AddedTaps(u)
  <2>1. pc'[u] = pc[u]
    BY <1>3, <1>5
  <2>2. QED
    BY <1>3, <2>1 DEF AddedTaps
<1>6. pc'[th] = label
  BY <1>3
<1>7. QED
  BY <1>2, <1>3, <1>4, <1>5, <1>6, PassingKeeps

LEMMA EnterScatterKeeps ==
  ASSUME VersionCalls, Inv, job.kernel.shuffles, NEW th \in Threads(job), EnterScatter(th)
  PROVE  (DataType /\ Data)'
<1>1. Control
  BY DEF Inv
<1>2. pc[th] = "sync1" /\ m[th] = 0 /\ Moves(th, "scatter")
  BY <1>1, EnterScatterMoves
<1>3. /\ job' = job /\ hostPc' = hostPc /\ m' = m /\ pc' = [pc EXCEPT ![th] = "scatter"]
      /\ smem' = smem /\ grad_input' = grad_input /\ result' = result
      /\ pc \in [Threads(job) -> Labels]
  BY <1>1, <1>2 DEF Moves, Goto, EnterScatter, Control, ControlType
<1>4. AddedTaps(th)' = AddedTaps(th)
  <2>1. \A i \in Taps : ~(i[1] < 0)
    BY DEF Taps
  <2>2. AddedTaps(th) = {} /\ pc'[th] = "scatter" /\ m'[th] = 0
    BY <1>2, <1>3 DEF AddedTaps
  <2>3. AddedTaps(th)' = {}
    BY <1>3, <2>1, <2>2 DEF AddedTaps
  <2>4. QED
    BY <2>2, <2>3
<1>5. ASSUME NEW u \in Threads(job), u # th
      PROVE  pc'[u] = pc[u] /\ AddedTaps(u)' = AddedTaps(u)
  <2>1. pc'[u] = pc[u]
    BY <1>3, <1>5
  <2>2. QED
    BY <1>3, <2>1 DEF AddedTaps
<1>6. pc'[th] = "scatter"
  BY <1>3
<1>7. QED
  BY <1>2, <1>3, <1>4, <1>5, <1>6, PassingKeeps

LEMMA LeaveSync2Keeps ==
  ASSUME VersionCalls, Inv, NEW th \in Threads(job), LeaveSync2(th)
  PROVE  (DataType /\ Data)'
<1>1. Control
  BY DEF Inv
<1>2. pc[th] = "sync2" /\ Moves(th, "flush")
  BY <1>1, LeaveSync2Moves
<1>3. /\ job' = job /\ hostPc' = hostPc /\ m' = m /\ pc' = [pc EXCEPT ![th] = "flush"]
      /\ smem' = smem /\ grad_input' = grad_input /\ result' = result
      /\ pc \in [Threads(job) -> Labels]
  BY <1>1, <1>2 DEF Moves, Goto, LeaveSync2, Control, ControlType
<1>4. ASSUME NEW u \in Threads(job)
      PROVE  /\ IF u = th THEN pc'[u] = "flush" ELSE pc'[u] = pc[u]
             /\ AddedTaps(u)' = AddedTaps(u)
  <2>1. IF u = th THEN pc'[u] = "flush" ELSE pc'[u] = pc[u]
    BY <1>3
  <2>2. QED
    BY <1>2, <1>3, <2>1 DEF AddedTaps
<1>5. QED
  BY <1>2, <1>3, <1>4, PassingKeeps

(* Before the kernel is launched nothing has been added. *)
LEMMA NothingBeforeLaunch ==
  ASSUME \A u \in Threads(job) : pc[u] = "notLaunched"
  PROVE  /\ \A u \in Threads(job) : AddedTaps(u) = {}
         /\ \A p, x : ~ArrivedAt(p, x)
<1>1. \A u \in Threads(job) : AddedTaps(u) = {}
  BY DEF AddedTaps
<1>2. QED
  BY <1>1 DEF ArrivedAt

LEMMA MemsetKeeps ==
  ASSUME VersionCalls, Inv, Memset
  PROVE  (DataType /\ Data)'
<1>1. Control /\ DataType /\ CellsRight /\ PixelsRight /\ ResultRight
  BY DEF Inv, Data
<1>2. /\ hostPc = "memset" /\ hostPc' = "launch" /\ job' = job
      /\ pc' = pc /\ m' = m /\ \A u \in Threads(job) : pc[u] = "notLaunched"
  BY <1>1, MemsetMoves
<1>3. /\ grad_input' = [p \in Pixels(job) |-> {}]
      /\ smem' = smem /\ result' = result
  BY DEF Memset
<1>4. \A u \in Threads(job) : AddedTaps(u)' = AddedTaps(u)
  BY <1>2 DEF AddedTaps
<1>5. /\ \A b, c, x : ArrivedIn(b, c, x)' = ArrivedIn(b, c, x)
      /\ \A p, x : ArrivedAt(p, x)' = ArrivedAt(p, x)
  BY <1>2, <1>4, SumsStay
<1>6. DataType'
  BY <1>1, <1>2, <1>3 DEF DataType, Sources
<1>7. CellsRight'
  BY <1>1, <1>2, <1>3, <1>5 DEF CellsRight
<1>8. PixelsRight'
  BY <1>2, <1>3, <1>5, NothingBeforeLaunch DEF PixelsRight
<1>9. ResultRight'
  BY <1>1, <1>2, <1>3 DEF ResultRight, Uninitialised
<1>10. QED
  BY <1>6, <1>7, <1>8, <1>9 DEF Data

LEMMA LaunchKeeps ==
  ASSUME VersionCalls, Inv, Launch
  PROVE  (DataType /\ Data)'
<1>1. Control /\ DataType /\ CellsRight /\ PixelsRight /\ ResultRight /\ job \in Jobs
  BY DEF Inv, Data, Control
<1>2. /\ hostPc = "launch" /\ hostPc' = "copyBack" /\ job' = job /\ m' = m
      /\ \A u \in Threads(job) :
           /\ pc[u] = "notLaunched" /\ m[u] = 0
           /\ \/ Long(job) /\ pc'[u] = "zero"
              \/ /\ ~Long(job) /\ Window(job) = {}
                 /\ pc'[u] = (IF Active(job, u) THEN "scatter" ELSE "done")
  BY <1>1, LaunchMoves
<1>3. grad_input' = grad_input /\ smem' = smem /\ result' = result
  BY DEF Launch
<1>4. \A u \in Threads(job) : AddedTaps(u) = {}
  BY <1>2, NothingBeforeLaunch
<1>5. ASSUME NEW u \in Threads(job)
      PROVE  AddedTaps(u)' = {}
  <2>1. \A i \in Taps : ~(i[1] < 0)
    BY DEF Taps
  <2>2. m'[u] = 0
    BY <1>2
  <2>3. pc'[u] = "zero" \/ pc'[u] = (IF Active(job, u) THEN "scatter" ELSE "done")
    BY <1>2
  <2>4. QED
    BY <1>2, <2>1, <2>2, <2>3 DEF AddedTaps
<1>6. DataType'
  BY <1>1, <1>2, <1>3 DEF DataType, Sources
<1>7. CellsRight'
  <2>1. ASSUME NEW u \in Threads(job), NEW c \in MyCells[job][u[2]]
        PROVE  smem'[u[1]][c] = {Stale} /\ pc'[u] = "zero"
    <3>1. c \in Window(job)
      BY <1>1, MyCellsType DEF Threads
    <3>2. QED
      BY <1>1, <1>2, <1>3, <3>1 DEF CellsRight
  <2>2. QED
    BY <1>2, <2>1 DEF CellsRight
<1>8. PixelsRight'
  <2>1. \A p, x : ~ArrivedAt(p, x)
    BY <1>2, NothingBeforeLaunch
  <2>2. \A p, x : ~ArrivedAt(p, x)'
    BY <1>2, <1>5 DEF ArrivedAt
  <2>3. QED
    BY <1>1, <1>2, <1>3, <2>1, <2>2 DEF PixelsRight
<1>9. ResultRight'
  BY <1>1, <1>2, <1>3 DEF ResultRight, Uninitialised
<1>10. QED
  BY <1>6, <1>7, <1>8, <1>9 DEF Data

(* The gradient of the CPU, and what of it can have arrived. *)
LEMMA CpuPixel ==
  ASSUME job \in Jobs
  PROVE  /\ CpuGradient[job] = [p \in Pixels(job) |-> CpuGradient[job][p]]
         /\ \A p \in Pixels(job) : \A x : x \in CpuGradient[job][p] <=>
              \E u \in Threads(job) : \E i \in Taps :
                /\ Active(job, u) /\ PixelOfTap[job][u][i] = p /\ x = Contribution(job, u, i)
<1> DEFINE Of(p) ==
      {Contribution(job, x[1], x[2]) : x \in
         {y \in {th \in Threads(job) : Active(job, th)} \X Taps : PixelOfTap[job][y[1]][y[2]] = p}}
<1>1. CpuGradient[job] = [p \in Pixels(job) |-> Of(p)]
  BY DEF CpuGradient
<1>2. ASSUME NEW p \in Pixels(job), NEW x
      PROVE  x \in Of(p) <=>
               \E u \in Threads(job) : \E i \in Taps :
                 /\ Active(job, u) /\ PixelOfTap[job][u][i] = p /\ x = Contribution(job, u, i)
  <2>1. ASSUME x \in Of(p)
        PROVE  \E u \in Threads(job) : \E i \in Taps :
                 /\ Active(job, u) /\ PixelOfTap[job][u][i] = p /\ x = Contribution(job, u, i)
    <3>1. PICK y \in {th \in Threads(job) : Active(job, th)} \X Taps :
            PixelOfTap[job][y[1]][y[2]] = p /\ x = Contribution(job, y[1], y[2])
      BY <2>1
    <3>2. y[1] \in Threads(job) /\ Active(job, y[1]) /\ y[2] \in Taps
      BY <3>1
    <3>3. QED
      BY <3>1, <3>2
  <2>2. ASSUME NEW u \in Threads(job), NEW i \in Taps,
               Active(job, u), PixelOfTap[job][u][i] = p, x = Contribution(job, u, i)
        PROVE  x \in Of(p)
    <3> DEFINE y == <<u, i>>
    <3>1. y \in {th \in Threads(job) : Active(job, th)} \X Taps /\ y[1] = u /\ y[2] = i
      BY <2>2
    <3> HIDE DEF y
    <3>2. QED
      BY <2>2, <3>1
  <2>3. QED
    BY <2>1, <2>2
<1> HIDE DEF Of
<1>3. QED
  BY <1>1, <1>2

LEMMA ArrivedIsExpected ==
  ASSUME VersionCalls, Control, NEW p \in Pixels(job), NEW x, ArrivedAt(p, x)
  PROVE  x \in CpuGradient[job][p]
<1>1. PICK u \in Threads(job), i \in Taps :
        i \in AddedTaps(u) /\ PixelOfTap[job][u][i] = p /\ x = Contribution(job, u, i)
  BY DEF ArrivedAt
<1>2. Active(job, u)
  BY <1>1, AddedTapsFacts
<1>3. job \in Jobs
  BY DEF Control
<1>4. QED
  BY <1>1, <1>2, <1>3, CpuPixel

LEMMA AllArrived ==
  ASSUME VersionCalls, Control, \A u \in Threads(job) : pc[u] = "done"
  PROVE  \A p \in Pixels(job) : \A x : ArrivedAt(p, x) <=> x \in CpuGradient[job][p]
<1>1. job \in Jobs
  BY DEF Control
<1>2. SUFFICES ASSUME NEW p \in Pixels(job), NEW x \in CpuGradient[job][p]
               PROVE  ArrivedAt(p, x)
  BY ArrivedIsExpected
<1>3. PICK u \in Threads(job), i \in Taps :
        Active(job, u) /\ PixelOfTap[job][u][i] = p /\ x = Contribution(job, u, i)
  BY <1>1, CpuPixel
<1>4. i \in AddedTaps(u)
  BY <1>3 DEF AddedTaps
<1>5. ASSUME TapCell[job][u][i] \in Cells(job)
      PROVE  Flushed(u[1], TapCell[job][u][i])
  <2>1. u[1] \in Blocks(job)
    BY DEF Threads
  <2>2. PICK th \in Here(u[1]) : TapCell[job][u][i] \in MyCells[job][th[2]]
    BY <1>1, <1>5, <2>1, Owner
  <2>3. QED
    BY <2>2 DEF Flushed, Here
<1>6. QED
  BY <1>3, <1>4, <1>5 DEF ArrivedAt

LEMMA CopyBackKeeps ==
  ASSUME VersionCalls, Inv, CopyBack
  PROVE  (DataType /\ Data)' /\ grad_input = CpuGradient[job]
<1>1. Control /\ DataType /\ CellsRight /\ PixelsRight /\ ResultRight /\ job \in Jobs
  BY DEF Inv, Data, Control
<1>2. /\ hostPc = "copyBack" /\ hostPc' = "done" /\ job' = job
      /\ pc' = pc /\ m' = m /\ \A u \in Threads(job) : pc[u] = "done"
  BY <1>1, CopyBackMoves
<1>3. result' = grad_input /\ grad_input' = grad_input /\ smem' = smem
  BY DEF CopyBack, device
<1>4. \A u \in Threads(job) : AddedTaps(u)' = AddedTaps(u)
  BY <1>2 DEF AddedTaps
<1>5. /\ \A b, c, x : ArrivedIn(b, c, x)' = ArrivedIn(b, c, x)
      /\ \A p, x : ArrivedAt(p, x)' = ArrivedAt(p, x)
  BY <1>2, <1>4, SumsStay
<1>6. DataType'
  BY <1>1, <1>2, <1>3 DEF DataType, Sources
<1>7. CellsRight'
  BY <1>1, <1>2, <1>3, <1>5 DEF CellsRight
<1>8. PixelsRight'
  BY <1>1, <1>2, <1>3, <1>5 DEF PixelsRight
<1>9. grad_input = CpuGradient[job]
  <2>1. \A p \in Pixels(job) : grad_input[p] = CpuGradient[job][p]
    BY <1>1, <1>2, AllArrived DEF PixelsRight
  <2>2. grad_input = [p \in Pixels(job) |-> grad_input[p]]
    BY <1>1 DEF DataType
  <2>3. QED
    BY <1>1, <2>1, <2>2, CpuPixel
<1>10. ResultRight'
  BY <1>2, <1>3, <1>9 DEF ResultRight
<1>11. QED
  BY <1>6, <1>7, <1>8, <1>9, <1>10 DEF Data

(* An iteration adds the row of those of its threads that have a pixel,    *)
(* and flushes nothing.                                                    *)
LEMMA RowArrives ==
  ASSUME VersionCalls, Control, NEW S, NEW b, NEW r, RowDone(S, b, r)
  PROVE  /\ \A th \in S : \A i \in Taps : i[1] = r => i \notin AddedTaps(th)
         /\ \A u \in Threads(job) : pc'[u] = pc[u] \/ u \in S
         /\ \A d, c, x : ArrivedIn(d, c, x)' <=>
              ArrivedIn(d, c, x) \/ (d = b /\ x \in CellRow(S, r, c))
         /\ \A p, x : ArrivedAt(p, x)' <=> ArrivedAt(p, x) \/ x \in PixelRow(S, r, p)
<1>1. /\ job' = job /\ job \in Jobs /\ r \in 0 .. 3 /\ S \subseteq Here(b)
      /\ \A th \in S : pc[th] = "scatter" /\ m[th] = r
      /\ \A u \in Threads(job) \ S : pc'[u] = pc[u] /\ m'[u] = m[u]
      /\ \A th \in S : \/ r < 3 /\ pc'[th] = "scatter" /\ m'[th] = r + 1
                       \/ r = 3 /\ pc'[th] = (IF Long(job) THEN "sync2" ELSE "done")
      /\ Long(job) => \A u \in Here(b) : arrived[u] >= 1 /\ pc[u] \notin {"flush", "done"}
  BY DEF RowDone, Control
<1>2. /\ \A i \in Taps : i[1] \in 0 .. 3
      /\ \A d : Here(d) \subseteq Threads(job) /\ \A u \in Here(d) : u[1] = d
      /\ \A d : Here(d)' = Here(d)
  BY <1>1 DEF Taps, Here
<1>3. \A th \in S : \A i \in Taps : i[1] = r => i \notin AddedTaps(th)
  BY <1>1, <1>2 DEF AddedTaps
<1>4. ASSUME NEW u \in Threads(job), NEW i \in Taps
      PROVE  i \in AddedTaps(u)' <=>
               i \in AddedTaps(u) \/ (u \in S /\ Active(job, u) /\ i[1] = r)
  <2>1. CASE u \notin S
    BY <1>1, <2>1 DEF AddedTaps
  <2>2. CASE u \in S /\ ~Active(job, u)
    BY <1>1, <2>2 DEF AddedTaps
  <2>3. CASE u \in S /\ Active(job, u)
    <3>1. AddedTaps(u) = {k \in Taps : k[1] < r}
      BY <1>1, <2>3 DEF AddedTaps
    <3>2. CASE r < 3
      <4>1. AddedTaps(u)' = {k \in Taps : k[1] < r + 1}
        BY <1>1, <2>3, <3>2 DEF AddedTaps
      <4>2. QED
        BY <1>1, <1>2, <2>3, <3>1, <4>1
    <3>3. CASE r = 3
      <4>1. AddedTaps(u)' = Taps
        BY <1>1, <2>3, <3>3 DEF AddedTaps
      <4>2. QED
        BY <1>2, <2>3, <3>1, <3>3, <4>1
    <3>4. QED
      BY <1>1, <3>2, <3>3
  <2>4. QED
    BY <2>1, <2>2, <2>3
<1>5. \A d, c : Flushed(d, c)' = Flushed(d, c)
  <2>1. CASE Long(job)
    <3>1. \A u \in Threads(job) : pc'[u] = "done" <=> pc[u] = "done"
      BY <1>1, <1>2, <2>1
    <3>2. QED
      BY <1>1, <3>1 DEF Flushed
  <2>2. CASE ~Long(job)
    <3>1. \A u \in Threads(job) : MyCells[job][u[2]] = {}
      BY <1>1, <2>2, JobFacts, MyCellsAre
    <3>2. QED
      BY <1>1, <3>1 DEF Flushed
  <2>3. QED
    BY <2>1, <2>2
<1>6. ASSUME NEW u \in S, NEW c \in Cells(job)
      PROVE  ~Flushed(u[1], c)
  <2>1. CASE Long(job)
    BY <1>1, <1>2, <2>1 DEF Flushed, Here
  <2>2. CASE ~Long(job)
    BY <1>1, <2>2, JobFacts
  <2>3. QED
    BY <2>1, <2>2
<1>7. ASSUME NEW d, NEW c, NEW x
      PROVE  ArrivedIn(d, c, x)' <=> ArrivedIn(d, c, x) \/ (d = b /\ x \in CellRow(S, r, c))
  <2>1. ArrivedIn(d, c, x)' <=>
          \E u \in Here(d) : \E i \in Taps :
            i \in AddedTaps(u)' /\ TapCell[job][u][i] = c /\ x = Contribution(job, u, i)
    BY <1>1, <1>2 DEF ArrivedIn
  <2>2. x \in CellRow(S, r, c) <=>
          \E u \in S : \E i \in Taps :
            /\ Active(job, u) /\ i[1] = r /\ TapCell[job][u][i] = c /\ x = Contribution(job, u, i)
    BY DEF CellRow, ToCell
  <2>3. ArrivedIn(d, c, x) => ArrivedIn(d, c, x)'
    <3>1. \A u \in Here(d) : \A i \in Taps : i \in AddedTaps(u) => i \in AddedTaps(u)'
      BY <1>2, <1>4
    <3>2. QED
      BY <2>1, <3>1 DEF ArrivedIn
  <2>4. d = b /\ x \in CellRow(S, r, c) => ArrivedIn(d, c, x)'
    <3>1. \A u \in S : \A i \in Taps :
            Active(job, u) /\ i[1] = r => i \in AddedTaps(u)' /\ u \in Here(b)
      BY <1>1, <1>2, <1>4
    <3>2. QED
      BY <2>1, <2>2, <3>1
  <2>5. ASSUME ArrivedIn(d, c, x)'
        PROVE  ArrivedIn(d, c, x) \/ (d = b /\ x \in CellRow(S, r, c))
    <3>1. PICK u \in Here(d), i \in Taps :
            i \in AddedTaps(u)' /\ TapCell[job][u][i] = c /\ x = Contribution(job, u, i)
      BY <2>1, <2>5
    <3>2. CASE i \in AddedTaps(u)
      BY <3>1, <3>2 DEF ArrivedIn
    <3>3. CASE i \notin AddedTaps(u)
      <4>1. u \in S /\ Active(job, u) /\ i[1] = r
        BY <1>2, <1>4, <3>1, <3>3
      <4>2. d = b
        BY <1>1, <1>2, <4>1
      <4>3. QED
        BY <2>2, <3>1, <4>1, <4>2
    <3>4. QED
      BY <3>2, <3>3
  <2>6. QED
    BY <2>3, <2>4, <2>5
<1>8. ASSUME NEW p, NEW x
      PROVE  ArrivedAt(p, x)' <=> ArrivedAt(p, x) \/ x \in PixelRow(S, r, p)
  <2> DEFINE Lands(u, i) ==
        TapCell[job][u][i] \in Cells(job) => Flushed(u[1], TapCell[job][u][i])
  <2>1. ArrivedAt(p, x)' <=>
          \E u \in Threads(job) : \E i \in Taps :
            /\ i \in AddedTaps(u)' /\ PixelOfTap[job][u][i] = p /\ x = Contribution(job, u, i)
            /\ Lands(u, i)
    BY <1>1, <1>5 DEF ArrivedAt
  <2>2. ArrivedAt(p, x) <=>
          \E u \in Threads(job) : \E i \in Taps :
            /\ i \in AddedTaps(u) /\ PixelOfTap[job][u][i] = p /\ x = Contribution(job, u, i)
            /\ Lands(u, i)
    BY DEF ArrivedAt
  <2>3. x \in PixelRow(S, r, p) <=>
          \E u \in S : \E i \in Taps :
            /\ Active(job, u) /\ i[1] = r /\ PixelOfTap[job][u][i] = p
            /\ x = Contribution(job, u, i) /\ Lands(u, i)
    <3>1. x \in PixelRow(S, r, p) <=>
            \E u \in S : \E i \in Taps :
              /\ Active(job, u) /\ i[1] = r /\ PixelOfTap[job][u][i] = p
              /\ x = Contribution(job, u, i) /\ TapCell[job][u][i] \notin Cells(job)
      BY DEF PixelRow, ToPixel
    <3>2. \A u \in S : \A i \in Taps : Lands(u, i) <=> TapCell[job][u][i] \notin Cells(job)
      BY <1>6
    <3> HIDE DEF Lands
    <3>3. QED
      BY <3>1, <3>2
  <2> HIDE DEF Lands
  <2>4. ArrivedAt(p, x) => ArrivedAt(p, x)'
    <3>1. \A u \in Threads(job) : \A i \in Taps : i \in AddedTaps(u) => i \in AddedTaps(u)'
      BY <1>4
    <3>2. QED
      BY <2>1, <2>2, <3>1
  <2>5. x \in PixelRow(S, r, p) => ArrivedAt(p, x)'
    <3>1. \A u \in S : \A i \in Taps :
            Active(job, u) /\ i[1] = r => i \in AddedTaps(u)' /\ u \in Threads(job)
      BY <1>1, <1>2, <1>4
    <3>2. QED
      BY <2>1, <2>3, <3>1
  <2>6. ASSUME ArrivedAt(p, x)'
        PROVE  ArrivedAt(p, x) \/ x \in PixelRow(S, r, p)
    <3>1. PICK u \in Threads(job), i \in Taps :
            /\ i \in AddedTaps(u)' /\ PixelOfTap[job][u][i] = p /\ x = Contribution(job, u, i)
            /\ Lands(u, i)
      BY <2>1, <2>6
    <3>2. CASE i \in AddedTaps(u)
      BY <2>2, <3>1, <3>2
    <3>3. CASE i \notin AddedTaps(u)
      <4>1. u \in S /\ Active(job, u) /\ i[1] = r
        BY <1>4, <3>1, <3>3
      <4>2. QED
        BY <2>3, <3>1, <4>1
    <3>4. QED
      BY <3>2, <3>3
  <2>7. QED
    BY <2>4, <2>5, <2>6
<1>9. \A u \in Threads(job) : pc'[u] = pc[u] \/ u \in S
  BY <1>1
<1>10. QED
  BY <1>3, <1>7, <1>8, <1>9

(* What the sums become when the threads S of block b add their row. *)
RowSums(S, b, r) ==
  /\ smem' \in [Blocks(job) -> [Cells(job) -> SUBSET Sources]]
  /\ grad_input' \in [Pixels(job) -> SUBSET Sources]
  /\ \A d \in Blocks(job) : \A c \in Cells(job) :
       smem'[d][c] = IF d = b THEN Plus(smem[d][c], CellRow(S, r, c)) ELSE smem[d][c]
  /\ \A p \in Pixels(job) : grad_input'[p] = Plus(grad_input[p], PixelRow(S, r, p))

LEMMA RowsType ==
  ASSUME VersionCalls, job \in Jobs, NEW S \in SUBSET Threads(job), NEW r \in 0 .. 3
  PROVE  /\ \A c : CellRow(S, r, c) \in SUBSET Sources
         /\ \A p : PixelRow(S, r, p) \in SUBSET Sources
<1>1. ASSUME NEW th \in S, Active(job, th)
      PROVE  /\ \A c : ToCell(job, th, r, c) \in SUBSET Sources
             /\ \A p : ToPixel(job, th, r, p) \in SUBSET Sources
  BY <1>1, RowType
<1>2. QED
  BY <1>1 DEF CellRow, PixelRow

LEMMA ScatterAdds ==
  ASSUME VersionCalls, Control, DataType, NEW th \in Threads(job), Active(job, th), ScatterRow(th)
  PROVE  RowSums({th}, th[1], m[th])
<1> DEFINE r == m[th]
           b == th[1]
           adds == Additions[job][th][r]
<1>1. job \in Jobs /\ r \in 0 .. 3 /\ b \in Blocks(job)
  BY AtLabel DEF Control, Threads
<1>2. /\ smem' = [smem EXCEPT ![b] = AddTo(@, adds.cells)]
      /\ grad_input' = AddTo(grad_input, adds.pixels)
  BY DEF ScatterRow
<1>3. /\ smem \in [Blocks(job) -> [Cells(job) -> SUBSET Sources]]
      /\ grad_input \in [Pixels(job) -> SUBSET Sources]
  BY DEF DataType
<1>4. DOMAIN smem[b] = Cells(job) /\ DOMAIN grad_input = Pixels(job)
  BY <1>1, <1>3
<1> HIDE DEF r
<1>5. /\ \A c : CellRow({th}, r, c) = ToCell(job, th, r, c)
      /\ \A p : PixelRow({th}, r, p) = ToPixel(job, th, r, p)
  <2>1. {u \in {th} : Active(job, u)} = {th}
    OBVIOUS
  <2>2. QED
    BY <2>1 DEF CellRow, PixelRow
<1>6. /\ \A c \in Cells(job) : AddTo(smem[b], adds.cells)[c] = Plus(smem[b][c], CellRow({th}, r, c))
      /\ \A p \in Pixels(job) :
           AddTo(grad_input, adds.pixels)[p] = Plus(grad_input[p], PixelRow({th}, r, p))
  <2>1. ASSUME NEW c \in Cells(job)
        PROVE  AddTo(smem[b], adds.cells)[c] = Plus(smem[b][c], ToCell(job, th, r, c))
    BY <1>1, <1>4, RowAdded
  <2>2. ASSUME NEW p \in Pixels(job)
        PROVE  AddTo(grad_input, adds.pixels)[p] = Plus(grad_input[p], ToPixel(job, th, r, p))
    BY <1>1, <1>4, RowAdded
  <2> HIDE DEF adds
  <2>3. QED
    BY <1>5, <2>1, <2>2
<1>7. /\ \A c : CellRow({th}, r, c) \in SUBSET Sources
      /\ \A p : PixelRow({th}, r, p) \in SUBSET Sources
  BY <1>1, RowsType
<1>8. /\ \A c \in Cells(job) : AddTo(smem[b], adds.cells)[c] \in SUBSET Sources
      /\ \A p \in Pixels(job) : AddTo(grad_input, adds.pixels)[p] \in SUBSET Sources
  <2> HIDE DEF adds
  <2>1. ASSUME NEW c \in Cells(job)
        PROVE  AddTo(smem[b], adds.cells)[c] \in SUBSET Sources
    <3>1. smem[b][c] \in SUBSET Sources
      BY <1>1, <1>3
    <3>2. QED
      BY <1>6, <1>7, <3>1, PlusType
  <2>2. ASSUME NEW p \in Pixels(job)
        PROVE  AddTo(grad_input, adds.pixels)[p] \in SUBSET Sources
    <3>1. grad_input[p] \in SUBSET Sources
      BY <1>3
    <3>2. Plus(grad_input[p], PixelRow({th}, r, p)) \in SUBSET Sources
      BY <1>7, <3>1, PlusType
    <3>3. QED
      BY <1>6, <3>2
  <2>3. QED
    BY <2>1, <2>2
<1>9. /\ AddTo(smem[b], adds.cells) = [c \in Cells(job) |-> AddTo(smem[b], adds.cells)[c]]
      /\ AddTo(grad_input, adds.pixels) = [p \in Pixels(job) |-> AddTo(grad_input, adds.pixels)[p]]
  BY <1>4 DEF AddTo
<1>10. /\ AddTo(smem[b], adds.cells) \in [Cells(job) -> SUBSET Sources]
       /\ AddTo(grad_input, adds.pixels) \in [Pixels(job) -> SUBSET Sources]
  BY <1>8, <1>9
<1> HIDE DEF adds
<1>11. smem' \in [Blocks(job) -> [Cells(job) -> SUBSET Sources]]
  BY <1>2, <1>3, <1>10
<1>12. \A d \in Blocks(job) :
         smem'[d] = IF d = b THEN AddTo(smem[b], adds.cells) ELSE smem[d]
  BY <1>2, <1>3
<1>13. QED
  BY <1>2, <1>6, <1>10, <1>11, <1>12 DEF RowSums, r

(* A warp adds to each cell and to each pixel what its lanes have for it,  *)
(* whichever of them carries it.                                           *)
LEMMA PairsAdd ==
  ASSUME VersionCalls, Control, DataType, job.kernel.shuffles, NEW w \in Warps(job),
         NEW r \in 0 .. 3, AddRow(w, r, PairValue(w, r))
  PROVE  RowSums(Lanes(w), w[1], r)
<1> DEFINE b == w[1]
           InCell(c) == {a \in WindowAdds(w, r) : CellOf(a[1], a[2]) = c}
           AtPixel(p) == {a \in Adds(w, r) \ WindowAdds(w, r) : PixelOf(a[1], a[2]) = p}
<1>1. job \in Jobs /\ b \in Blocks(job) /\ Lanes(w) \in SUBSET Threads(job)
  <2>1. job \in Jobs
    BY DEF Control
  <2>2. QED
    BY <2>1, Pair DEF Warps
<1>2. /\ smem' = [smem EXCEPT ![b] = [c \in Cells(job) |->
           AddAll(@[c], PairValue(w, r), InCell(c))]]
      /\ grad_input' = [p \in Pixels(job) |->
           AddAll(grad_input[p], PairValue(w, r), AtPixel(p))]
  BY DEF AddRow, WindowAdds, Adds
<1>3. /\ smem \in [Blocks(job) -> [Cells(job) -> SUBSET Sources]]
      /\ grad_input \in [Pixels(job) -> SUBSET Sources]
  BY DEF DataType
<1>4. ASSUME NEW c \in Cells(job)
      PROVE  /\ AddAll(smem[b][c], PairValue(w, r), InCell(c))
                  = Plus(smem[b][c], CellRow(Lanes(w), r, c))
             /\ Plus(smem[b][c], CellRow(Lanes(w), r, c)) \in SUBSET Sources
  <2>1. InCell(c) \in SUBSET Adds(w, r)
    BY DEF WindowAdds
  <2>2. UNION {PairValue(w, r)[a] : a \in InCell(c)} = CellRow(Lanes(w), r, c)
    BY <1>1, WarpCell
  <2>3. CellRow(Lanes(w), r, c) \in SUBSET Sources
    BY <1>1, RowsType
  <2>4. smem[b][c] \in SUBSET Sources
    BY <1>1, <1>3
  <2> HIDE DEF InCell
  <2>5. QED
    BY <1>1, <2>1, <2>2, <2>3, <2>4, AddedOnce, PlusType
<1>5. ASSUME NEW p \in Pixels(job)
      PROVE  /\ AddAll(grad_input[p], PairValue(w, r), AtPixel(p))
                  = Plus(grad_input[p], PixelRow(Lanes(w), r, p))
             /\ Plus(grad_input[p], PixelRow(Lanes(w), r, p)) \in SUBSET Sources
  <2>1. AtPixel(p) \in SUBSET Adds(w, r)
    OBVIOUS
  <2>2. UNION {PairValue(w, r)[a] : a \in AtPixel(p)} = PixelRow(Lanes(w), r, p)
    BY <1>1, WarpPixel
  <2>3. PixelRow(Lanes(w), r, p) \in SUBSET Sources
    BY <1>1, RowsType
  <2>4. grad_input[p] \in SUBSET Sources
    BY <1>3
  <2> HIDE DEF AtPixel
  <2>5. QED
    BY <1>1, <2>1, <2>2, <2>3, <2>4, AddedOnce, PlusType
<1> HIDE DEF InCell, AtPixel, b
<1>6. \A d \in Blocks(job) :
        smem'[d] = IF d = b THEN [c \in Cells(job) |-> Plus(smem[b][c], CellRow(Lanes(w), r, c))]
                   ELSE smem[d]
  <2>1. [c \in Cells(job) |-> AddAll(smem[b][c], PairValue(w, r), InCell(c))]
          = [c \in Cells(job) |-> Plus(smem[b][c], CellRow(Lanes(w), r, c))]
    BY <1>4
  <2>2. QED
    BY <1>1, <1>2, <1>3, <2>1
<1>7. [c \in Cells(job) |-> Plus(smem[b][c], CellRow(Lanes(w), r, c))]
        \in [Cells(job) -> SUBSET Sources]
  BY <1>4
<1>8. smem' \in [Blocks(job) -> [Cells(job) -> SUBSET Sources]]
  <2>1. smem' = [d \in Blocks(job) |-> smem'[d]]
    BY <1>2, <1>3
  <2>2. \A d \in Blocks(job) : smem'[d] \in [Cells(job) -> SUBSET Sources]
    BY <1>3, <1>6, <1>7
  <2>3. QED
    BY <2>1, <2>2
<1>9. /\ grad_input' \in [Pixels(job) -> SUBSET Sources]
      /\ \A p \in Pixels(job) : grad_input'[p] = Plus(grad_input[p], PixelRow(Lanes(w), r, p))
  BY <1>2, <1>5
<1>10. \A d \in Blocks(job) : \A c \in Cells(job) :
         smem'[d][c] = IF d = b THEN Plus(smem[d][c], CellRow(Lanes(w), r, c)) ELSE smem[d][c]
  BY <1>6
<1>11. QED
  BY <1>8, <1>9, <1>10 DEF RowSums, b

LEMMA RowKeeps ==
  ASSUME VersionCalls, Inv, NEW S, NEW b, NEW r, RowDone(S, b, r), RowSums(S, b, r),
         result' = result
  PROVE  (DataType /\ Data)'
<1>1. Control /\ DataType /\ CellsRight /\ PixelsRight /\ ResultRight /\ job \in Jobs
  BY DEF Inv, Data, Control
<1>2. /\ job' = job /\ hostPc' = hostPc /\ hostPc = "copyBack"
      /\ S \subseteq Threads(job) /\ b \in Blocks(job)
      /\ \A th \in S : pc[th] = "scatter" /\ pc'[th] \in {"scatter", "sync2", "done"}
      /\ Long(job) => \A u \in Here(b) : arrived[u] >= 1 /\ pc[u] \notin {"flush", "done"}
  BY DEF RowDone, Here
<1>3. /\ \A th \in S : \A i \in Taps : i[1] = r => i \notin AddedTaps(th)
      /\ \A u \in Threads(job) : pc'[u] = pc[u] \/ u \in S
      /\ \A d, c, x : ArrivedIn(d, c, x)' <=>
           ArrivedIn(d, c, x) \/ (d = b /\ x \in CellRow(S, r, c))
      /\ \A p, x : ArrivedAt(p, x)' <=> ArrivedAt(p, x) \/ x \in PixelRow(S, r, p)
  BY <1>1, RowArrives
<1>4. /\ smem' \in [Blocks(job) -> [Cells(job) -> SUBSET Sources]]
      /\ grad_input' \in [Pixels(job) -> SUBSET Sources]
      /\ \A d \in Blocks(job) : \A c \in Cells(job) :
           smem'[d][c] = IF d = b THEN Plus(smem[d][c], CellRow(S, r, c)) ELSE smem[d][c]
      /\ \A p \in Pixels(job) : grad_input'[p] = Plus(grad_input[p], PixelRow(S, r, p))
  BY DEF RowSums
<1>5. DataType'
  BY <1>1, <1>2, <1>4 DEF DataType, Sources
<1>6. CellsRight'
  <2>1. SUFFICES ASSUME NEW u \in Threads(job), NEW c \in MyCells[job][u[2]]
                 PROVE  IF pc'[u] \in {"notLaunched", "zero"} THEN smem'[u[1]][c] = {Stale}
                        ELSE \A x : x \in smem'[u[1]][c] <=> ArrivedIn(u[1], c, x)'
    BY <1>2 DEF CellsRight
  <2>2. u[1] \in Blocks(job) /\ c \in Cells(job) /\ u \in Here(u[1])
    BY <1>1, MyCellsAre DEF Threads, Here
  <2>3. /\ pc'[u] \in {"notLaunched", "zero"} <=> pc[u] \in {"notLaunched", "zero"}
    BY <1>2, <1>3
  <2>4. CASE u[1] # b
    <3>1. smem'[u[1]][c] = smem[u[1]][c]
      BY <1>4, <2>2, <2>4
    <3>2. QED
      BY <1>1, <1>3, <2>3, <2>4, <3>1 DEF CellsRight
  <2>5. CASE u[1] = b
    <3>1. Long(job)
      BY <1>1, <2>2, JobFacts
    <3>2. pc[u] \notin {"notLaunched", "zero"}
      <4>1. arrived[u] >= 1
        BY <1>2, <2>2, <2>5, <3>1
      <4>2. pc[u] \in {"notLaunched", "zero"} => arrived[u] = 0
        BY <1>1, AtLabel DEF Position
      <4>3. QED
        BY <4>1, <4>2
    <3>3. \A x : x \in smem[u[1]][c] <=> ArrivedIn(u[1], c, x)
      BY <1>1, <3>2 DEF CellsRight
    <3>4. ASSUME NEW x \in CellRow(S, r, c)
          PROVE  x \notin smem[u[1]][c]
      <4>1. PICK th \in S : x \in ToCell(job, th, r, c)
        BY <3>4 DEF CellRow
      <4>2. PICK i \in Taps : i[1] = r /\ x = Contribution(job, th, i)
        BY <4>1 DEF ToCell
      <4>3. ~ArrivedIn(u[1], c, x)
        BY <1>1, <1>2, <1>3, <4>2, OfOneAuthor
      <4>4. QED
        BY <3>3, <4>3
    <3>5. smem'[u[1]][c] = smem[u[1]][c] \cup CellRow(S, r, c)
      <4>1. smem[u[1]][c] \cap CellRow(S, r, c) = {}
        BY <3>4
      <4>2. QED
        BY <1>4, <2>2, <2>5, <4>1, PlusNew
    <3>6. QED
      BY <1>3, <2>3, <2>5, <3>2, <3>3, <3>5
  <2>6. QED
    BY <2>4, <2>5
<1>7. PixelsRight'
  <2>1. SUFFICES ASSUME NEW p \in Pixels(job)
                 PROVE  \A x : x \in grad_input'[p] <=> ArrivedAt(p, x)'
    BY <1>2 DEF PixelsRight
  <2>2. \A x : x \in grad_input[p] <=> ArrivedAt(p, x)
    BY <1>1, <1>2 DEF PixelsRight
  <2>3. ASSUME NEW x \in PixelRow(S, r, p)
        PROVE  x \notin grad_input[p]
    <3>1. PICK th \in S : x \in ToPixel(job, th, r, p)
      BY <2>3 DEF PixelRow
    <3>2. PICK i \in Taps : i[1] = r /\ x = Contribution(job, th, i)
      BY <3>1 DEF ToPixel
    <3>3. ~ArrivedAt(p, x)
      BY <1>1, <1>2, <1>3, <3>2, OfOneAuthor
    <3>4. QED
      BY <2>2, <3>3
  <2>4. grad_input'[p] = grad_input[p] \cup PixelRow(S, r, p)
    <3>1. grad_input[p] \cap PixelRow(S, r, p) = {}
      BY <2>3
    <3>2. QED
      BY <1>4, <3>1, PlusNew
  <2>5. QED
    BY <1>3, <2>2, <2>4
<1>8. ResultRight'
  BY <1>1, <1>2 DEF ResultRight, Uninitialised
<1>9. QED
  BY <1>5, <1>6, <1>7, <1>8 DEF Data

LEMMA ScatterKeeps ==
  ASSUME VersionCalls, Inv, ~job.kernel.shuffles, NEW th \in Threads(job), ScatterRow(th)
  PROVE  Inv'
<1>1. Control /\ DataType
  BY DEF Inv
<1>2. RowDone({th}, th[1], m[th]) /\ Active(job, th) /\ Control'
  BY <1>1, ScatterRowDone
<1>3. RowSums({th}, th[1], m[th])
  BY <1>1, <1>2, ScatterAdds
<1>4. result' = result
  BY DEF ScatterRow
<1>5. (DataType /\ Data)'
  BY <1>2, <1>3, <1>4, RowKeeps
<1>6. QED
  BY <1>2, <1>5 DEF Inv

LEMMA ScatterPairsDone ==
  ASSUME VersionCalls, Control, DataType, job.kernel.shuffles, NEW w \in Warps(job), ScatterPairs(w)
  PROVE  /\ result' = result /\ Control'
         /\ \E r : RowDone(Lanes(w), w[1], r) /\ RowSums(Lanes(w), w[1], r)
<1>1. PICK r \in 0 .. 3 :
        /\ AtRow(Lanes(w), r) /\ AddRow(w, r, PairValue(w, r))
        /\ NextRowTogether(Lanes(w), r) /\ UNCHANGED <<job, hostPc, result>>
  BY DEF ScatterPairs, PairValue, Adds
<1>2. RowDone(Lanes(w), w[1], r) /\ Control'
  BY <1>1, PairsRowDone
<1>3. RowSums(Lanes(w), w[1], r)
  BY <1>1, PairsAdd
<1>4. QED
  BY <1>1, <1>2, <1>3

LEMMA ScatterPairsKeeps ==
  ASSUME VersionCalls, Inv, job.kernel.shuffles, NEW w \in Warps(job), ScatterPairs(w)
  PROVE  Inv'
<1>1. /\ result' = result /\ Control'
      /\ \E r : RowDone(Lanes(w), w[1], r) /\ RowSums(Lanes(w), w[1], r)
  BY ScatterPairsDone DEF Inv
<1>2. (DataType /\ Data)'
  BY <1>1, RowKeeps
<1>3. QED
  BY <1>1, <1>2 DEF Inv

(* The sum of a thread's cells has no contribution twice.                  *)
LEMMA CellsDisjoint ==
  ASSUME VersionCalls, Control, CellsRight, NEW th \in Threads(job), pc[th] = "flush",
         NEW mine \in SUBSET MyCells[job][th[2]]
  PROVE  \A x : x \in SumOfCells(th[1], mine) <=> \E c \in mine : ArrivedIn(th[1], c, x)
<1> DEFINE b == th[1]
<1>1. job \in Jobs
  BY DEF Control
<1>2. \A c \in mine : \A x : x \in smem[b][c] <=> ArrivedIn(b, c, x)
  BY DEF CellsRight
<1>3. ASSUME NEW c \in mine, NEW d \in mine, NEW x \in smem[b][c] \cap smem[b][d]
      PROVE  c = d
  <2>1. ArrivedIn(b, c, x) /\ ArrivedIn(b, d, x)
    BY <1>2, <1>3
  <2>2. PICK u \in Here(b), i \in Taps : TapCell[job][u][i] = c /\ x = Contribution(job, u, i)
    BY <2>1 DEF ArrivedIn
  <2>3. u \in Threads(job)
    BY DEF Here
  <2>4. TapCell[job][u][i] = d
    BY <1>1, <2>1, <2>2, <2>3, OfOneAuthor
  <2>5. QED
    BY <2>2, <2>4
<1>4. SumOfCells(b, mine) = UNION {smem[b][c] : c \in mine}
  <2>1. ~ \E c, d \in mine : c # d /\ smem[b][c] \cap smem[b][d] # {}
    BY <1>3
  <2>2. QED
    BY <2>1 DEF SumOfCells
<1>5. ASSUME NEW x
      PROVE  x \in UNION {smem[b][c] : c \in mine} <=> \E c \in mine : x \in smem[b][c]
  OBVIOUS
<1>6. QED
  BY <1>2, <1>4, <1>5

(* What the flush of a thread brings to a pixel. *)
LEMMA FlushArrives ==
  ASSUME VersionCalls, Control, NEW th \in Threads(job), Flush(th)
  PROVE  /\ \A b, c, x : ArrivedIn(b, c, x)' = ArrivedIn(b, c, x)
         /\ \A p \in Pixels(job) : \A x : ArrivedAt(p, x)' <=>
              \/ ArrivedAt(p, x)
              \/ \E c \in MyCells[job][th[2]] :
                   PixelOfCell[job][th[1]][c] = p /\ ArrivedIn(th[1], c, x)
         /\ \A c \in MyCells[job][th[2]] : ~Flushed(th[1], c)
<1> DEFINE b == th[1]
           mine == MyCells[job][th[2]]
<1>1. /\ job' = job /\ job \in Jobs /\ pc[th] = "flush" /\ m' = m
      /\ pc' = [pc EXCEPT ![th] = "done"] /\ pc \in [Threads(job) -> Labels]
  BY FlushMoves DEF Moves, Goto, Control, ControlType
<1>2. \A u \in Threads(job) : pc'[u] = IF u = th THEN "done" ELSE pc[u]
  BY <1>1
<1>3. \A u \in Threads(job) : AddedTaps(u)' = AddedTaps(u)
  BY <1>1, <1>2 DEF AddedTaps
<1>4. \A d, c : Flushed(d, c)' <=> Flushed(d, c) \/ (d = b /\ c \in mine)
  BY <1>1, <1>2 DEF Flushed
<1>5. \A d, c, x : ArrivedIn(d, c, x)' = ArrivedIn(d, c, x)
  BY <1>1, <1>3 DEF ArrivedIn, Here
<1>6. b \in Blocks(job) /\ mine \subseteq Cells(job) /\ th \in Here(b)
  BY <1>1, MyCellsAre DEF Threads, Here
<1>7. \A c \in mine : ~Flushed(b, c)
  <2>1. SUFFICES ASSUME NEW c \in mine, NEW u \in Threads(job),
                        u[1] = b, c \in MyCells[job][u[2]], pc[u] = "done"
                 PROVE  FALSE
    BY DEF Flushed
  <2>2. u \in Here(b) /\ u # th
    BY <1>1, <2>1 DEF Here
  <2>3. QED
    BY <1>1, <2>1, <2>2, MyCellsAre
<1>8. ASSUME NEW u \in Here(b), NEW i \in Taps, TapCell[job][u][i] \in mine
      PROVE  PixelOfCell[job][b][TapCell[job][u][i]] = PixelOfTap[job][u][i]
  <2>1. u \in Threads(job) /\ u[1] = b
    BY DEF Here
  <2>2. TapCell[job][u][i] \in Window(job)
    BY <1>1, <1>6, <1>8, JobFacts
  <2>3. QED
    BY <1>1, <2>1, <2>2, PixelOfWindow
<1> HIDE DEF b, mine
<1>9. ASSUME NEW p \in Pixels(job), NEW x
      PROVE  ArrivedAt(p, x)' <=>
               \/ ArrivedAt(p, x)
               \/ \E c \in mine : PixelOfCell[job][b][c] = p /\ ArrivedIn(b, c, x)
  <2>1. ArrivedAt(p, x)' <=>
          \E u \in Threads(job) : \E i \in Taps :
            /\ i \in AddedTaps(u) /\ PixelOfTap[job][u][i] = p /\ x = Contribution(job, u, i)
            /\ TapCell[job][u][i] \in Cells(job) =>
                 Flushed(u[1], TapCell[job][u][i]) \/ (u[1] = b /\ TapCell[job][u][i] \in mine)
    BY <1>1, <1>3, <1>4 DEF ArrivedAt
  <2>2. ArrivedAt(p, x) => ArrivedAt(p, x)'
    BY <2>1 DEF ArrivedAt
  <2>3. ASSUME NEW c \in mine, PixelOfCell[job][b][c] = p, ArrivedIn(b, c, x)
        PROVE  ArrivedAt(p, x)'
    <3>1. PICK u \in Here(b), i \in Taps :
            i \in AddedTaps(u) /\ TapCell[job][u][i] = c /\ x = Contribution(job, u, i)
      BY <2>3 DEF ArrivedIn
    <3>2. u \in Threads(job) /\ u[1] = b
      BY DEF Here
    <3>3. PixelOfTap[job][u][i] = p
      BY <1>8, <2>3, <3>1
    <3>4. QED
      BY <2>1, <2>3, <3>1, <3>2, <3>3
  <2>4. ASSUME ArrivedAt(p, x)', ~ArrivedAt(p, x)
        PROVE  \E c \in mine : PixelOfCell[job][b][c] = p /\ ArrivedIn(b, c, x)
    <3>1. PICK u \in Threads(job), i \in Taps :
            /\ i \in AddedTaps(u) /\ PixelOfTap[job][u][i] = p /\ x = Contribution(job, u, i)
            /\ TapCell[job][u][i] \in Cells(job) =>
                 Flushed(u[1], TapCell[job][u][i]) \/ (u[1] = b /\ TapCell[job][u][i] \in mine)
      BY <2>1, <2>4
    <3>2. u[1] = b /\ TapCell[job][u][i] \in mine
      BY <2>4, <3>1 DEF ArrivedAt
    <3>3. u \in Here(b)
      BY <3>2 DEF Here
    <3>4. ArrivedIn(b, TapCell[job][u][i], x)
      BY <3>1, <3>3 DEF ArrivedIn
    <3>5. QED
      BY <1>8, <3>1, <3>2, <3>3, <3>4
  <2>5. QED
    BY <2>2, <2>3, <2>4
<1>10. QED
  BY <1>5, <1>7, <1>9 DEF b, mine

LEMMA FlushKeeps ==
  ASSUME VersionCalls, Inv, NEW th \in Threads(job), Flush(th)
  PROVE  (DataType /\ Data)'
<1> DEFINE b == th[1]
           mine(p) == {c \in MyCells[job][th[2]] : PixelOfCell[job][b][c] = p}
<1>1. Control /\ DataType /\ CellsRight /\ PixelsRight /\ ResultRight /\ job \in Jobs
  BY DEF Inv, Data, Control
<1>2. /\ job' = job /\ hostPc' = hostPc /\ pc[th] = "flush" /\ hostPc = "copyBack"
      /\ pc' = [pc EXCEPT ![th] = "done"] /\ pc \in [Threads(job) -> Labels]
  BY <1>1, FlushMoves, AtLabel DEF Moves, Goto, Control, ControlType
<1>3. /\ smem' = smem /\ result' = result
      /\ grad_input' = [p \in Pixels(job) |-> Plus(grad_input[p], SumOfCells(b, mine(p)))]
  BY DEF Flush
<1>4. /\ \A d, c, x : ArrivedIn(d, c, x)' = ArrivedIn(d, c, x)
      /\ \A p \in Pixels(job) : \A x : ArrivedAt(p, x)' <=>
           ArrivedAt(p, x) \/ \E c \in mine(p) : ArrivedIn(b, c, x)
      /\ \A p : \A c \in mine(p) : ~Flushed(b, c)
  BY <1>1, FlushArrives
<1>5. \A p : mine(p) \in SUBSET MyCells[job][th[2]]
  OBVIOUS
<1>6. \A p : \A x : x \in SumOfCells(b, mine(p)) <=> \E c \in mine(p) : ArrivedIn(b, c, x)
  BY <1>1, <1>2, <1>5, CellsDisjoint
<1>7. /\ MyCells[job][th[2]] \subseteq Cells(job) /\ b \in Blocks(job)
  BY <1>1, MyCellsAre DEF Threads
<1>8. \A p : SumOfCells(b, mine(p)) \in SUBSET Sources
  <2>1. smem \in [Blocks(job) -> [Cells(job) -> SUBSET Sources]]
    BY <1>1 DEF DataType
  <2>2. \A c \in Cells(job) : smem[b][c] \in SUBSET Sources
    BY <1>7, <2>1
  <2>3. ASSUME NEW p, NEW x \in SumOfCells(b, mine(p))
        PROVE  x \in Sources
    <3>1. x = Twice \/ \E c \in mine(p) : x \in smem[b][c]
      BY DEF SumOfCells
    <3>2. QED
      BY <1>5, <1>7, <2>2, <3>1 DEF Sources
  <2>4. QED
    BY <2>3
<1>9. DataType'
  <2>1. grad_input' \in [Pixels(job) -> SUBSET Sources]
    <3>1. \A p \in Pixels(job) : grad_input[p] \in SUBSET Sources
      BY <1>1 DEF DataType
    <3>2. \A p \in Pixels(job) : Plus(grad_input[p], SumOfCells(b, mine(p))) \in SUBSET Sources
      BY <1>8, <3>1, PlusType
    <3> HIDE DEF mine
    <3>3. QED
      BY <1>3, <3>2
  <2>2. QED
    BY <1>1, <1>2, <1>3, <2>1 DEF DataType, Sources
<1>10. CellsRight'
  <2>1. \A u \in Threads(job) :
          pc'[u] \in {"notLaunched", "zero"} <=> pc[u] \in {"notLaunched", "zero"}
    BY <1>2
  <2>2. QED
    BY <1>1, <1>2, <1>3, <1>4, <2>1 DEF CellsRight
<1> HIDE DEF b
<1>11. PixelsRight'
  <2>1. SUFFICES ASSUME NEW p \in Pixels(job)
                 PROVE  \A x : x \in grad_input'[p] <=> ArrivedAt(p, x)'
    BY <1>2 DEF PixelsRight
  <2>2. \A x : x \in grad_input[p] <=> ArrivedAt(p, x)
    BY <1>1, <1>2 DEF PixelsRight
  <2>3. ASSUME NEW x \in SumOfCells(b, mine(p))
        PROVE  x \notin grad_input[p]
    <3>1. PICK c \in mine(p) : ArrivedIn(b, c, x)
      BY <1>6, <2>3
    <3>2. PICK u \in Here(b), i \in Taps : TapCell[job][u][i] = c /\ x = Contribution(job, u, i)
      BY <3>1 DEF ArrivedIn
    <3>3. u \in Threads(job) /\ u[1] = b
      BY DEF Here
    <3>4. c \in Cells(job) /\ ~Flushed(b, c)
      BY <1>4, <1>5, <1>7, <3>1
    <3>5. ~ArrivedAt(p, x)
      BY <1>1, <3>2, <3>3, <3>4, OfOneAuthor
    <3>6. QED
      BY <2>2, <3>5
  <2>4. grad_input'[p] = Plus(grad_input[p], SumOfCells(b, mine(p)))
    <3> HIDE DEF mine
    <3>1. QED
      BY <1>3
  <2>5. grad_input'[p] = grad_input[p] \cup SumOfCells(b, mine(p))
    <3>1. grad_input[p] \cap SumOfCells(b, mine(p)) = {}
      BY <2>3
    <3>2. QED
      BY <2>4, <3>1, PlusNew
  <2> HIDE DEF mine
  <2>6. QED
    BY <1>4, <1>6, <2>2, <2>5
<1>12. ResultRight'
  BY <1>1, <1>2, <1>3 DEF ResultRight, Uninitialised
<1>13. QED
  BY <1>9, <1>10, <1>11, <1>12 DEF Data

-----------------------------------------------------------------------------
(* The invariant is one. *)

LEMMA InvInit ==
  ASSUME VersionCalls, Init
  PROVE  Inv
<1>1. job \in Jobs /\ job.host[1] = "memset"
  BY JobFacts DEF Init
<1>2. ControlType
  BY <1>1 DEF Init, ControlType, Labels
<1>3. \A u \in Threads(job) : pc[u] = "notLaunched" /\ arrived[u] = 0 /\ m[u] = 0
  BY DEF Init
<1>4. \A u \in Threads(job) : Position(u) /\ Barriers(u)
  BY <1>3 DEF Position, Barriers
<1>5. hostPc = "memset"
  BY <1>1 DEF Init
<1>6. Schedule
  BY <1>3, <1>5 DEF Schedule
<1>7. DataType
  BY DEF Init, DataType, Uninitialised, Sources
<1>8. CellsRight
  <2>1. ASSUME NEW u \in Threads(job), NEW c \in MyCells[job][u[2]]
        PROVE  smem[u[1]][c] = {Stale}
    <3>1. c \in Cells(job) /\ u[1] \in Blocks(job)
      BY <1>1, MyCellsAre DEF Threads
    <3>2. QED
      BY <3>1 DEF Init
  <2>2. QED
    BY <1>3, <2>1 DEF CellsRight
<1>9. PixelsRight /\ ResultRight
  BY <1>5 DEF Init, PixelsRight, ResultRight, Uninitialised
<1>10. QED
  BY <1>1, <1>2, <1>4, <1>6, <1>7, <1>8, <1>9 DEF Inv, Control, Data

LEMMA InvStep ==
  ASSUME VersionCalls, Inv, [NextBackward]_vars
  PROVE  Inv'
<1>1. Control
  BY DEF Inv
<1>2. CASE Host
  <2>1. CASE Memset
    BY <1>1, <2>1, MemsetMoves, MemsetKeeps DEF Inv
  <2>2. CASE Launch
    BY <1>1, <2>2, LaunchMoves, LaunchKeeps DEF Inv
  <2>3. CASE CopyBack
    BY <1>1, <2>3, CopyBackMoves, CopyBackKeeps DEF Inv
  <2>4. QED
    BY <1>2, <2>1, <2>2, <2>3 DEF Host
<1>3. ASSUME NEW th \in Threads(job)
      PROVE  /\ Zero(th) => Inv'
             /\ LeaveSync2(th) => Inv'
             /\ Flush(th) => Inv'
  <2>1. CASE Zero(th)
    BY <1>1, <2>1, ZeroMoves, ZeroKeeps DEF Inv
  <2>2. CASE LeaveSync2(th)
    BY <1>1, <2>2, LeaveSync2Moves, LeaveSync2Keeps DEF Inv
  <2>3. CASE Flush(th)
    BY <1>1, <2>3, FlushMoves, FlushKeeps DEF Inv
  <2>4. QED
    BY <2>1, <2>2, <2>3
<1>4. ASSUME ~job.kernel.shuffles, NEW th \in Threads(job), Step(th)
      PROVE  Inv'
  <2>1. CASE LeaveSync1(th)
    BY <1>1, <2>1, LeaveSync1Moves, LeaveSync1Keeps DEF Inv
  <2>2. CASE ScatterRow(th)
    BY <1>4, <2>2, ScatterKeeps
  <2>3. QED
    BY <1>3, <1>4, <2>1, <2>2 DEF Step
<1>5. ASSUME job.kernel.shuffles, NEW th \in Threads(job), ThreadStep(th)
      PROVE  Inv'
  <2>1. CASE EnterScatter(th)
    BY <1>1, <1>5, <2>1, EnterScatterMoves, EnterScatterKeeps DEF Inv
  <2>2. QED
    BY <1>3, <1>5, <2>1 DEF ThreadStep
<1>6. ASSUME job.kernel.shuffles, NEW w \in Warps(job), ScatterPairs(w)
      PROVE  Inv'
  BY <1>6, ScatterPairsKeeps
<1>7. CASE UNCHANGED vars
  <2>1. /\ job' = job /\ smem' = smem /\ grad_input' = grad_input /\ pc' = pc /\ m' = m
        /\ arrived' = arrived /\ hostPc' = hostPc /\ result' = result
    BY <1>7 DEF vars, device
  <2>2. Control'
    BY <1>1, <2>1 DEF Control, ControlType, Position, Barriers, Schedule, Here
  <2>3. \A u \in Threads(job) : AddedTaps(u)' = AddedTaps(u)
    BY <2>1 DEF AddedTaps
  <2>4. (DataType /\ Data)'
    BY <2>1, <2>3, PassingKeeps
  <2>5. QED
    BY <2>2, <2>4 DEF Inv
<1>8. CASE NextBackward
  <2>1. CASE job.kernel.shuffles
    BY <1>2, <1>5, <1>6, <1>8, <2>1 DEF NextBackward, NextPairs
  <2>2. CASE ~job.kernel.shuffles
    BY <1>2, <1>4, <1>8, <2>2 DEF NextBackward, Next
  <2>3. QED
    BY <2>1, <2>2
<1>9. QED
  BY <1>7, <1>8

LEMMA InvHolds ==
  ASSUME VersionCalls
  PROVE  SpecBackward => []Inv
<1>1. Init => Inv
  BY InvInit
<1>2. Inv /\ [NextBackward]_vars => Inv'
  BY InvStep
<1>3. QED
  BY <1>1, <1>2, PTL DEF SpecBackward

-----------------------------------------------------------------------------
(* The two kinds of accesses to shared memory never meet. *)
LEMMA InvNoRace ==
  ASSUME VersionCalls, Inv
  PROVE  NoRace
<1>1. Control /\ job \in Jobs
  BY DEF Inv, Control
<1>2. SUFFICES ASSUME NEW th \in Threads(job), NEW u \in Threads(job), th # u, th[1] = u[1],
                      NEW c \in PlainNext(th), c \in AtomicNext(u) \cup PlainNext(u)
               PROVE  FALSE
  BY DEF NoRace
<1>3. pc[th] \in {"zero", "flush"} /\ c \in MyCells[job][th[2]]
  BY <1>2 DEF PlainNext
<1>4. u \in Here(th[1]) /\ th \in Here(u[1]) /\ Long(job)
  BY <1>1, <1>2, <1>3, AtLabel DEF Here, Position
<1>5. CASE c \in PlainNext(u)
  <2>1. c \in MyCells[job][u[2]]
    BY <1>5 DEF PlainNext
  <2>2. QED
    BY <1>1, <1>2, <1>3, <1>4, <2>1, MyCellsAre
<1>6. CASE c \in AtomicNext(u)
  <2>1. pc[u] = "scatter"
    BY <1>6 DEF AtomicNext
  <2>2. arrived[u] = 1 /\ arrived[th] >= 1
    BY <1>1, <1>4, <2>1, AtLabel DEF Position, Barriers
  <2>3. CASE pc[th] = "zero"
    BY <1>1, <2>2, <2>3, AtLabel DEF Position
  <2>4. CASE pc[th] = "flush"
    BY <1>1, <1>4, <2>2, <2>4, AtLabel DEF Barriers
  <2>5. QED
    BY <1>3, <2>3, <2>4
<1>7. QED
  BY <1>2, <1>5, <1>6

(* MemorySafe: the variables keep their types, and no thread zeroes or     *)
(* reads a cell of the window that another one may be adding to: what the  *)
(* two calls of __syncthreads() are there for, at every block size.        *)
THEOREM MemoryIsSafe ==
  ASSUME VersionCalls
  PROVE  SpecBackward => []MemorySafe
<1>1. Inv => TypeOK
  BY DEF Inv, Control, ControlType, DataType, TypeOK, Labels
<1>2. Inv => MemorySafe
  BY <1>1, InvNoRace DEF MemorySafe
<1>3. QED
  BY <1>2, InvHolds, PTL

(* Conserved: a contribution that has been made is in its cell of the      *)
(* window until that is flushed, and in its pixel afterwards; never in     *)
(* both, and never before.                                                 *)
THEOREM NothingIsLost ==
  ASSUME VersionCalls
  PROVE  SpecBackward => []Conserved
<1>1. ASSUME Inv
      PROVE  Conserved
  <2>1. Control /\ CellsRight /\ PixelsRight /\ job \in Jobs
    BY <1>1 DEF Inv, Data, Control
  <2>2. SUFFICES ASSUME NEW th \in Threads(job), Active(job, th), NEW i \in Taps
        PROVE  LET x == Contribution(job, th, i)
                   c == TapCell[job][th][i]
                   inWindow == c \in Cells(job) /\ x \in smem[th[1]][c]
                   inGlobal == x \in grad_input[PixelOfTap[job][th][i]]
               IN  IF i \notin AddedTaps(th) THEN ~inWindow /\ ~inGlobal
                   ELSE IF c \in Cells(job) /\ ~Flushed(th[1], c) THEN inWindow /\ ~inGlobal
                   ELSE inGlobal
    BY DEF Conserved
  <2> DEFINE x == Contribution(job, th, i)
             c == TapCell[job][th][i]
             p == PixelOfTap[job][th][i]
  <2>3. x # Stale /\ p \in Pixels(job)
    BY <1>1, <2>1, ContributionType, PixelOfWindow
  <2>4. /\ ArrivedIn(th[1], c, x) <=> i \in AddedTaps(th)
        /\ ArrivedAt(p, x) <=> i \in AddedTaps(th) /\ (c \in Cells(job) => Flushed(th[1], c))
    BY <1>1, <2>1, OfOneAuthor
  <2> HIDE DEF x, c, p
  <2>5. ASSUME c \in Cells(job)
        PROVE  x \in smem[th[1]][c] <=> i \in AddedTaps(th)
    <3>1. th[1] \in Blocks(job) /\ th \in Here(th[1])
      BY DEF Threads, Here
    <3>2. PICK u \in Here(th[1]) : c \in MyCells[job][u[2]]
      BY <1>1, <2>1, <2>5, <3>1, Owner
    <3>3. u \in Threads(job) /\ u[1] = th[1]
      BY DEF Here
    <3>4. CASE pc[u] \in {"notLaunched", "zero"}
      <4>1. smem[th[1]][c] = {Stale}
        BY <2>1, <3>2, <3>3, <3>4 DEF CellsRight
      <4>2. Long(job)
        BY <1>1, <2>1, <2>5, JobFacts
      <4>3. AddedTaps(th) = {}
        BY <1>1, <2>1, <3>1, <3>4, <4>2, ZeroedBefore
      <4>4. QED
        BY <2>3, <4>1, <4>3
    <3>5. CASE pc[u] \notin {"notLaunched", "zero"}
      BY <2>1, <2>4, <3>2, <3>3, <3>5 DEF CellsRight
    <3>6. QED
      BY <3>4, <3>5
  <2>6. x \in grad_input[p] <=> i \in AddedTaps(th) /\ (c \in Cells(job) => Flushed(th[1], c))
    <3>1. CASE hostPc = "memset"
      <4>1. \A u \in Threads(job) : pc[u] = "notLaunched"
        BY <2>1, <3>1 DEF Control, Schedule
      <4>2. AddedTaps(th) = {}
        BY <4>1, NothingBeforeLaunch
      <4>3. grad_input[p] = {Stale}
        BY <2>1, <2>3, <3>1 DEF PixelsRight
      <4>4. QED
        BY <2>3, <4>2, <4>3
    <3>2. CASE hostPc # "memset"
      BY <2>1, <2>3, <2>4, <3>2 DEF PixelsRight
    <3>3. QED
      BY <3>1, <3>2
  <2>7. QED
    BY <2>5, <2>6 DEF x, c, p
<1>2. Inv => Conserved
  BY <1>1
<1>3. QED
  BY <1>2, InvHolds, PTL

(* ImplementsGradient: every step of the host or of a thread clears the    *)
(* gradient, lets contributions arrive at the pixel to which the CPU adds  *)
(* them, or hands out the image when all of them have arrived.             *)
THEOREM ComputesGradient ==
  ASSUME VersionCalls
  PROVE  SpecBackward => ImplementsGradient
<1>1. ASSUME Init
      PROVE  Grad!GInit
  <2>1. job \in Jobs
    BY <1>1 DEF Init
  <2>2. Grad!Unset = Uninitialised
    BY <2>1, CpuPixel DEF Grad!Unset, Grad!Pixels, Uninitialised
  <2>3. QED
    BY <1>1, <2>2 DEF Init, Grad!GInit
<1>2. ASSUME Inv, [NextBackward]_vars
      PROVE  [Grad!GNext]_<<CpuGradient[job], grad_input, result>>
  <2>1. /\ Control /\ DataType /\ PixelsRight /\ ResultRight /\ job \in Jobs
    BY <1>2 DEF Inv, Data, Control
  <2>2. Inv'
    BY <1>2, InvStep
  <2>3. /\ Grad!Pixels = Pixels(job) /\ Grad!Unset = Uninitialised
        /\ Grad!Zeros = [p \in Pixels(job) |-> {}]
    BY <2>1, CpuPixel DEF Grad!Unset, Grad!Zeros, Grad!Pixels, Uninitialised
  <2>4. CASE Memset
    <3>1. hostPc = "memset" /\ job' = job /\ result' = result
      BY <1>2, <2>1, <2>4, MemsetMoves DEF Memset
    <3>2. grad_input = Uninitialised
      <4>1. \A p \in Pixels(job) : grad_input[p] = {Stale}
        BY <2>1, <3>1 DEF PixelsRight
      <4>2. grad_input = [p \in Pixels(job) |-> grad_input[p]]
        BY <2>1 DEF DataType
      <4>3. QED
        BY <4>1, <4>2 DEF Uninitialised
    <3>3. Grad!Clear
      BY <2>3, <2>4, <3>1, <3>2 DEF Memset, Grad!Clear
    <3>4. QED
      BY <3>3 DEF Grad!GNext
  <2>5. CASE CopyBack
    <3>1. /\ hostPc = "copyBack" /\ job' = job /\ grad_input = CpuGradient[job]
          /\ result' = grad_input /\ grad_input' = grad_input
      BY <1>2, <2>1, <2>5, CopyBackMoves, CopyBackKeeps DEF CopyBack, device
    <3>2. result = Uninitialised
      BY <2>1, <3>1 DEF ResultRight
    <3>3. Grad!Return
      BY <2>3, <3>1, <3>2 DEF Grad!Return
    <3>4. QED
      BY <3>3 DEF Grad!GNext
  <2> DEFINE Adding == \/ \E th \in Threads(job) : Flush(th)
                       \/ ~job.kernel.shuffles /\ \E th \in Threads(job) : ScatterRow(th)
                       \/ job.kernel.shuffles /\ \E w \in Warps(job) : ScatterPairs(w)
  <2>6. ASSUME Adding
        PROVE  Grad!Accumulate
    <3> DEFINE Grows ==
          /\ job' = job /\ result' = result /\ hostPc = "copyBack" /\ hostPc' = "copyBack"
          /\ \A p \in Pixels(job) : grad_input[p] \subseteq grad_input'[p]
    <3>1. Grows
      <4>1. ASSUME NEW th \in Threads(job), Flush(th)
            PROVE  Grows
        BY <1>2, <2>1, <4>1, FlushMoves, AtLabel DEF Moves, Flush, Plus
      <4>2. ASSUME NEW S, NEW b, NEW r, RowDone(S, b, r), RowSums(S, b, r), result' = result
            PROVE  Grows
        BY <4>2 DEF RowDone, RowSums, Plus
      <4>3. ASSUME ~job.kernel.shuffles, NEW th \in Threads(job), ScatterRow(th)
            PROVE  Grows
        <5>1. RowDone({th}, th[1], m[th]) /\ Active(job, th)
          BY <1>2, <2>1, <4>3, ScatterRowDone
        <5>2. RowSums({th}, th[1], m[th]) /\ result' = result
          BY <1>2, <2>1, <4>3, <5>1, ScatterAdds DEF ScatterRow
        <5>3. QED
          BY <4>2, <5>1, <5>2
      <4>4. ASSUME job.kernel.shuffles, NEW w \in Warps(job), ScatterPairs(w)
            PROVE  Grows
        <5>1. /\ result' = result
              /\ \E r : RowDone(Lanes(w), w[1], r) /\ RowSums(Lanes(w), w[1], r)
          BY <1>2, <2>1, <4>4, ScatterPairsDone
        <5>2. QED
          BY <4>2, <5>1
      <4> HIDE DEF Grows
      <4>5. QED
        BY <2>6, <4>1, <4>3, <4>4
    <3>2. \A p \in Pixels(job) : grad_input[p] \subseteq grad_input'[p]
      BY <3>1
    <3>3. grad_input' \in [Pixels(job) -> SUBSET Sources']
      BY <2>2, <3>1 DEF Inv, DataType
    <3>4. \A p \in Pixels(job) : grad_input'[p] \subseteq CpuGradient[job][p]
      <4>1. ASSUME NEW p \in Pixels(job), NEW x \in grad_input'[p]
            PROVE  x \in CpuGradient[job][p]
        <5>1. ArrivedAt(p, x)'
          BY <2>2, <3>1, <4>1 DEF Inv, Data, PixelsRight
        <5>2. Control'
          BY <2>2 DEF Inv
        <5>3. PICK u \in Threads(job), i \in Taps :
                /\ i \in AddedTaps(u)' /\ PixelOfTap[job][u][i] = p
                /\ x = Contribution(job, u, i)
          BY <3>1, <5>1 DEF ArrivedAt
        <5>4. Active(job, u)
          BY <3>1, <5>3 DEF AddedTaps
        <5>5. QED
          BY <2>1, <5>3, <5>4, CpuPixel
      <4>2. QED
        BY <4>1
    <3>5. grad_input # Uninitialised
      <4>1. <<0, 0>> \in Pixels(job)
        <5>1. job.inH \in Nat \ {0} /\ job.inW \in Nat \ {0}
          BY <1>2, <2>1, JobFacts
        <5>2. QED
          BY <5>1 DEF Pixels
      <4>2. ASSUME grad_input = Uninitialised
            PROVE  FALSE
        <5>1. Stale \in grad_input[<<0, 0>>]
          BY <4>1, <4>2 DEF Uninitialised
        <5>2. ArrivedAt(<<0, 0>>, Stale)
          BY <2>1, <3>1, <4>1, <5>1 DEF PixelsRight
        <5>3. PICK u \in Threads(job), i \in Taps : Stale = Contribution(job, u, i)
          BY <5>2 DEF ArrivedAt
        <5>4. QED
          BY <2>1, <5>3, ContributionType
      <4>3. QED
        BY <4>2
    <3>6. QED
      BY <2>1, <2>3, <3>1, <3>2, <3>3, <3>4, <3>5 DEF Grad!Accumulate
  <2>7. CASE Launch
    <3>1. job' = job /\ grad_input' = grad_input /\ result' = result
      BY <2>7 DEF Launch
    <3>2. QED
      BY <3>1
  <2>8. ASSUME NEW th \in Threads(job),
               Zero(th) \/ LeaveSync1(th) \/ EnterScatter(th) \/ LeaveSync2(th)
        PROVE  job' = job /\ grad_input' = grad_input /\ result' = result
    BY <2>8 DEF Zero, LeaveSync1, EnterScatter, LeaveSync2
  <2>9. CASE UNCHANGED vars
    BY <2>9 DEF vars, device
  <2> HIDE DEF Adding
  <2>10. Adding => Grad!GNext
    BY <2>6 DEF Grad!GNext
  <2>11. CASE Host
    BY <2>4, <2>5, <2>7, <2>11 DEF Host
  <2>12. CASE NextBackward
    <3>1. CASE job.kernel.shuffles
      BY <2>8, <2>10, <2>11, <2>12, <3>1 DEF NextBackward, NextPairs, ThreadStep, Adding
    <3>2. CASE ~job.kernel.shuffles
      BY <2>8, <2>10, <2>11, <2>12, <3>2 DEF NextBackward, Next, Step, Adding
    <3>3. QED
      BY <3>1, <3>2
  <2>13. QED
    BY <1>2, <2>9, <2>12
<1>3. /\ Init => Grad!GInit
      /\ Inv /\ [NextBackward]_vars => [Grad!GNext]_<<CpuGradient[job], grad_input, result>>
  BY <1>1, <1>2
<1>4. QED
  BY <1>3, InvHolds, PTL DEF SpecBackward, ImplementsGradient, Grad!GSpec
=============================================================================
