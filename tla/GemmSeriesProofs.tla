--------------------------- MODULE GemmSeriesProofs ---------------------------
(***************************************************************************)
(* Proofs about GemmSeries.  The first half is about any plan that meets a *)
(* few conditions (SoundPlan): whatever the interleaving of its threads,   *)
(* the tiles are used without a race and the matrix handed back is the     *)
(* product.  The second half shows that the plans of the programs meet     *)
(* them, for matrices, tiles and blocks of every size.                     *)
(***************************************************************************)
EXTENDS GemmSeries, TLAPS, SequenceTheorems

-----------------------------------------------------------------------------
(* What makes a plan sound. *)

Hosts == {<<"launch", "copyBack">>, <<"memset", "launch", "copyBack">>}

(* A statement with the operation op stands at place i.                    *)
Does(p, i, op) == i \in DOMAIN p.code /\ p.code[i].op = op
Touches(p, i) == Does(p, i, "load") \/ Does(p, i, "multiply")

BarrierBetween(p, i, n) == \E s \in DOMAIN p.code : i < s /\ s < n /\ Does(p, s, "sync")

(* Two statements that use a buffer have a barrier between them, unless    *)
(* both only read; a tile is multiplied from the buffer it has been loaded *)
(* into last; nothing is added before a dot product.                       *)
SoundCode(p) ==
  /\ Len(p.code) \in Nat /\ DOMAIN p.code = 1 .. Len(p.code)
  /\ \A i \in DOMAIN p.code : Touches(p, i) => p.code[i].buffer \in Buffers
  /\ \A i, n \in DOMAIN p.code :
       /\ Touches(p, i) /\ Touches(p, n) /\ (Does(p, i, "load") \/ Does(p, n, "load"))
       /\ i < n /\ p.code[i].buffer = p.code[n].buffer
       => BarrierBetween(p, i, n)
  /\ \A m \in DOMAIN p.code : Does(p, m, "multiply") =>
       \E l \in DOMAIN p.code :
         /\ l < m /\ Does(p, l, "load")
         /\ p.code[l].tile = p.code[m].tile /\ p.code[l].buffer = p.code[m].buffer
         /\ \A n \in DOMAIN p.code : l < n /\ n < m /\ Does(p, n, "load") =>
              p.code[n].buffer # p.code[m].buffer
  /\ \A d, i \in DOMAIN p.code : Does(p, d, "dotProduct") /\ i < d =>
       ~Does(p, i, "dotProduct") /\ ~Does(p, i, "multiply")
  /\ \A i \in DOMAIN p.code : Does(p, i, "store") => p.code[i].output \in p.outputs

(* What a block's threads load for a tile: cells of the array, elements of *)
(* the matrix, and where they load the same cell, the same element.        *)
SoundLoads(p, loads, cells) ==
  \A l \in DOMAIN p.code : Does(p, l, "load") =>
    LET t == p.code[l].tile
    IN  /\ \A th \in p.threads :
             /\ DOMAIN loads[th][t] \subseteq cells
             /\ \A c \in DOMAIN loads[th][t] : loads[th][t][c] # Beyond
        /\ \A th, u \in p.threads : th[1] = u[1] =>
             \A c \in DOMAIN loads[th][t] \cap DOMAIN loads[u][t] :
               loads[th][t][c] = loads[u][t][c]

(* The threads of th's block that load the cell, and the element found     *)
(* there when they have.                                                   *)
Loaders(p, loads, th, t, c) ==
  {u \in p.threads : u[1] = th[1] /\ c \in DOMAIN loads[u][t]}
Found(p, loads, th, t, c) ==
  loads[CHOOSE u \in Loaders(p, loads, th, t, c) : TRUE][t][c]

(* What a thread adds to its output o at place i of the code.              *)
Terms(p, th, o, t) ==
  {<<t * p.depth + k, Found(p, p.loadsA, th, t, <<p.row[th][o], k>>),
                      Found(p, p.loadsB, th, t, <<k, p.column[th][o]>>)>> : k \in 0 .. p.depth - 1}
Summand(p, th, o, i) ==
  IF Does(p, i, "multiply")
    THEN {q \in Terms(p, th, o, p.code[i].tile) : Zero \notin {q[2], q[3]}}
  ELSE IF Does(p, i, "dotProduct") /\ p.cell[th][o] \in DOMAIN p.product
    THEN p.product[p.cell[th][o]]
  ELSE {}
SumUpTo(p, th, o, n) == UNION {Summand(p, th, o, i) : i \in {m \in DOMAIN p.code : m < n}}

(* A thread finds all cells that it multiplies loaded.                     *)
SoundReads(p) ==
  \A m \in DOMAIN p.code : Does(p, m, "multiply") =>
    \A th \in p.threads : \A o \in p.outputs : \A k \in 0 .. p.depth - 1 :
      /\ Loaders(p, p.loadsA, th, p.code[m].tile, <<p.row[th][o], k>>) # {}
      /\ Loaders(p, p.loadsB, th, p.code[m].tile, <<k, p.column[th][o]>>) # {}

SoundPlan(p) ==
  /\ p.host \in Hosts
  /\ SoundCode(p)
  /\ SoundLoads(p, p.loadsA, p.tileA) /\ SoundLoads(p, p.loadsB, p.tileB)
  /\ SoundReads(p)
  /\ \A c \in DOMAIN p.product : p.product[c] # Unwritten
  /\ p.shown \subseteq DOMAIN p.product
  /\ \A th \in p.threads : \A n \in DOMAIN p.code :
       Does(p, n, "store") /\ p.cell[th][p.code[n].output] \in DOMAIN p.product =>
         SumUpTo(p, th, p.code[n].output, n) = p.product[p.cell[th][p.code[n].output]]
  /\ \A c \in p.shown : \E th \in p.threads : \E n \in DOMAIN p.code :
       Does(p, n, "store") /\ p.cell[th][p.code[n].output] = c

PlansSound == \A i \in DOMAIN Plans : SoundPlan(Plans[i])

-----------------------------------------------------------------------------
(* The inductive invariant. *)

Blocks0 == BlocksOf(plan.threads)

Typed ==
  /\ TypeOK
  /\ pc \in [plan.threads -> Int] /\ hostPc \in Nat
  /\ DOMAIN As = Blocks0 /\ DOMAIN Bs = Blocks0
  /\ \A b \in Blocks0 : DOMAIN As[b] = Buffers /\ DOMAIN Bs[b] = Buffers
  /\ DOMAIN sum = plan.threads /\ \A th \in plan.threads : DOMAIN sum[th] = plan.outputs

(* No thread has passed a barrier that another one of its block is before. *)
Lockstep ==
  \A th, u \in plan.threads : th[1] = u[1] =>
    \A s \in DOMAIN plan.code : Does(plan, s, "sync") /\ s < pc[th] => s <= pc[u]

(* The threads run once the host has launched them; before the first       *)
(* statement of the host nothing has been written.                         *)
LaunchAt == Len(plan.host) - 1
HostInv ==
  /\ hostPc <= LaunchAt => \A th \in plan.threads : pc[th] = 0
  /\ hostPc > LaunchAt => \A th \in plan.threads : pc[th] # 0
  /\ hostPc = 1 => \A c \in DOMAIN plan.product : C[c] = Unwritten

(* Nobody in block b has yet loaded the buffer again after place l.        *)
Current(b, l) ==
  \A w \in plan.threads : \A n \in DOMAIN plan.code :
    w[1] = b /\ l < n /\ n < pc[w] /\ Does(plan, n, "load") =>
      plan.code[n].buffer # plan.code[l].buffer

(* What a thread has loaded stays until then.                              *)
Holds(tiles, loads) ==
  \A u \in plan.threads : \A l \in DOMAIN plan.code :
    Does(plan, l, "load") /\ l < pc[u] /\ Current(u[1], l) =>
      \A c \in DOMAIN loads[u][plan.code[l].tile] :
        tiles[u[1]][plan.code[l].buffer][c] = loads[u][plan.code[l].tile][c]
TilesFilled == Holds(As, plan.loadsA) /\ Holds(Bs, plan.loadsB)

(* A thread has added what the statements behind it add.                   *)
SumRight ==
  \A th \in plan.threads : \A o \in plan.outputs : sum[th][o] = SumUpTo(plan, th, o, pc[th])

(* An element that has been stored is, and stays, the product's.           *)
OutputRight ==
  \A th \in plan.threads : \A n \in DOMAIN plan.code :
    LET c == plan.cell[th][plan.code[n].output]
    IN  Does(plan, n, "store") /\ n < pc[th] /\ c \in DOMAIN plan.product => C[c] = plan.product[c]

Inv == Typed /\ Lockstep /\ HostInv /\ TilesFilled /\ SumRight /\ OutputRight

-----------------------------------------------------------------------------
(* Facts about a call that the steps need. *)

LEMMA SameCall ==
  ASSUME UNCHANGED job
  PROVE  plan' = plan /\ Blocks0' = Blocks0 /\ LaunchAt' = LaunchAt
  BY DEF plan, Plan, Blocks0, BlocksOf, LaunchAt

LEMMA CodeDomain ==
  ASSUME NEW p, SoundPlan(p)
  PROVE  Len(p.code) \in Nat /\ DOMAIN p.code = 1 .. Len(p.code)
  BY DEF SoundPlan, SoundCode

LEMMA LoadsFit ==
  ASSUME NEW p, NEW loads, NEW cells, SoundLoads(p, loads, cells),
         NEW l, Does(p, l, "load"), NEW th \in p.threads
  PROVE  /\ DOMAIN loads[th][p.code[l].tile] \subseteq cells
         /\ \A c \in DOMAIN loads[th][p.code[l].tile] : loads[th][p.code[l].tile][c] # Beyond
<1>1. l \in DOMAIN p.code
  BY DEF Does
<1>2. QED
  BY <1>1 DEF SoundLoads

LEMMA LoadsAgree ==
  ASSUME NEW p, NEW loads, NEW cells, SoundLoads(p, loads, cells),
         NEW l, Does(p, l, "load"), NEW th \in p.threads, NEW u \in p.threads, th[1] = u[1],
         NEW c, c \in DOMAIN loads[th][p.code[l].tile], c \in DOMAIN loads[u][p.code[l].tile]
  PROVE  loads[th][p.code[l].tile][c] = loads[u][p.code[l].tile][c]
<1>1. l \in DOMAIN p.code
  BY DEF Does
<1>2. QED
  BY <1>1 DEF SoundLoads

(* The host's last two statements are the launch and the copy. *)
LEMMA HostFacts ==
  ASSUME NEW host \in Hosts
  PROVE  /\ Len(host) \in 2 .. 3 /\ DOMAIN host = 1 .. Len(host)
         /\ \A n \in 1 .. Len(host) :
              /\ host[n] = "launch" <=> n = Len(host) - 1
              /\ host[n] = "copyBack" <=> n = Len(host)
              /\ host[n] = "memset" => n = 1
<1>1. CASE host = <<"launch", "copyBack">>
  BY <1>1
<1>2. CASE host = <<"memset", "launch", "copyBack">>
  BY <1>2
<1>3. QED
  BY <1>1, <1>2 DEF Hosts

LEMMA PlanHost ==
  ASSUME SoundPlan(plan)
  PROVE  /\ Len(plan.host) \in 2 .. 3 /\ DOMAIN plan.host = 1 .. Len(plan.host)
         /\ \A n \in 1 .. Len(plan.host) :
              /\ plan.host[n] = "launch" <=> n = LaunchAt
              /\ plan.host[n] = "copyBack" <=> n = Len(plan.host)
              /\ plan.host[n] = "memset" => n = 1
         /\ LaunchAt = Len(plan.host) - 1 /\ LaunchAt \in 1 .. 2
<1>1. plan.host \in Hosts
  BY DEF SoundPlan
<1>2. LaunchAt = Len(plan.host) - 1 /\ Len(plan.host) \in 2 .. 3
  BY <1>1, HostFacts DEF LaunchAt
<1>3. LaunchAt \in 1 .. 2
  BY <1>2
<1>4. QED
  BY <1>1, <1>2, <1>3, HostFacts

(* What a thread adds with one statement more. *)
LEMMA SumUpToNext ==
  ASSUME NEW p, SoundPlan(p), NEW th, NEW o, NEW n \in DOMAIN p.code
  PROVE  SumUpTo(p, th, o, n + 1) = SumUpTo(p, th, o, n) \cup Summand(p, th, o, n)
<1>1. DOMAIN p.code = 1 .. Len(p.code) /\ Len(p.code) \in Nat
  BY CodeDomain
<1>2. {m \in DOMAIN p.code : m < n + 1} = {m \in DOMAIN p.code : m < n} \cup {n}
  BY <1>1
<1>3. QED
  BY <1>2 DEF SumUpTo

LEMMA SumUpToNothing ==
  ASSUME NEW p, SoundPlan(p), NEW th, NEW o, NEW n \in {0, 1}
  PROVE  SumUpTo(p, th, o, n) = {}
<1>1. {m \in DOMAIN p.code : m < n} = {}
  BY CodeDomain
<1>2. QED
  BY <1>1 DEF SumUpTo

-----------------------------------------------------------------------------
(* Control. *)

(* A statement moves its thread on. *)
LEMMA Advances ==
  ASSUME SoundPlan(plan), Inv, NEW th \in plan.threads, NEW op, At(th, op), Advance(th)
  PROVE  /\ pc[th] \in 1 .. Len(plan.code) /\ Does(plan, pc[th], op)
         /\ pc' \in [plan.threads -> Int] /\ pc'[th] = pc[th] + 1
         /\ \A u \in plan.threads \ {th} : pc'[u] = pc[u]
         /\ plan' = plan /\ Blocks0' = Blocks0 /\ UNCHANGED <<job, hostPc, result>>
<1>1. pc \in [plan.threads -> Int] /\ DOMAIN plan.code = 1 .. Len(plan.code)
  BY CodeDomain DEF Inv, Typed
<1>2. /\ pc[th] \in DOMAIN plan.code /\ plan.code[pc[th]].op = op
      /\ pc' = [pc EXCEPT ![th] = pc[th] + 1] /\ UNCHANGED <<job, hostPc, result>>
  BY DEF At, Advance
<1>3. pc' \in [plan.threads -> Int] /\ pc'[th] = pc[th] + 1
  BY <1>1, <1>2
<1>4. \A u \in plan.threads \ {th} : pc'[u] = pc[u]
  BY <1>1, <1>2
<1>5. QED
  BY <1>1, <1>2, <1>3, <1>4, SameCall DEF Does

LEMMA AdvanceKeepsControl ==
  ASSUME SoundPlan(plan), Inv, NEW th \in plan.threads, NEW op, At(th, op), Advance(th),
         op = "sync" => Released(th)
  PROVE  /\ Lockstep' /\ HostInv' /\ hostPc > LaunchAt
         /\ \A u \in plan.threads : pc'[u] \in 0 .. Len(plan.code) + 1
<1>1. /\ pc[th] \in 1 .. Len(plan.code) /\ Does(plan, pc[th], op)
      /\ pc' \in [plan.threads -> Int] /\ pc'[th] = pc[th] + 1
      /\ \A u \in plan.threads \ {th} : pc'[u] = pc[u]
      /\ plan' = plan /\ Blocks0' = Blocks0 /\ UNCHANGED <<job, hostPc, result>>
  BY Advances
<1>2. /\ pc \in [plan.threads -> Int] /\ LaunchAt' = LaunchAt
      /\ DOMAIN plan.code = 1 .. Len(plan.code) /\ Len(plan.code) \in Nat
  BY <1>1, SameCall, CodeDomain DEF Inv, Typed
<1>3. Lockstep'
  <2>1. SUFFICES ASSUME NEW v \in plan.threads, NEW u \in plan.threads, v[1] = u[1],
                        NEW s \in 1 .. Len(plan.code), Does(plan, s, "sync"), s < pc'[v]
                 PROVE  s <= pc'[u]
    BY <1>1, <1>2 DEF Lockstep
  <2>2. pc'[u] >= pc[u]
    BY <1>1, <1>2
  <2>3. CASE s < pc[v]
    <3>1. s <= pc[u]
      BY <1>2, <2>1, <2>3 DEF Inv, Lockstep
    <3>2. QED
      BY <2>2, <3>1, <1>1, <1>2
  <2>4. CASE ~(s < pc[v])
    <3>1. v = th /\ s = pc[th]
      BY <1>1, <1>2, <2>1, <2>4
    <3>2. pc[u] >= pc[th]
      BY <1>1, <2>1, <3>1 DEF Released, Does
    <3>3. QED
      BY <2>2, <3>1, <3>2, <1>1, <1>2
  <2>5. QED
    BY <2>3, <2>4
<1>4. hostPc > LaunchAt /\ LaunchAt \in 1 .. 2 /\ hostPc \in Nat
  <2>1. LaunchAt \in 1 .. 2
    BY PlanHost
  <2>2. hostPc \in Nat /\ pc[th] # 0
    BY <1>1 DEF Inv, Typed
  <2>3. QED
    BY <2>1, <2>2 DEF Inv, HostInv
<1>5. \A u \in plan.threads : pc'[u] \in 0 .. Len(plan.code) + 1 /\ pc'[u] # 0
  <2>1. \A u \in plan.threads : pc[u] \in 0 .. Len(plan.code) + 1 /\ pc[u] # 0
    BY <1>4 DEF Inv, Typed, TypeOK, HostInv
  <2>2. QED
    BY <1>1, <1>2, <2>1
<1>6. HostInv'
  <2>1. ~(hostPc' <= LaunchAt') /\ hostPc' # 1
    BY <1>1, <1>2, <1>4
  <2>2. QED
    BY <1>1, <1>5, <2>1 DEF HostInv
<1>7. QED
  BY <1>3, <1>4, <1>5, <1>6

-----------------------------------------------------------------------------
(* What threads find. *)

(* Of two places with a barrier between them, only one is being executed   *)
(* by the threads of a block.                                              *)
LEMMA BarrierHolds ==
  ASSUME SoundPlan(plan), Inv, NEW th \in plan.threads, NEW u \in plan.threads, th[1] = u[1],
         NEW n \in DOMAIN plan.code, BarrierBetween(plan, pc[th], n)
  PROVE  pc[u] < n
<1>1. PICK s \in DOMAIN plan.code : pc[th] < s /\ s < n /\ Does(plan, s, "sync")
  BY DEF BarrierBetween
<1>2. pc[th] \in Int /\ pc[u] \in Int /\ DOMAIN plan.code = 1 .. Len(plan.code)
  BY CodeDomain DEF Inv, Typed
<1>3. ~(s < pc[u])
  BY <1>1, <1>2 DEF Inv, Lockstep
<1>4. QED
  BY <1>1, <1>2, <1>3

LEMMA BarrierHeld ==
  ASSUME SoundPlan(plan), Inv, NEW th \in plan.threads, NEW u \in plan.threads, th[1] = u[1],
         NEW l \in DOMAIN plan.code, BarrierBetween(plan, l, pc[th])
  PROVE  l < pc[u]
<1>1. PICK s \in DOMAIN plan.code : l < s /\ s < pc[th] /\ Does(plan, s, "sync")
  BY DEF BarrierBetween
<1>2. pc[th] \in Int /\ pc[u] \in Int /\ DOMAIN plan.code = 1 .. Len(plan.code)
  BY CodeDomain DEF Inv, Typed
<1>3. s <= pc[u]
  BY <1>1, <1>2 DEF Inv, Lockstep
<1>4. QED
  BY <1>1, <1>2, <1>3

(* Two statements that use a buffer at once are the same statement, unless *)
(* both only read.                                                         *)
LEMMA SameStatement ==
  ASSUME SoundPlan(plan), Inv, NEW th \in plan.threads, NEW u \in plan.threads, th[1] = u[1],
         At(th, "load"), At(u, "load") \/ At(u, "multiply"),
         Statement(u).buffer = Statement(th).buffer
  PROVE  pc[u] = pc[th]
<1>1. /\ pc[th] \in DOMAIN plan.code /\ Does(plan, pc[th], "load")
      /\ pc[u] \in DOMAIN plan.code /\ Touches(plan, pc[u]) /\ Touches(plan, pc[th])
      /\ DOMAIN plan.code = 1 .. Len(plan.code)
  BY CodeDomain DEF At, Does, Touches
<1>2. SoundCode(plan) /\ plan.code[pc[u]].buffer = plan.code[pc[th]].buffer
  BY DEF SoundPlan, Statement
<1>3. ~(pc[th] < pc[u])
  <2> SUFFICES ASSUME pc[th] < pc[u]
               PROVE  FALSE
    OBVIOUS
  <2>1. BarrierBetween(plan, pc[th], pc[u])
    BY <1>1, <1>2 DEF SoundCode
  <2>2. pc[u] < pc[u]
    BY <1>1, <2>1, BarrierHolds
  <2>3. QED
    BY <1>1, <2>2
<1>4. ~(pc[u] < pc[th])
  <2> SUFFICES ASSUME pc[u] < pc[th]
               PROVE  FALSE
    OBVIOUS
  <2>1. BarrierBetween(plan, pc[u], pc[th])
    BY <1>1, <1>2 DEF SoundCode
  <2>2. pc[u] < pc[u]
    BY <1>1, <2>1, BarrierHeld
  <2>3. QED
    BY <1>1, <2>2
<1>5. QED
  BY <1>1, <1>3, <1>4

LEMMA InvNoRace ==
  ASSUME SoundPlan(plan), Inv
  PROVE  NoRace
<1> SUFFICES ASSUME NEW th \in plan.threads, NEW u \in plan.threads, th # u, th[1] = u[1],
                    At(th, "load"), At(u, "load") \/ At(u, "multiply"),
                    Statement(u).buffer = Statement(th).buffer
             PROVE  /\ ~Conflict(WritesA(th), WritesA(u), ReadsA(u))
                    /\ ~Conflict(WritesB(th), WritesB(u), ReadsB(u))
  BY DEF NoRace
<1> DEFINE t == Statement(th).tile
<1>1. pc[u] = pc[th]
  BY SameStatement
<1>2. At(u, "load") /\ ~At(u, "multiply") /\ Statement(u).tile = t
  BY <1>1 DEF At, Statement
<1>3. Does(plan, pc[th], "load") /\ t = plan.code[pc[th]].tile
  BY DEF At, Does, Statement
<1> HIDE DEF t
<1>4. /\ \A c \in DOMAIN plan.loadsA[th][t] \cap DOMAIN plan.loadsA[u][t] :
           plan.loadsA[th][t][c] = plan.loadsA[u][t][c]
      /\ \A c \in DOMAIN plan.loadsB[th][t] \cap DOMAIN plan.loadsB[u][t] :
           plan.loadsB[th][t][c] = plan.loadsB[u][t][c]
  <2>1. SoundLoads(plan, plan.loadsA, plan.tileA) /\ SoundLoads(plan, plan.loadsB, plan.tileB)
    BY DEF SoundPlan
  <2>2. \A c \in DOMAIN plan.loadsA[th][t] \cap DOMAIN plan.loadsA[u][t] :
          plan.loadsA[th][t][c] = plan.loadsA[u][t][c]
    BY ONLY <1>3, <2>1, LoadsAgree, th \in plan.threads, u \in plan.threads, th[1] = u[1]
  <2>3. \A c \in DOMAIN plan.loadsB[th][t] \cap DOMAIN plan.loadsB[u][t] :
          plan.loadsB[th][t][c] = plan.loadsB[u][t][c]
    BY ONLY <1>3, <2>1, LoadsAgree, th \in plan.threads, u \in plan.threads, th[1] = u[1]
  <2>4. QED
    BY <2>2, <2>3
<1>5. /\ WritesA(th) = plan.loadsA[th][t] /\ WritesA(u) = plan.loadsA[u][t] /\ ReadsA(u) = {}
      /\ WritesB(th) = plan.loadsB[th][t] /\ WritesB(u) = plan.loadsB[u][t] /\ ReadsB(u) = {}
  BY <1>2 DEF t, WritesA, WritesB, ReadsA, ReadsB
<1>6. QED
  BY <1>4, <1>5 DEF Conflict

-----------------------------------------------------------------------------
(* Steps of a thread. *)

LEMMA TileOverwritten ==
  ASSUME NEW tiles, NEW b \in DOMAIN tiles, NEW x \in DOMAIN tiles[b], NEW f,
         NEW new, new = [tiles EXCEPT ![b][x] = Overwrite(@, f)]
  PROVE  /\ DOMAIN new = DOMAIN tiles /\ \A d \in DOMAIN tiles : DOMAIN new[d] = DOMAIN tiles[d]
         /\ new[b][x] = Overwrite(tiles[b][x], f)
         /\ \A d \in DOMAIN tiles : \A y \in DOMAIN tiles[d] :
              d # b \/ y # x => new[d][y] = tiles[d][y]
  OBVIOUS

(* What the block's threads have loaded is still there after a statement   *)
(* of one of them, which may itself be a load.                             *)
LEMMA TilesKept ==
  ASSUME SoundPlan(plan), Inv, NEW th \in plan.threads, NEW op, At(th, op), Advance(th),
         NEW old, NEW new, NEW loads, NEW cells, SoundLoads(plan, loads, cells), Holds(old, loads),
         op # "load" => new = old,
         op = "load" =>
           \A d \in Blocks0 : \A y \in Buffers :
             /\ d # th[1] \/ y # Statement(th).buffer => new[d][y] = old[d][y]
             /\ d = th[1] /\ y = Statement(th).buffer =>
                  new[d][y] = Overwrite(old[d][y], loads[th][Statement(th).tile]),
         \A d \in Blocks0 : \A y \in Buffers : DOMAIN old[d][y] = cells
  PROVE  \A u \in plan.threads : \A l \in DOMAIN plan.code :
           Does(plan, l, "load") /\ l < pc'[u] /\ Current(u[1], l)' =>
             \A c \in DOMAIN loads[u][plan.code[l].tile] :
               new[u[1]][plan.code[l].buffer][c] = loads[u][plan.code[l].tile][c]
<1> DEFINE i == pc[th]
<1>1. /\ i \in 1 .. Len(plan.code) /\ Does(plan, i, op)
      /\ pc' \in [plan.threads -> Int] /\ pc'[th] = i + 1
      /\ \A w \in plan.threads \ {th} : pc'[w] = pc[w]
      /\ plan' = plan /\ pc \in [plan.threads -> Int]
      /\ DOMAIN plan.code = 1 .. Len(plan.code) /\ Len(plan.code) \in Nat
  BY Advances, CodeDomain DEF Inv, Typed
<1> SUFFICES ASSUME NEW u \in plan.threads, NEW l \in DOMAIN plan.code,
                    Does(plan, l, "load"), l < pc'[u], Current(u[1], l)',
                    NEW c \in DOMAIN loads[u][plan.code[l].tile]
             PROVE  new[u[1]][plan.code[l].buffer][c] = loads[u][plan.code[l].tile][c]
  OBVIOUS
<1>2. Current(u[1], l)
  <2>1. \A w \in plan.threads : pc[w] <= pc'[w]
    BY <1>1
  <2>2. \A w \in plan.threads : \A n \in DOMAIN plan.code : n < pc[w] => n < pc'[w]
    BY <1>1, <2>1
  <2>3. QED
    BY <1>1, <2>2 DEF Current
<1>3. u # th \/ l # i => l < pc[u]
  BY <1>1
<1>4. l < pc[u] => old[u[1]][plan.code[l].buffer][c] = loads[u][plan.code[l].tile][c]
  BY <1>2 DEF Holds
<1>5. Statement(th) = plan.code[i] /\ u[1] \in Blocks0 /\ plan.code[l].buffer \in Buffers
  BY DEF Statement, Blocks0, BlocksOf, SoundPlan, SoundCode, Touches
<1>6. i = l => op = "load"
  BY <1>1 DEF Does
<1> HIDE DEF i
<1>7. CASE op # "load"
  BY <1>3, <1>4, <1>6, <1>7
<1>8. CASE op = "load" /\ (u[1] # th[1] \/ plan.code[l].buffer # plan.code[i].buffer)
  <2>1. l < pc[u]
    BY <1>3, <1>8
  <2>2. QED
    BY <1>4, <1>5, <1>8, <2>1
<1>9. CASE op = "load" /\ u[1] = th[1] /\ plan.code[l].buffer = plan.code[i].buffer
  <2>1. ~(l < i)
    <3> SUFFICES ASSUME l < i
                 PROVE  FALSE
      OBVIOUS
    <3>1. i < pc'[th] /\ Does(plan, i, "load") /\ i \in DOMAIN plan.code
      BY <1>1, <1>9
    <3>2. plan.code[i].buffer # plan.code[l].buffer
      BY <1>1, <1>9, <3>1 DEF Current
    <3>3. QED
      BY <1>9, <3>2
  <2>2. ~(i < l)
    <3> SUFFICES ASSUME i < l
                 PROVE  FALSE
      OBVIOUS
    <3>1. Touches(plan, i) /\ Touches(plan, l) /\ Does(plan, i, "load") /\ i \in DOMAIN plan.code
      BY <1>1, <1>9 DEF Touches
    <3>2. BarrierBetween(plan, i, l)
      BY <1>9, <3>1 DEF SoundPlan, SoundCode
    <3>3. pc[u] < l
      BY <1>9, <3>2, BarrierHolds DEF i
    <3>4. QED
      BY <1>1, <1>3, <3>3
  <2>3. l = i
    BY <1>1, <2>1, <2>2
  <2> DEFINE before == old[u[1]][plan.code[l].buffer]
             after == new[u[1]][plan.code[l].buffer]
             mine == loads[th][plan.code[l].tile]
  <2>4. after = Overwrite(before, mine)
    BY <1>5, <1>9, <2>3
  <2>5. DOMAIN before = cells /\ c \in cells
    BY <1>5, LoadsFit
  <2>10. /\ c \in DOMAIN mine => after[c] = mine[c]
         /\ c \in DOMAIN before \ DOMAIN mine => after[c] = before[c]
    <3> HIDE DEF before, after, mine
    <3>1. QED
      BY <2>4 DEF Overwrite
  <2>6. CASE c \in DOMAIN loads[th][plan.code[l].tile]
    <3>1. new[u[1]][plan.code[l].buffer][c] = loads[th][plan.code[l].tile][c]
      BY <2>6, <2>10
    <3>2. loads[th][plan.code[l].tile][c] = loads[u][plan.code[l].tile][c]
      BY <1>5, <1>9, <2>6, LoadsAgree
    <3>3. QED
      BY <3>1, <3>2
  <2>7. CASE c \notin DOMAIN loads[th][plan.code[l].tile]
    <3>1. l < pc[u]
      BY <1>3, <2>7
    <3>2. new[u[1]][plan.code[l].buffer][c] = old[u[1]][plan.code[l].buffer][c]
      BY <2>5, <2>7, <2>10
    <3>3. QED
      BY <1>4, <3>1, <3>2
  <2>8. QED
    BY <2>6, <2>7
<1>10. QED
  BY <1>7, <1>8, <1>9

(* What a statement leaves alone. *)
LEMMA KeepsTiles ==
  ASSUME SoundPlan(plan), Inv, NEW th \in plan.threads, NEW op, op # "load", At(th, op), Advance(th),
         UNCHANGED <<As, Bs>>
  PROVE  TilesFilled'
<1>1. plan' = plan
  BY Advances
<1>2. SoundLoads(plan, plan.loadsA, plan.tileA) /\ SoundLoads(plan, plan.loadsB, plan.tileB)
  BY DEF SoundPlan
<1>3. /\ \A d \in Blocks0 : \A y \in Buffers : DOMAIN As[d][y] = plan.tileA
      /\ \A d \in Blocks0 : \A y \in Buffers : DOMAIN Bs[d][y] = plan.tileB
  BY DEF Inv, Typed, TypeOK, Blocks0
<1>4. Holds(As, plan.loadsA) /\ Holds(Bs, plan.loadsB)
  BY DEF Inv, TilesFilled
<1>5. \A u \in plan.threads : \A l \in DOMAIN plan.code :
        Does(plan, l, "load") /\ l < pc'[u] /\ Current(u[1], l)' =>
          \A c \in DOMAIN plan.loadsA[u][plan.code[l].tile] :
            As[u[1]][plan.code[l].buffer][c] = plan.loadsA[u][plan.code[l].tile][c]
  BY <1>2, <1>3, <1>4, TilesKept
<1>6. \A u \in plan.threads : \A l \in DOMAIN plan.code :
        Does(plan, l, "load") /\ l < pc'[u] /\ Current(u[1], l)' =>
          \A c \in DOMAIN plan.loadsB[u][plan.code[l].tile] :
            Bs[u[1]][plan.code[l].buffer][c] = plan.loadsB[u][plan.code[l].tile][c]
  BY <1>2, <1>3, <1>4, TilesKept
<1>7. QED
  BY <1>1, <1>5, <1>6 DEF TilesFilled, Holds

LEMMA KeepsTypes ==
  ASSUME SoundPlan(plan), Inv, NEW th \in plan.threads, NEW op, At(th, op), Advance(th),
         op = "sync" => Released(th),
         DOMAIN As' = Blocks0, DOMAIN Bs' = Blocks0,
         \A b \in Blocks0 : DOMAIN As'[b] = Buffers /\ DOMAIN Bs'[b] = Buffers,
         \A b \in Blocks0 : \A x \in Buffers :
           /\ DOMAIN As'[b][x] = plan.tileA /\ \A c \in plan.tileA : As'[b][x][c] # Beyond
           /\ DOMAIN Bs'[b][x] = plan.tileB /\ \A c \in plan.tileB : Bs'[b][x][c] # Beyond,
         DOMAIN sum' = plan.threads, \A u \in plan.threads : DOMAIN sum'[u] = plan.outputs,
         DOMAIN C' = DOMAIN plan.product
  PROVE  Typed'
<1>1. /\ plan' = plan /\ Blocks0' = Blocks0 /\ pc' \in [plan.threads -> Int]
      /\ UNCHANGED <<job, hostPc, result>>
  BY Advances
<1>2. \A u \in plan.threads : pc'[u] \in 0 .. Len(plan.code) + 1
  BY AdvanceKeepsControl
<1>3. TypeOK'
  <2>1. DOMAIN pc' = plan.threads /\ DOMAIN result' = DOMAIN C'
    BY <1>1 DEF Inv, Typed, TypeOK
  <2>2. job' \in DOMAIN Plan' /\ hostPc' \in 1 .. Len(plan.host) + 1
    BY <1>1 DEF Inv, Typed, TypeOK, Plan
  <2>3. BlocksOf(plan.threads) = Blocks0
    BY DEF Blocks0
  <2>4. QED
    BY <1>1, <1>2, <2>1, <2>2, <2>3 DEF TypeOK
<1>4. QED
  BY <1>1, <1>3 DEF Typed, Inv

(* The data as they are. *)
LEMMA DataTypes ==
  ASSUME Inv
  PROVE  /\ DOMAIN As = Blocks0 /\ DOMAIN Bs = Blocks0
         /\ \A b \in Blocks0 : DOMAIN As[b] = Buffers /\ DOMAIN Bs[b] = Buffers
         /\ \A b \in Blocks0 : \A x \in Buffers :
              /\ DOMAIN As[b][x] = plan.tileA /\ \A c \in plan.tileA : As[b][x][c] # Beyond
              /\ DOMAIN Bs[b][x] = plan.tileB /\ \A c \in plan.tileB : Bs[b][x][c] # Beyond
         /\ DOMAIN sum = plan.threads /\ \A u \in plan.threads : DOMAIN sum[u] = plan.outputs
         /\ DOMAIN C = DOMAIN plan.product
  BY DEF Inv, Typed, TypeOK, Blocks0

(* Statements that add nothing. *)
LEMMA KeepsSums ==
  ASSUME SoundPlan(plan), Inv, NEW th \in plan.threads, NEW op \in {"load", "sync", "store"},
         At(th, op), Advance(th), UNCHANGED sum
  PROVE  SumRight'
<1>1. /\ pc[th] \in DOMAIN plan.code /\ Does(plan, pc[th], op) /\ plan' = plan /\ pc'[th] = pc[th] + 1
      /\ \A u \in plan.threads \ {th} : pc'[u] = pc[u]
  BY Advances, CodeDomain
<1>2. ASSUME NEW o \in plan.outputs
      PROVE  SumUpTo(plan, th, o, pc[th] + 1) = SumUpTo(plan, th, o, pc[th])
  <2>1. Summand(plan, th, o, pc[th]) = {}
    BY <1>1 DEF Summand, Does
  <2>2. QED
    BY <1>1, <2>1, SumUpToNext
<1>3. QED
  BY <1>1, <1>2 DEF SumRight, Inv

(* Statements that store nothing. *)
LEMMA KeepsOutput ==
  ASSUME SoundPlan(plan), Inv, NEW th \in plan.threads, NEW op, op # "store",
         At(th, op), Advance(th), UNCHANGED C
  PROVE  OutputRight'
<1>1. /\ pc[th] \in 1 .. Len(plan.code) /\ Does(plan, pc[th], op) /\ plan' = plan /\ pc'[th] = pc[th] + 1
      /\ \A u \in plan.threads \ {th} : pc'[u] = pc[u]
      /\ DOMAIN plan.code = 1 .. Len(plan.code)
  BY Advances, CodeDomain
<1>2. \A u \in plan.threads : \A n \in DOMAIN plan.code :
        Does(plan, n, "store") /\ n < pc'[u] => n < pc[u]
  <2>1. ~Does(plan, pc[th], "store")
    BY <1>1 DEF Does
  <2>2. QED
    BY <1>1, <2>1
<1>3. QED
  BY <1>1, <1>2 DEF OutputRight, Inv

LEMMA LoadKeeps ==
  ASSUME SoundPlan(plan), Inv, NEW th \in plan.threads, LoadTile(th)
  PROVE  Inv'
<1> DEFINE s == Statement(th)
           b == th[1]
           x == s.buffer
<1>1. /\ At(th, "load") /\ Advance(th) /\ UNCHANGED <<sum, C>>
      /\ As' = [As EXCEPT ![b][x] = Overwrite(@, plan.loadsA[th][s.tile])]
      /\ Bs' = [Bs EXCEPT ![b][x] = Overwrite(@, plan.loadsB[th][s.tile])]
  BY DEF LoadTile
<1>2. /\ Does(plan, pc[th], "load") /\ s = plan.code[pc[th]] /\ plan' = plan /\ Blocks0' = Blocks0
  BY <1>1, Advances DEF Statement
<1>3. b \in Blocks0 /\ x \in Buffers
  BY <1>2 DEF Blocks0, BlocksOf, SoundPlan, SoundCode, Touches, Does
<1>4. /\ DOMAIN As = Blocks0 /\ DOMAIN Bs = Blocks0
      /\ \A d \in Blocks0 : DOMAIN As[d] = Buffers /\ DOMAIN Bs[d] = Buffers
      /\ \A d \in Blocks0 : \A y \in Buffers :
           /\ DOMAIN As[d][y] = plan.tileA /\ \A c \in plan.tileA : As[d][y][c] # Beyond
           /\ DOMAIN Bs[d][y] = plan.tileB /\ \A c \in plan.tileB : Bs[d][y][c] # Beyond
      /\ DOMAIN sum = plan.threads /\ \A u \in plan.threads : DOMAIN sum[u] = plan.outputs
      /\ DOMAIN C = DOMAIN plan.product
  BY DataTypes
<1>5. SoundLoads(plan, plan.loadsA, plan.tileA) /\ SoundLoads(plan, plan.loadsB, plan.tileB)
  BY DEF SoundPlan
<1> HIDE DEF s, b, x
<1>6. /\ DOMAIN As' = Blocks0 /\ \A d \in Blocks0 : DOMAIN As'[d] = Buffers
      /\ As'[b][x] = Overwrite(As[b][x], plan.loadsA[th][s.tile])
      /\ \A d \in Blocks0 : \A y \in Buffers : d # b \/ y # x => As'[d][y] = As[d][y]
  BY <1>1, <1>3, <1>4
<1>7. /\ DOMAIN Bs' = Blocks0 /\ \A d \in Blocks0 : DOMAIN Bs'[d] = Buffers
      /\ Bs'[b][x] = Overwrite(Bs[b][x], plan.loadsB[th][s.tile])
      /\ \A d \in Blocks0 : \A y \in Buffers : d # b \/ y # x => Bs'[d][y] = Bs[d][y]
  BY <1>1, <1>3, <1>4
<1>8. DOMAIN As'[b][x] = plan.tileA /\ \A c \in plan.tileA : As'[b][x][c] # Beyond
  <2> DEFINE f == As[b][x]
             g == plan.loadsA[th][s.tile]
  <2>1. DOMAIN g \subseteq plan.tileA /\ \A c \in DOMAIN g : g[c] # Beyond
    <3>1. Does(plan, pc[th], "load") /\ SoundLoads(plan, plan.loadsA, plan.tileA)
      BY <1>2, <1>5
    <3>2. /\ DOMAIN plan.loadsA[th][plan.code[pc[th]].tile] \subseteq plan.tileA
          /\ \A c \in DOMAIN plan.loadsA[th][plan.code[pc[th]].tile] :
               plan.loadsA[th][plan.code[pc[th]].tile][c] # Beyond
      BY ONLY <3>1, th \in plan.threads, LoadsFit
    <3>3. g = plan.loadsA[th][plan.code[pc[th]].tile]
      BY <1>2
    <3> HIDE DEF g
    <3>4. QED
      BY ONLY <3>2, <3>3
  <2>2. DOMAIN f = plan.tileA /\ \A c \in plan.tileA : f[c] # Beyond
    BY <1>3, <1>4
  <2>3. As'[b][x] = Overwrite(f, g)
    BY <1>6
  <2> HIDE DEF f, g
  <2>4. QED
    BY <2>1, <2>2, <2>3 DEF Overwrite
<1>9. DOMAIN Bs'[b][x] = plan.tileB /\ \A c \in plan.tileB : Bs'[b][x][c] # Beyond
  <2> DEFINE f == Bs[b][x]
             g == plan.loadsB[th][s.tile]
  <2>1. DOMAIN g \subseteq plan.tileB /\ \A c \in DOMAIN g : g[c] # Beyond
    <3>1. Does(plan, pc[th], "load") /\ SoundLoads(plan, plan.loadsB, plan.tileB)
      BY <1>2, <1>5
    <3>2. /\ DOMAIN plan.loadsB[th][plan.code[pc[th]].tile] \subseteq plan.tileB
          /\ \A c \in DOMAIN plan.loadsB[th][plan.code[pc[th]].tile] :
               plan.loadsB[th][plan.code[pc[th]].tile][c] # Beyond
      BY ONLY <3>1, th \in plan.threads, LoadsFit
    <3>3. g = plan.loadsB[th][plan.code[pc[th]].tile]
      BY <1>2
    <3> HIDE DEF g
    <3>4. QED
      BY ONLY <3>2, <3>3
  <2>2. DOMAIN f = plan.tileB /\ \A c \in plan.tileB : f[c] # Beyond
    BY <1>3, <1>4
  <2>3. Bs'[b][x] = Overwrite(f, g)
    BY <1>7
  <2> HIDE DEF f, g
  <2>4. QED
    BY <2>1, <2>2, <2>3 DEF Overwrite
<1>10. Typed'
  <2>1. \A d \in Blocks0 : \A y \in Buffers :
          /\ DOMAIN As'[d][y] = plan.tileA /\ \A c \in plan.tileA : As'[d][y][c] # Beyond
          /\ DOMAIN Bs'[d][y] = plan.tileB /\ \A c \in plan.tileB : Bs'[d][y][c] # Beyond
    BY <1>4, <1>6, <1>7, <1>8, <1>9
  <2>2. /\ \A d \in Blocks0 : DOMAIN As'[d] = Buffers /\ DOMAIN Bs'[d] = Buffers
        /\ DOMAIN sum' = plan.threads /\ \A u \in plan.threads : DOMAIN sum'[u] = plan.outputs
        /\ DOMAIN C' = DOMAIN plan.product
    BY <1>1, <1>4, <1>6, <1>7
  <2>3. "load" # "sync"
    OBVIOUS
  <2>4. QED
    BY <1>1, <1>6, <1>7, <2>1, <2>2, <2>3, KeepsTypes
<1>11. /\ Holds(As, plan.loadsA) /\ Holds(Bs, plan.loadsB)
       /\ \A d \in Blocks0 : \A y \in Buffers : DOMAIN As[d][y] = plan.tileA
       /\ \A d \in Blocks0 : \A y \in Buffers : DOMAIN Bs[d][y] = plan.tileB
  BY <1>4 DEF Inv, TilesFilled
<1>12. Holds(As, plan.loadsA)'
  <2> DEFINE new == As'
  <2>1. \A d \in Blocks0 : \A y \in Buffers :
          /\ d # th[1] \/ y # Statement(th).buffer => new[d][y] = As[d][y]
          /\ d = th[1] /\ y = Statement(th).buffer =>
               new[d][y] = Overwrite(As[d][y], plan.loadsA[th][Statement(th).tile])
    BY <1>6 DEF s, b, x
  <2>3. /\ SoundLoads(plan, plan.loadsA, plan.tileA) /\ Holds(As, plan.loadsA)
        /\ \A d \in Blocks0 : \A y \in Buffers : DOMAIN As[d][y] = plan.tileA
        /\ "load" # "load" => new = As
    BY <1>5, <1>11
  <2> HIDE DEF new
  <2>2. \A u \in plan.threads : \A l \in DOMAIN plan.code :
          Does(plan, l, "load") /\ l < pc'[u] /\ Current(u[1], l)' =>
            \A c \in DOMAIN plan.loadsA[u][plan.code[l].tile] :
              new[u[1]][plan.code[l].buffer][c] = plan.loadsA[u][plan.code[l].tile][c]
    <3>1. At(th, "load") /\ Advance(th)
      BY <1>1
    <3>2. QED
      BY ONLY SoundPlan(plan), Inv, th \in plan.threads, <2>1, <2>3, <3>1, TilesKept
  <2>4. QED
    BY <1>2, <2>2 DEF Holds, new
<1>13. Holds(Bs, plan.loadsB)'
  <2> DEFINE new == Bs'
  <2>1. \A d \in Blocks0 : \A y \in Buffers :
          /\ d # th[1] \/ y # Statement(th).buffer => new[d][y] = Bs[d][y]
          /\ d = th[1] /\ y = Statement(th).buffer =>
               new[d][y] = Overwrite(Bs[d][y], plan.loadsB[th][Statement(th).tile])
    BY <1>7 DEF s, b, x
  <2>3. /\ SoundLoads(plan, plan.loadsB, plan.tileB) /\ Holds(Bs, plan.loadsB)
        /\ \A d \in Blocks0 : \A y \in Buffers : DOMAIN Bs[d][y] = plan.tileB
        /\ "load" # "load" => new = Bs
    BY <1>5, <1>11
  <2> HIDE DEF new
  <2>2. \A u \in plan.threads : \A l \in DOMAIN plan.code :
          Does(plan, l, "load") /\ l < pc'[u] /\ Current(u[1], l)' =>
            \A c \in DOMAIN plan.loadsB[u][plan.code[l].tile] :
              new[u[1]][plan.code[l].buffer][c] = plan.loadsB[u][plan.code[l].tile][c]
    <3>1. At(th, "load") /\ Advance(th)
      BY <1>1
    <3>2. QED
      BY ONLY SoundPlan(plan), Inv, th \in plan.threads, <2>1, <2>3, <3>1, TilesKept
  <2>4. QED
    BY <1>2, <2>2 DEF Holds, new
<1>14. Lockstep' /\ HostInv'
  <2>1. "load" # "sync"
    OBVIOUS
  <2>2. QED
    BY <1>1, <2>1, AdvanceKeepsControl
<1>15. SumRight' /\ OutputRight'
  <2>1. "load" # "store" /\ "load" \in {"load", "sync", "store"} /\ UNCHANGED sum /\ UNCHANGED C
    BY <1>1
  <2>2. QED
    BY <1>1, <2>1, KeepsSums, KeepsOutput
<1>16. QED
  BY <1>10, <1>12, <1>13, <1>14, <1>15 DEF Inv, TilesFilled

LEMMA SyncKeeps ==
  ASSUME SoundPlan(plan), Inv, NEW th \in plan.threads, Synchronize(th)
  PROVE  Inv'
<1>1. At(th, "sync") /\ Advance(th) /\ Released(th) /\ UNCHANGED <<As, Bs, sum, C>>
  BY DEF Synchronize
<1>2. UNCHANGED <<As, Bs>> /\ UNCHANGED sum /\ UNCHANGED C /\ "sync" # "load" /\ "sync" # "store"
      /\ "sync" \in {"load", "sync", "store"}
  BY <1>1
<1>3. Typed'
  BY <1>1, DataTypes, KeepsTypes
<1>4. TilesFilled' /\ SumRight' /\ OutputRight'
  BY <1>1, <1>2, KeepsTiles, KeepsSums, KeepsOutput
<1>5. Lockstep' /\ HostInv'
  BY <1>1, AdvanceKeepsControl
<1>6. QED
  BY <1>3, <1>4, <1>5 DEF Inv

(* What a thread multiplies is the tile that its block has loaded. *)
LEMMA TileIsThere ==
  ASSUME SoundPlan(plan), Inv, NEW th \in plan.threads, At(th, "multiply"),
         NEW tiles, NEW loads, NEW cells, SoundLoads(plan, loads, cells), Holds(tiles, loads),
         NEW c, Loaders(plan, loads, th, Statement(th).tile, c) # {}
  PROVE  tiles[th[1]][Statement(th).buffer][c] = Found(plan, loads, th, Statement(th).tile, c)
<1> DEFINE m == pc[th]
           t == Statement(th).tile
           u == CHOOSE v \in Loaders(plan, loads, th, t, c) : TRUE
<1>1. /\ m \in DOMAIN plan.code /\ Does(plan, m, "multiply") /\ Statement(th) = plan.code[m]
      /\ DOMAIN plan.code = 1 .. Len(plan.code) /\ pc \in [plan.threads -> Int]
  BY CodeDomain DEF At, Does, Statement, Inv, Typed
<1>2. u \in plan.threads /\ u[1] = th[1] /\ c \in DOMAIN loads[u][t]
  <2>1. u \in Loaders(plan, loads, th, t, c)
    OBVIOUS
  <2>2. QED
    BY <2>1 DEF Loaders
<1>3. Found(plan, loads, th, t, c) = loads[u][t][c]
  BY DEF Found
<1> HIDE DEF u
<1>4. PICK l \in DOMAIN plan.code :
         /\ l < m /\ Does(plan, l, "load")
         /\ plan.code[l].tile = t /\ plan.code[l].buffer = plan.code[m].buffer
         /\ \A n \in DOMAIN plan.code : l < n /\ n < m /\ Does(plan, n, "load") =>
              plan.code[n].buffer # plan.code[m].buffer
  <2>1. SoundCode(plan)
    BY DEF SoundPlan
  <2>2. QED
    BY <1>1, <2>1 DEF SoundCode
<1>5. Touches(plan, l) /\ Touches(plan, m) /\ SoundCode(plan)
  BY <1>1, <1>4 DEF Touches, SoundPlan
<1>6. l < pc[u]
  <2>1. BarrierBetween(plan, l, m)
    BY <1>1, <1>4, <1>5 DEF SoundCode
  <2>2. QED
    BY <1>2, <2>1, BarrierHeld
<1>7. Current(u[1], l)
  <2> SUFFICES ASSUME NEW w \in plan.threads, NEW n \in DOMAIN plan.code,
                      w[1] = u[1], l < n, n < pc[w], Does(plan, n, "load"),
                      plan.code[n].buffer = plan.code[l].buffer
               PROVE  FALSE
    BY DEF Current
  <2>1. ~(n < m)
    BY <1>4
  <2>2. n # m
    BY <1>1 DEF Does
  <2>3. m < n
    BY <1>1, <2>1, <2>2
  <2>4. BarrierBetween(plan, m, n)
    BY <1>1, <1>4, <1>5, <2>3 DEF SoundCode, Touches
  <2>5. pc[w] < n
    BY <1>2, <2>4, BarrierHolds
  <2>6. QED
    BY <1>1, <2>5
<1>8. tiles[u[1]][plan.code[l].buffer][c] = loads[u][plan.code[l].tile][c]
  <2>1. l \in DOMAIN plan.code /\ Does(plan, l, "load") /\ l < pc[u]
    BY <1>4, <1>6 DEF Does
  <2>2. Holds(tiles, loads) /\ u \in plan.threads /\ c \in DOMAIN loads[u][plan.code[l].tile]
    BY <1>2, <1>4
  <2>3. QED
    BY ONLY <1>7, <2>1, <2>2 DEF Holds
<1>9. QED
  BY <1>1, <1>2, <1>3, <1>4, <1>8

LEMMA SumsKept ==
  ASSUME SoundPlan(plan), Inv, NEW th \in plan.threads, NEW op, At(th, op), Advance(th),
         sum' = [sum EXCEPT ![th] = [o \in DOMAIN @ |-> sum'[th][o]]],
         \A o \in plan.outputs :
           sum'[th][o] = SumUpTo(plan, th, o, pc[th]) \cup Summand(plan, th, o, pc[th])
  PROVE  /\ SumRight' /\ DOMAIN sum' = plan.threads
         /\ \A u \in plan.threads : DOMAIN sum'[u] = plan.outputs
<1>1. /\ pc[th] \in DOMAIN plan.code /\ plan' = plan /\ pc'[th] = pc[th] + 1
      /\ \A u \in plan.threads \ {th} : pc'[u] = pc[u]
  BY Advances, CodeDomain
<1>2. DOMAIN sum = plan.threads /\ \A u \in plan.threads : DOMAIN sum[u] = plan.outputs
  BY DataTypes
<1>3. /\ DOMAIN sum' = plan.threads /\ DOMAIN sum'[th] = plan.outputs
      /\ \A u \in plan.threads \ {th} : sum'[u] = sum[u]
  BY <1>2
<1>4. ASSUME NEW o \in plan.outputs
      PROVE  sum'[th][o] = SumUpTo(plan, th, o, pc[th] + 1)
  <2>1. SumUpTo(plan, th, o, pc[th] + 1) = SumUpTo(plan, th, o, pc[th]) \cup Summand(plan, th, o, pc[th])
    BY <1>1, SumUpToNext
  <2>2. QED
    BY <2>1
<1>5. QED
  BY <1>1, <1>2, <1>3, <1>4 DEF SumRight, Inv

LEMMA MultiplyKeeps ==
  ASSUME SoundPlan(plan), Inv, NEW th \in plan.threads, MultiplyTile(th)
  PROVE  Inv'
<1> DEFINE s == Statement(th)
<1>1. /\ At(th, "multiply") /\ Advance(th) /\ UNCHANGED <<As, Bs, C>>
      /\ sum' = [sum EXCEPT ![th] = [o \in DOMAIN @ |->
           @[o] \cup {p \in Products(th, s, o) : Zero \notin {p[2], p[3]}}]]
  BY DEF MultiplyTile
<1>2. UNCHANGED <<As, Bs>> /\ UNCHANGED C /\ "multiply" # "load" /\ "multiply" # "store"
      /\ "multiply" # "sync"
  BY <1>1
<1>3. /\ Does(plan, pc[th], "multiply") /\ pc[th] \in DOMAIN plan.code /\ s = plan.code[pc[th]]
  BY <1>1, Advances, CodeDomain DEF Statement
<1>4. DOMAIN sum = plan.threads /\ DOMAIN sum[th] = plan.outputs
  BY DataTypes
<1>5. ASSUME NEW o \in plan.outputs
      PROVE  {p \in Products(th, s, o) : Zero \notin {p[2], p[3]}} = Summand(plan, th, o, pc[th])
  <2>1. SoundReads(plan) /\ Holds(As, plan.loadsA) /\ Holds(Bs, plan.loadsB)
    BY DEF SoundPlan, Inv, TilesFilled
  <2>2. ASSUME NEW k \in 0 .. plan.depth - 1
        PROVE  /\ As[th[1]][s.buffer][<<plan.row[th][o], k>>] =
                    Found(plan, plan.loadsA, th, s.tile, <<plan.row[th][o], k>>)
               /\ Bs[th[1]][s.buffer][<<k, plan.column[th][o]>>] =
                    Found(plan, plan.loadsB, th, s.tile, <<k, plan.column[th][o]>>)
    <3>1. /\ Loaders(plan, plan.loadsA, th, s.tile, <<plan.row[th][o], k>>) # {}
          /\ Loaders(plan, plan.loadsB, th, s.tile, <<k, plan.column[th][o]>>) # {}
      BY <1>3, <2>1 DEF SoundReads
    <3>2. SoundLoads(plan, plan.loadsA, plan.tileA) /\ SoundLoads(plan, plan.loadsB, plan.tileB)
      BY DEF SoundPlan
    <3>3. \A c : Loaders(plan, plan.loadsA, th, s.tile, c) # {} =>
            As[th[1]][s.buffer][c] = Found(plan, plan.loadsA, th, s.tile, c)
      BY ONLY <1>1, <2>1, <3>2, SoundPlan(plan), Inv, th \in plan.threads, TileIsThere
    <3>4. \A c : Loaders(plan, plan.loadsB, th, s.tile, c) # {} =>
            Bs[th[1]][s.buffer][c] = Found(plan, plan.loadsB, th, s.tile, c)
      BY ONLY <1>1, <2>1, <3>2, SoundPlan(plan), Inv, th \in plan.threads, TileIsThere
    <3>5. QED
      BY <3>1, <3>3, <3>4
  <2> HIDE DEF s
  <2>3. Products(th, s, o) = Terms(plan, th, o, s.tile)
    <3> DEFINE found(k) == <<s.tile * plan.depth + k, As[th[1]][s.buffer][<<plan.row[th][o], k>>],
                             Bs[th[1]][s.buffer][<<k, plan.column[th][o]>>]>>
               term(k) == <<s.tile * plan.depth + k,
                            Found(plan, plan.loadsA, th, s.tile, <<plan.row[th][o], k>>),
                            Found(plan, plan.loadsB, th, s.tile, <<k, plan.column[th][o]>>)>>
    <3>1. \A k \in 0 .. plan.depth - 1 : found(k) = term(k)
      BY <2>2
    <3>2. Products(th, s, o) = {found(k) : k \in 0 .. plan.depth - 1}
      BY DEF Products
    <3>3. Terms(plan, th, o, s.tile) = {term(k) : k \in 0 .. plan.depth - 1}
      BY DEF Terms
    <3> HIDE DEF found, term
    <3>4. QED
      BY <3>1, <3>2, <3>3
  <2>4. QED
    BY <1>3, <2>3 DEF Summand
<1> HIDE DEF s
<1>6. /\ sum' = [sum EXCEPT ![th] = [o \in DOMAIN @ |-> sum'[th][o]]]
      /\ \A o \in plan.outputs :
           sum'[th][o] = sum[th][o] \cup {p \in Products(th, s, o) : Zero \notin {p[2], p[3]}}
  BY <1>1, <1>4
<1>7. \A o \in plan.outputs :
        sum'[th][o] = SumUpTo(plan, th, o, pc[th]) \cup Summand(plan, th, o, pc[th])
  BY <1>5, <1>6 DEF Inv, SumRight
<1>8. /\ SumRight' /\ DOMAIN sum' = plan.threads
      /\ \A u \in plan.threads : DOMAIN sum'[u] = plan.outputs
  BY <1>1, <1>6, <1>7, SumsKept
<1>9. Typed'
  BY <1>1, <1>2, <1>8, DataTypes, KeepsTypes
<1>10. TilesFilled' /\ OutputRight' /\ Lockstep' /\ HostInv'
  BY <1>1, <1>2, KeepsTiles, KeepsOutput, AdvanceKeepsControl
<1>11. QED
  BY <1>8, <1>9, <1>10 DEF Inv

LEMMA MultiplyAllKeeps ==
  ASSUME SoundPlan(plan), Inv, NEW th \in plan.threads, MultiplyAll(th)
  PROVE  Inv'
<1>1. /\ At(th, "dotProduct") /\ Advance(th) /\ UNCHANGED <<As, Bs, C>>
      /\ sum' = [sum EXCEPT ![th] = [o \in DOMAIN @ |->
           IF plan.cell[th][o] \in DOMAIN C THEN plan.product[plan.cell[th][o]] ELSE {}]]
  BY DEF MultiplyAll
<1>2. UNCHANGED <<As, Bs>> /\ UNCHANGED C /\ "dotProduct" # "load" /\ "dotProduct" # "store"
      /\ "dotProduct" # "sync" /\ "dotProduct" # "multiply"
  BY <1>1
<1>3. /\ Does(plan, pc[th], "dotProduct") /\ pc[th] \in DOMAIN plan.code
  BY <1>1, Advances, CodeDomain
<1>4. DOMAIN sum = plan.threads /\ DOMAIN sum[th] = plan.outputs /\ DOMAIN C = DOMAIN plan.product
  BY DataTypes
<1>5. ASSUME NEW o \in plan.outputs
      PROVE  SumUpTo(plan, th, o, pc[th]) = {}
  <2>1. \A i \in DOMAIN plan.code : i < pc[th] =>
          ~Does(plan, i, "dotProduct") /\ ~Does(plan, i, "multiply")
    BY <1>3 DEF SoundPlan, SoundCode
  <2>2. \A i \in DOMAIN plan.code : i < pc[th] => Summand(plan, th, o, i) = {}
    BY <2>1 DEF Summand
  <2>3. QED
    BY <2>2 DEF SumUpTo
<1>6. \A o \in plan.outputs :
        Summand(plan, th, o, pc[th]) =
          IF plan.cell[th][o] \in DOMAIN C THEN plan.product[plan.cell[th][o]] ELSE {}
  <2>1. ~Does(plan, pc[th], "multiply")
    BY <1>3 DEF Does
  <2>2. QED
    BY <1>3, <1>4, <2>1 DEF Summand
<1>7. /\ sum' = [sum EXCEPT ![th] = [o \in DOMAIN @ |-> sum'[th][o]]]
      /\ \A o \in plan.outputs :
           sum'[th][o] = IF plan.cell[th][o] \in DOMAIN C THEN plan.product[plan.cell[th][o]] ELSE {}
  BY <1>1, <1>4
<1>8. \A o \in plan.outputs :
        sum'[th][o] = SumUpTo(plan, th, o, pc[th]) \cup Summand(plan, th, o, pc[th])
  BY <1>5, <1>6, <1>7
<1>9. /\ SumRight' /\ DOMAIN sum' = plan.threads
      /\ \A u \in plan.threads : DOMAIN sum'[u] = plan.outputs
  BY <1>1, <1>7, <1>8, SumsKept
<1>10. Typed'
  BY <1>1, <1>2, <1>9, DataTypes, KeepsTypes
<1>11. TilesFilled' /\ OutputRight' /\ Lockstep' /\ HostInv'
  BY <1>1, <1>2, KeepsTiles, KeepsOutput, AdvanceKeepsControl
<1>12. QED
  BY <1>9, <1>10, <1>11 DEF Inv

(* A thread stores the product's element, or none.                         *)
LEMMA StoreKeeps ==
  ASSUME SoundPlan(plan), Inv, NEW th \in plan.threads, Store(th)
  PROVE  Inv' /\ \A c \in DOMAIN plan.product : C'[c] \in {C[c], plan.product[c]}
<1> DEFINE o == Statement(th).output
           c0 == plan.cell[th][o]
<1>1. /\ At(th, "store") /\ Advance(th) /\ UNCHANGED <<As, Bs, sum>>
      /\ C' = Overwrite(C, [x \in {c0} \cap DOMAIN C |-> sum[th][o]])
  BY DEF Store
<1>2. UNCHANGED <<As, Bs>> /\ UNCHANGED sum /\ "store" # "load" /\ "store" # "sync"
      /\ "store" \in {"load", "sync", "store"}
  BY <1>1
<1>3. /\ Does(plan, pc[th], "store") /\ pc[th] \in 1 .. Len(plan.code)
      /\ pc'[th] = pc[th] + 1 /\ plan' = plan
      /\ \A u \in plan.threads \ {th} : pc'[u] = pc[u]
      /\ DOMAIN plan.code = 1 .. Len(plan.code)
  BY <1>1, Advances, CodeDomain
<1>4. o = plan.code[pc[th]].output /\ o \in plan.outputs
  BY <1>3 DEF Statement, SoundPlan, SoundCode
<1>5. DOMAIN C = DOMAIN plan.product
  BY DataTypes
<1>6. c0 \in DOMAIN plan.product => sum[th][o] = plan.product[c0]
  <2>1. sum[th][o] = SumUpTo(plan, th, o, pc[th])
    BY <1>4 DEF Inv, SumRight
  <2>2. plan.cell[th][plan.code[pc[th]].output] \in DOMAIN plan.product =>
          SumUpTo(plan, th, plan.code[pc[th]].output, pc[th]) =
            plan.product[plan.cell[th][plan.code[pc[th]].output]]
    BY <1>3 DEF SoundPlan
  <2>3. QED
    BY <1>4, <2>1, <2>2
<1> HIDE DEF o, c0
<1>7. /\ DOMAIN C' = DOMAIN plan.product
      /\ \A c \in DOMAIN plan.product : C'[c] = IF c = c0 THEN sum[th][o] ELSE C[c]
  BY <1>1, <1>5 DEF Overwrite
<1>8. \A c \in DOMAIN plan.product : C'[c] \in {C[c], plan.product[c]}
  BY <1>6, <1>7
<1>9. OutputRight'
  <2> SUFFICES ASSUME NEW u \in plan.threads, NEW n \in DOMAIN plan.code,
                      Does(plan, n, "store"), n < pc'[u],
                      plan.cell[u][plan.code[n].output] \in DOMAIN plan.product
               PROVE  C'[plan.cell[u][plan.code[n].output]] = plan.product[plan.cell[u][plan.code[n].output]]
    BY <1>3 DEF OutputRight
  <2>1. CASE n < pc[u]
    <3>1. C[plan.cell[u][plan.code[n].output]] = plan.product[plan.cell[u][plan.code[n].output]]
      BY <2>1 DEF Inv, OutputRight
    <3>2. QED
      BY <1>8, <3>1
  <2>2. CASE ~(n < pc[u])
    <3>1. u = th /\ n = pc[th]
      BY <1>3, <2>2
    <3>2. plan.cell[u][plan.code[n].output] = c0
      BY <1>4, <3>1 DEF c0
    <3>3. QED
      BY <1>6, <1>7, <3>2
  <2>3. QED
    BY <2>1, <2>2
<1>10. Typed'
  BY <1>1, <1>2, <1>7, DataTypes, KeepsTypes
<1>11. TilesFilled' /\ SumRight' /\ Lockstep' /\ HostInv'
  BY <1>1, <1>2, KeepsTiles, KeepsSums, AdvanceKeepsControl
<1>12. QED
  BY <1>8, <1>9, <1>10, <1>11 DEF Inv

-----------------------------------------------------------------------------
(* The host. *)

(* What the host's steps leave alone. *)
LEMMA HostMoves ==
  ASSUME SoundPlan(plan), Inv, NEW statement, HostAt(statement)
  PROVE  /\ plan' = plan /\ Blocks0' = Blocks0 /\ LaunchAt' = LaunchAt
         /\ UNCHANGED <<job, As, Bs, sum>>
         /\ hostPc \in 1 .. Len(plan.host) /\ hostPc' = hostPc + 1
         /\ hostPc' \in 1 .. Len(plan.host) + 1 /\ hostPc' \in Nat
         /\ plan.host[hostPc] = statement
<1>1. /\ hostPc \in DOMAIN plan.host /\ plan.host[hostPc] = statement
      /\ hostPc' = hostPc + 1 /\ UNCHANGED <<job, As, Bs, sum>>
  BY DEF HostAt
<1>2. hostPc \in 1 .. Len(plan.host) /\ Len(plan.host) \in Nat
  BY <1>1, PlanHost
<1>3. hostPc' \in 1 .. Len(plan.host) + 1 /\ hostPc' \in Nat
  BY <1>1, <1>2
<1>4. QED
  BY <1>1, <1>2, <1>3, SameCall

LEMMA MemsetKeeps ==
  ASSUME SoundPlan(plan), Inv, Memset
  PROVE  /\ Inv' /\ UNCHANGED result /\ plan' = plan
         /\ \A c \in DOMAIN plan.product : C[c] = Unwritten /\ C'[c] = Blank
         /\ ~Returned /\ ~Returned'
<1>1. HostAt("memset") /\ C' = [c \in DOMAIN C |-> Blank] /\ UNCHANGED <<pc, result>>
  BY DEF Memset
<1>2. /\ plan' = plan /\ Blocks0' = Blocks0 /\ LaunchAt' = LaunchAt
      /\ UNCHANGED <<job, As, Bs, sum>> /\ hostPc' = hostPc + 1
      /\ hostPc \in 1 .. Len(plan.host) /\ plan.host[hostPc] = "memset"
      /\ hostPc' \in 1 .. Len(plan.host) + 1 /\ hostPc' \in Nat
  BY <1>1, HostMoves
<1>3. hostPc = 1 /\ LaunchAt = 2 /\ hostPc' = 2 /\ Len(plan.host) = 3
  <2>1. hostPc = 1
    BY <1>2, PlanHost
  <2>2. LaunchAt \in 1 .. 2 /\ LaunchAt # 1 /\ LaunchAt = Len(plan.host) - 1
    BY <1>2, <2>1, PlanHost
  <2>3. Len(plan.host) \in 2 .. 3
    BY PlanHost
  <2>4. QED
    BY <1>2, <2>1, <2>2, <2>3
<1>4. \A th \in plan.threads : pc[th] = 0
  BY <1>3 DEF Inv, HostInv
<1>5. HostInv'
  BY <1>1, <1>2, <1>3, <1>4 DEF HostInv
<1>6. DOMAIN C = DOMAIN plan.product
  BY DataTypes
<1>7. Lockstep' /\ TilesFilled' /\ SumRight'
  BY <1>1, <1>2 DEF Inv, Lockstep, TilesFilled, Holds, Current, SumRight
<1>8. OutputRight'
  <2>1. DOMAIN plan.code = 1 .. Len(plan.code)
    BY CodeDomain
  <2>2. QED
    BY <1>1, <1>2, <1>4, <2>1 DEF OutputRight
<1>9. Typed'
  <2>1. TypeOK'
    BY <1>1, <1>2, <1>6 DEF Inv, Typed, TypeOK, Plan
  <2>2. QED
    BY <1>1, <1>2, <2>1 DEF Inv, Typed
<1>10. \A c \in DOMAIN plan.product : C[c] = Unwritten /\ C'[c] = Blank
  BY <1>1, <1>3, <1>6 DEF Inv, HostInv
<1>11. ~Returned /\ ~Returned'
  BY <1>2, <1>3 DEF Returned
<1>12. QED
  BY <1>1, <1>2, <1>5, <1>7, <1>8, <1>9, <1>10, <1>11 DEF Inv

LEMMA LaunchKeeps ==
  ASSUME SoundPlan(plan), Inv, Launch
  PROVE  Inv' /\ UNCHANGED <<C, result>> /\ plan' = plan /\ ~Returned /\ ~Returned'
<1>1. HostAt("launch") /\ pc' = [th \in plan.threads |-> 1] /\ UNCHANGED <<C, result>>
  BY DEF Launch
<1>2. /\ plan' = plan /\ Blocks0' = Blocks0 /\ LaunchAt' = LaunchAt
      /\ UNCHANGED <<job, As, Bs, sum>> /\ hostPc' = hostPc + 1
      /\ hostPc \in 1 .. Len(plan.host) /\ plan.host[hostPc] = "launch"
      /\ hostPc' \in 1 .. Len(plan.host) + 1 /\ hostPc' \in Nat
  BY <1>1, HostMoves
<1>3. hostPc = LaunchAt /\ LaunchAt = Len(plan.host) - 1 /\ LaunchAt \in 1 .. 2
  BY <1>2, PlanHost
<1>4. HostInv'
  <2> DEFINE l == LaunchAt
  <2>1. ~(hostPc' <= LaunchAt') /\ hostPc' # 1
    <3>1. hostPc' = l + 1 /\ LaunchAt' = l /\ l \in 1 .. 2
      BY <1>2, <1>3
    <3> HIDE DEF l
    <3>2. QED
      BY <3>1
  <2>2. \A th \in plan.threads : pc'[th] # 0
    BY <1>1
  <2>3. QED
    BY <1>2, <2>1, <2>2 DEF HostInv
<1>5. /\ \A th \in plan.threads : pc'[th] = 1 /\ pc[th] = 0
      /\ pc' \in [plan.threads -> Int]
  BY <1>1, <1>3 DEF Inv, HostInv
<1>6. DOMAIN plan.code = 1 .. Len(plan.code) /\ Len(plan.code) \in Nat
  BY CodeDomain
<1>7. Lockstep' /\ TilesFilled' /\ OutputRight'
  <2>1. Lockstep'
    BY <1>2, <1>5, <1>6 DEF Lockstep
  <2>2. TilesFilled'
    BY <1>2, <1>5, <1>6 DEF TilesFilled, Holds
  <2>3. OutputRight'
    BY <1>2, <1>5, <1>6 DEF OutputRight
  <2>4. QED
    BY ONLY <2>1, <2>2, <2>3
<1>8. SumRight'
  <2>1. \A th \in plan.threads : \A o \in plan.outputs :
          SumUpTo(plan, th, o, 1) = {} /\ SumUpTo(plan, th, o, 0) = {}
    BY SumUpToNothing
  <2>2. \A th \in plan.threads : \A o \in plan.outputs : sum[th][o] = SumUpTo(plan, th, o, 0)
    BY <1>5 DEF Inv, SumRight
  <2>3. QED
    BY ZenonT(60), <1>2, <1>5, <2>1, <2>2 DEF SumRight
<1>9. Typed'
  <2>1. TypeOK'
    BY <1>1, <1>2, <1>5, <1>6 DEF Inv, Typed, TypeOK, Plan
  <2>2. QED
    BY <1>1, <1>2, <1>5, <2>1 DEF Inv, Typed
<1>10. ~Returned /\ ~Returned'
  BY <1>2, <1>3 DEF Returned
<1>11. QED
  BY <1>1, <1>2, <1>4, <1>7, <1>8, <1>9, <1>10 DEF Inv

(* When all threads have ended, every element shown is the product's. *)
LEMMA AllStored ==
  ASSUME SoundPlan(plan), Inv, \A th \in plan.threads : pc[th] > Len(plan.code), NEW c \in plan.shown
  PROVE  c \in DOMAIN plan.product /\ C[c] = plan.product[c]
<1>1. c \in DOMAIN plan.product
  BY DEF SoundPlan
<1>2. PICK th \in plan.threads, n \in DOMAIN plan.code :
         Does(plan, n, "store") /\ plan.cell[th][plan.code[n].output] = c
  BY DEF SoundPlan
<1>3. n < pc[th]
  <2>1. n \in 1 .. Len(plan.code) /\ Len(plan.code) \in Nat /\ pc[th] \in Int /\ pc[th] > Len(plan.code)
    BY CodeDomain DEF Inv, Typed
  <2>2. QED
    BY <2>1
<1>4. QED
  BY <1>1, <1>2, <1>3 DEF Inv, OutputRight

LEMMA CopyBackKeeps ==
  ASSUME SoundPlan(plan), Inv, CopyBack
  PROVE  /\ Inv' /\ UNCHANGED C /\ result' = C /\ plan' = plan
         /\ \A c \in plan.shown : C[c] = plan.product[c]
         /\ ~Returned /\ Returned'
<1>1. /\ HostAt("copyBack") /\ \A th \in plan.threads : pc[th] > Len(plan.code)
      /\ result' = C /\ UNCHANGED <<pc, C>>
  BY DEF CopyBack
<1>2. /\ plan' = plan /\ Blocks0' = Blocks0 /\ LaunchAt' = LaunchAt
      /\ UNCHANGED <<job, As, Bs, sum>> /\ hostPc' = hostPc + 1
      /\ hostPc \in 1 .. Len(plan.host) /\ plan.host[hostPc] = "copyBack"
      /\ hostPc' \in 1 .. Len(plan.host) + 1 /\ hostPc' \in Nat
  BY <1>1, HostMoves
<1>3. hostPc = LaunchAt + 1 /\ LaunchAt = Len(plan.host) - 1 /\ LaunchAt \in 1 .. 2
      /\ hostPc = Len(plan.host)
  BY <1>2, PlanHost
<1>4. HostInv'
  BY <1>1, <1>2, <1>3 DEF Inv, HostInv
<1>5. Lockstep' /\ TilesFilled' /\ SumRight' /\ OutputRight'
  <2>1. Lockstep'
    BY <1>1, <1>2 DEF Inv, Lockstep
  <2>2. TilesFilled'
    BY <1>1, <1>2 DEF Inv, TilesFilled, Holds, Current
  <2>3. SumRight'
    BY <1>1, <1>2 DEF Inv, SumRight
  <2>4. OutputRight'
    BY <1>1, <1>2 DEF Inv, OutputRight
  <2>5. QED
    BY ONLY <2>1, <2>2, <2>3, <2>4
<1>6. Typed'
  <2>1. TypeOK'
    BY <1>1, <1>2 DEF Inv, Typed, TypeOK, Plan
  <2>2. QED
    BY <1>1, <1>2, <2>1 DEF Inv, Typed
<1>7. ~Returned /\ Returned'
  BY <1>2, <1>3 DEF Returned
<1>8. \A c \in plan.shown : C[c] = plan.product[c]
  BY <1>1, AllStored
<1>9. QED
  BY <1>1, <1>2, <1>4, <1>5, <1>6, <1>7, <1>8 DEF Inv

-----------------------------------------------------------------------------
(* The invariant holds. *)

LEMMA InvInit == PlansSound /\ Init => Inv
<1> SUFFICES ASSUME PlansSound, Init
             PROVE  Inv
  OBVIOUS
<1>1. job \in DOMAIN Plan /\ SoundPlan(plan)
  BY DEF Init, PlansSound, plan, Plan
<1>2. /\ pc = [th \in plan.threads |-> 0] /\ hostPc = 1 /\ result = C
      /\ As = [b \in Blocks0 |-> [x \in Buffers |-> [c \in plan.tileA |-> Garbage]]]
      /\ Bs = [b \in Blocks0 |-> [x \in Buffers |-> [c \in plan.tileB |-> Garbage]]]
      /\ sum = [th \in plan.threads |-> [o \in plan.outputs |-> {}]]
      /\ C = [c \in DOMAIN plan.product |-> Unwritten]
  BY DEF Init, Blocks0
<1>3. /\ Len(plan.host) \in 2 .. 3 /\ Len(plan.code) \in Nat /\ LaunchAt \in 1 .. 2
      /\ DOMAIN plan.code = 1 .. Len(plan.code)
  BY <1>1, PlanHost, CodeDomain
<1>4. Garbage # Beyond
  BY DEF Garbage, Beyond
<1>5. Typed
  <2>1. \A th \in plan.threads : pc[th] \in 0 .. Len(plan.code) + 1
    BY <1>2, <1>3
  <2>2. hostPc \in 1 .. Len(plan.host) + 1
    BY <1>2, <1>3
  <2>3. \A b \in Blocks0 : \A x \in Buffers :
          /\ DOMAIN As[b][x] = plan.tileA /\ \A c \in plan.tileA : As[b][x][c] # Beyond
          /\ DOMAIN Bs[b][x] = plan.tileB /\ \A c \in plan.tileB : Bs[b][x][c] # Beyond
    BY <1>2, <1>4
  <2>4. TypeOK
    BY <1>1, <1>2, <2>1, <2>2, <2>3 DEF TypeOK, Blocks0
  <2>5. QED
    BY <1>2, <2>4 DEF Typed
<1>6. Lockstep /\ TilesFilled /\ OutputRight
  BY <1>2, <1>3 DEF Lockstep, TilesFilled, Holds, OutputRight
<1>7. HostInv
  BY <1>2, <1>3 DEF HostInv
<1>8. SumRight
  <2>1. \A th \in plan.threads : \A o \in plan.outputs : SumUpTo(plan, th, o, 0) = {}
    BY <1>1, SumUpToNothing
  <2>2. QED
    BY <1>2, <2>1 DEF SumRight
<1>9. QED
  BY <1>5, <1>6, <1>7, <1>8 DEF Inv

LEMMA StutterKeeps == Inv /\ UNCHANGED vars => Inv' /\ plan' = plan
<1> SUFFICES ASSUME Inv, UNCHANGED vars
             PROVE  Inv' /\ plan' = plan
  OBVIOUS
<1>1. UNCHANGED <<job, pc, As, Bs, sum, C, hostPc, result>>
  BY DEF vars
<1>2. plan' = plan /\ Blocks0' = Blocks0 /\ LaunchAt' = LaunchAt
  BY <1>1, SameCall
<1>3. TypeOK'
  BY <1>1, <1>2 DEF Inv, Typed, TypeOK, Plan
<1>4. Typed'
  BY <1>1, <1>2, <1>3 DEF Inv, Typed
<1>5. Lockstep' /\ HostInv'
  BY <1>1, <1>2 DEF Inv, Lockstep, HostInv
<1>6. TilesFilled' /\ SumRight' /\ OutputRight'
  <2>1. TilesFilled'
    BY <1>1, <1>2 DEF Inv, TilesFilled, Holds, Current
  <2>2. SumRight'
    BY <1>1, <1>2 DEF Inv, SumRight
  <2>3. OutputRight'
    BY <1>1, <1>2 DEF Inv, OutputRight
  <2>4. QED
    BY ONLY <2>1, <2>2, <2>3
<1>7. QED
  BY <1>2, <1>4, <1>5, <1>6 DEF Inv

(* What a thread's step does to the matrix. *)
LEMMA ThreadStep ==
  ASSUME SoundPlan(plan), Inv, NEW th \in plan.threads, Step(th)
  PROVE  /\ Inv' /\ UNCHANGED <<hostPc, result>> /\ plan' = plan
         /\ \A c \in DOMAIN plan.product : C'[c] \in {C[c], plan.product[c]}
<1>1. UNCHANGED <<job, hostPc, result>> /\ plan' = plan
  <2>1. UNCHANGED <<job, hostPc, result>>
    BY DEF Step, LoadTile, Synchronize, MultiplyTile, MultiplyAll, Store, Advance
  <2>2. QED
    BY <2>1, SameCall
<1>2. CASE Store(th)
  BY <1>1, <1>2, StoreKeeps
<1>3. CASE ~Store(th)
  <2>1. LoadTile(th) \/ Synchronize(th) \/ MultiplyTile(th) \/ MultiplyAll(th)
    BY <1>3 DEF Step
  <2>2. Inv'
    BY <2>1, LoadKeeps, SyncKeeps, MultiplyKeeps, MultiplyAllKeeps
  <2>3. UNCHANGED C
    BY <2>1 DEF LoadTile, Synchronize, MultiplyTile, MultiplyAll
  <2>4. QED
    BY <1>1, <2>2, <2>3
<1>4. QED
  BY <1>2, <1>3

LEMMA InvStep ==
  ASSUME SoundPlan(plan), Inv, [Next]_vars
  PROVE  Inv' /\ plan' = plan
<1>1. CASE UNCHANGED vars
  BY <1>1, StutterKeeps
<1>2. CASE HostStep
  BY <1>2, MemsetKeeps, LaunchKeeps, CopyBackKeeps DEF HostStep
<1>3. CASE \E th \in plan.threads : Step(th)
  BY <1>3, ThreadStep
<1>4. QED
  BY <1>1, <1>2, <1>3 DEF Next

LEMMA PlanIsSound == PlansSound /\ Inv => SoundPlan(plan)
  BY DEF PlansSound, Inv, Typed, TypeOK, plan, Plan

LEMMA InvHolds ==
  ASSUME PlansSound
  PROVE  Spec => []Inv
<1>1. Init => Inv
  BY InvInit
<1>2. Inv /\ [Next]_vars => Inv'
  BY InvStep, PlanIsSound
<1>3. QED
  BY <1>1, <1>2, PTL DEF Spec

LEMMA SoundPlansAreSafe ==
  ASSUME PlansSound
  PROVE  Spec => []MemorySafe
<1>1. Inv => MemorySafe
  BY PlanIsSound, InvNoRace DEF MemorySafe, Inv, Typed
<1>2. QED
  BY <1>1, InvHolds, PTL

LEMMA SoundPlansAreRight ==
  ASSUME PlansSound
  PROVE  Spec => ImplementsMatMul
<1>1. Init => Call!KInit
  <2> SUFFICES ASSUME Init
               PROVE  Call!KInit
    OBVIOUS
  <2>1. Inv /\ SoundPlan(plan)
    BY InvInit, PlanIsSound
  <2>2. hostPc = 1 /\ Len(plan.host) \in 2 .. 3
    BY <2>1, PlanHost DEF Init
  <2>3. ~Returned
    BY <2>2 DEF Returned
  <2>4. QED
    BY <2>3 DEF Call!KInit, Returned
<1>2. Inv /\ [Next]_vars =>
        [Call!KNext]_<<Shown(plan.product), Shown(C), Shown(result), Returned>>
  <2> SUFFICES ASSUME Inv, [Next]_vars
               PROVE  \/ Call!KNext
                      \/ UNCHANGED <<Shown(plan.product), Shown(C), Shown(result), Returned>>
    OBVIOUS
  <2>1. SoundPlan(plan) /\ Inv' /\ plan' = plan /\ plan.shown \subseteq DOMAIN plan.product
    BY PlanIsSound, InvStep DEF SoundPlan
  <2>2. /\ DOMAIN Shown(plan.product) = plan.shown
        /\ Shown(plan.product)' = Shown(plan.product)
        /\ Shown(C)' = [c \in plan.shown |-> C'[c]]
        /\ Shown(result)' = [c \in plan.shown |-> result'[c]]
    BY <2>1 DEF Shown
  <2>3. CASE UNCHANGED vars
    BY <2>1, <2>3 DEF Shown, Returned, vars
  <2>4. CASE Memset
    <3>1. /\ UNCHANGED result /\ ~Returned /\ ~Returned'
          /\ \A c \in DOMAIN plan.product : C[c] = Unwritten /\ C'[c] = Blank
      BY <2>1, <2>4, MemsetKeeps
    <3>2. UNCHANGED Returned
      <4>1. ~Returned /\ ~Returned'
        BY <3>1
      <4>2. QED
        BY ONLY <4>1 DEF Returned
    <3>3. Shown(C)' = [c \in plan.shown |-> Blank]
      BY <2>1, <2>2, <3>1
    <3>4. \A c \in plan.shown : Shown(C)[c] # Shown(plan.product)[c]
      BY <2>1, <3>1 DEF Shown, SoundPlan
    <3>5. UNCHANGED Shown(result)
      BY <2>1, <3>1 DEF Shown
    <3>6. Call!Clear
      BY <2>2, <3>2, <3>3, <3>4, <3>5 DEF Call!Clear
    <3>7. QED
      BY <3>6 DEF Call!KNext
  <2>5. CASE Launch
    <3>1. UNCHANGED <<C, result>> /\ ~Returned /\ ~Returned'
      BY <2>1, <2>5, LaunchKeeps
    <3>2. UNCHANGED Returned
      <4>1. ~Returned /\ ~Returned'
        BY <3>1
      <4>2. QED
        BY ONLY <4>1 DEF Returned
    <3>3. UNCHANGED <<Shown(plan.product), Shown(C), Shown(result)>>
      BY <2>1, <3>1 DEF Shown
    <3>4. QED
      BY <3>2, <3>3
  <2>6. CASE CopyBack
    <3>1. /\ UNCHANGED C /\ result' = C
          /\ \A c \in plan.shown : C[c] = plan.product[c]
          /\ ~Returned /\ Returned'
      BY <2>1, <2>6, CopyBackKeeps
    <3>2. Shown(C) = Shown(plan.product) /\ Shown(result)' = Shown(plan.product)
      BY <2>2, <3>1 DEF Shown
    <3>3. Returned' = TRUE
      BY <3>1, Zenon
    <3>4. UNCHANGED Shown(C)
      BY <2>1, <3>1 DEF Shown
    <3>5. Call!Return
      BY <2>2, <3>1, <3>2, <3>3, <3>4 DEF Call!Return
    <3>6. QED
      BY <3>5 DEF Call!KNext
  <2>7. CASE \E th \in plan.threads : Step(th)
    <3>1. /\ UNCHANGED <<hostPc, result>>
          /\ \A c \in DOMAIN plan.product : C'[c] \in {C[c], plan.product[c]}
      BY <2>1, <2>7, ThreadStep
    <3>2. \A c \in plan.shown : Shown(C)'[c] \in {Shown(C)[c], Shown(plan.product)[c]}
      BY <2>1, <2>2, <3>1 DEF Shown
    <3>3. DOMAIN Shown(C)' = plan.shown /\ UNCHANGED <<Shown(result), Returned>>
      BY <2>1, <2>2, <3>1 DEF Shown, Returned
    <3>4. Call!Produce
      BY <2>2, <3>2, <3>3 DEF Call!Produce
    <3>5. QED
      BY <3>4 DEF Call!KNext
  <2>8. QED
    BY <2>3, <2>4, <2>5, <2>6, <2>7 DEF Next, HostStep
<1>3. QED
  BY <1>1, <1>2, InvHolds, PTL DEF Spec, ImplementsMatMul, Call!KSpec


-----------------------------------------------------------------------------
(* Arithmetic. *)

LEMMA DivMod ==
  ASSUME NEW k \in Nat \ {0}, NEW a \in Nat
  PROVE  a \div k \in Nat /\ a % k \in 0 .. k - 1 /\ a = (a \div k) * k + (a % k)
<1> DEFINE q == a \div k
           r == a % k
<1>1. a = k * q + r /\ r \in 0 .. k - 1 /\ q \in Int
  OBVIOUS
<1> HIDE DEF q, r
<1>2. a < k * q + k /\ k * q + k = k * (q + 1)
  BY <1>1
<1>3. ASSUME q < 0
      PROVE  FALSE
  <2> DEFINE z == -(q + 1)
  <2>1. z \in Nat /\ q + 1 = -z
    BY <1>1, <1>3
  <2> HIDE DEF z
  <2>2. k * z >= 0 /\ k * (-z) = -(k * z)
    BY <2>1
  <2>3. QED
    BY <1>1, <1>2, <2>1, <2>2
<1>4. q \in Nat
  BY <1>1, <1>3
<1>5. q * k = k * q
  BY <1>4
<1>6. q \in Nat /\ r \in 0 .. k - 1 /\ a = q * k + r
  BY <1>1, <1>4, <1>5
<1>7. QED
  BY <1>6 DEF q, r

(* A pair of a quotient and a remainder makes one number. *)
LEMMA PairUnique ==
  ASSUME NEW k \in Nat \ {0}, NEW p \in Nat, NEW q \in Nat,
         NEW r \in 0 .. k - 1, NEW z \in 0 .. k - 1,
         p * k + r = q * k + z
  PROVE  p = q /\ r = z
<1>1. CASE p < q
  <2>1. (p + 1) * k <= q * k
    BY <1>1
  <2>2. (p + 1) * k = p * k + k
    OBVIOUS
  <2>3. QED
    BY <2>1, <2>2
<1>2. CASE q < p
  <2>1. (q + 1) * k <= p * k
    BY <1>2
  <2>2. (q + 1) * k = q * k + k
    OBVIOUS
  <2>3. QED
    BY <2>1, <2>2
<1>3. QED
  BY <1>1, <1>2

(* The quotient and the remainder of such a pair. *)
LEMMA PairDivMod ==
  ASSUME NEW k \in Nat \ {0}, NEW p \in Nat, NEW r \in 0 .. k - 1
  PROVE  (p * k + r) \div k = p /\ (p * k + r) % k = r
<1> DEFINE a == p * k + r
<1>1. a \in Nat /\ r \in Nat
  OBVIOUS
<1> HIDE DEF a
<1>2. a \div k \in Nat /\ a % k \in 0 .. k - 1 /\ a = (a \div k) * k + (a % k)
  BY <1>1, DivMod
<1>3. p * k + r = (a \div k) * k + (a % k)
  BY <1>2 DEF a
<1>4. p = a \div k /\ r = a % k
  BY ONLY <1>2, <1>3, k \in Nat \ {0}, p \in Nat, r \in 0 .. k - 1, PairUnique
<1>5. QED
  BY <1>4 DEF a

(* The quotient of a number below q times k is below q.                    *)
LEMMA QuotientBelow ==
  ASSUME NEW k \in Nat \ {0}, NEW q \in Nat, NEW a \in Nat, a < q * k
  PROVE  a \div k \in 0 .. q - 1
<1>1. a \div k \in Nat /\ a % k \in 0 .. k - 1 /\ a = (a \div k) * k + (a % k)
  BY DivMod
<1>2. ASSUME NEW z \in Nat, q <= z
      PROVE  q * k <= z * k
  BY <1>2
<1>3. QED
  BY <1>1, <1>2

LEMMA ProductBelow ==
  ASSUME NEW k \in Nat \ {0}, NEW q \in Nat, NEW b \in 0 .. q - 1, NEW r \in 0 .. k - 1
  PROVE  b * k + r \in Nat /\ b * k + r < q * k
<1>1. (b + 1) * k <= q * k
  OBVIOUS
<1>2. (b + 1) * k = b * k + k /\ b * k \in Nat
  OBVIOUS
<1>3. QED
  BY <1>1, <1>2

LEMMA CeilDivEnough ==
  ASSUME NEW a \in Nat \ {0}, NEW b \in Nat \ {0}
  PROVE  CeilDiv(a, b) \in Nat \ {0} /\ a <= CeilDiv(a, b) * b
<1> DEFINE n == a + b - 1
<1>1. n \in Nat /\ n >= b
  OBVIOUS
<1> HIDE DEF n
<1>2. n \div b \in Nat /\ n % b \in 0 .. b - 1 /\ n = (n \div b) * b + (n % b)
  BY <1>1, DivMod
<1>3. n \div b # 0
  <2>1. CASE n \div b = 0
    BY <1>1, <1>2, <2>1
  <2>2. QED
    BY <2>1
<1>4. (n \div b) * b \in Nat
  BY <1>2
<1>5. a <= (n \div b) * b
  BY <1>2, <1>4 DEF n
<1>6. CeilDiv(a, b) = n \div b
  BY DEF CeilDiv, n
<1>7. QED
  BY <1>2, <1>3, <1>5, <1>6

LEMMA WholeQuotient ==
  ASSUME NEW a \in Nat \ {0}, NEW b \in Nat \ {0}, a % b = 0
  PROVE  a \div b \in Nat \ {0} /\ (a \div b) * b = a
<1>1. a \div b \in Nat /\ a % b \in 0 .. b - 1 /\ a = (a \div b) * b + (a % b)
  BY DivMod
<1>2. (a \div b) * b = a
  BY <1>1
<1>3. a \div b # 0
  <2>1. CASE a \div b = 0
    BY <1>2, <2>1
  <2>2. QED
    BY <2>1
<1>4. QED
  BY <1>1, <1>2, <1>3

-----------------------------------------------------------------------------
(* Plans and calls. *)

LEMMA GemmTable == \A f : Table(f) = f
  BY DEF Table

LEMMA PlanIs ==
  ASSUME NEW j
  PROVE  LET p == PlanOf(j) IN
         /\ p.code = Code(j) /\ p.host = j.host.code
         /\ p.threads = Threads(j) /\ p.outputs = Outputs(j) /\ p.tileA = TileA(j) /\ p.tileB = TileB(j)
         /\ p.depth = j.TSK
         /\ \A th \in Threads(j) : \A t \in TilesOf(j) : p.loadsA[th][t] = LoadsA(j, th, t)
         /\ \A th \in Threads(j) : \A t \in TilesOf(j) : p.loadsB[th][t] = LoadsB(j, th, t)
         /\ \A th \in Threads(j) : \A o \in Outputs(j) : p.row[th][o] = Row(j, th, o[1])
         /\ \A th \in Threads(j) : \A o \in Outputs(j) : p.column[th][o] = Column(j, th, o[2])
         /\ \A th \in Threads(j) : \A o \in Outputs(j) : p.cell[th][o] = CellOf(j, th, o)
         /\ p.product = [c \in Cells(j) |-> DotProduct(j, c)]
         /\ p.shown = ShownCells(j)
<1>1. /\ PlanOf(j).code = Code(j) /\ PlanOf(j).host = j.host.code
      /\ PlanOf(j).threads = Threads(j) /\ PlanOf(j).outputs = Outputs(j)
      /\ PlanOf(j).tileA = TileA(j) /\ PlanOf(j).tileB = TileB(j) /\ PlanOf(j).depth = j.TSK
  BY DEF PlanOf
<1>2. \A th \in Threads(j) : \A t \in TilesOf(j) : PlanOf(j).loadsA[th][t] = LoadsA(j, th, t)
  <2> DEFINE f == [th \in Threads(j) |-> Table([t \in TilesOf(j) |-> Table(LoadsA(j, th, t))])]
  <2>1. PlanOf(j).loadsA = f
    BY GemmTable DEF PlanOf
  <2>2. TAKE th \in Threads(j)
  <2>3. TAKE t \in TilesOf(j)
  <2> DEFINE g == [x \in TilesOf(j) |-> Table(LoadsA(j, th, x))]
  <2>4. f[th] = g
    BY GemmTable
  <2>5. g[t] = LoadsA(j, th, t)
    BY GemmTable
  <2>6. QED
    BY <2>1, <2>4, <2>5
<1>3. \A th \in Threads(j) : \A t \in TilesOf(j) : PlanOf(j).loadsB[th][t] = LoadsB(j, th, t)
  <2> DEFINE f == [th \in Threads(j) |-> Table([t \in TilesOf(j) |-> Table(LoadsB(j, th, t))])]
  <2>1. PlanOf(j).loadsB = f
    BY GemmTable DEF PlanOf
  <2>2. TAKE th \in Threads(j)
  <2>3. TAKE t \in TilesOf(j)
  <2> DEFINE g == [x \in TilesOf(j) |-> Table(LoadsB(j, th, x))]
  <2>4. f[th] = g
    BY GemmTable
  <2>5. g[t] = LoadsB(j, th, t)
    BY GemmTable
  <2>6. QED
    BY <2>1, <2>4, <2>5
<1>4. \A th \in Threads(j) : \A o \in Outputs(j) : PlanOf(j).row[th][o] = Row(j, th, o[1])
  <2>1. PlanOf(j).row = [th \in Threads(j) |-> [o \in Outputs(j) |-> Row(j, th, o[1])]]
    BY GemmTable DEF PlanOf
  <2>2. QED
    BY <2>1
<1>5. \A th \in Threads(j) : \A o \in Outputs(j) : PlanOf(j).column[th][o] = Column(j, th, o[2])
  <2>1. PlanOf(j).column = [th \in Threads(j) |-> [o \in Outputs(j) |-> Column(j, th, o[2])]]
    BY GemmTable DEF PlanOf
  <2>2. QED
    BY <2>1
<1>6. \A th \in Threads(j) : \A o \in Outputs(j) : PlanOf(j).cell[th][o] = CellOf(j, th, o)
  <2>1. PlanOf(j).cell = [th \in Threads(j) |-> [o \in Outputs(j) |-> CellOf(j, th, o)]]
    BY GemmTable DEF PlanOf
  <2>2. QED
    BY <2>1
<1>7. PlanOf(j).product = [c \in Cells(j) |-> DotProduct(j, c)]
  BY GemmTable DEF PlanOf
<1>8. PlanOf(j).shown = ShownCells(j)
  BY DEF PlanOf
<1>9. QED
  BY <1>1, <1>2, <1>3, <1>4, <1>5, <1>6, <1>7, <1>8

-----------------------------------------------------------------------------
(* What the thirteen programs are: Program lists them in GemmPlans.        *)

LEMMA KernelFields ==
  /\ \A k \in {matmul} : k.tiles = "none"
  /\ \A k \in {kernel2, kernel3, kernel4, matrixMulDoubleBuffered} : k.tiles = "double"
  /\ \A k \in {matrixTil, matrixMulTiled, WPT, vectorised, gemmFinal, gemm16, gemm2D, gemm2D_vec} :
       k.tiles = "single"
  /\ \A k \in {matmul, matrixTil, kernel2, kernel3, kernel4, matrixMulDoubleBuffered, matrixMulTiled, vectorised} :
       k.outputs = "adjacent"
  /\ \A k \in {WPT, gemmFinal, gemm16, gemm2D, gemm2D_vec} : k.outputs = "strided"
  /\ \A k \in {matmul, matrixTil, kernel2, kernel3, matrixMulDoubleBuffered, matrixMulTiled, WPT} : k.deal = "rows"
  /\ kernel4.deal = "vectors" /\ gemm2D_vec.deal = "vectors"
  /\ vectorised.deal = "overlapping" /\ gemmFinal.deal = "strided" /\ gemm16.deal = "strided"
  /\ gemm2D.deal = "crossed"
  /\ \A k \in {matmul, matrixTil, kernel2, kernel3, kernel4, matrixMulDoubleBuffered, matrixMulTiled, WPT, vectorised} :
       k.reads = "rows"
  /\ gemmFinal.reads = "columns, B by thread" /\ gemm16.reads = "B by thread"
  /\ gemm2D.reads = "columns" /\ gemm2D_vec.reads = "columns"
  BY DEF Kernel, matmul, matrixTil, kernel2, kernel3, kernel4, matrixMulDoubleBuffered, matrixMulTiled,
         WPT, vectorised, gemmFinal, gemm16, gemm2D, gemm2D_vec

LEMMA GuardedKernels ==
  /\ matrixMulDoubleBuffered.guarded = TRUE /\ matrixMulTiled.guarded = TRUE /\ WPT.guarded = TRUE
  /\ vectorised.guarded = TRUE /\ gemmFinal.guarded = TRUE /\ gemm16.guarded = TRUE
  /\ gemm2D.guarded = TRUE
  BY Zenon DEF Kernel, matrixMulDoubleBuffered, matrixMulTiled, WPT, vectorised, gemmFinal, gemm16, gemm2D

LEMMA GemmHosts ==
  /\ \A h \in {matmulHost, matrixMulDoubleBufferedHost, matrixMulTiledHost, WPTHost, vectorisedHost} :
       h.grid = "ceil"
  /\ \A h \in {matrixTilHost, kernel2Host, kernel3Host, kernel4Host, gemmFinalHost, gemm16Host} :
       h.grid = "floor"
  /\ gemm2DHost.grid = "multiple of SMS" /\ gemm2D_vecHost.grid = "SMS"
  /\ \A h \in {matmulHost, matrixTilHost, kernel2Host, kernel3Host, kernel4Host, matrixMulDoubleBufferedHost,
               matrixMulTiledHost, WPTHost, vectorisedHost, gemmFinalHost, gemm16Host, gemm2DHost, gemm2D_vecHost} :
       h.code \in Hosts
  BY DEF Host, Hosts, matmulHost, matrixTilHost, kernel2Host, kernel3Host, kernel4Host,
         matrixMulDoubleBufferedHost, matrixMulTiledHost, WPTHost, vectorisedHost, gemmFinalHost, gemm16Host,
         gemm2DHost, gemm2D_vecHost

(* What Program demands of the kernels that deal and read in one way.      *)
LEMMA ProgramKernels ==
  ASSUME NEW j, Program(j)
  PROVE  /\ j.kernel.tiles \in {"none", "single", "double"}
         /\ j.kernel.deal = "overlapping" => OneEach(j) /\ SquareTile(j) /\ ConstantData(j)
         /\ j.kernel.deal = "vectors" => j.kernel.reads \in {"rows", "columns"}
         /\ j.kernel.reads \in {"rows", "columns", "B by thread", "columns, B by thread"}
         /\ j.kernel.reads \in {"columns", "columns, B by thread"} => ConstantData(j) /\ SquareMatrices(j)
         /\ j.kernel.reads = "B by thread" => ConstantData(j) /\ j.host = gemm16Host
         /\ j.kernel.reads = "columns, B by thread" => j.host = gemmFinalHost
<1>1. CASE j.kernel \in {matmul, matrixTil, kernel2, kernel3, kernel4, matrixMulDoubleBuffered,
                        matrixMulTiled, WPT}
  <2>1. j.kernel.tiles \in {"none", "single", "double"}
    BY ONLY <1>1, KernelFields, ZenonT(60)
  <2>2. j.kernel.reads = "rows"
    BY ONLY <1>1, KernelFields, ZenonT(60)
  <2>3. j.kernel.deal \in {"rows", "vectors"}
    BY ONLY <1>1, KernelFields, ZenonT(60)
  <2>4. QED
    BY ONLY <2>1, <2>2, <2>3
<1>2. CASE j.kernel = vectorised /\ ConstantData(j) /\ OneEach(j) /\ SquareTile(j)
  <2>1. j.kernel.tiles = "single" /\ j.kernel.reads = "rows" /\ j.kernel.deal = "overlapping"
    BY ONLY <1>2, KernelFields
  <2>2. QED
    BY ONLY <1>2, <2>1
<1>3. CASE j.kernel = gemmFinal /\ j.host = gemmFinalHost /\ ConstantData(j) /\ SquareMatrices(j)
  <2>1. j.kernel.tiles = "single" /\ j.kernel.reads = "columns, B by thread" /\ j.kernel.deal = "strided"
    BY ONLY <1>3, KernelFields
  <2>2. QED
    BY ONLY <1>3, <2>1
<1>4. CASE j.kernel = gemm16 /\ j.host = gemm16Host /\ ConstantData(j)
  <2>1. j.kernel.tiles = "single" /\ j.kernel.reads = "B by thread" /\ j.kernel.deal = "strided"
    BY ONLY <1>4, KernelFields
  <2>2. QED
    BY ONLY <1>4, <2>1
<1>5. CASE j.kernel \in {gemm2D, gemm2D_vec} /\ ConstantData(j) /\ SquareMatrices(j)
  <2>1. /\ j.kernel.tiles = "single" /\ j.kernel.reads = "columns"
        /\ j.kernel.deal \in {"crossed", "vectors"}
    BY ONLY <1>5, KernelFields
  <2>2. QED
    BY ONLY <1>5, <2>1
<1>6. QED
  BY ONLY <1>1, <1>2, <1>3, <1>4, <1>5, Program(j) DEF Program, Runs

-----------------------------------------------------------------------------
(* Tiles, blocks and threads of a call.                                    *)

LEMMA GemmSizes ==
  ASSUME NEW j, Admissible(j)
  PROVE  /\ j.TSM \in Nat \ {0} /\ j.TSN \in Nat \ {0} /\ j.TSK \in Nat \ {0}
         /\ j.WPTM \in Nat \ {0} /\ j.WPTN \in Nat \ {0} /\ j.WIDTH \in Nat \ {0}
         /\ j.rows \in Nat \ {0} /\ j.depth \in Nat \ {0} /\ j.cols \in Nat \ {0}
         /\ RTSM(j) \in Nat \ {0} /\ RTSM(j) * j.WPTM = j.TSM
         /\ RTSN(j) \in Nat \ {0} /\ RTSN(j) * j.WPTN = j.TSN
<1>1. /\ j.TSM \in Nat \ {0} /\ j.TSN \in Nat \ {0} /\ j.TSK \in Nat \ {0}
      /\ j.WPTM \in Nat \ {0} /\ j.WPTN \in Nat \ {0} /\ j.WIDTH \in Nat \ {0}
      /\ j.rows \in Nat \ {0} /\ j.depth \in Nat \ {0} /\ j.cols \in Nat \ {0}
      /\ j.TSM % j.WPTM = 0 /\ j.TSN % j.WPTN = 0
  BY DEF Admissible
<1>2. RTSM(j) \in Nat \ {0} /\ RTSM(j) * j.WPTM = j.TSM
  BY ONLY <1>1, WholeQuotient DEF RTSM
<1>3. RTSN(j) \in Nat \ {0} /\ RTSN(j) * j.WPTN = j.TSN
  BY ONLY <1>1, WholeQuotient DEF RTSN
<1>4. QED
  BY <1>1, <1>2, <1>3

LEMMA OneEachSizes ==
  ASSUME NEW j, Admissible(j)
  PROVE  (j.WPTM = 1 => RTSM(j) = j.TSM) /\ (j.WPTN = 1 => RTSN(j) = j.TSN)
<1>1. RTSM(j) \in Nat \ {0} /\ RTSM(j) * j.WPTM = j.TSM /\ RTSN(j) \in Nat \ {0} /\ RTSN(j) * j.WPTN = j.TSN
  BY GemmSizes
<1>2. ASSUME j.WPTM = 1 PROVE RTSM(j) = j.TSM
  <2>1. RTSM(j) * 1 = j.TSM
    BY <1>1, <1>2
  <2>2. QED
    BY <1>1, <2>1
<1>3. ASSUME j.WPTN = 1 PROVE RTSN(j) = j.TSN
  <2>1. RTSN(j) * 1 = j.TSN
    BY <1>1, <1>3
  <2>2. QED
    BY <1>1, <2>1
<1>4. QED
  BY <1>2, <1>3

LEMMA ThreadParts ==
  ASSUME NEW j, Admissible(j), NEW th \in Threads(j)
  PROVE  /\ th[1] \in Blocks(j) /\ th = <<th[1], <<th[2][1], th[2][2]>>>>
         /\ th[2][1] \in 0 .. RTSM(j) - 1 /\ th[2][2] \in 0 .. RTSN(j) - 1
  BY DEF Threads

LEMMA GridIsNatural ==
  ASSUME NEW j, Admissible(j), Program(j)
  PROVE  /\ j.host.grid \in {"ceil", "floor", "multiple of SMS", "SMS"}
         /\ BlocksAlong(j, j.rows, j.TSM) \in Nat /\ BlocksAlong(j, j.cols, j.TSN) \in Nat
<1>1. j.host.grid \in {"ceil", "floor", "multiple of SMS", "SMS"}
  BY GemmHosts DEF Program, Runs
<1>2. j.SMS \in Nat \ {0}
  BY DEF Admissible
<1>3. ASSUME NEW length \in Nat \ {0}, NEW tile \in Nat \ {0}
      PROVE  BlocksAlong(j, length, tile) \in Nat
  <2>1. CeilDiv(length, tile) \in Nat
    BY CeilDivEnough
  <2>2. length \div tile \in Nat
    BY DivMod
  <2>3. ASSUME NEW a \in Nat PROVE CeilDiv(a, j.SMS) * j.SMS \in Nat
    <3>1. a + j.SMS - 1 \in Nat
      BY <1>2
    <3>2. (a + j.SMS - 1) \div j.SMS \in Nat
      BY ONLY <3>1, <1>2, DivMod
    <3>3. QED
      BY <1>2, <3>2 DEF CeilDiv
  <2>4. QED
    BY <1>1, <1>2, <2>1, <2>2, <2>3 DEF BlocksAlong
<1>4. QED
  BY <1>1, <1>3, GemmSizes

LEMMA BlockParts ==
  ASSUME NEW j, Admissible(j), Program(j), NEW b \in Blocks(j)
  PROVE  /\ b = <<b[1], b[2]>> /\ b[1] \in Nat /\ b[2] \in Nat
         /\ b[1] < BlocksAlong(j, j.rows, j.TSM) /\ b[2] < BlocksAlong(j, j.cols, j.TSN)
<1> DEFINE x == BlocksAlong(j, j.rows, j.TSM)
           y == BlocksAlong(j, j.cols, j.TSN)
<1>1. x \in Nat /\ y \in Nat
  BY GridIsNatural
<1>2. b \in (0 .. x - 1) \X (0 .. y - 1)
  BY DEF Blocks
<1> HIDE DEF x, y
<1>3. b = <<b[1], b[2]>> /\ b[1] \in 0 .. x - 1 /\ b[2] \in 0 .. y - 1
  BY <1>2
<1>4. b[1] \in Nat /\ b[2] \in Nat /\ b[1] < x /\ b[2] < y
  BY <1>1, <1>3
<1>5. QED
  BY <1>3, <1>4 DEF x, y

(* The whole tile of a block is in the matrix unless the kernel tests it.  *)
Inside(j) ==
  \/ j.host.grid = "floor"
  \/ j.host.grid = "SMS" /\ j.SMS * j.TSM <= j.rows /\ j.SMS * j.TSN <= j.cols

LEMMA TileInside ==
  ASSUME NEW j, Admissible(j), Program(j), Inside(j), NEW b \in Blocks(j),
         NEW r \in 0 .. j.TSM - 1, NEW c \in 0 .. j.TSN - 1
  PROVE  b[1] * j.TSM + r < j.rows /\ b[2] * j.TSN + c < j.cols
<1>1. ASSUME NEW length \in Nat \ {0}, NEW tile \in Nat \ {0},
             NEW a \in Nat, a < BlocksAlong(j, length, tile), NEW x \in 0 .. tile - 1,
             j.host.grid = "floor" \/ (j.host.grid = "SMS" /\ j.SMS * tile <= length)
      PROVE  a * tile + x < length
  <2>1. CASE j.host.grid = "floor"
    <3>1. BlocksAlong(j, length, tile) = length \div tile
      BY <2>1 DEF BlocksAlong
    <3>2. length \div tile \in Nat /\ length % tile \in 0 .. tile - 1 /\ length = (length \div tile) * tile + (length % tile)
      BY DivMod
    <3>3. a \in 0 .. (length \div tile) - 1
      BY <1>1, <3>1, <3>2
    <3>4. a * tile + x < (length \div tile) * tile
      BY ONLY <3>2, <3>3, tile \in Nat \ {0}, x \in 0 .. tile - 1, ProductBelow
    <3>5. (length \div tile) * tile \in Nat /\ a * tile \in Nat
      BY <3>2
    <3>6. QED
      BY <3>2, <3>4, <3>5
  <2>2. CASE j.host.grid = "SMS" /\ j.SMS * tile <= length
    <3>1. BlocksAlong(j, length, tile) = j.SMS /\ j.SMS \in Nat
      BY <2>2 DEF BlocksAlong, Admissible
    <3>2. a \in 0 .. j.SMS - 1
      BY <1>1, <3>1
    <3>3. a * tile + x < j.SMS * tile
      BY ONLY <3>1, <3>2, tile \in Nat \ {0}, x \in 0 .. tile - 1, ProductBelow
    <3>4. a * tile \in Nat /\ j.SMS * tile \in Nat
      BY <3>1
    <3>5. QED
      BY <2>2, <3>3, <3>4
  <2>3. QED
    BY <1>1, <2>1, <2>2
<1>2. /\ j.TSM \in Nat \ {0} /\ j.TSN \in Nat \ {0} /\ j.rows \in Nat \ {0} /\ j.cols \in Nat \ {0}
      /\ b[1] \in Nat /\ b[1] < BlocksAlong(j, j.rows, j.TSM)
      /\ b[2] \in Nat /\ b[2] < BlocksAlong(j, j.cols, j.TSN)
      /\ j.host.grid = "floor" \/ (j.host.grid = "SMS" /\ j.SMS * j.TSM <= j.rows)
      /\ j.host.grid = "floor" \/ (j.host.grid = "SMS" /\ j.SMS * j.TSN <= j.cols)
  BY GemmSizes, BlockParts DEF Inside
<1>3. b[1] * j.TSM + r < j.rows
  BY ONLY <1>1, <1>2, r \in 0 .. j.TSM - 1
<1>4. b[2] * j.TSN + c < j.cols
  BY ONLY <1>1, <1>2, c \in 0 .. j.TSN - 1
<1>5. QED
  BY <1>3, <1>4

(* The tiles reach to the end of the rows of A, and what is beyond reads   *)
(* as zero or is not reached.                                              *)
LEMMA TilesFit ==
  ASSUME NEW j, Admissible(j), Program(j), j.kernel.tiles # "none"
  PROVE  /\ NumTiles(j) \in Nat \ {0} /\ j.depth <= NumTiles(j) * j.TSK
         /\ j.kernel.guarded = TRUE \/ (NumTiles(j) * j.TSK = j.depth /\ Inside(j))
<1>1. j.depth \in Nat \ {0} /\ j.TSK \in Nat \ {0}
  BY GemmSizes
<1>2. CASE j.kernel \in {matrixMulDoubleBuffered, matrixMulTiled, vectorised}
  <2>1. NumTiles(j) = CeilDiv(j.depth, j.TSK)
    BY <1>2 DEF NumTiles
  <2>2. j.kernel.guarded = TRUE
    BY <1>2, GuardedKernels, Zenon
  <2>3. NumTiles(j) \in Nat \ {0} /\ j.depth <= NumTiles(j) * j.TSK
    BY <1>1, <2>1, CeilDivEnough
  <2>4. QED
    BY <2>2, <2>3
<1>3. CASE j.kernel \notin {matrixMulDoubleBuffered, matrixMulTiled, vectorised}
  <2>1. NumTiles(j) = j.depth \div j.TSK
    BY <1>3 DEF NumTiles
  <2>2. j.depth % j.TSK = 0
    BY <1>3, KernelFields DEF Program, Runs, WholeTiles
  <2>3. NumTiles(j) \in Nat \ {0} /\ NumTiles(j) * j.TSK = j.depth
    BY <1>1, <2>1, <2>2, WholeQuotient
  <2>4. Inside(j) \/ j.kernel \in {WPT, gemmFinal, gemm16, gemm2D}
    BY ONLY <1>3, j.kernel.tiles # "none", Program(j), KernelFields, GemmHosts, ZenonT(60) DEF Program, Runs, Inside
  <2>5. j.kernel \in {WPT, gemmFinal, gemm16, gemm2D} => j.kernel.guarded = TRUE
    BY GuardedKernels, Zenon
  <2>6. j.kernel.guarded = TRUE \/ (NumTiles(j) * j.TSK = j.depth /\ Inside(j))
    BY ONLY <2>3, <2>4, <2>5
  <2>7. j.depth <= NumTiles(j) * j.TSK
    BY <1>1, <2>3
  <2>8. QED
    BY <2>3, <2>6, <2>7
<1>4. QED
  BY <1>2, <1>3

-----------------------------------------------------------------------------
(* Every load puts into a cell of a tile the element that belongs there,   *)
(* or in the programs with constant matrices one that looks the same.      *)

WantedA(j, b, t, c) == A(j, b[1] * j.TSM + c[1], t * j.TSK + c[2])
WantedB(j, b, t, c) == B(j, t * j.TSK + c[1], b[2] * j.TSN + c[2])

LEMMA ElementReal ==
  ASSUME NEW j, NEW name \in {"A", "B"}, NEW r, NEW c, NEW height, NEW width,
         j.kernel.guarded = TRUE \/ (r < height /\ c < width)
  PROVE  Element(j, name, r, c, height, width) # Beyond
<1>1. CASE r < height /\ c < width
  <2>1. CASE j.data = "constant"
    <3>1. Element(j, name, r, c, height, width) = <<name>>
      BY <1>1, <2>1 DEF Element
    <3>2. QED
      BY <3>1 DEF Beyond
  <2>2. CASE j.data # "constant"
    <3>1. Element(j, name, r, c, height, width) = <<name, r, c>>
      BY <1>1, <2>2 DEF Element
    <3>2. QED
      BY <3>1 DEF Beyond
  <2>3. QED
    BY <2>1, <2>2
<1>2. CASE ~(r < height /\ c < width)
  <2>1. Element(j, name, r, c, height, width) = Zero
    BY <1>2, Zenon DEF Element
  <2>2. QED
    BY <2>1 DEF Zero, Beyond
<1>3. QED
  BY <1>1, <1>2

LEMMA WantedReal ==
  ASSUME NEW j, Admissible(j), Program(j), j.kernel.tiles # "none",
         NEW b \in Blocks(j), NEW t \in 0 .. NumTiles(j) - 1
  PROVE  /\ \A c \in TileA(j) : WantedA(j, b, t, c) # Beyond
         /\ \A c \in TileB(j) : WantedB(j, b, t, c) # Beyond
<1>1. /\ NumTiles(j) \in Nat \ {0}
      /\ j.kernel.guarded = TRUE \/ (NumTiles(j) * j.TSK = j.depth /\ Inside(j))
  BY TilesFit
<1>2. j.TSM \in Nat \ {0} /\ j.TSN \in Nat \ {0} /\ j.TSK \in Nat \ {0}
  BY GemmSizes
<1>3. ASSUME NumTiles(j) * j.TSK = j.depth, NEW k \in 0 .. j.TSK - 1
      PROVE  t * j.TSK + k < j.depth
  <2>1. t * j.TSK + k < NumTiles(j) * j.TSK
    BY ONLY <1>1, <1>2, t \in 0 .. NumTiles(j) - 1, k \in 0 .. j.TSK - 1, ProductBelow
  <2>2. QED
    BY <1>3, <2>1
<1>4. ASSUME NEW c \in TileA(j) PROVE WantedA(j, b, t, c) # Beyond
  <2>1. c[1] \in 0 .. j.TSM - 1 /\ c[2] \in 0 .. j.TSK - 1
    BY DEF TileA
  <2>2. j.kernel.guarded = TRUE \/ (b[1] * j.TSM + c[1] < j.rows /\ t * j.TSK + c[2] < j.depth)
    <3>1. CASE NumTiles(j) * j.TSK = j.depth /\ Inside(j)
      <4>1. 0 \in 0 .. j.TSN - 1
        BY <1>2
      <4>2. b[1] * j.TSM + c[1] < j.rows
        BY <2>1, <3>1, <4>1, TileInside
      <4>3. QED
        BY <1>3, <2>1, <3>1, <4>2
    <3>2. QED
      BY <1>1, <3>1
  <2>3. QED
    BY <2>2, ElementReal DEF WantedA, A
<1>5. ASSUME NEW c \in TileB(j) PROVE WantedB(j, b, t, c) # Beyond
  <2>1. c[1] \in 0 .. j.TSK - 1 /\ c[2] \in 0 .. j.TSN - 1
    BY DEF TileB
  <2>2. j.kernel.guarded = TRUE \/ (t * j.TSK + c[1] < j.depth /\ b[2] * j.TSN + c[2] < j.cols)
    <3>1. CASE NumTiles(j) * j.TSK = j.depth /\ Inside(j)
      <4>1. 0 \in 0 .. j.TSM - 1
        BY <1>2
      <4>2. b[2] * j.TSN + c[2] < j.cols
        BY <2>1, <3>1, <4>1, TileInside
      <4>3. QED
        BY <1>3, <2>1, <3>1, <4>2
    <3>2. QED
      BY <1>1, <3>1
  <2>3. QED
    BY <2>2, ElementReal DEF WantedB, B
<1>6. QED
  BY <1>4, <1>5

(* vectorised.cu, A. *)
LEMMA OverlappingAWanted ==
  ASSUME NEW j, Admissible(j), OneEach(j), SquareTile(j), NEW th \in Threads(j), NEW t \in Nat
  PROVE  LET f == OverlappingA(j, th, t) IN
         /\ DOMAIN f \subseteq TileA(j) /\ <<th[2][1], th[2][2]>> \in DOMAIN f
         /\ \A c \in DOMAIN f : f[c] = WantedA(j, th[1], t, c)
<1> DEFINE k0 == t * j.TSK + th[2][2]
           r0 == th[1][1] * j.TSM + th[2][1]
           n == IF r0 < j.rows /\ Wide(j, r0 * j.depth + k0, th[2][2], k0, j.depth) THEN j.WIDTH ELSE 1
<1>1. /\ j.TSM \in Nat \ {0} /\ j.TSK \in Nat \ {0} /\ j.WIDTH \in Nat \ {0}
      /\ th[2][1] \in 0 .. j.TSM - 1 /\ th[2][2] \in 0 .. j.TSK - 1
  BY GemmSizes, OneEachSizes, ThreadParts DEF OneEach, SquareTile
<1>2. n = 1 \/ (n = j.WIDTH /\ th[2][2] <= j.TSK - j.WIDTH)
  BY DEF Wide
<1>3. OverlappingA(j, th, t) =
        [c \in {th[2][1]} \X (th[2][2] .. th[2][2] + n - 1) |-> A(j, r0, t * j.TSK + c[2])]
  BY DEF OverlappingA
<1> HIDE DEF n
<1>4. n \in Nat \ {0} /\ th[2][2] + n - 1 \in 0 .. j.TSK - 1
  BY <1>1, <1>2
<1>5. ASSUME NEW c \in {th[2][1]} \X (th[2][2] .. th[2][2] + n - 1)
      PROVE  c \in TileA(j) /\ A(j, r0, t * j.TSK + c[2]) = WantedA(j, th[1], t, c)
  <2>1. c[1] = th[2][1] /\ c[2] \in th[2][2] .. th[2][2] + n - 1 /\ c = <<c[1], c[2]>>
    OBVIOUS
  <2>2. c[2] \in 0 .. j.TSK - 1
    BY <1>1, <1>4, <2>1
  <2>3. QED
    BY <1>1, <2>1, <2>2 DEF TileA, WantedA
<1>6. th[2][2] \in th[2][2] .. th[2][2] + n - 1
  BY <1>1, <1>4
<1>7. QED
  BY <1>3, <1>5, <1>6

(* A flat index d rows below (k, c).                                       *)
LEMMA FlatIndex ==
  ASSUME NEW cols \in Nat \ {0}, NEW k \in Nat, NEW c \in 0 .. cols - 1, NEW d \in Nat,
         NEW depth \in Nat, k + d < depth
  PROVE  LET index == k * cols + c + d IN
         index \in Nat /\ index \div cols < depth /\ index % cols < cols
<1> DEFINE index == k * cols + c + d
<1>1. k * cols \in Nat /\ d <= d * cols /\ d * cols \in Nat /\ (k + d + 1) * cols = k * cols + d * cols + cols
  OBVIOUS
<1>2. (k + d + 1) * cols <= depth * cols
  OBVIOUS
<1>3. depth * cols \in Nat /\ (k + d + 1) * cols \in Nat
  OBVIOUS
<1>4. index \in Nat /\ index < depth * cols
  BY <1>1, <1>2, <1>3
<1> HIDE DEF index
<1>5. index \div cols \in 0 .. depth - 1
  BY ONLY <1>4, cols \in Nat \ {0}, depth \in Nat, QuotientBelow
<1>6. index % cols \in 0 .. cols - 1
  BY ONLY <1>4, cols \in Nat \ {0}, DivMod
<1>7. index \in Nat /\ index \div cols < depth /\ index % cols < cols
  BY <1>4, <1>5, <1>6
<1>8. QED
  BY <1>7 DEF index

(* vectorised.cu, B. *)
LEMMA ConstantElement ==
  ASSUME NEW j, ConstantData(j), NEW name, NEW r, NEW c, NEW x, NEW y, NEW height, NEW width,
         r < height /\ c < width, x < height /\ y < width
  PROVE  Element(j, name, r, c, height, width) = Element(j, name, x, y, height, width)
  BY DEF Element, ConstantData

LEMMA OverlappingBWanted ==
  ASSUME NEW j, Admissible(j), Program(j), OneEach(j), SquareTile(j), ConstantData(j),
         NEW th \in Threads(j), NEW t \in Nat
  PROVE  LET f == OverlappingB(j, th, t) IN
         /\ DOMAIN f \subseteq TileB(j) /\ <<th[2][1], th[2][2]>> \in DOMAIN f
         /\ \A c \in DOMAIN f : f[c] = WantedB(j, th[1], t, c)
<1> DEFINE m == th[2][1]
           n == th[2][2]
           k0 == t * j.TSK + m
           col == th[1][2] * j.TSN + n
           wide == col < j.cols /\ k0 < j.depth /\ Wide(j, k0 * j.cols + col, m, k0, j.depth)
<1>1. /\ j.TSN \in Nat \ {0} /\ j.TSK \in Nat \ {0} /\ j.WIDTH \in Nat \ {0}
      /\ j.cols \in Nat \ {0} /\ j.depth \in Nat \ {0}
      /\ m \in 0 .. j.TSK - 1 /\ n \in 0 .. j.TSN - 1
  BY GemmSizes, OneEachSizes, ThreadParts DEF OneEach, SquareTile
<1>2. th[1] \in Blocks(j)
  BY ThreadParts
<1>3. th[1][2] \in Nat
  BY <1>2, BlockParts
<1>4. k0 \in Nat /\ col \in Nat
  BY <1>1, <1>3
<1>5. CASE wide
  <2>1. OverlappingB(j, th, t) =
          [c \in (m .. m + j.WIDTH - 1) \X {n} |->
             B(j, (k0 * j.cols + col + c[1] - m) \div j.cols, (k0 * j.cols + col + c[1] - m) % j.cols)]
    BY <1>5 DEF OverlappingB
  <2>2. m <= j.TSK - j.WIDTH /\ k0 + j.WIDTH <= j.depth /\ col < j.cols
    BY <1>5 DEF Wide
  <2>3. ASSUME NEW c \in (m .. m + j.WIDTH - 1) \X {n}
        PROVE  /\ c \in TileB(j)
               /\ B(j, (k0 * j.cols + col + c[1] - m) \div j.cols, (k0 * j.cols + col + c[1] - m) % j.cols)
                    = WantedB(j, th[1], t, c)
    <3> DEFINE d == c[1] - m
               index == k0 * j.cols + col + d
    <3>1. c[1] \in m .. m + j.WIDTH - 1 /\ c[2] = n /\ c = <<c[1], c[2]>>
      OBVIOUS
    <3>2. d \in 0 .. j.WIDTH - 1 /\ c[1] = m + d /\ c[1] \in 0 .. j.TSK - 1
      BY <1>1, <2>2, <3>1
    <3>3. c \in TileB(j)
      BY <1>1, <3>1, <3>2 DEF TileB
    <3> HIDE DEF k0, col, d
    <3>4. k0 + d < j.depth /\ d \in Nat /\ col \in 0 .. j.cols - 1
      BY <1>1, <1>4, <2>2, <3>2
    <3>5. index \in Nat /\ index \div j.cols < j.depth /\ index % j.cols < j.cols
      BY ONLY <1>1, <1>4, <3>4, FlatIndex
    <3>6. k0 * j.cols + col + c[1] - m = index
      <4>1. k0 * j.cols \in Nat
        BY <1>1, <1>4
      <4>2. QED
        BY <1>1, <1>4, <3>2, <4>1
    <3>7. t * j.TSK + c[1] < j.depth /\ th[1][2] * j.TSN + c[2] < j.cols
      <4>1. t * j.TSK \in Nat
        BY <1>1
      <4>2. t * j.TSK + c[1] = k0 + d
        BY <1>1, <3>2, <4>1 DEF k0
      <4>3. QED
        BY <1>1, <3>1, <3>4, <4>2 DEF col
    <3> HIDE DEF index
    <3>8. B(j, index \div j.cols, index % j.cols) = WantedB(j, th[1], t, c)
      BY ONLY <3>5, <3>7, ConstantData(j), ConstantElement DEF WantedB, B
    <3>9. QED
      BY <3>3, <3>6, <3>8
  <2>4. m \in m .. m + j.WIDTH - 1
    BY <1>1
  <2> HIDE DEF k0, col, m, n
  <2>5. <<m, n>> \in DOMAIN OverlappingB(j, th, t)
    BY <2>1, <2>4
  <2>6. QED
    BY <2>1, <2>3, <2>5 DEF m, n
<1>6. CASE ~wide
  <2>1. OverlappingB(j, th, t) = [c \in {<<m, n>>} |-> B(j, k0, col)]
    BY <1>6 DEF OverlappingB
  <2>2. <<m, n>> \in TileB(j) /\ B(j, k0, col) = WantedB(j, th[1], t, <<m, n>>)
    BY <1>1 DEF TileB, WantedB
  <2>3. QED
    BY <2>1, <2>2
<1>7. QED
  BY <1>5, <1>6

(* The other programs. *)
LEMMA LoadsAWanted ==
  ASSUME NEW j, Admissible(j), Program(j), j.kernel.tiles # "none",
         NEW th \in Threads(j), NEW t \in 0 .. NumTiles(j) - 1
  PROVE  /\ DOMAIN LoadsA(j, th, t) \subseteq TileA(j)
         /\ \A c \in DOMAIN LoadsA(j, th, t) : LoadsA(j, th, t)[c] = WantedA(j, th[1], t, c)
<1>1. t \in Nat
  BY TilesFit
<1>2. CASE j.kernel.deal = "overlapping"
  <2>1. OneEach(j) /\ SquareTile(j)
    BY ONLY <1>2, Program(j), ProgramKernels
  <2>2. LoadsA(j, th, t) = OverlappingA(j, th, t)
    BY <1>2 DEF LoadsA
  <2>3. /\ DOMAIN OverlappingA(j, th, t) \subseteq TileA(j)
        /\ \A c \in DOMAIN OverlappingA(j, th, t) : OverlappingA(j, th, t)[c] = WantedA(j, th[1], t, c)
    BY ONLY <1>1, <2>1, Admissible(j), Program(j), th \in Threads(j), OverlappingAWanted
  <2>4. QED
    BY ONLY <2>2, <2>3
<1>3. CASE j.kernel.deal # "overlapping"
  <2>1. LoadsA(j, th, t) = [c \in DealtA(j, th) |-> FromA(j, th, t, c)]
    BY <1>3 DEF LoadsA
  <2>2. DealtA(j, th) \subseteq TileA(j)
    BY DEF DealtA
  <2>3. ASSUME NEW c \in DealtA(j, th) PROVE FromA(j, th, t, c) = WantedA(j, th[1], t, c)
    <3>1. CASE j.kernel.reads \in {"columns", "columns, B by thread"}
      <4>1. ConstantData(j) /\ SquareMatrices(j)
        BY ONLY <3>1, Program(j), ProgramKernels
      <4>2. FromA(j, th, t, c) = A(j, t * j.TSK + c[2], th[1][1] * j.TSM + c[1])
        BY <3>1 DEF FromA
      <4>3. QED
        BY <4>1, <4>2 DEF WantedA, A, Element, ConstantData, SquareMatrices
    <3>2. CASE j.kernel.reads \notin {"columns", "columns, B by thread"}
      BY <3>2 DEF FromA, WantedA
    <3>3. QED
      BY <3>1, <3>2
  <2>4. QED
    BY <2>1, <2>2, <2>3
<1>4. QED
  BY <1>2, <1>3

LEMMA LoadsBWanted ==
  ASSUME NEW j, Admissible(j), Program(j), j.kernel.tiles # "none",
         NEW th \in Threads(j), NEW t \in 0 .. NumTiles(j) - 1
  PROVE  /\ DOMAIN LoadsB(j, th, t) \subseteq TileB(j)
         /\ \A c \in DOMAIN LoadsB(j, th, t) : LoadsB(j, th, t)[c] = WantedB(j, th[1], t, c)
<1>1. t \in Nat
  BY TilesFit
<1>2. CASE j.kernel.deal = "overlapping"
  <2>1. OneEach(j) /\ SquareTile(j) /\ ConstantData(j)
    BY ONLY <1>2, Program(j), ProgramKernels
  <2>2. LoadsB(j, th, t) = OverlappingB(j, th, t)
    BY <1>2 DEF LoadsB
  <2>3. /\ DOMAIN OverlappingB(j, th, t) \subseteq TileB(j)
        /\ \A c \in DOMAIN OverlappingB(j, th, t) : OverlappingB(j, th, t)[c] = WantedB(j, th[1], t, c)
    BY ONLY <1>1, <2>1, Admissible(j), Program(j), th \in Threads(j), OverlappingBWanted
  <2>4. QED
    BY ONLY <2>2, <2>3
<1>3. CASE j.kernel.deal # "overlapping"
  <2>1. LoadsB(j, th, t) = [c \in DealtB(j, th) |-> FromB(j, th, t, c)]
    BY <1>3 DEF LoadsB
  <2>2. DealtB(j, th) \subseteq TileB(j)
    BY DEF DealtB
  <2>3. ASSUME NEW c \in DealtB(j, th) PROVE FromB(j, th, t, c) = WantedB(j, th[1], t, c)
    <3> DEFINE k == t * j.TSK + c[1]
               col == th[1][2] * j.TSN + c[2]
               mine == th[1][2] * j.TSN + th[2][2]
    <3>1. c[2] \in 0 .. j.TSN - 1 /\ c[1] \in 0 .. j.TSK - 1
      BY <2>2 DEF TileB
    <3>2. th[1] \in Blocks(j) /\ th[2][2] \in 0 .. j.TSN - 1 /\ 0 \in 0 .. j.TSM - 1
      <4>1. th[1] \in Blocks(j) /\ th[2][2] \in 0 .. RTSN(j) - 1
        BY ThreadParts
      <4>2. RTSN(j) \in Nat \ {0} /\ j.WPTN \in Nat \ {0} /\ RTSN(j) * j.WPTN = j.TSN /\ j.TSM \in Nat \ {0}
        BY GemmSizes
      <4>3. RTSN(j) <= RTSN(j) * j.WPTN
        BY ONLY <4>2
      <4>4. QED
        BY <4>1, <4>2, <4>3
    <3>3. ASSUME Inside(j) PROVE col < j.cols /\ mine < j.cols
      BY <3>1, <3>2, <3>3, TileInside
    <3>4. CASE j.kernel.reads = "rows"
      BY <3>4 DEF FromB, WantedB
    <3>5. CASE j.kernel.reads = "columns"
      <4>1. ConstantData(j) /\ SquareMatrices(j)
        BY ONLY <3>5, Program(j), ProgramKernels
      <4>2. FromB(j, th, t, c) = B(j, col, k)
        BY <3>5 DEF FromB, Bt
      <4>3. QED
        BY <4>1, <4>2 DEF WantedB, B, Element, ConstantData, SquareMatrices
    <3>6. CASE j.kernel.reads = "B by thread"
      <4>1. ConstantData(j) /\ j.host = gemm16Host
        BY ONLY <3>6, Program(j), ProgramKernels
      <4>2. FromB(j, th, t, c) = B(j, k, mine)
        BY <3>6 DEF FromB, Bt
      <4>3. QED
        BY <3>3, <4>1, <4>2, GemmHosts DEF WantedB, B, Element, ConstantData, Inside
    <3>7. CASE j.kernel.reads = "columns, B by thread"
      <4>1. ConstantData(j) /\ j.host = gemmFinalHost /\ SquareMatrices(j)
        BY ONLY <3>7, Program(j), ProgramKernels
      <4>2. FromB(j, th, t, c) = B(j, mine, k)
        BY <3>7 DEF FromB, Bt
      <4>3. QED
        BY <3>3, <4>1, <4>2, GemmHosts DEF WantedB, B, Element, ConstantData, SquareMatrices, Inside
    <3>8. j.kernel.reads \in {"rows", "columns", "B by thread", "columns, B by thread"}
      BY ONLY Program(j), ProgramKernels
    <3>9. QED
      BY <3>4, <3>5, <3>6, <3>7, <3>8
  <2>4. QED
    BY <2>1, <2>2, <2>3
<1>4. QED
  BY <1>2, <1>3

-----------------------------------------------------------------------------
(* The code of a kernel: which statement stands where.                     *)

LEMMA Joined ==
  ASSUME NEW n \in Nat, NEW m \in Nat, NEW f, NEW g,
         f = [i \in 1 .. n |-> f[i]], g = [i \in 1 .. m |-> g[i]]
  PROVE  /\ Len(f \o g) = n + m
         /\ f \o g = [i \in 1 .. n + m |-> IF i <= n THEN f[i] ELSE g[i - n]]
<1> DEFINE S == {f[i] : i \in 1 .. n} \cup {g[i] : i \in 1 .. m}
<1>1. f \in [1 .. n -> S] /\ g \in [1 .. m -> S]
  OBVIOUS
<1> HIDE DEF S
<1>2. f \in Seq(S) /\ g \in Seq(S)
  BY <1>1, SeqDef
<1>3. Len(f) = n /\ Len(g) = m
  BY <1>1, <1>2, LenProperties
<1>4. /\ f \o g \in Seq(S) /\ Len(f \o g) = n + m
      /\ \A i \in 1 .. n + m : (f \o g)[i] = IF i <= n THEN f[i] ELSE g[i - n]
  BY <1>2, <1>3, ConcatProperties
<1>5. f \o g \in [1 .. n + m -> S]
  BY <1>4, LenProperties
<1>6. QED
  BY <1>4, <1>5

StoreCount(j) == j.WPTM * j.WPTN

LEMMA StoresAre ==
  ASSUME NEW j, Admissible(j)
  PROVE  /\ StoreCount(j) \in Nat \ {0}
         /\ Stores(j) = [i \in 1 .. StoreCount(j) |-> Stores(j)[i]]
         /\ \A i \in 1 .. StoreCount(j) :
              /\ Stores(j)[i].op = "store"
              /\ Stores(j)[i].output = <<(i - 1) \div j.WPTN, (i - 1) % j.WPTN>>
              /\ Stores(j)[i].output \in Outputs(j)
<1>1. j.WPTM \in Nat \ {0} /\ j.WPTN \in Nat \ {0}
  BY GemmSizes
<1>2. StoreCount(j) \in Nat \ {0}
  BY <1>1 DEF StoreCount
<1>3. ASSUME NEW i \in 1 .. StoreCount(j)
      PROVE  <<(i - 1) \div j.WPTN, (i - 1) % j.WPTN>> \in Outputs(j)
  <2>1. i - 1 \in Nat /\ i - 1 < j.WPTM * j.WPTN
    BY <1>2 DEF StoreCount
  <2>2. (i - 1) \div j.WPTN \in 0 .. j.WPTM - 1
    BY ONLY <1>1, <2>1, QuotientBelow
  <2>3. (i - 1) % j.WPTN \in 0 .. j.WPTN - 1
    BY ONLY <1>1, <2>1, DivMod
  <2>4. QED
    BY <2>2, <2>3 DEF Outputs
<1>4. Stores(j) = [i \in 1 .. StoreCount(j) |->
                     [op |-> "store", output |-> <<(i - 1) \div j.WPTN, (i - 1) % j.WPTN>>]]
  BY DEF Stores, StoreCount
<1>5. QED
  BY <1>2, <1>3, <1>4

(* The code is the head, then the stores. *)
Headed(p, j, head, n) ==
  /\ n \in Nat /\ head = [i \in 1 .. n |-> head[i]]
  /\ p.code = head \o Stores(j) /\ p.outputs = Outputs(j)
  /\ \A i \in 1 .. n : head[i].op # "store"

LEMMA HeadedCode ==
  ASSUME NEW j, Admissible(j), NEW p, NEW head, NEW n, Headed(p, j, head, n)
  PROVE  /\ n \in Nat /\ Len(p.code) = n + StoreCount(j) /\ Len(p.code) \in Nat
         /\ DOMAIN p.code = 1 .. Len(p.code)
         /\ \A i \in 1 .. n : i \in DOMAIN p.code /\ p.code[i] = head[i]
         /\ \A i \in 1 .. StoreCount(j) : n + i \in DOMAIN p.code /\ p.code[n + i] = Stores(j)[i]
<1>1. /\ n \in Nat /\ head = [i \in 1 .. n |-> head[i]]
      /\ p.code = head \o Stores(j) /\ p.outputs = Outputs(j)
  BY DEF Headed
<1>2. StoreCount(j) \in Nat \ {0} /\ Stores(j) = [i \in 1 .. StoreCount(j) |-> Stores(j)[i]]
  BY StoresAre
<1>3. /\ Len(p.code) = n + StoreCount(j)
      /\ p.code = [i \in 1 .. n + StoreCount(j) |-> IF i <= n THEN head[i] ELSE Stores(j)[i - n]]
  BY ONLY <1>1, <1>2, Joined
<1>4. ASSUME NEW i \in 1 .. StoreCount(j)
      PROVE  n + i \in DOMAIN p.code /\ p.code[n + i] = Stores(j)[i]
  BY ONLY <1>1, <1>2, <1>3
<1>5. QED
  BY ONLY <1>1, <1>2, <1>3, <1>4

LEMMA HeadedDoes ==
  ASSUME NEW j, Admissible(j), NEW p, NEW head, NEW n, Headed(p, j, head, n)
  PROVE  /\ \A i : \A op \in {"load", "multiply", "sync", "dotProduct"} :
              Does(p, i, op) <=> i \in 1 .. n /\ head[i].op = op
         /\ \A i : Does(p, i, "store") => /\ i - n \in 1 .. StoreCount(j)
                                          /\ p.code[i] = Stores(j)[i - n]
         /\ \A i \in 1 .. StoreCount(j) : Does(p, n + i, "store") /\ p.code[n + i] = Stores(j)[i]
<1>1. /\ n \in Nat /\ Len(p.code) = n + StoreCount(j) /\ DOMAIN p.code = 1 .. Len(p.code)
      /\ \A i \in 1 .. n : i \in DOMAIN p.code /\ p.code[i] = head[i]
      /\ \A i \in 1 .. StoreCount(j) : n + i \in DOMAIN p.code /\ p.code[n + i] = Stores(j)[i]
  BY HeadedCode
<1>2. /\ StoreCount(j) \in Nat
      /\ \A i \in 1 .. StoreCount(j) : Stores(j)[i].op = "store"
  BY StoresAre
<1>3. \A i \in 1 .. n : head[i].op # "store"
  BY DEF Headed
<1>4. ASSUME NEW i \in DOMAIN p.code, i \notin 1 .. n
      PROVE  i - n \in 1 .. StoreCount(j) /\ p.code[i] = Stores(j)[i - n]
  <2>1. i - n \in 1 .. StoreCount(j) /\ n + (i - n) = i
    BY <1>1, <1>2, <1>4
  <2>2. p.code[n + (i - n)] = Stores(j)[i - n]
    BY <1>1, <2>1
  <2>3. QED
    BY <2>1, <2>2
<1>5. ASSUME NEW i, NEW op \in {"load", "multiply", "sync", "dotProduct"}
      PROVE  Does(p, i, op) <=> i \in 1 .. n /\ head[i].op = op
  BY ZenonT(60), <1>1, <1>2, <1>4 DEF Does
<1>6. ASSUME NEW i, Does(p, i, "store")
      PROVE  i - n \in 1 .. StoreCount(j) /\ p.code[i] = Stores(j)[i - n]
  BY <1>1, <1>3, <1>4, <1>6 DEF Does
<1>7. ASSUME NEW i \in 1 .. StoreCount(j) PROVE Does(p, n + i, "store") /\ p.code[n + i] = Stores(j)[i]
  BY <1>1, <1>2 DEF Does
<1>8. QED
  BY <1>5, <1>6, <1>7

(* SoundCode for the head alone. *)
SoundHead(head, n) ==
  /\ \A i \in 1 .. n : head[i].op \in {"load", "multiply"} => head[i].buffer \in Buffers
  /\ \A i, k \in 1 .. n :
       /\ head[i].op \in {"load", "multiply"} /\ head[k].op \in {"load", "multiply"}
       /\ head[i].op = "load" \/ head[k].op = "load"
       /\ i < k /\ head[i].buffer = head[k].buffer
       => \E s \in 1 .. n : i < s /\ s < k /\ head[s].op = "sync"
  /\ \A m \in 1 .. n : head[m].op = "multiply" =>
       \E l \in 1 .. n :
         /\ l < m /\ head[l].op = "load" /\ head[l].tile = head[m].tile /\ head[l].buffer = head[m].buffer
         /\ \A k \in 1 .. n : l < k /\ k < m /\ head[k].op = "load" => head[k].buffer # head[m].buffer
  /\ \A d, i \in 1 .. n : head[d].op = "dotProduct" /\ i < d =>
       head[i].op # "dotProduct" /\ head[i].op # "multiply"

LEMMA SoundHeadMeans ==
  ASSUME NEW j, Admissible(j), NEW p, NEW head, NEW n, Headed(p, j, head, n), SoundHead(head, n)
  PROVE  SoundCode(p)
<1>1. /\ n \in Nat /\ Len(p.code) \in Nat /\ DOMAIN p.code = 1 .. Len(p.code)
      /\ \A i \in 1 .. n : i \in DOMAIN p.code /\ p.code[i] = head[i]
  BY HeadedCode
<1>2. /\ \A i : \A op \in {"load", "multiply", "sync", "dotProduct"} :
           Does(p, i, op) <=> i \in 1 .. n /\ head[i].op = op
      /\ \A i : Does(p, i, "store") => /\ i - n \in 1 .. StoreCount(j)
                                       /\ p.code[i] = Stores(j)[i - n]
  BY HeadedDoes
<1>3. \A i : Touches(p, i) <=> i \in 1 .. n /\ head[i].op \in {"load", "multiply"}
  BY <1>2 DEF Touches
<1>4. \A i \in DOMAIN p.code : Touches(p, i) => p.code[i].buffer \in Buffers
  BY <1>1, <1>3 DEF SoundHead
<1>5. ASSUME NEW i \in DOMAIN p.code, NEW k \in DOMAIN p.code, Touches(p, i), Touches(p, k),
             Does(p, i, "load") \/ Does(p, k, "load"), i < k, p.code[i].buffer = p.code[k].buffer
      PROVE  BarrierBetween(p, i, k)
  <2>0. /\ i \in 1 .. n /\ k \in 1 .. n /\ p.code[i] = head[i] /\ p.code[k] = head[k]
        /\ head[i].op \in {"load", "multiply"} /\ head[k].op \in {"load", "multiply"}
        /\ head[i].op = "load" \/ head[k].op = "load"
    BY <1>1, <1>2, <1>3, <1>5
  <2>1. PICK s \in 1 .. n : i < s /\ s < k /\ head[s].op = "sync"
    BY <1>5, <2>0 DEF SoundHead
  <2>2. s \in DOMAIN p.code /\ Does(p, s, "sync")
    BY <1>1, <1>2, <2>1
  <2>3. QED
    BY <2>1, <2>2 DEF BarrierBetween
<1>6. ASSUME NEW m \in DOMAIN p.code, Does(p, m, "multiply")
      PROVE  \E l \in DOMAIN p.code :
               /\ l < m /\ Does(p, l, "load")
               /\ p.code[l].tile = p.code[m].tile /\ p.code[l].buffer = p.code[m].buffer
               /\ \A k \in DOMAIN p.code : l < k /\ k < m /\ Does(p, k, "load") =>
                    p.code[k].buffer # p.code[m].buffer
  <2>1. m \in 1 .. n /\ head[m].op = "multiply"
    BY <1>2, <1>6
  <2>2. PICK l \in 1 .. n :
          /\ l < m /\ head[l].op = "load" /\ head[l].tile = head[m].tile /\ head[l].buffer = head[m].buffer
          /\ \A k \in 1 .. n : l < k /\ k < m /\ head[k].op = "load" => head[k].buffer # head[m].buffer
    BY <2>1 DEF SoundHead
  <2>3. l \in DOMAIN p.code /\ Does(p, l, "load") /\ p.code[l] = head[l] /\ p.code[m] = head[m]
    BY <1>1, <1>2, <2>1, <2>2
  <2>4. \A k : Does(p, k, "load") => k \in 1 .. n /\ head[k].op = "load" /\ p.code[k] = head[k]
    BY <1>1, <1>2
  <2>5. QED
    BY <2>2, <2>3, <2>4
<1>7. \A d, i \in DOMAIN p.code : Does(p, d, "dotProduct") /\ i < d =>
        ~Does(p, i, "dotProduct") /\ ~Does(p, i, "multiply")
  BY <1>1, <1>2 DEF SoundHead
<1>8. ASSUME NEW i \in DOMAIN p.code, Does(p, i, "store") PROVE p.code[i].output \in p.outputs
  <2>1. p.outputs = Outputs(j)
    BY DEF Headed
  <2>2. i - n \in 1 .. StoreCount(j) /\ p.code[i] = Stores(j)[i - n]
    BY <1>2, <1>8
  <2>3. QED
    BY <2>1, <2>2, StoresAre
<1>9. QED
  BY <1>1, <1>4, <1>5, <1>6, <1>7, <1>8 DEF SoundCode

(* What the head does with the tiles. *)
MultipliesAll(head, n, tiles) ==
  /\ \A i \in 1 .. n : head[i].op \in {"load", "multiply"} => head[i].tile \in 0 .. tiles - 1
  /\ \A t \in 0 .. tiles - 1 : \E m \in 1 .. n : head[m].op = "multiply" /\ head[m].tile = t
  /\ \A i \in 1 .. n : head[i].op \in {"load", "multiply", "sync"}

LEMMA SingleHead ==
  ASSUME NEW j, NumTiles(j) \in Nat \ {0}
  PROVE  LET n == 4 * NumTiles(j) IN
         /\ n \in Nat /\ Single(j) = [i \in 1 .. n |-> Single(j)[i]]
         /\ SoundHead(Single(j), n) /\ MultipliesAll(Single(j), n, NumTiles(j))
<1> DEFINE N == NumTiles(j)
           n == 4 * N
           h == Single(j)
<1>1. h = [p \in 1 .. n |-> LET t == (p - 1) \div 4
                            IN  <<Load(t, 0), Sync, Multiply(t, 0), Sync>>[((p - 1) % 4) + 1]]
  BY DEF Single
<1> HIDE DEF h, N
<1>2. N \in Nat \ {0}
  BY DEF N
<1>3. ASSUME NEW t \in 0 .. N - 1
      PROVE  /\ 4 * t + 1 \in 1 .. n /\ 4 * t + 2 \in 1 .. n /\ 4 * t + 3 \in 1 .. n /\ 4 * t + 4 \in 1 .. n
             /\ h[4 * t + 1] = Load(t, 0) /\ h[4 * t + 2] = Sync
             /\ h[4 * t + 3] = Multiply(t, 0) /\ h[4 * t + 4] = Sync
  <2>1. /\ 4 * t + 1 \in 1 .. n /\ (4 * t + 1 - 1) \div 4 = t /\ (4 * t + 1 - 1) % 4 = 0
        /\ 4 * t + 2 \in 1 .. n /\ (4 * t + 2 - 1) \div 4 = t /\ (4 * t + 2 - 1) % 4 = 1
        /\ 4 * t + 3 \in 1 .. n /\ (4 * t + 3 - 1) \div 4 = t /\ (4 * t + 3 - 1) % 4 = 2
        /\ 4 * t + 4 \in 1 .. n /\ (4 * t + 4 - 1) \div 4 = t /\ (4 * t + 4 - 1) % 4 = 3
    BY <1>2
  <2>2. h[4 * t + 1] = Load(t, 0)
    BY <1>1, <2>1
  <2>3. h[4 * t + 2] = Sync
    BY <1>1, <2>1
  <2>4. h[4 * t + 3] = Multiply(t, 0)
    BY <1>1, <2>1
  <2>5. h[4 * t + 4] = Sync
    BY <1>1, <2>1
  <2>6. QED
    BY <2>1, <2>2, <2>3, <2>4, <2>5
<1>4. ASSUME NEW i \in 1 .. n
      PROVE  \E t \in 0 .. N - 1 :
               \/ i = 4 * t + 1 /\ h[i] = Load(t, 0)
               \/ i = 4 * t + 2 /\ h[i] = Sync
               \/ i = 4 * t + 3 /\ h[i] = Multiply(t, 0)
               \/ i = 4 * t + 4 /\ h[i] = Sync
  <2> DEFINE t == (i - 1) \div 4
  <2>1. /\ t \in 0 .. N - 1
        /\ i = 4 * t + 1 \/ i = 4 * t + 2 \/ i = 4 * t + 3 \/ i = 4 * t + 4
    BY <1>2
  <2> HIDE DEF t
  <2>2. QED
    BY <1>3, <2>1
<1>5. \A t \in 0 .. N - 1 : /\ Load(t, 0).op = "load" /\ Load(t, 0).tile = t /\ Load(t, 0).buffer = 0
                            /\ Multiply(t, 0).op = "multiply" /\ Multiply(t, 0).tile = t
                            /\ Multiply(t, 0).buffer = 0 /\ Sync.op = "sync"
  BY DEF Load, Multiply, Sync
<1>6. \A i \in 1 .. n : h[i].op \in {"load", "multiply"} => h[i].buffer \in Buffers
  BY <1>4, <1>5 DEF Buffers
<1>7. ASSUME NEW i \in 1 .. n, h[i].op \in {"load", "multiply"}
      PROVE  \E t \in 0 .. N - 1 :
               /\ h[i].tile = t /\ h[i].buffer = 0
               /\ \/ i = 4 * t + 1 /\ h[i].op = "load"
                  \/ i = 4 * t + 3 /\ h[i].op = "multiply"
  BY <1>4, <1>5, <1>7
<1>8. ASSUME NEW i \in 1 .. n, NEW k \in 1 .. n, i < k,
             h[i].op \in {"load", "multiply"}, h[k].op \in {"load", "multiply"}
      PROVE  \E s \in 1 .. n : i < s /\ s < k /\ h[s].op = "sync"
  <2>1. PICK t \in 0 .. N - 1 : i = 4 * t + 1 \/ i = 4 * t + 3
    BY <1>7, <1>8
  <2>2. PICK u \in 0 .. N - 1 : k = 4 * u + 1 \/ k = 4 * u + 3
    BY <1>7, <1>8
  <2>3. i + 1 \in {4 * t + 2, 4 * t + 4} /\ i + 1 < k /\ i + 1 \in 1 .. n
    BY <1>2, <1>8, <2>1, <2>2
  <2>4. h[i + 1].op = "sync"
    BY <1>3, <1>5, <2>3
  <2>5. QED
    BY <2>3, <2>4
<1>9. ASSUME NEW m \in 1 .. n, h[m].op = "multiply"
      PROVE  \E l \in 1 .. n :
               /\ l < m /\ h[l].op = "load" /\ h[l].tile = h[m].tile /\ h[l].buffer = h[m].buffer
               /\ \A k \in 1 .. n : l < k /\ k < m /\ h[k].op = "load" => h[k].buffer # h[m].buffer
  <2>1. PICK t \in 0 .. N - 1 : m = 4 * t + 3 /\ h[m].tile = t /\ h[m].buffer = 0
    BY <1>7, <1>9
  <2>2. 4 * t + 1 \in 1 .. n /\ h[4 * t + 1] = Load(t, 0) /\ 4 * t + 1 < m
    BY <1>3, <2>1
  <2>3. ASSUME NEW k \in 1 .. n, 4 * t + 1 < k, k < m, h[k].op = "load" PROVE FALSE
    <3>1. k = 4 * t + 2
      BY <2>1, <2>3
    <3>2. QED
      BY <1>3, <1>5, <2>3, <3>1
  <2>4. QED
    BY <1>5, <2>1, <2>2, <2>3
<1>10. \A i \in 1 .. n : h[i].op \in {"load", "multiply", "sync"}
  BY <1>4, <1>5
<1>11. SoundHead(h, n)
  BY <1>6, <1>8, <1>9, <1>10 DEF SoundHead
<1>12. ASSUME NEW t \in 0 .. N - 1 PROVE \E m \in 1 .. n : h[m].op = "multiply" /\ h[m].tile = t
  BY <1>3, <1>5
<1>13. MultipliesAll(h, n, N)
  BY <1>7, <1>10, <1>12 DEF MultipliesAll
<1>14. n \in Nat /\ h = [i \in 1 .. n |-> h[i]]
  BY <1>1, <1>2
<1>15. QED
  BY <1>11, <1>13, <1>14 DEF h, N

LEMMA RoundsAre ==
  ASSUME NEW j, NEW N \in Nat \ {0}, NumTiles(j) = N
  PROVE  /\ Rounds(j) = [p \in 1 .. 3 * (N - 1) |-> Rounds(j)[p]]
         /\ \A t \in 0 .. N - 2 :
              /\ Rounds(j)[3 * t + 1] = Load(t + 1, (t + 1) % 2)
              /\ Rounds(j)[3 * t + 2] = Multiply(t, t % 2)
              /\ Rounds(j)[3 * t + 3] = Sync
<1>1. Rounds(j) = [p \in 1 .. 3 * (N - 1) |->
                     LET t == (p - 1) \div 3
                     IN  <<Load(t + 1, (t + 1) % 2), Multiply(t, t % 2), Sync>>[((p - 1) % 3) + 1]]
  BY DEF Rounds
<1> DEFINE h == Rounds(j)
<1> HIDE DEF h
<1>2. ASSUME NEW t \in 0 .. N - 2
      PROVE  /\ h[3 * t + 1] = Load(t + 1, (t + 1) % 2)
             /\ h[3 * t + 2] = Multiply(t, t % 2)
             /\ h[3 * t + 3] = Sync
  <2>1. /\ 3 * t + 1 \in 1 .. 3 * (N - 1) /\ (3 * t + 1 - 1) \div 3 = t /\ (3 * t + 1 - 1) % 3 = 0
        /\ 3 * t + 2 \in 1 .. 3 * (N - 1) /\ (3 * t + 2 - 1) \div 3 = t /\ (3 * t + 2 - 1) % 3 = 1
        /\ 3 * t + 3 \in 1 .. 3 * (N - 1) /\ (3 * t + 3 - 1) \div 3 = t /\ (3 * t + 3 - 1) % 3 = 2
    OBVIOUS
  <2>2. h[3 * t + 1] = Load(t + 1, (t + 1) % 2)
    BY <1>1, <2>1 DEF h
  <2>3. h[3 * t + 2] = Multiply(t, t % 2)
    BY <1>1, <2>1 DEF h
  <2>4. h[3 * t + 3] = Sync
    BY <1>1, <2>1 DEF h
  <2>5. QED
    BY <2>2, <2>3, <2>4
<1>3. QED
  BY <1>1, <1>2 DEF h

(* The places of the statements of tile t in the code with two buffers.    *)
LoadPlace(t) == IF t = 0 THEN 1 ELSE 3 * t
MultiplyPlace(N, t) == IF t = N - 1 THEN 3 * N ELSE 3 * t + 4

LEMMA DoubleIs ==
  ASSUME NEW j, NEW N \in Nat \ {0}, NumTiles(j) = N
  PROVE  /\ Double(j) = [i \in 1 .. 3 * N + 1 |-> Double(j)[i]]
         /\ Double(j)[1] = Load(0, 0) /\ Double(j)[2] = Sync
         /\ \A t \in 0 .. N - 2 :
              /\ Double(j)[3 * t + 3] = Load(t + 1, (t + 1) % 2)
              /\ Double(j)[3 * t + 4] = Multiply(t, t % 2)
              /\ Double(j)[3 * t + 5] = Sync
         /\ Double(j)[3 * N] = Multiply(N - 1, (N - 1) % 2) /\ Double(j)[3 * N + 1] = Sync
<1> DEFINE f == <<Load(0, 0), Sync>>
           g == Rounds(j)
           z == LastRound(j)
           n == 3 * (N - 1)
           fg == f \o g
           d == fg \o z
<1>1. z = <<Multiply(N - 1, (N - 1) % 2), Sync>>
  BY DEF LastRound
<1>2. f = [i \in 1 .. 2 |-> f[i]] /\ f[1] = Load(0, 0) /\ f[2] = Sync
  OBVIOUS
<1>3. z = [i \in 1 .. 2 |-> z[i]] /\ z[1] = Multiply(N - 1, (N - 1) % 2) /\ z[2] = Sync
  BY <1>1
<1>4. /\ g = [i \in 1 .. n |-> g[i]] /\ n \in Nat
      /\ \A t \in 0 .. N - 2 :
           g[3 * t + 1] = Load(t + 1, (t + 1) % 2) /\ g[3 * t + 2] = Multiply(t, t % 2) /\ g[3 * t + 3] = Sync
  BY RoundsAre
<1>5. Double(j) = d
  <2>1. Double(j) = f \o g \o z
    BY DEF Double
  <2>2. QED
    BY <2>1
<1> HIDE DEF f, g, z, n, fg
<1>6. fg = [i \in 1 .. 2 + n |-> IF i <= 2 THEN f[i] ELSE g[i - 2]]
  BY ONLY <1>2, <1>4, 2 \in Nat, Joined DEF fg
<1>7. fg = [i \in 1 .. 2 + n |-> fg[i]] /\ 2 + n \in Nat
  BY <1>4, <1>6
<1>8. d = [i \in 1 .. (2 + n) + 2 |-> IF i <= 2 + n THEN fg[i] ELSE z[i - (2 + n)]]
  BY ONLY <1>3, <1>7, 2 \in Nat, Joined DEF d
<1> HIDE DEF d
<1>9. n = 3 * N - 3 /\ (2 + n) + 2 = 3 * N + 1
  BY DEF n
<1>10. d = [i \in 1 .. 3 * N + 1 |-> d[i]]
  BY <1>8, <1>9
<1>11. d[1] = Load(0, 0) /\ d[2] = Sync
  BY <1>2, <1>6, <1>8, <1>9
<1>12. d[3 * N] = Multiply(N - 1, (N - 1) % 2) /\ d[3 * N + 1] = Sync
  <2>1. d[3 * N] = z[1] /\ d[3 * N + 1] = z[2]
    BY <1>8, <1>9
  <2>2. QED
    BY <1>3, <2>1
<1>13. ASSUME NEW t \in 0 .. N - 2
       PROVE  /\ d[3 * t + 3] = Load(t + 1, (t + 1) % 2)
              /\ d[3 * t + 4] = Multiply(t, t % 2)
              /\ d[3 * t + 5] = Sync
  <2>1. /\ d[3 * t + 3] = fg[3 * t + 3] /\ d[3 * t + 4] = fg[3 * t + 4] /\ d[3 * t + 5] = fg[3 * t + 5]
    BY <1>8, <1>9
  <2>2. /\ fg[3 * t + 3] = g[3 * t + 1] /\ fg[3 * t + 4] = g[3 * t + 2] /\ fg[3 * t + 5] = g[3 * t + 3]
    BY <1>6, <1>9
  <2>3. QED
    BY <1>4, <2>1, <2>2
<1>14. QED
  BY <1>5, <1>10, <1>11, <1>12, <1>13

LEMMA DoubleHead ==
  ASSUME NEW j, NumTiles(j) \in Nat \ {0}
  PROVE  LET n == 3 * NumTiles(j) + 1 IN
         /\ n \in Nat /\ Double(j) = [i \in 1 .. n |-> Double(j)[i]]
         /\ SoundHead(Double(j), n) /\ MultipliesAll(Double(j), n, NumTiles(j))
<1> DEFINE N == NumTiles(j)
           n == 3 * N + 1
           h == Double(j)
           buffer(t) == t % 2
<1>1. /\ h = [i \in 1 .. n |-> h[i]]
      /\ h[1] = Load(0, 0) /\ h[2] = Sync
      /\ \A t \in 0 .. N - 2 :
           /\ h[3 * t + 3] = Load(t + 1, (t + 1) % 2)
           /\ h[3 * t + 4] = Multiply(t, t % 2)
           /\ h[3 * t + 5] = Sync
      /\ h[3 * N] = Multiply(N - 1, (N - 1) % 2) /\ h[3 * N + 1] = Sync
  BY DoubleIs
<1> HIDE DEF h, N
<1>2. N \in Nat \ {0}
  BY DEF N
<1>3. ASSUME NEW t \in 0 .. N - 1
      PROVE  /\ LoadPlace(t) \in 1 .. n /\ h[LoadPlace(t)] = Load(t, t % 2)
             /\ MultiplyPlace(N, t) \in 1 .. n /\ h[MultiplyPlace(N, t)] = Multiply(t, t % 2)
             /\ 3 * t + 2 \in 1 .. n /\ h[3 * t + 2] = Sync
             /\ LoadPlace(t) < 3 * t + 2 /\ 3 * t + 2 < MultiplyPlace(N, t)
  <2>1. h[LoadPlace(t)] = Load(t, t % 2) /\ h[3 * t + 2] = Sync
    <3>1. CASE t = 0
      BY <1>1, <3>1 DEF LoadPlace
    <3>2. CASE t # 0
      <4>1. t - 1 \in 0 .. N - 2 /\ 3 * (t - 1) + 3 = 3 * t /\ 3 * (t - 1) + 5 = 3 * t + 2 /\ (t - 1) + 1 = t
        BY <1>2, <3>2
      <4>2. h[3 * (t - 1) + 3] = Load((t - 1) + 1, ((t - 1) + 1) % 2) /\ h[3 * (t - 1) + 5] = Sync
        BY <1>1, <4>1
      <4>3. QED
        BY <3>2, <4>1, <4>2 DEF LoadPlace
    <3>3. QED
      BY <3>1, <3>2
  <2>2. h[MultiplyPlace(N, t)] = Multiply(t, t % 2)
    <3>1. CASE t = N - 1
      BY <1>1, <3>1 DEF MultiplyPlace
    <3>2. CASE t # N - 1
      <4>1. t \in 0 .. N - 2
        BY <1>2, <3>2
      <4>2. QED
        BY <1>1, <3>2, <4>1 DEF MultiplyPlace
    <3>3. QED
      BY <3>1, <3>2
  <2>3. QED
    BY <1>2, <2>1, <2>2 DEF LoadPlace, MultiplyPlace
<1>4. ASSUME NEW i \in 1 .. n
      PROVE  \/ h[i] = Sync
             \/ \E t \in 0 .. N - 1 : i = LoadPlace(t) /\ h[i] = Load(t, t % 2)
             \/ \E t \in 0 .. N - 1 : i = MultiplyPlace(N, t) /\ h[i] = Multiply(t, t % 2)
  <2>1. CASE i = 1
    <3>1. 0 \in 0 .. N - 1 /\ i = LoadPlace(0)
      BY <1>2, <2>1 DEF LoadPlace
    <3>2. QED
      BY <1>3, <3>1
  <2>2. CASE i = 2 \/ i = 3 * N + 1
    BY <1>1, <2>2
  <2>3. CASE i = 3 * N
    <3>1. N - 1 \in 0 .. N - 1 /\ i = MultiplyPlace(N, N - 1)
      BY <1>2, <2>3 DEF MultiplyPlace
    <3>2. QED
      BY <1>3, <3>1
  <2>4. CASE i \in 3 .. 3 * N - 1
    <3> DEFINE t == (i - 3) \div 3
    <3>1. t \in 0 .. N - 2 /\ (i = 3 * t + 3 \/ i = 3 * t + 4 \/ i = 3 * t + 5)
      BY <1>2, <2>4
    <3> HIDE DEF t
    <3>2. CASE i = 3 * t + 3
      <4>1. t + 1 \in 0 .. N - 1 /\ i = LoadPlace(t + 1)
        BY <1>2, <3>1, <3>2 DEF LoadPlace
      <4>2. QED
        BY <1>3, <4>1
    <3>3. CASE i = 3 * t + 4
      <4>1. t \in 0 .. N - 1 /\ i = MultiplyPlace(N, t)
        BY <1>2, <3>1, <3>3 DEF MultiplyPlace
      <4>2. QED
        BY <1>3, <4>1
    <3>4. CASE i = 3 * t + 5
      BY <1>1, <3>1, <3>4
    <3>5. QED
      BY <3>1, <3>2, <3>3, <3>4
  <2>5. QED
    BY <1>2, <2>1, <2>2, <2>3, <2>4
<1>5. /\ \A t \in 0 .. N - 1 : /\ Load(t, t % 2).op = "load" /\ Load(t, t % 2).tile = t
                               /\ Load(t, t % 2).buffer = t % 2
                               /\ Multiply(t, t % 2).op = "multiply" /\ Multiply(t, t % 2).tile = t
                               /\ Multiply(t, t % 2).buffer = t % 2
      /\ Sync.op = "sync"
  BY DEF Load, Multiply, Sync
<1>6. ASSUME NEW i \in 1 .. n, h[i].op = "load"
      PROVE  \E t \in 0 .. N - 1 : i = LoadPlace(t) /\ h[i].tile = t /\ h[i].buffer = t % 2
  BY <1>4, <1>5, <1>6
<1>7. ASSUME NEW i \in 1 .. n, h[i].op = "multiply"
      PROVE  \E t \in 0 .. N - 1 : i = MultiplyPlace(N, t) /\ h[i].tile = t /\ h[i].buffer = t % 2
  BY <1>4, <1>5, <1>7
<1>8. \A i \in 1 .. n : h[i].op \in {"load", "multiply", "sync"}
  BY <1>4, <1>5
<1>9. \A i \in 1 .. n : h[i].op \in {"load", "multiply"} => h[i].buffer \in Buffers
  <2>1. \A t \in 0 .. N - 1 : t % 2 \in {0, 1}
    BY <1>2
  <2>2. QED
    BY <1>6, <1>7, <2>1 DEF Buffers
<1>10. ASSUME NEW i \in 1 .. n, NEW k \in 1 .. n, i < k,
              h[i].op \in {"load", "multiply"}, h[k].op \in {"load", "multiply"},
              h[i].op = "load" \/ h[k].op = "load", h[i].buffer = h[k].buffer
       PROVE  \E s \in 1 .. n : i < s /\ s < k /\ h[s].op = "sync"
  <2>1. CASE h[i].op = "load"
    <3>1. PICK t \in 0 .. N - 1 : i = LoadPlace(t) /\ h[i].buffer = t % 2
      BY <1>6, <2>1
    <3>2. 3 * t + 2 < k
      <4>1. CASE h[k].op = "load"
        <5>1. PICK u \in 0 .. N - 1 : k = LoadPlace(u) /\ h[k].buffer = u % 2
          BY <1>6, <4>1
        <5>2. t < u /\ t % 2 = u % 2
          BY <1>10, <3>1, <5>1 DEF LoadPlace
        <5>3. QED
          BY <5>1, <5>2 DEF LoadPlace
      <4>2. CASE h[k].op = "multiply"
        <5>1. PICK u \in 0 .. N - 1 : k = MultiplyPlace(N, u) /\ h[k].buffer = u % 2
          BY <1>7, <4>2
        <5>2. t % 2 = u % 2 /\ LoadPlace(t) < MultiplyPlace(N, u)
          BY <1>10, <3>1, <5>1
        <5>3. t <= u
          BY <1>2, <5>2 DEF LoadPlace, MultiplyPlace
        <5>4. QED
          BY <1>2, <5>1, <5>3 DEF MultiplyPlace
      <4>3. QED
        BY <1>10, <4>1, <4>2
    <3>3. 3 * t + 2 \in 1 .. n /\ h[3 * t + 2] = Sync /\ i < 3 * t + 2
      BY <1>3, <3>1
    <3>4. QED
      BY <1>5, <3>2, <3>3
  <2>2. CASE h[i].op = "multiply" /\ h[k].op = "load"
    <3>1. PICK t \in 0 .. N - 1 : i = MultiplyPlace(N, t) /\ h[i].buffer = t % 2
      BY <1>7, <2>2
    <3>2. PICK u \in 0 .. N - 1 : k = LoadPlace(u) /\ h[k].buffer = u % 2
      BY <1>6, <2>2
    <3>3. t % 2 = u % 2 /\ MultiplyPlace(N, t) < LoadPlace(u)
      BY <1>10, <3>1, <3>2
    <3>4. t + 2 <= u /\ t # N - 1
      BY <1>2, <3>3 DEF LoadPlace, MultiplyPlace
    <3>5. t + 1 \in 0 .. N - 1 /\ i < 3 * (t + 1) + 2 /\ 3 * (t + 1) + 2 < k
      BY <1>2, <3>1, <3>2, <3>4 DEF LoadPlace, MultiplyPlace
    <3>6. 3 * (t + 1) + 2 \in 1 .. n /\ h[3 * (t + 1) + 2] = Sync
      BY <1>3, <3>5
    <3>7. QED
      BY <1>5, <3>5, <3>6
  <2>3. QED
    BY <1>10, <2>1, <2>2
<1>11. ASSUME NEW m \in 1 .. n, h[m].op = "multiply"
       PROVE  \E l \in 1 .. n :
                /\ l < m /\ h[l].op = "load" /\ h[l].tile = h[m].tile /\ h[l].buffer = h[m].buffer
                /\ \A k \in 1 .. n : l < k /\ k < m /\ h[k].op = "load" => h[k].buffer # h[m].buffer
  <2>1. PICK t \in 0 .. N - 1 : m = MultiplyPlace(N, t) /\ h[m].tile = t /\ h[m].buffer = t % 2
    BY <1>7, <1>11
  <2>2. LoadPlace(t) \in 1 .. n /\ h[LoadPlace(t)] = Load(t, t % 2) /\ LoadPlace(t) < m
    BY <1>2, <1>3, <2>1
  <2>3. ASSUME NEW k \in 1 .. n, LoadPlace(t) < k, k < m, h[k].op = "load" PROVE h[k].buffer # t % 2
    <3>1. PICK u \in 0 .. N - 1 : k = LoadPlace(u) /\ h[k].buffer = u % 2
      BY <1>6, <2>3
    <3>2. t < u /\ u <= t + 1
      BY <1>2, <2>1, <2>3, <3>1 DEF LoadPlace, MultiplyPlace
    <3>3. QED
      BY <3>1, <3>2
  <2>4. QED
    BY <1>5, <2>1, <2>2, <2>3
<1>12. SoundHead(h, n)
  BY <1>8, <1>9, <1>10, <1>11 DEF SoundHead
<1>13. ASSUME NEW t \in 0 .. N - 1 PROVE \E m \in 1 .. n : h[m].op = "multiply" /\ h[m].tile = t
  BY <1>3, <1>5
<1>14. MultipliesAll(h, n, N)
  BY <1>6, <1>7, <1>8, <1>13 DEF MultipliesAll
<1>15. n \in Nat
  BY <1>2
<1>16. QED
  BY <1>1, <1>12, <1>14, <1>15 DEF h, N

(* What the code of a call does. *)
LEMMA PlanCode ==
  ASSUME NEW j, Admissible(j), Program(j), NEW p, p = PlanOf(j)
  PROVE  /\ SoundCode(p)
         /\ j.kernel.tiles = "none" =>
              /\ Does(p, 1, "dotProduct") /\ \A i : Does(p, i, "dotProduct") => i = 1
              /\ \A i : ~Does(p, i, "load") /\ ~Does(p, i, "multiply")
         /\ j.kernel.tiles # "none" =>
              /\ \A i : ~Does(p, i, "dotProduct")
              /\ \A i : Touches(p, i) => p.code[i].tile \in 0 .. NumTiles(j) - 1
              /\ \A t \in 0 .. NumTiles(j) - 1 : \E m : Does(p, m, "multiply") /\ p.code[m].tile = t
         /\ \A m, n : Does(p, n, "store") /\ (Does(p, m, "multiply") \/ Does(p, m, "dotProduct")) => m < n
         /\ \A n : Does(p, n, "store") => p.code[n].output \in Outputs(j)
         /\ \A i \in 1 .. StoreCount(j) : \E n : 
              Does(p, n, "store") /\ p.code[n].output = <<(i - 1) \div j.WPTN, (i - 1) % j.WPTN>>
<1>1. p.code = Code(j) /\ p.outputs = Outputs(j)
  BY PlanIs
<1>2. j.kernel.tiles \in {"none", "single", "double"}
  BY ONLY Program(j), ProgramKernels
<1>3. ASSUME NEW head, NEW n \in Nat, Headed(p, j, head, n), SoundHead(head, n)
      PROVE  /\ SoundCode(p)
             /\ \A x, y : Does(p, y, "store") /\ (Does(p, x, "multiply") \/ Does(p, x, "dotProduct")) => x < y
             /\ \A y : Does(p, y, "store") => p.code[y].output \in Outputs(j)
             /\ \A i \in 1 .. StoreCount(j) : \E y : 
                  Does(p, y, "store") /\ p.code[y].output = <<(i - 1) \div j.WPTN, (i - 1) % j.WPTN>>
             /\ \A i : \A op \in {"load", "multiply", "dotProduct"} :
                  Does(p, i, op) <=> i \in 1 .. n /\ head[i].op = op
             /\ \A i \in 1 .. n : p.code[i] = head[i]
  <2>1. SoundCode(p)
    BY <1>3, SoundHeadMeans
  <2>2. /\ \A i : \A op \in {"load", "multiply", "sync", "dotProduct"} :
              Does(p, i, op) <=> i \in 1 .. n /\ head[i].op = op
        /\ \A i : Does(p, i, "store") => /\ i - n \in 1 .. StoreCount(j)
                                         /\ p.code[i] = Stores(j)[i - n]
        /\ \A i \in 1 .. StoreCount(j) : Does(p, n + i, "store") /\ p.code[n + i] = Stores(j)[i]
    BY <1>3, HeadedDoes
  <2>3. \A i \in 1 .. n : p.code[i] = head[i]
    BY <1>3, HeadedCode
  <2>4. \A i \in 1 .. StoreCount(j) :
          /\ Stores(j)[i].output = <<(i - 1) \div j.WPTN, (i - 1) % j.WPTN>>
          /\ Stores(j)[i].output \in Outputs(j)
    BY StoresAre
  <2>5. \A y : Does(p, y, "store") => p.code[y].output \in Outputs(j)
    BY ONLY <2>2, <2>4
  <2>6. ASSUME NEW i \in 1 .. StoreCount(j)
        PROVE  \E y : Does(p, y, "store") /\ p.code[y].output = <<(i - 1) \div j.WPTN, (i - 1) % j.WPTN>>
    <3>1. Does(p, n + i, "store") /\ p.code[n + i].output = <<(i - 1) \div j.WPTN, (i - 1) % j.WPTN>>
      BY ONLY <2>2, <2>4, i \in 1 .. StoreCount(j)
    <3>2. QED
      BY ONLY <3>1
  <2>7. ASSUME NEW x, NEW y, Does(p, y, "store"), Does(p, x, "multiply") \/ Does(p, x, "dotProduct")
        PROVE  x < y
    <3>1. x \in 1 .. n /\ y - n \in 1 .. StoreCount(j)
      BY ONLY <2>2, <2>7
    <3>2. y \in Int
      <4>1. y \in DOMAIN p.code /\ DOMAIN p.code = 1 .. Len(p.code) /\ Len(p.code) \in Nat
        BY <1>3, <2>7, HeadedCode DEF Does
      <4>2. QED
        BY ONLY <4>1
    <3>3. QED
      BY <3>1, <3>2
  <2>8. QED
    BY ONLY <2>1, <2>2, <2>3, <2>5, <2>6, <2>7
<1>4. ASSUME NEW head, NEW n \in Nat, Headed(p, j, head, n), SoundHead(head, n),
             MultipliesAll(head, n, NumTiles(j))
      PROVE  /\ \A i : ~Does(p, i, "dotProduct")
             /\ \A i : Touches(p, i) => p.code[i].tile \in 0 .. NumTiles(j) - 1
             /\ \A t \in 0 .. NumTiles(j) - 1 : \E m : Does(p, m, "multiply") /\ p.code[m].tile = t
  <2>1. /\ \A i : \A op \in {"load", "multiply", "dotProduct"} :
             Does(p, i, op) <=> i \in 1 .. n /\ head[i].op = op
        /\ \A i \in 1 .. n : p.code[i] = head[i]
    BY <1>3, <1>4
  <2>2. /\ \A i \in 1 .. n : head[i].op \in {"load", "multiply"} => head[i].tile \in 0 .. NumTiles(j) - 1
        /\ \A t \in 0 .. NumTiles(j) - 1 : \E m \in 1 .. n : head[m].op = "multiply" /\ head[m].tile = t
        /\ \A i \in 1 .. n : head[i].op \in {"load", "multiply", "sync"}
    BY <1>4 DEF MultipliesAll
  <2>3. QED
    BY ONLY <2>1, <2>2 DEF Touches
<1>5. CASE j.kernel.tiles = "none"
  <2> DEFINE head == <<[op |-> "dotProduct"]>>
  <2>1. Headed(p, j, head, 1)
    <3>1. p.code = head \o Stores(j)
      BY <1>1, <1>5 DEF Code
    <3>2. QED
      BY <1>1, <3>1 DEF Headed
  <2>2. SoundHead(head, 1) /\ head[1].op = "dotProduct"
    BY DEF SoundHead
  <2> HIDE DEF head
  <2>3. \A i : \A op \in {"load", "multiply", "dotProduct"} :
          Does(p, i, op) <=> i \in 1 .. 1 /\ head[i].op = op
    BY <1>3, <2>1, <2>2
  <2>4. /\ Does(p, 1, "dotProduct") /\ \A i : Does(p, i, "dotProduct") => i = 1
        /\ \A i : ~Does(p, i, "load") /\ ~Does(p, i, "multiply")
    BY ONLY <2>2, <2>3
  <2>5. /\ SoundCode(p)
        /\ \A x, y : Does(p, y, "store") /\ (Does(p, x, "multiply") \/ Does(p, x, "dotProduct")) => x < y
        /\ \A y : Does(p, y, "store") => p.code[y].output \in Outputs(j)
        /\ \A i \in 1 .. StoreCount(j) : \E y : 
             Does(p, y, "store") /\ p.code[y].output = <<(i - 1) \div j.WPTN, (i - 1) % j.WPTN>>
    BY <1>3, <2>1, <2>2
  <2>6. QED
    BY ONLY <1>5, <2>4, <2>5
<1>6. CASE j.kernel.tiles # "none"
  <2>1. NumTiles(j) \in Nat \ {0}
    BY <1>6, TilesFit
  <2>2. PICK head, n : n \in Nat /\ Headed(p, j, head, n) /\ SoundHead(head, n) /\ MultipliesAll(head, n, NumTiles(j))
    <3>1. CASE j.kernel.tiles = "single"
      <4>1. p.code = Single(j) \o Stores(j)
        BY <1>1, <3>1 DEF Code
      <4>2. /\ 4 * NumTiles(j) \in Nat /\ Single(j) = [i \in 1 .. 4 * NumTiles(j) |-> Single(j)[i]]
            /\ SoundHead(Single(j), 4 * NumTiles(j)) /\ MultipliesAll(Single(j), 4 * NumTiles(j), NumTiles(j))
        BY <2>1, SingleHead
      <4>3. Headed(p, j, Single(j), 4 * NumTiles(j))
        BY <1>1, <4>1, <4>2 DEF Headed, MultipliesAll
      <4>4. QED
        BY <4>2, <4>3
    <3>2. CASE j.kernel.tiles = "double"
      <4>1. p.code = Double(j) \o Stores(j)
        BY <1>1, <3>2 DEF Code
      <4>2. /\ 3 * NumTiles(j) + 1 \in Nat /\ Double(j) = [i \in 1 .. 3 * NumTiles(j) + 1 |-> Double(j)[i]]
            /\ SoundHead(Double(j), 3 * NumTiles(j) + 1) /\ MultipliesAll(Double(j), 3 * NumTiles(j) + 1, NumTiles(j))
        BY <2>1, DoubleHead
      <4>3. Headed(p, j, Double(j), 3 * NumTiles(j) + 1)
        BY <1>1, <4>1, <4>2 DEF Headed, MultipliesAll
      <4>4. QED
        BY <4>2, <4>3
    <3>3. QED
      BY <1>2, <1>6, <3>1, <3>2
  <2>3. /\ \A i : ~Does(p, i, "dotProduct")
        /\ \A i : Touches(p, i) => p.code[i].tile \in 0 .. NumTiles(j) - 1
        /\ \A t \in 0 .. NumTiles(j) - 1 : \E m : Does(p, m, "multiply") /\ p.code[m].tile = t
    BY <1>4, <2>2
  <2>4. /\ SoundCode(p)
        /\ \A x, y : Does(p, y, "store") /\ (Does(p, x, "multiply") \/ Does(p, x, "dotProduct")) => x < y
        /\ \A y : Does(p, y, "store") => p.code[y].output \in Outputs(j)
        /\ \A i \in 1 .. StoreCount(j) : \E y : 
             Does(p, y, "store") /\ p.code[y].output = <<(i - 1) \div j.WPTN, (i - 1) % j.WPTN>>
    BY <1>3, <2>2
  <2>5. QED
    BY ONLY <1>6, <2>3, <2>4
<1>7. QED
  BY <1>5, <1>6

-----------------------------------------------------------------------------
(* Every cell of a tile that a thread multiplies is loaded by a thread of  *)
(* its block.                                                              *)

LEMMA RowInTile ==
  ASSUME NEW j, Admissible(j), NEW th \in Threads(j), NEW v \in 0 .. j.WPTM - 1
  PROVE  Row(j, th, v) \in 0 .. j.TSM - 1
<1>1. /\ RTSM(j) \in Nat \ {0} /\ j.WPTM \in Nat \ {0} /\ RTSM(j) * j.WPTM = j.TSM
      /\ th[2][1] \in 0 .. RTSM(j) - 1 /\ j.TSM \in Nat
  BY GemmSizes, ThreadParts
<1>2. v * RTSM(j) + th[2][1] \in Nat /\ v * RTSM(j) + th[2][1] < j.WPTM * RTSM(j)
  BY ONLY <1>1, v \in 0 .. j.WPTM - 1, ProductBelow
<1>3. j.WPTM * RTSM(j) = j.TSM /\ v * RTSM(j) \in Nat
  BY <1>1
<1>4. QED
  BY <1>1, <1>2, <1>3 DEF Row

LEMMA ColumnInTile ==
  ASSUME NEW j, Admissible(j), NEW th \in Threads(j), NEW w \in 0 .. j.WPTN - 1
  PROVE  Column(j, th, w) \in 0 .. j.TSN - 1
<1>1. /\ RTSN(j) \in Nat \ {0} /\ j.WPTN \in Nat \ {0} /\ RTSN(j) * j.WPTN = j.TSN
      /\ th[2][2] \in 0 .. RTSN(j) - 1 /\ j.TSN \in Nat
  BY GemmSizes, ThreadParts
<1>2. CASE j.kernel.outputs = "adjacent"
  <2>1. th[2][2] * j.WPTN + w \in Nat /\ th[2][2] * j.WPTN + w < RTSN(j) * j.WPTN
    BY ONLY <1>1, w \in 0 .. j.WPTN - 1, ProductBelow
  <2>2. QED
    BY <1>1, <1>2, <2>1 DEF Column
<1>3. CASE j.kernel.outputs # "adjacent"
  <2>1. w * RTSN(j) + th[2][2] \in Nat /\ w * RTSN(j) + th[2][2] < j.WPTN * RTSN(j)
    BY ONLY <1>1, w \in 0 .. j.WPTN - 1, ProductBelow
  <2>2. j.WPTN * RTSN(j) = j.TSN /\ w * RTSN(j) \in Nat
    BY <1>1
  <2>3. QED
    BY <1>1, <1>3, <2>1, <2>2 DEF Column
<1>4. QED
  BY <1>2, <1>3

LEMMA SameBlock ==
  ASSUME NEW j, NEW th \in Threads(j), NEW m \in 0 .. RTSM(j) - 1, NEW n \in 0 .. RTSN(j) - 1
  PROVE  LET u == <<th[1], <<m, n>>>> IN
         u \in Threads(j) /\ u[1] = th[1] /\ u[2][1] = m /\ u[2][2] = n
  BY DEF Threads

(* Some thread has every number.                                           *)
LEMMA NumberedThread ==
  ASSUME NEW j, Admissible(j), NEW th \in Threads(j), NEW i \in Nat
  PROVE  /\ \E u \in Threads(j) : u[1] = th[1] /\ i % (RTSM(j) * RTSN(j)) = Number(j, u)
         /\ \E u \in Threads(j) : u[1] = th[1] /\ i % (RTSM(j) * RTSN(j)) = NumberByColumns(j, u)
<1> DEFINE M == RTSM(j)
           N == RTSN(j)
           x == i % (M * N)
<1>1. M \in Nat \ {0} /\ N \in Nat \ {0}
  BY GemmSizes
<1> HIDE DEF M, N
<1>2. M * N \in Nat \ {0} /\ M * N = N * M
  BY <1>1
<1>3. x \in 0 .. M * N - 1
  BY ONLY <1>2, i \in Nat, DivMod
<1> HIDE DEF x
<1>4. x \in Nat /\ x < M * N /\ x < N * M
  BY <1>2, <1>3
<1>5. x \div N \in 0 .. M - 1 /\ x % N \in 0 .. N - 1 /\ x = (x \div N) * N + (x % N)
  <2>1. x \div N \in 0 .. M - 1
    BY ONLY <1>1, <1>4, QuotientBelow
  <2>2. QED
    BY ONLY <1>1, <1>4, <2>1, DivMod
<1>6. x \div M \in 0 .. N - 1 /\ x % M \in 0 .. M - 1 /\ x = (x \div M) * M + (x % M)
  <2>1. x \div M \in 0 .. N - 1
    BY ONLY <1>1, <1>4, QuotientBelow
  <2>2. QED
    BY ONLY <1>1, <1>4, <2>1, DivMod
<1>7. \E u \in Threads(j) : u[1] = th[1] /\ x = Number(j, u)
  <2> DEFINE u == <<th[1], <<x \div N, x % N>>>>
  <2>1. u \in Threads(j) /\ u[1] = th[1] /\ u[2][1] = x \div N /\ u[2][2] = x % N
    BY <1>5, SameBlock DEF M, N
  <2> HIDE DEF u
  <2>2. Number(j, u) = x
    BY <1>5, <2>1 DEF Number, N
  <2>3. QED
    BY <2>1, <2>2
<1>8. \E u \in Threads(j) : u[1] = th[1] /\ x = NumberByColumns(j, u)
  <2> DEFINE u == <<th[1], <<x % M, x \div M>>>>
  <2>1. u \in Threads(j) /\ u[1] = th[1] /\ u[2][1] = x % M /\ u[2][2] = x \div M
    BY <1>6, SameBlock DEF M, N
  <2> HIDE DEF u
  <2>2. NumberByColumns(j, u) = x
    BY <1>6, <2>1 DEF NumberByColumns, M
  <2>3. QED
    BY <2>1, <2>2
<1>9. QED
  BY <1>7, <1>8 DEF x, M, N

LEMMA DealtInRows ==
  ASSUME NEW j, Admissible(j), Program(j), j.kernel.tiles # "none", j.kernel.deal = "rows"
  PROVE  /\ RTSM(j) = j.TSM /\ j.TSM = j.TSK
         /\ j.TSK \div RTSN(j) \in Nat \ {0} /\ RTSN(j) * (j.TSK \div RTSN(j)) = j.TSK
<1>1. j.WPTM = 1 /\ j.TSM = j.TSK /\ (j.TSN = j.TSK \/ RTSN(j) = j.TSK)
  BY KernelFields DEF Program, Runs, OneEach, SquareTile
<1>2. /\ RTSN(j) \in Nat \ {0} /\ j.WPTN \in Nat \ {0} /\ RTSN(j) * j.WPTN = j.TSN
      /\ j.TSK \in Nat \ {0}
  BY GemmSizes
<1>3. PICK g \in Nat \ {0} : RTSN(j) * g = j.TSK
  <2>1. CASE RTSN(j) = j.TSK
    <3>1. RTSN(j) * 1 = j.TSK
      BY <1>2, <2>1
    <3>2. QED
      BY <3>1
  <2>2. CASE j.TSN = j.TSK
    BY <1>2, <2>2
  <2>3. QED
    BY <1>1, <2>1, <2>2
<1>4. g * RTSN(j) + 0 = j.TSK /\ 0 \in 0 .. RTSN(j) - 1 /\ g \in Nat
  BY <1>2, <1>3
<1>5. (g * RTSN(j) + 0) \div RTSN(j) = g
  BY ONLY <1>2, <1>4, PairDivMod
<1>6. j.TSK \div RTSN(j) = g
  BY <1>4, <1>5
<1>7. RTSM(j) = j.TSM
  BY <1>1, OneEachSizes
<1>8. QED
  BY <1>1, <1>3, <1>6, <1>7

LEMMA LoaderOfA ==
  ASSUME NEW j, Admissible(j), Program(j), j.kernel.tiles # "none", NEW th \in Threads(j),
         NEW t \in 0 .. NumTiles(j) - 1, NEW r \in 0 .. j.TSM - 1, NEW k \in 0 .. j.TSK - 1
  PROVE  \E u \in Threads(j) : u[1] = th[1] /\ <<r, k>> \in DOMAIN LoadsA(j, u, t)
<1>1. /\ RTSM(j) \in Nat \ {0} /\ RTSN(j) \in Nat \ {0} /\ j.TSK \in Nat \ {0} /\ j.WIDTH \in Nat \ {0}
      /\ r \in Nat /\ k \in Nat /\ <<r, k>> \in TileA(j) /\ t \in Nat
  BY GemmSizes, TilesFit DEF TileA
<1>2. ASSUME j.kernel.deal # "overlapping", NEW u \in Threads(j), <<r, k>> \in DealtA(j, u)
      PROVE  <<r, k>> \in DOMAIN LoadsA(j, u, t)
  BY <1>2 DEF LoadsA
<1>3. CASE j.kernel.deal = "overlapping"
  <2>1. OneEach(j) /\ SquareTile(j)
    BY ONLY <1>3, Program(j), ProgramKernels
  <2>2. r \in 0 .. RTSM(j) - 1 /\ k \in 0 .. RTSN(j) - 1
    BY <2>1, OneEachSizes DEF OneEach, SquareTile
  <2> DEFINE u == <<th[1], <<r, k>>>>
  <2>3. u \in Threads(j) /\ u[1] = th[1] /\ u[2][1] = r /\ u[2][2] = k
    BY <2>2, SameBlock
  <2> HIDE DEF u
  <2>4. <<u[2][1], u[2][2]>> \in DOMAIN OverlappingA(j, u, t)
    BY ONLY <1>1, <2>1, <2>3, Admissible(j), OverlappingAWanted
  <2>5. LoadsA(j, u, t) = OverlappingA(j, u, t)
    BY <1>3 DEF LoadsA
  <2>6. QED
    BY <2>3, <2>4, <2>5
<1>4. CASE j.kernel.deal = "rows"
  <2> DEFINE g == j.TSK \div RTSN(j)
             u == <<th[1], <<r, k \div g>>>>
  <2>1. RTSM(j) = j.TSM /\ g \in Nat \ {0} /\ RTSN(j) * g = j.TSK
    BY <1>4, DealtInRows
  <2> HIDE DEF g
  <2>2. k \div g \in 0 .. RTSN(j) - 1
    BY <1>1, <2>1, QuotientBelow
  <2>3. u \in Threads(j) /\ u[1] = th[1] /\ u[2][1] = r /\ u[2][2] = k \div g
    BY <2>1, <2>2, SameBlock
  <2> HIDE DEF u
  <2>4. <<r, k>> \in DealtA(j, u)
    BY <1>1, <1>4, <2>3 DEF DealtA, g
  <2>5. QED
    BY <1>2, <1>4, <2>3, <2>4
<1>5. CASE j.kernel.deal = "vectors"
  <2>1. j.kernel.reads \in {"rows", "columns"}
    BY ONLY <1>5, Program(j), ProgramKernels
  <2>2. (r * j.TSK + k) \div j.WIDTH \in Nat /\ (k * j.TSM + r) \div j.WIDTH \in Nat
    <3>1. r * j.TSK + k \in Nat /\ k * j.TSM + r \in Nat
      BY <1>1, GemmSizes
    <3>2. QED
      BY ONLY <1>1, <3>1, DivMod
  <2>3. CASE j.kernel.reads = "rows"
    <3>1. PICK u \in Threads(j) : u[1] = th[1] /\
            ((r * j.TSK + k) \div j.WIDTH) % (RTSM(j) * RTSN(j)) = Number(j, u)
      BY <2>2, NumberedThread
    <3>2. <<r, k>> \in DealtA(j, u)
      BY <1>1, <1>5, <2>3, <3>1 DEF DealtA
    <3>3. QED
      BY <1>2, <1>5, <3>1, <3>2
  <2>4. CASE j.kernel.reads = "columns"
    <3>1. PICK u \in Threads(j) : u[1] = th[1] /\
            ((k * j.TSM + r) \div j.WIDTH) % (RTSM(j) * RTSN(j)) = NumberByColumns(j, u)
      BY <2>2, NumberedThread
    <3>2. <<r, k>> \in DealtA(j, u)
      BY <1>1, <1>5, <2>4, <3>1 DEF DealtA
    <3>3. QED
      BY <1>2, <1>5, <3>1, <3>2
  <2>5. QED
    BY <2>1, <2>3, <2>4
<1>6. CASE j.kernel.deal \notin {"overlapping", "rows", "vectors"}
  <2> DEFINE u == <<th[1], <<r % RTSM(j), k % RTSN(j)>>>>
  <2>1. r % RTSM(j) \in 0 .. RTSM(j) - 1 /\ k % RTSN(j) \in 0 .. RTSN(j) - 1
    BY <1>1, DivMod
  <2>2. u \in Threads(j) /\ u[1] = th[1] /\ u[2][1] = r % RTSM(j) /\ u[2][2] = k % RTSN(j)
    BY <2>1, SameBlock
  <2> HIDE DEF u
  <2>3. <<r, k>> \in DealtA(j, u)
    BY <1>1, <1>6, <2>2 DEF DealtA
  <2>4. QED
    BY <1>2, <1>6, <2>2, <2>3
<1>7. QED
  BY <1>3, <1>4, <1>5, <1>6

LEMMA LoaderOfB ==
  ASSUME NEW j, Admissible(j), Program(j), j.kernel.tiles # "none", NEW th \in Threads(j),
         NEW t \in 0 .. NumTiles(j) - 1, NEW w \in 0 .. j.WPTN - 1, NEW k \in 0 .. j.TSK - 1
  PROVE  \E u \in Threads(j) : u[1] = th[1] /\ <<k, Column(j, th, w)>> \in DOMAIN LoadsB(j, u, t)
<1> DEFINE c == Column(j, th, w)
<1>0. c \in 0 .. j.TSN - 1
  BY ColumnInTile
<1> HIDE DEF c
<1>1. /\ RTSM(j) \in Nat \ {0} /\ RTSN(j) \in Nat \ {0} /\ j.TSK \in Nat \ {0} /\ j.WIDTH \in Nat \ {0}
      /\ j.TSN \in Nat \ {0} /\ k \in Nat /\ c \in Nat /\ <<k, c>> \in TileB(j) /\ t \in Nat
  BY <1>0, GemmSizes, TilesFit DEF TileB
<1>2. ASSUME j.kernel.deal # "overlapping", NEW u \in Threads(j), <<k, c>> \in DealtB(j, u)
      PROVE  <<k, c>> \in DOMAIN LoadsB(j, u, t)
  BY <1>2 DEF LoadsB
<1>3. CASE j.kernel.deal = "overlapping"
  <2>1. OneEach(j) /\ SquareTile(j) /\ ConstantData(j)
    BY ONLY <1>3, Program(j), ProgramKernels
  <2>2. k \in 0 .. RTSM(j) - 1 /\ c \in 0 .. RTSN(j) - 1
    BY <1>0, <2>1, OneEachSizes DEF OneEach, SquareTile
  <2> DEFINE u == <<th[1], <<k, c>>>>
  <2>3. u \in Threads(j) /\ u[1] = th[1] /\ u[2][1] = k /\ u[2][2] = c
    BY <2>2, SameBlock
  <2> HIDE DEF u
  <2>4. <<u[2][1], u[2][2]>> \in DOMAIN OverlappingB(j, u, t)
    BY ONLY <1>1, <2>1, <2>3, Admissible(j), Program(j), OverlappingBWanted
  <2>5. LoadsB(j, u, t) = OverlappingB(j, u, t)
    BY <1>3 DEF LoadsB
  <2>6. QED
    BY <2>3, <2>4, <2>5 DEF c
<1>4. CASE j.kernel.deal = "rows"
  <2> DEFINE u == <<th[1], <<k, th[2][2]>>>>
  <2>1. k \in 0 .. RTSM(j) - 1 /\ th[2][2] \in 0 .. RTSN(j) - 1
    BY <1>4, DealtInRows, ThreadParts
  <2>2. u \in Threads(j) /\ u[1] = th[1] /\ u[2][1] = k /\ u[2][2] = th[2][2]
    BY <2>1, SameBlock
  <2> HIDE DEF u
  <2>3. c = Column(j, u, w)
    BY <2>2 DEF c, Column
  <2>4. <<k, c>> \in DealtB(j, u)
    BY <1>1, <1>4, <2>2, <2>3 DEF DealtB
  <2>5. QED
    BY <1>2, <1>4, <2>2, <2>4 DEF c
<1>5. CASE j.kernel.deal = "vectors"
  <2>1. (k * j.TSN + c) \div j.WIDTH \in Nat
    <3>1. k * j.TSN + c \in Nat
      BY <1>1
    <3>2. QED
      BY ONLY <1>1, <3>1, DivMod
  <2>2. PICK u \in Threads(j) : u[1] = th[1] /\
          ((k * j.TSN + c) \div j.WIDTH) % (RTSM(j) * RTSN(j)) =
            (IF j.kernel.reads = "rows" THEN Number(j, u) ELSE NumberByColumns(j, u))
    BY <2>1, NumberedThread
  <2>3. <<k, c>> \in DealtB(j, u)
    BY <1>1, <1>5, <2>2 DEF DealtB
  <2>4. QED
    BY <1>2, <1>5, <2>2, <2>3 DEF c
<1>6. CASE j.kernel.deal = "crossed"
  <2> DEFINE u == <<th[1], <<k % RTSM(j), c % RTSN(j)>>>>
  <2>1. k % RTSM(j) \in 0 .. RTSM(j) - 1 /\ c % RTSN(j) \in 0 .. RTSN(j) - 1
    BY <1>1, DivMod
  <2>2. u \in Threads(j) /\ u[1] = th[1] /\ u[2][1] = k % RTSM(j) /\ u[2][2] = c % RTSN(j)
    BY <2>1, SameBlock
  <2> HIDE DEF u
  <2>3. <<k, c>> \in DealtB(j, u)
    BY <1>1, <1>6, <2>2 DEF DealtB
  <2>4. QED
    BY <1>2, <1>6, <2>2, <2>3 DEF c
<1>7. CASE j.kernel.deal \notin {"overlapping", "rows", "vectors", "crossed"}
  <2> DEFINE u == <<th[1], <<c % RTSM(j), k % RTSN(j)>>>>
  <2>1. c % RTSM(j) \in 0 .. RTSM(j) - 1 /\ k % RTSN(j) \in 0 .. RTSN(j) - 1
    BY <1>1, DivMod
  <2>2. u \in Threads(j) /\ u[1] = th[1] /\ u[2][1] = c % RTSM(j) /\ u[2][2] = k % RTSN(j)
    BY <2>1, SameBlock
  <2> HIDE DEF u
  <2>3. <<k, c>> \in DealtB(j, u)
    BY <1>1, <1>7, <2>2 DEF DealtB
  <2>4. QED
    BY <1>2, <1>7, <2>2, <2>3 DEF c
<1>8. QED
  BY <1>3, <1>4, <1>5, <1>6, <1>7

-----------------------------------------------------------------------------
(* The plan of a program is sound: what is loaded and read.                *)

LEMMA PlanLoads ==
  ASSUME NEW j, Admissible(j), Program(j), j.kernel.tiles # "none", NEW p, p = PlanOf(j),
         NEW th \in Threads(j), NEW t \in 0 .. NumTiles(j) - 1
  PROVE  p.loadsA[th][t] = LoadsA(j, th, t) /\ p.loadsB[th][t] = LoadsB(j, th, t)
<1>1. t \in TilesOf(j)
  BY DEF TilesOf
<1>2. QED
  BY <1>1, PlanIs

LEMMA PlanSoundLoads ==
  ASSUME NEW j, Admissible(j), Program(j), NEW p, p = PlanOf(j)
  PROVE  SoundLoads(p, p.loadsA, p.tileA) /\ SoundLoads(p, p.loadsB, p.tileB)
<1>1. CASE j.kernel.tiles = "none"
  <2>1. \A i : ~Does(p, i, "load")
    BY <1>1, PlanCode
  <2>2. QED
    BY <2>1 DEF SoundLoads
<1>2. CASE j.kernel.tiles # "none"
  <2>1. p.threads = Threads(j) /\ p.tileA = TileA(j) /\ p.tileB = TileB(j)
    BY PlanIs
  <2>2. \A i : Touches(p, i) => p.code[i].tile \in 0 .. NumTiles(j) - 1
    BY <1>2, PlanCode
  <2>3. ASSUME NEW th \in Threads(j), NEW t \in 0 .. NumTiles(j) - 1
        PROVE  /\ DOMAIN p.loadsA[th][t] \subseteq TileA(j) /\ DOMAIN p.loadsB[th][t] \subseteq TileB(j)
               /\ \A c \in DOMAIN p.loadsA[th][t] :
                    p.loadsA[th][t][c] = WantedA(j, th[1], t, c) /\ p.loadsA[th][t][c] # Beyond
               /\ \A c \in DOMAIN p.loadsB[th][t] :
                    p.loadsB[th][t][c] = WantedB(j, th[1], t, c) /\ p.loadsB[th][t][c] # Beyond
    <3>1. p.loadsA[th][t] = LoadsA(j, th, t) /\ p.loadsB[th][t] = LoadsB(j, th, t)
      BY <1>2, PlanLoads
    <3>2. /\ DOMAIN LoadsA(j, th, t) \subseteq TileA(j)
          /\ \A c \in DOMAIN LoadsA(j, th, t) : LoadsA(j, th, t)[c] = WantedA(j, th[1], t, c)
      BY <1>2, LoadsAWanted
    <3>3. /\ DOMAIN LoadsB(j, th, t) \subseteq TileB(j)
          /\ \A c \in DOMAIN LoadsB(j, th, t) : LoadsB(j, th, t)[c] = WantedB(j, th[1], t, c)
      BY <1>2, LoadsBWanted
    <3>4. th[1] \in Blocks(j)
      BY ThreadParts
    <3>5. /\ \A c \in TileA(j) : WantedA(j, th[1], t, c) # Beyond
          /\ \A c \in TileB(j) : WantedB(j, th[1], t, c) # Beyond
      BY <1>2, <3>4, WantedReal
    <3>6. QED
      BY ONLY <3>1, <3>2, <3>3, <3>5
  <2>4. \A i : Does(p, i, "load") => p.code[i].tile \in 0 .. NumTiles(j) - 1
    BY <2>2 DEF Touches
  <2>5. SoundLoads(p, p.loadsA, p.tileA)
    BY ONLY <2>1, <2>3, <2>4 DEF SoundLoads
  <2>6. SoundLoads(p, p.loadsB, p.tileB)
    BY ONLY <2>1, <2>3, <2>4 DEF SoundLoads
  <2>7. QED
    BY <2>5, <2>6
<1>3. QED
  BY <1>1, <1>2

(* Where an output of a thread is in its tile. *)
LEMMA PlanOutput ==
  ASSUME NEW j, Admissible(j), NEW p, p = PlanOf(j), NEW th \in Threads(j), NEW o \in Outputs(j)
  PROVE  /\ p.row[th][o] = Row(j, th, o[1]) /\ p.row[th][o] \in 0 .. j.TSM - 1
         /\ p.column[th][o] = Column(j, th, o[2]) /\ p.column[th][o] \in 0 .. j.TSN - 1
         /\ p.cell[th][o] = <<th[1][1] * j.TSM + p.row[th][o], th[1][2] * j.TSN + p.column[th][o]>>
         /\ o[1] \in 0 .. j.WPTM - 1 /\ o[2] \in 0 .. j.WPTN - 1
<1>1. o[1] \in 0 .. j.WPTM - 1 /\ o[2] \in 0 .. j.WPTN - 1
  BY DEF Outputs
<1>2. Row(j, th, o[1]) \in 0 .. j.TSM - 1
  BY <1>1, RowInTile
<1>3. Column(j, th, o[2]) \in 0 .. j.TSN - 1
  BY <1>1, ColumnInTile
<1>4. p.row[th][o] = Row(j, th, o[1]) /\ p.column[th][o] = Column(j, th, o[2]) /\ p.cell[th][o] = CellOf(j, th, o)
  <2>1. p.row[th][o] = Row(j, th, o[1])
    BY PlanIs
  <2>2. p.column[th][o] = Column(j, th, o[2])
    BY PlanIs
  <2>3. p.cell[th][o] = CellOf(j, th, o)
    BY PlanIs
  <2>4. QED
    BY ONLY <2>1, <2>2, <2>3
<1>5. QED
  BY <1>1, <1>2, <1>3, <1>4 DEF CellOf

(* What a thread finds where it multiplies. *)
LEMMA PlanFinds ==
  ASSUME NEW j, Admissible(j), Program(j), j.kernel.tiles # "none", NEW p, p = PlanOf(j),
         NEW th \in Threads(j), NEW o \in Outputs(j), NEW t \in 0 .. NumTiles(j) - 1, NEW k \in 0 .. j.TSK - 1
  PROVE  /\ Loaders(p, p.loadsA, th, t, <<p.row[th][o], k>>) # {}
         /\ Loaders(p, p.loadsB, th, t, <<k, p.column[th][o]>>) # {}
         /\ Found(p, p.loadsA, th, t, <<p.row[th][o], k>>) = A(j, p.cell[th][o][1], t * j.TSK + k)
         /\ Found(p, p.loadsB, th, t, <<k, p.column[th][o]>>) = B(j, t * j.TSK + k, p.cell[th][o][2])
<1> DEFINE a == <<p.row[th][o], k>>
           b == <<k, p.column[th][o]>>
           x == CHOOSE u \in Loaders(p, p.loadsA, th, t, a) : TRUE
           y == CHOOSE u \in Loaders(p, p.loadsB, th, t, b) : TRUE
<1>1. p.threads = Threads(j)
  BY PlanIs
<1>2. /\ p.row[th][o] \in 0 .. j.TSM - 1 /\ p.column[th][o] = Column(j, th, o[2]) /\ o[2] \in 0 .. j.WPTN - 1
      /\ p.cell[th][o] = <<th[1][1] * j.TSM + p.row[th][o], th[1][2] * j.TSN + p.column[th][o]>>
  BY PlanOutput
<1>3. \A u \in Threads(j) : p.loadsA[u][t] = LoadsA(j, u, t) /\ p.loadsB[u][t] = LoadsB(j, u, t)
  BY PlanLoads
<1>4. Loaders(p, p.loadsA, th, t, a) # {}
  <2>1. PICK u \in Threads(j) : u[1] = th[1] /\ a \in DOMAIN LoadsA(j, u, t)
    BY <1>2, LoaderOfA
  <2>2. QED
    BY <1>1, <1>3, <2>1 DEF Loaders
<1>5. Loaders(p, p.loadsB, th, t, b) # {}
  <2>1. PICK u \in Threads(j) : u[1] = th[1] /\ b \in DOMAIN LoadsB(j, u, t)
    BY <1>2, LoaderOfB
  <2>2. QED
    BY <1>1, <1>3, <2>1 DEF Loaders
<1> HIDE DEF a, b
<1>6. x \in Loaders(p, p.loadsA, th, t, a) /\ y \in Loaders(p, p.loadsB, th, t, b)
  BY <1>4, <1>5
<1>7. Found(p, p.loadsA, th, t, a) = p.loadsA[x][t][a] /\ Found(p, p.loadsB, th, t, b) = p.loadsB[y][t][b]
  BY DEF Found
<1> HIDE DEF x, y
<1>8. /\ x \in Threads(j) /\ x[1] = th[1] /\ a \in DOMAIN LoadsA(j, x, t)
      /\ y \in Threads(j) /\ y[1] = th[1] /\ b \in DOMAIN LoadsB(j, y, t)
  BY <1>1, <1>3, <1>6 DEF Loaders
<1>9. LoadsA(j, x, t)[a] = WantedA(j, th[1], t, a)
  BY <1>8, LoadsAWanted
<1>10. LoadsB(j, y, t)[b] = WantedB(j, th[1], t, b)
  BY <1>8, LoadsBWanted
<1>11. WantedA(j, th[1], t, a) = A(j, p.cell[th][o][1], t * j.TSK + k)
  BY ONLY <1>2 DEF WantedA, a
<1>12. WantedB(j, th[1], t, b) = B(j, t * j.TSK + k, p.cell[th][o][2])
  BY ONLY <1>2 DEF WantedB, b
<1>13. p.loadsA[x][t] = LoadsA(j, x, t) /\ p.loadsB[y][t] = LoadsB(j, y, t)
  BY <1>3, <1>8
<1>14. QED
  BY <1>4, <1>5, <1>7, <1>9, <1>10, <1>11, <1>12, <1>13 DEF a, b

LEMMA PlanSoundReads ==
  ASSUME NEW j, Admissible(j), Program(j), NEW p, p = PlanOf(j)
  PROVE  SoundReads(p)
<1>1. CASE j.kernel.tiles = "none"
  <2>1. \A i : ~Does(p, i, "multiply")
    BY <1>1, PlanCode
  <2>2. QED
    BY <2>1 DEF SoundReads
<1>2. CASE j.kernel.tiles # "none"
  <2>1. p.threads = Threads(j) /\ p.outputs = Outputs(j) /\ p.depth = j.TSK
    BY PlanIs
  <2>2. \A i : Does(p, i, "multiply") => p.code[i].tile \in 0 .. NumTiles(j) - 1
    BY <1>2, PlanCode DEF Touches
  <2>3. \A th \in Threads(j) : \A o \in Outputs(j) : \A t \in 0 .. NumTiles(j) - 1 : \A k \in 0 .. j.TSK - 1 :
          /\ Loaders(p, p.loadsA, th, t, <<p.row[th][o], k>>) # {}
          /\ Loaders(p, p.loadsB, th, t, <<k, p.column[th][o]>>) # {}
    BY <1>2, PlanFinds
  <2>4. QED
    BY ONLY <2>1, <2>2, <2>3 DEF SoundReads
<1>3. QED
  BY <1>1, <1>2

-----------------------------------------------------------------------------
(* The sum that is stored is the whole dot product.                        *)

(* Product k of a dot product. *)
Factor(j, c, k) == <<k, A(j, c[1], k), B(j, k, c[2])>>

LEMMA FactorIs ==
  ASSUME NEW j, Admissible(j), NEW c \in Cells(j), NEW k \in Nat
  PROVE  /\ k < j.depth => Factor(j, c, k) \in DotProduct(j, c) /\ Zero \notin {Factor(j, c, k)[2], Factor(j, c, k)[3]}
         /\ k >= j.depth /\ j.kernel.guarded = TRUE => Zero \in {Factor(j, c, k)[2], Factor(j, c, k)[3]}
<1>1. j.depth \in Nat \ {0} /\ j.rows \in Nat /\ j.cols \in Nat /\ c[1] \in 0 .. j.rows - 1 /\ c[2] \in 0 .. j.cols - 1
  BY GemmSizes DEF Cells
<1>2. c[1] < j.rows /\ c[2] < j.cols
  BY <1>1
<1>3. Factor(j, c, k)[2] = A(j, c[1], k) /\ Factor(j, c, k)[3] = B(j, k, c[2])
  BY DEF Factor
<1>4. ASSUME k < j.depth
      PROVE  Factor(j, c, k) \in DotProduct(j, c) /\ Zero \notin {Factor(j, c, k)[2], Factor(j, c, k)[3]}
  <2>1. k \in 0 .. j.depth - 1
    BY <1>1, <1>4
  <2>2. Factor(j, c, k) \in DotProduct(j, c)
    BY <2>1 DEF Factor, DotProduct
  <2>3. CASE j.data = "constant"
    <3>1. A(j, c[1], k) = <<"A">> /\ B(j, k, c[2]) = <<"B">>
      BY <1>2, <1>4, <2>3 DEF A, B, Element
    <3>2. QED
      BY <1>3, <2>2, <3>1 DEF Zero
  <2>4. CASE j.data # "constant"
    <3>1. A(j, c[1], k) = <<"A", c[1], k>> /\ B(j, k, c[2]) = <<"B", k, c[2]>>
      BY <1>2, <1>4, <2>4 DEF A, B, Element
    <3>2. QED
      BY <1>3, <2>2, <3>1 DEF Zero
  <2>5. QED
    BY <2>3, <2>4
<1>5. ASSUME k >= j.depth, j.kernel.guarded = TRUE
      PROVE  Zero \in {Factor(j, c, k)[2], Factor(j, c, k)[3]}
  <2>1. ~(k < j.depth)
    BY <1>1, <1>5
  <2>2. A(j, c[1], k) = Zero
    BY <1>5, <2>1, Zenon DEF A, Element
  <2>3. QED
    BY <1>3, <2>2
<1>6. QED
  BY <1>4, <1>5

LEMMA TermsAre ==
  ASSUME NEW j, Admissible(j), Program(j), j.kernel.tiles # "none", NEW p, p = PlanOf(j),
         NEW th \in Threads(j), NEW o \in Outputs(j), NEW t \in 0 .. NumTiles(j) - 1
  PROVE  Terms(p, th, o, t) = {Factor(j, p.cell[th][o], t * j.TSK + k) : k \in 0 .. j.TSK - 1}
<1> DEFINE f(k) == <<t * p.depth + k, Found(p, p.loadsA, th, t, <<p.row[th][o], k>>),
                                      Found(p, p.loadsB, th, t, <<k, p.column[th][o]>>)>>
           g(k) == Factor(j, p.cell[th][o], t * j.TSK + k)
<1>1. p.depth = j.TSK
  BY PlanIs
<1>2. ASSUME NEW k \in 0 .. j.TSK - 1 PROVE f(k) = g(k)
  <2>1. /\ Found(p, p.loadsA, th, t, <<p.row[th][o], k>>) = A(j, p.cell[th][o][1], t * j.TSK + k)
        /\ Found(p, p.loadsB, th, t, <<k, p.column[th][o]>>) = B(j, t * j.TSK + k, p.cell[th][o][2])
    BY PlanFinds
  <2>2. QED
    BY <1>1, <2>1 DEF Factor
<1>3. Terms(p, th, o, t) = {f(k) : k \in 0 .. j.TSK - 1}
  BY <1>1 DEF Terms
<1> HIDE DEF f, g
<1>4. {f(k) : k \in 0 .. j.TSK - 1} = {g(k) : k \in 0 .. j.TSK - 1}
  BY <1>2
<1>5. QED
  BY <1>3, <1>4 DEF g

LEMMA TiledSum ==
  ASSUME NEW j, Admissible(j), Program(j), j.kernel.tiles # "none", NEW p, p = PlanOf(j),
         NEW th \in Threads(j), NEW n, Does(p, n, "store"), p.cell[th][p.code[n].output] \in Cells(j)
  PROVE  SumUpTo(p, th, p.code[n].output, n) = DotProduct(j, p.cell[th][p.code[n].output])
<1> DEFINE o == p.code[n].output
           c == p.cell[th][o]
           N == NumTiles(j)
<1>1. /\ \A i : ~Does(p, i, "dotProduct")
      /\ \A i : Does(p, i, "multiply") => p.code[i].tile \in 0 .. N - 1
      /\ \A t \in 0 .. N - 1 : \E m : Does(p, m, "multiply") /\ p.code[m].tile = t
      /\ \A m : Does(p, m, "multiply") => m < n
      /\ o \in Outputs(j)
  BY PlanCode DEF Touches
<1>2. N \in Nat \ {0} /\ j.depth <= N * j.TSK /\ (j.kernel.guarded = TRUE \/ N * j.TSK = j.depth)
  BY TilesFit
<1>3. j.TSK \in Nat \ {0} /\ j.depth \in Nat \ {0}
  BY GemmSizes
<1> HIDE DEF N, o
<1>4. \A t \in 0 .. N - 1 : Terms(p, th, o, t) = {Factor(j, c, t * j.TSK + k) : k \in 0 .. j.TSK - 1}
  BY <1>1, TermsAre DEF N
<1> HIDE DEF c
<1>5. c \in Cells(j)
  BY DEF c, o
<1>6. \A k \in Nat :
        /\ k < j.depth => Factor(j, c, k) \in DotProduct(j, c) /\ Zero \notin {Factor(j, c, k)[2], Factor(j, c, k)[3]}
        /\ k >= j.depth /\ j.kernel.guarded = TRUE => Zero \in {Factor(j, c, k)[2], Factor(j, c, k)[3]}
  BY <1>5, FactorIs
<1>7. ASSUME NEW q \in SumUpTo(p, th, o, n) PROVE q \in DotProduct(j, c)
  <2>1. PICK m \in DOMAIN p.code : q \in Summand(p, th, o, m)
    BY DEF SumUpTo
  <2>2. Does(p, m, "multiply") /\ q \in Terms(p, th, o, p.code[m].tile) /\ Zero \notin {q[2], q[3]}
    BY <1>1, <2>1 DEF Summand
  <2> DEFINE t == p.code[m].tile
  <2>3. t \in 0 .. N - 1
    BY <1>1, <2>2
  <2> HIDE DEF t
  <2>4. PICK k \in 0 .. j.TSK - 1 : q = Factor(j, c, t * j.TSK + k)
    BY <1>4, <2>2, <2>3 DEF t
  <2>5. t * j.TSK + k \in Nat /\ t * j.TSK + k < N * j.TSK
    BY ONLY <1>2, <1>3, <2>3, k \in 0 .. j.TSK - 1, ProductBelow
  <2>6. t * j.TSK + k < j.depth
    <3>1. CASE N * j.TSK = j.depth
      BY <2>5, <3>1
    <3>2. CASE j.kernel.guarded = TRUE
      <4>1. ~(t * j.TSK + k >= j.depth)
        BY ONLY <1>6, <2>2, <2>4, <2>5, <3>2
      <4>2. QED
        BY <1>3, <2>5, <4>1
    <3>3. QED
      BY <1>2, <3>1, <3>2
  <2>7. QED
    BY <1>6, <2>4, <2>5, <2>6
<1>8. ASSUME NEW q \in DotProduct(j, c) PROVE q \in SumUpTo(p, th, o, n)
  <2>1. PICK k \in 0 .. j.depth - 1 : q = Factor(j, c, k)
    BY DEF DotProduct, Factor
  <2> DEFINE t == k \div j.TSK
             r == k % j.TSK
  <2>2. k \in Nat /\ k < N * j.TSK /\ k < j.depth
    <3>1. N * j.TSK \in Nat
      BY <1>2, <1>3
    <3>2. QED
      BY <1>2, <1>3, <3>1
  <2>3. t \in 0 .. N - 1
    BY ONLY <1>2, <1>3, <2>2, QuotientBelow
  <2>4. r \in 0 .. j.TSK - 1 /\ k = t * j.TSK + r
    BY ONLY <1>3, <2>2, DivMod
  <2> HIDE DEF t, r
  <2>5. q \in Terms(p, th, o, t)
    BY <1>4, <2>1, <2>3, <2>4
  <2>6. Zero \notin {q[2], q[3]}
    BY <1>6, <2>1, <2>2
  <2>7. PICK m : Does(p, m, "multiply") /\ p.code[m].tile = t /\ m < n
    BY <1>1, <2>3
  <2>8. q \in Summand(p, th, o, m)
    BY <2>5, <2>6, <2>7 DEF Summand
  <2>9. m \in DOMAIN p.code
    BY <2>7 DEF Does
  <2>10. QED
    BY <2>7, <2>8, <2>9 DEF SumUpTo
<1>9. SumUpTo(p, th, o, n) = DotProduct(j, c)
  BY <1>7, <1>8
<1>10. QED
  BY <1>9 DEF c, o

LEMMA PlanSums ==
  ASSUME NEW j, Admissible(j), Program(j), NEW p, p = PlanOf(j),
         NEW th \in p.threads, NEW n \in DOMAIN p.code, Does(p, n, "store"),
         p.cell[th][p.code[n].output] \in DOMAIN p.product
  PROVE  SumUpTo(p, th, p.code[n].output, n) = p.product[p.cell[th][p.code[n].output]]
<1> DEFINE o == p.code[n].output
           c == p.cell[th][o]
<1>1. p.threads = Threads(j) /\ p.product = [x \in Cells(j) |-> DotProduct(j, x)]
  BY PlanIs
<1>2. c \in Cells(j) /\ p.product[c] = DotProduct(j, c)
  BY <1>1
<1>3. CASE j.kernel.tiles # "none"
  <2>1. SumUpTo(p, th, o, n) = DotProduct(j, c)
    <3>1. th \in Threads(j) /\ p.cell[th][p.code[n].output] \in Cells(j)
      BY <1>1, <1>2
    <3>2. SumUpTo(p, th, p.code[n].output, n) = DotProduct(j, p.cell[th][p.code[n].output])
      BY ONLY <1>3, <3>1, Admissible(j), Program(j), p = PlanOf(j), Does(p, n, "store"), TiledSum
    <3>3. QED
      BY <3>2
  <2>2. QED
    BY <1>2, <2>1
<1>4. CASE j.kernel.tiles = "none"
  <2>1. /\ Does(p, 1, "dotProduct") /\ \A i : Does(p, i, "dotProduct") => i = 1
        /\ \A i : ~Does(p, i, "multiply")
        /\ 1 < n
    BY <1>4, PlanCode
  <2> HIDE DEF o
  <2>2. \A i : Summand(p, th, o, i) = IF i = 1 THEN p.product[c] ELSE {}
    <3>1. p.cell[th][o] = c /\ c \in DOMAIN p.product
      BY <1>1, <1>2
    <3> HIDE DEF c
    <3>2. Summand(p, th, o, 1) = p.product[c]
      BY ONLY <2>1, <3>1 DEF Summand
    <3>3. ASSUME NEW i, i # 1 PROVE Summand(p, th, o, i) = {}
      BY ONLY <2>1, <3>3 DEF Summand
    <3>4. QED
      BY ONLY <3>2, <3>3
  <2>3. 1 \in DOMAIN p.code
    BY <2>1 DEF Does
  <2> HIDE DEF c
  <2>4. SumUpTo(p, th, o, n) = p.product[c]
    BY <2>1, <2>2, <2>3 DEF SumUpTo
  <2>5. QED
    BY <2>4 DEF o, c
<1>5. QED
  BY <1>3, <1>4

-----------------------------------------------------------------------------
(* Every element shown is stored by some thread.                           *)

LEMMA BlockReaches ==
  ASSUME NEW j, Admissible(j), j.host.grid \in {"ceil", "floor", "multiple of SMS", "SMS"},
         NEW length \in Nat \ {0}, NEW tile \in Nat \ {0}, NEW x \in Nat, x < length,
         j.host.grid \in {"floor", "multiple of SMS"} => length % tile = 0,
         j.host.grid = "SMS" => x < j.SMS * tile
  PROVE  x \div tile \in 0 .. BlocksAlong(j, length, tile) - 1
<1> DEFINE n == BlocksAlong(j, length, tile)
<1>1. j.SMS \in Nat \ {0}
  BY DEF Admissible
<1>2. n \in Nat /\ x < n * tile
  <2>1. CASE j.host.grid = "ceil"
    <3>1. n = CeilDiv(length, tile)
      BY <2>1 DEF BlocksAlong
    <3>2. n \in Nat \ {0} /\ length <= n * tile
      BY <3>1, CeilDivEnough
    <3> HIDE DEF n
    <3>3. n * tile \in Nat
      BY ONLY <3>2, tile \in Nat \ {0}
    <3>4. QED
      BY ONLY <3>2, <3>3, x \in Nat, x < length, length \in Nat \ {0}
  <2>2. CASE j.host.grid \in {"floor", "multiple of SMS"}
    <3> DEFINE q == length \div tile
    <3>1. q \in Nat \ {0} /\ q * tile = length
      BY <2>2, WholeQuotient
    <3>2. CASE j.host.grid = "floor"
      <4>1. n = q
        BY <3>2 DEF BlocksAlong
      <4> HIDE DEF n, q
      <4>2. QED
        BY <3>1, <4>1
    <3>3. CASE j.host.grid = "multiple of SMS"
      <4>1. n = CeilDiv(q, j.SMS) * j.SMS
        BY <3>3 DEF BlocksAlong
      <4> HIDE DEF q
      <4> DEFINE d == CeilDiv(q, j.SMS)
      <4>2. d \in Nat \ {0} /\ q <= d * j.SMS
        BY <1>1, <3>1, CeilDivEnough
      <4> HIDE DEF n, d
      <4>3. n \in Nat /\ q <= n
        <5>1. n = d * j.SMS
          BY <4>1 DEF d
        <5>2. d * j.SMS \in Nat
          BY ONLY <1>1, <4>2
        <5>3. QED
          BY ONLY <4>2, <5>1, <5>2
      <4>4. q * tile <= n * tile /\ n * tile \in Nat
        BY ONLY <3>1, <4>3, tile \in Nat \ {0}
      <4>5. QED
        BY ONLY <3>1, <4>3, <4>4, x \in Nat, x < length, length \in Nat \ {0}
    <3>4. QED
      BY <2>2, <3>2, <3>3
  <2>3. CASE j.host.grid = "SMS"
    <3>1. n = j.SMS
      BY <2>3 DEF BlocksAlong
    <3> HIDE DEF n
    <3>2. QED
      BY <1>1, <2>3, <3>1
  <2>4. QED
    BY <2>1, <2>2, <2>3
<1> HIDE DEF n
<1>3. x \div tile \in 0 .. n - 1
  BY ONLY <1>2, tile \in Nat \ {0}, x \in Nat, QuotientBelow
<1>4. QED
  BY <1>3 DEF n

(* A row of the tile is an output of some thread. *)
LEMMA RowHasThread ==
  ASSUME NEW j, Admissible(j), NEW r \in 0 .. j.TSM - 1
  PROVE  \E m \in 0 .. RTSM(j) - 1 : \E v \in 0 .. j.WPTM - 1 : m + v * RTSM(j) = r
<1> DEFINE M == RTSM(j)
<1>1. M \in Nat \ {0} /\ j.WPTM \in Nat \ {0} /\ M * j.WPTM = j.TSM /\ r \in Nat /\ r < j.TSM
  BY GemmSizes
<1> HIDE DEF M
<1>2. r < j.WPTM * M
  BY <1>1
<1>3. r \div M \in 0 .. j.WPTM - 1
  BY ONLY <1>1, <1>2, QuotientBelow
<1>4. r % M \in 0 .. M - 1 /\ r = (r \div M) * M + (r % M)
  BY ONLY <1>1, DivMod
<1>5. (r % M) + (r \div M) * M = r
  BY ONLY <1>1, <1>3, <1>4
<1>6. QED
  BY <1>3, <1>4, <1>5 DEF M

LEMMA ColumnHasThread ==
  ASSUME NEW j, Admissible(j), NEW r \in 0 .. j.TSN - 1
  PROVE  \E n \in 0 .. RTSN(j) - 1 : \E w \in 0 .. j.WPTN - 1 :
           (IF j.kernel.outputs = "adjacent" THEN n * j.WPTN + w ELSE n + w * RTSN(j)) = r
<1> DEFINE N == RTSN(j)
           W == j.WPTN
<1>1. N \in Nat \ {0} /\ W \in Nat \ {0} /\ N * W = j.TSN /\ r \in Nat /\ r < j.TSN
  BY GemmSizes
<1> HIDE DEF N, W
<1>2. r < W * N /\ r < N * W
  BY <1>1
<1>3. CASE j.kernel.outputs = "adjacent"
  <2>1. r \div W \in 0 .. N - 1
    BY ONLY <1>1, <1>2, QuotientBelow
  <2>2. r % W \in 0 .. W - 1 /\ (r \div W) * W + (r % W) = r
    BY ONLY <1>1, DivMod
  <2>3. QED
    BY <1>3, <2>1, <2>2 DEF N, W
<1>4. CASE j.kernel.outputs # "adjacent"
  <2>1. r \div N \in 0 .. W - 1
    BY ONLY <1>1, <1>2, QuotientBelow
  <2>2. r % N \in 0 .. N - 1 /\ r = (r \div N) * N + (r % N)
    BY ONLY <1>1, DivMod
  <2>3. (r % N) + (r \div N) * N = r
    BY ONLY <1>1, <2>1, <2>2
  <2>4. QED
    BY <1>4, <2>1, <2>2, <2>3 DEF N, W
<1>5. QED
  BY <1>3, <1>4

LEMMA PlanStores ==
  ASSUME NEW j, Admissible(j), NEW v \in 0 .. j.WPTM - 1, NEW w \in 0 .. j.WPTN - 1
  PROVE  \E i \in 1 .. StoreCount(j) : (i - 1) \div j.WPTN = v /\ (i - 1) % j.WPTN = w
<1> DEFINE i == v * j.WPTN + w + 1
<1>1. j.WPTM \in Nat \ {0} /\ j.WPTN \in Nat \ {0}
  BY GemmSizes
<1>2. v * j.WPTN + w \in Nat /\ v * j.WPTN + w < j.WPTM * j.WPTN
  BY ONLY <1>1, v \in 0 .. j.WPTM - 1, w \in 0 .. j.WPTN - 1, ProductBelow
<1>3. j.WPTM * j.WPTN \in Nat /\ v * j.WPTN \in Nat
  BY <1>1
<1>4. i \in 1 .. StoreCount(j) /\ i - 1 = v * j.WPTN + w
  BY <1>2, <1>3 DEF StoreCount
<1>5. v \in Nat /\ w \in 0 .. j.WPTN - 1
  OBVIOUS
<1>6. (v * j.WPTN + w) \div j.WPTN = v /\ (v * j.WPTN + w) % j.WPTN = w
  BY ONLY <1>1, <1>5, PairDivMod
<1> HIDE DEF i
<1>7. QED
  BY <1>4, <1>6

LEMMA PlanShows ==
  ASSUME NEW j, Admissible(j), Program(j), NEW p, p = PlanOf(j), NEW c \in p.shown
  PROVE  \E th \in p.threads : \E n \in DOMAIN p.code :
           Does(p, n, "store") /\ p.cell[th][p.code[n].output] = c
<1>1. /\ c \in Cells(j)
      /\ j.host.grid = "SMS" => c[1] < j.SMS * j.TSM /\ c[2] < j.SMS * j.TSN
      /\ p.threads = Threads(j)
  <2>1. p.shown = ShownCells(j)
    BY PlanIs
  <2>2. p.threads = Threads(j)
    BY PlanIs
  <2>3. c \in Cells(j) /\ (j.host.grid = "SMS" => c[1] < j.corner /\ c[2] < j.corner)
    BY <2>1 DEF ShownCells
  <2>4. CASE j.host.grid = "SMS"
    <3>1. c[1] < j.corner /\ c[2] < j.corner
      BY <2>3, <2>4
    <3>2. j.corner <= j.SMS * j.TSM /\ j.corner <= j.SMS * j.TSN
      BY ONLY Program(j), <2>4, GemmHosts DEF Program, Runs
    <3>3. /\ c[1] \in Nat /\ c[2] \in Nat
          /\ j.corner \in Nat /\ j.SMS * j.TSM \in Nat /\ j.SMS * j.TSN \in Nat
      <4>1. j.rows \in Nat /\ j.cols \in Nat /\ j.SMS \in Nat /\ j.TSM \in Nat /\ j.TSN \in Nat /\ j.corner \in Nat
        BY DEF Admissible
      <4>2. QED
        BY <2>3, <4>1 DEF Cells
    <3>4. c[1] < j.SMS * j.TSM /\ c[2] < j.SMS * j.TSN
      BY ONLY <3>1, <3>2, <3>3
    <3>5. QED
      BY <2>2, <2>3, <3>4
  <2>5. CASE j.host.grid # "SMS"
    BY <2>2, <2>3, <2>5
  <2>6. QED
    BY <2>4, <2>5
<1>2. /\ j.TSM \in Nat \ {0} /\ j.TSN \in Nat \ {0} /\ j.rows \in Nat \ {0} /\ j.cols \in Nat \ {0}
  BY GemmSizes
<1>3. /\ c = <<c[1], c[2]>> /\ c[1] \in Nat /\ c[1] < j.rows /\ c[2] \in Nat /\ c[2] < j.cols
  BY <1>1, <1>2 DEF Cells
<1>4. j.host.grid \in {"ceil", "floor", "multiple of SMS", "SMS"}
  BY GridIsNatural
<1>5. j.host.grid \in {"floor", "multiple of SMS"} => j.rows % j.TSM = 0 /\ j.cols % j.TSN = 0
  BY ONLY Program(j), GemmHosts DEF Program, Runs, WholeTiles
<1>6. c[1] \div j.TSM \in 0 .. BlocksAlong(j, j.rows, j.TSM) - 1
  BY ONLY <1>1, <1>2, <1>3, <1>4, <1>5, Admissible(j), BlockReaches
<1>7. c[2] \div j.TSN \in 0 .. BlocksAlong(j, j.cols, j.TSN) - 1
  BY ONLY <1>1, <1>2, <1>3, <1>4, <1>5, Admissible(j), BlockReaches
<1> DEFINE b == <<c[1] \div j.TSM, c[2] \div j.TSN>>
<1>8. b \in Blocks(j)
  BY <1>6, <1>7 DEF Blocks
<1>9. c[1] % j.TSM \in 0 .. j.TSM - 1 /\ c[1] = (c[1] \div j.TSM) * j.TSM + (c[1] % j.TSM)
  BY ONLY <1>2, <1>3, DivMod
<1>10. c[2] % j.TSN \in 0 .. j.TSN - 1 /\ c[2] = (c[2] \div j.TSN) * j.TSN + (c[2] % j.TSN)
  BY ONLY <1>2, <1>3, DivMod
<1>11. PICK m \in 0 .. RTSM(j) - 1, v \in 0 .. j.WPTM - 1 : m + v * RTSM(j) = c[1] % j.TSM
  BY <1>9, RowHasThread
<1>12. PICK n \in 0 .. RTSN(j) - 1, w \in 0 .. j.WPTN - 1 :
         (IF j.kernel.outputs = "adjacent" THEN n * j.WPTN + w ELSE n + w * RTSN(j)) = c[2] % j.TSN
  BY <1>10, ColumnHasThread
<1> DEFINE th == <<b, <<m, n>>>>
           o == <<v, w>>
<1>13. th \in Threads(j) /\ th[1] = b /\ th[2][1] = m /\ th[2][2] = n
  BY <1>8 DEF Threads
<1>14. o \in Outputs(j) /\ o[1] = v /\ o[2] = w
  BY DEF Outputs
<1>15. b[1] = c[1] \div j.TSM /\ b[2] = c[2] \div j.TSN
  OBVIOUS
<1> HIDE DEF th, o, b
<1>16. Row(j, th, o[1]) = c[1] % j.TSM
  BY ONLY <1>11, <1>13, <1>14 DEF Row
<1>17. Column(j, th, o[2]) = c[2] % j.TSN
  BY ONLY <1>12, <1>13, <1>14 DEF Column
<1>18. CellOf(j, th, o) = c
  BY ONLY <1>3, <1>9, <1>10, <1>13, <1>15, <1>16, <1>17 DEF CellOf
<1>19. p.cell[th][o] = c
  <2>1. p.cell[th][o] = CellOf(j, th, o)
    BY <1>13, <1>14, PlanIs
  <2>2. QED
    BY <1>18, <2>1
<1>20. PICK i \in 1 .. StoreCount(j) : (i - 1) \div j.WPTN = v /\ (i - 1) % j.WPTN = w
  BY PlanStores
<1>21. PICK s : Does(p, s, "store") /\ p.code[s].output = <<(i - 1) \div j.WPTN, (i - 1) % j.WPTN>>
  BY PlanCode
<1>22. p.code[s].output = o /\ s \in DOMAIN p.code
  BY <1>20, <1>21 DEF Does, o
<1>23. QED
  BY <1>1, <1>13, <1>19, <1>21, <1>22

-----------------------------------------------------------------------------

(* The plan of each of the thirteen programs, for matrices, tiles and      *)
(* blocks of every size its macros may have, is sound: its barriers part   *)
(* what must be apart, every element that a thread multiplies is loaded,   *)
(* and every element shown is stored with the whole dot product.           *)
THEOREM ProgramsSound ==
  ASSUME NEW j, Admissible(j), Program(j)
  PROVE  SoundPlan(PlanOf(j))
<1> DEFINE p == PlanOf(j)
<1>1. p.host = j.host.code /\ p.product = [c \in Cells(j) |-> DotProduct(j, c)]
  BY PlanIs
<1>2. p.shown \subseteq Cells(j)
  BY PlanIs DEF ShownCells
<1> HIDE DEF p
<1>3. p = PlanOf(j)
  BY DEF p
<1>4. p.host \in Hosts
  <2>1. j.host.code \in Hosts
    BY ONLY Program(j), GemmHosts DEF Program, Runs
  <2>2. QED
    BY <1>1, <2>1
<1>5. SoundCode(p)
  BY <1>3, PlanCode
<1>6. SoundLoads(p, p.loadsA, p.tileA) /\ SoundLoads(p, p.loadsB, p.tileB)
  BY <1>3, PlanSoundLoads
<1>7. SoundReads(p)
  BY <1>3, PlanSoundReads
<1>8. ASSUME NEW c \in DOMAIN p.product PROVE p.product[c] # Unwritten
  <2>1. c \in Cells(j) /\ p.product[c] = DotProduct(j, c)
    BY <1>1
  <2>2. 0 \in 0 .. j.depth - 1
    BY GemmSizes
  <2>3. <<0, A(j, c[1], 0), B(j, 0, c[2])>> \in p.product[c]
    BY <2>1, <2>2 DEF DotProduct
  <2>4. \A q \in Unwritten : q[1] = -1
    BY DEF Unwritten
  <2>5. QED
    BY <2>3, <2>4
<1>9. p.shown \subseteq DOMAIN p.product
  BY <1>1, <1>2
<1>10. \A th \in p.threads : \A n \in DOMAIN p.code :
         Does(p, n, "store") /\ p.cell[th][p.code[n].output] \in DOMAIN p.product =>
           SumUpTo(p, th, p.code[n].output, n) = p.product[p.cell[th][p.code[n].output]]
  BY <1>3, PlanSums
<1>11. \A c \in p.shown : \E th \in p.threads : \E n \in DOMAIN p.code :
         Does(p, n, "store") /\ p.cell[th][p.code[n].output] = c
  BY <1>3, PlanShows
<1>12. SoundPlan(p)
  BY <1>4, <1>5, <1>6, <1>7, <1>8, <1>9, <1>10, <1>11 DEF SoundPlan
<1>13. QED
  BY <1>12 DEF p

(* The calls under study are calls of these programs. *)
ProgramCalls == \A i \in DOMAIN Plans : \E j : Admissible(j) /\ Program(j) /\ Plans[i] = PlanOf(j)

LEMMA ProgramPlansSound ==
  ASSUME ProgramCalls
  PROVE  PlansSound
  BY ProgramsSound DEF ProgramCalls, PlansSound

(* In every call of the thirteen programs, of any size: the variables keep *)
(* their types, no load is from past the end of a matrix, and no thread    *)
(* loads into a cell that another one still reads or loads differently.    *)
THEOREM MemoryIsSafe ==
  ASSUME ProgramCalls
  PROVE  Spec => []MemorySafe
  BY ProgramPlansSound, SoundPlansAreSafe

(* In every call of the thirteen programs, of any size that Program allows *)
(* (for the five that are given matrices of one number, those): every      *)
(* element of C that ShownCells names is written with the whole dot        *)
(* product of its row and column, and is not overwritten, and the host     *)
(* copies it after that.  For twelve programs these are all elements, for  *)
(* kernel7.cu those of the corner that main prints, which its grid covers. *)
THEOREM ComputesProduct ==
  ASSUME ProgramCalls
  PROVE  Spec => ImplementsMatMul
  BY ProgramPlansSound, SoundPlansAreRight
=============================================================================
